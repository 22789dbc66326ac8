---------------------------- MODULE UringReader ----------------------------
(***************************************************************************)
(* file_reader on Linux: reader_engine (src/src/io/engine.hpp) over        *)
(* uring_reader (src/src/io/uring_backend.hpp), driven by one thread,      *)
(* against a kernel that completes reads in any order, partially, or with  *)
(* an error, and may refuse a submission.                                  *)
(*                                                                         *)
(* Files are measured in units; a window is WindowSize units and only      *)
(* lengths that are multiples of Align may be read asynchronously.         *)
(***************************************************************************)
EXTENDS Uring

CONSTANTS
  QD,          \* queue depth: number of window slots
  WindowSize,  \* units per window
  Align,       \* units per direct_align granule
  Sizes        \* the file sizes considered, in units

ASSUME QDAssumption == QD \in Nat /\ QD >= 2
ASSUME WindowAssumption == WindowSize \in Nat \ {0} /\ Align \in Nat \ {0}
ASSUME SizesAssumption == Sizes \subseteq Nat

VARIABLES
  size,         \* backend_.size()
  useUring,     \* uring_reader::use_uring_
  pc,           \* where the driving thread is
  target,       \* the slot next() waits for
  nextSubmit,   \* next_submit_
  nextDeliver,  \* next_deliver_
  latched,      \* submit_failed_ # nullptr
  slots,        \* reader_engine::slots_
  reads,        \* uring_reader::slots_
  pool,         \* the buffers: slot -> position -> unit of the file, or Junk
  got,          \* the windows the caller holds: [win, slot] records
  broken,       \* wait() threw: some read of this reader has failed
  abandoned     \* drain() gave up because io_uring_enter(wait) failed

engineVars == <<nextSubmit, nextDeliver, latched, slots, got>>
fileVars == <<size, useUring>>
vars == <<ringVars, fileVars, pc, target, engineVars, reads, pool, broken,
          abandoned>>

Slots == 0 .. QD - 1
Positions == 0 .. WindowSize - 1
Junk == -1
States == {"ctor", "idle", "wait", "drain", "freed"}

Lesser(a, b) == IF a < b THEN a ELSE b

-----------------------------------------------------------------------------
(* Sizes and offsets *)

NumWindows == (size + WindowSize - 1) \div WindowSize

\* window_len()
WindowLen(w) == Lesser(size - w * WindowSize, WindowSize)

WantsAsync(w) == useUring /\ WindowLen(w) % Align = 0

\* mutant: the continuation of a short read starts over in the file
ReadOpFromStart(s, w, at) ==
  [slot |-> s, at |-> at, off |-> w * WindowSize, len |-> WindowLen(w) - at]

\* The read of what slot s still misses of window w, from position at on.
ReadOp(s, w, at) ==
  [slot |-> s, at |-> at, off |-> w * WindowSize + at, len |-> WindowLen(w) - at]

-----------------------------------------------------------------------------
Init ==
  /\ RingInit
  /\ size \in Sizes
  /\ useUring \in BOOLEAN
  /\ pc = "ctor"
  /\ target = 0
  /\ nextSubmit = 0
  /\ nextDeliver = 0
  /\ latched = FALSE
  /\ slots = [s \in Slots |-> [win |-> 0, assigned |-> FALSE, started |-> FALSE,
                               held |-> FALSE]]
  /\ reads = [s \in Slots |-> [filled |-> 0, ready |-> FALSE]]
  /\ pool = [s \in Slots |-> [i \in Positions |-> Junk]]
  /\ got = {}
  /\ broken = FALSE
  /\ abandoned = FALSE

-----------------------------------------------------------------------------
(* assign(): the next window goes to slot s, and its read is issued unless *)
(* the backend declines it.                                                *)

AssignedSlot(w) ==
  [win |-> w, assigned |-> TRUE, started |-> WantsAsync(w), held |-> FALSE]

\* mutant: the slot keeps the "ready" of its previous window
StartedReadKeepsReady == [filled |-> 0, ready |-> nextSubmit >= QD]

\* start(): the backend's slot state is reset before the submission.
StartedRead == [filled |-> 0, ready |-> FALSE]

AssignOk(s) ==
  /\ nextSubmit' = nextSubmit + 1
  /\ slots' = [slots EXCEPT ![s] = AssignedSlot(nextSubmit)]
  /\ IF WantsAsync(nextSubmit)
     THEN /\ reads' = [reads EXCEPT ![s] = StartedRead]
          /\ Submit(ReadOp(s, nextSubmit, 0), {})
     ELSE UNCHANGED <<reads, ringVars>>

AssignThrows(s) ==
  /\ WantsAsync(nextSubmit)
  /\ nextSubmit' = nextSubmit + 1
  /\ slots' = [slots EXCEPT ![s] = AssignedSlot(nextSubmit)]
  /\ reads' = [reads EXCEPT ![s] = StartedRead]
  /\ SubmitFails(ReadOp(s, nextSubmit, 0), {})

\* The constructor fills the first min(qd, windows) slots in order...
ConstructAssign ==
  /\ pc = "ctor"
  /\ nextSubmit < Lesser(QD, NumWindows)
  /\ \/ AssignOk(nextSubmit) /\ UNCHANGED pc
     \* ...and a refused submission leaves it by exception: members unwind.
     \/ AssignThrows(nextSubmit) /\ pc' = "drain"
  /\ UNCHANGED <<fileVars, target, nextDeliver, latched, pool, got, broken,
                 abandoned>>

ConstructDone ==
  /\ pc = "ctor"
  /\ nextSubmit = Lesser(QD, NumWindows)
  /\ pc' = "idle"
  /\ UNCHANGED <<ringVars, fileVars, target, engineVars, reads, pool, broken,
                 abandoned>>

-----------------------------------------------------------------------------
(* next() *)

HasWant(s) == slots[s].assigned /\ slots[s].win = nextDeliver

\* mutant: a window is counted twice
HandOutTwice(s) ==
  /\ slots' = [slots EXCEPT ![s].held = TRUE]
  /\ nextDeliver' = nextDeliver + 2
  /\ got' = got \cup {[win |-> nextDeliver, slot |-> s]}

\* st.held = true; next_deliver_++; the window goes to the caller.
HandOut(s) ==
  /\ slots' = [slots EXCEPT ![s].held = TRUE]
  /\ nextDeliver' = nextDeliver + 1
  /\ got' = got \cup {[win |-> nextDeliver, slot |-> s]}

\* It rethrows the latched failure, reports the end of the file, or finds
\* no slot holding the wanted window: nothing changes.
NextReturnsNothing ==
  /\ pc = "idle"
  /\ \/ latched
     \/ nextDeliver >= NumWindows
     \/ \A s \in Slots : ~HasWant(s)
  /\ UNCHANGED vars

CallNext ==
  /\ pc = "idle"
  /\ ~latched
  /\ nextDeliver < NumWindows

\* The window's read is in flight: enter backend_.wait(s).
NextWaits(s) ==
  /\ CallNext
  /\ HasWant(s) /\ slots[s].started
  /\ pc' = "wait"
  /\ target' = s
  /\ UNCHANGED <<ringVars, fileVars, engineVars, reads, pool, broken, abandoned>>

\* The backend declined the window: read_sync fills the buffer or throws,
\* and after a throw the call can be repeated.
NextReadsSync(s) ==
  /\ CallNext
  /\ HasWant(s) /\ ~slots[s].started
  /\ \/ /\ pool' = [pool EXCEPT ![s] = [i \in Positions |->
                      IF i < WindowLen(nextDeliver)
                      THEN nextDeliver * WindowSize + i ELSE @[i]]]
        /\ HandOut(s)
     \/ UNCHANGED <<pool, slots, nextDeliver, got>>
  /\ UNCHANGED <<ringVars, fileVars, pc, target, nextSubmit, latched, reads,
                 broken, abandoned>>

\* wait(): a completion that carries data, for the awaited slot or another.
Filled(c) == reads[c.op.slot].filled + c.res

\* mutant: the rest of a short read is never requested
WaitForgetsRest(c) ==
  /\ pc = "wait"
  /\ ~reads[target].ready
  /\ c \in cq /\ c.res > 0
  /\ LET s == c.op.slot
     IN reads' = [reads EXCEPT ![s] =
                    [filled |-> Filled(c),
                     ready |-> Filled(c) >= WindowLen(slots[s].win)]]
  /\ Reap(c)
  /\ UNCHANGED <<pc, fileVars, target, engineVars, pool, broken, abandoned>>

\* mutant: completions of slots other than the awaited one are dropped
WaitDropsOthers(c) ==
  /\ pc = "wait"
  /\ ~reads[target].ready
  /\ c \in cq /\ c.res > 0
  /\ Reap(c)
  /\ reads' = IF c.op.slot = target
              THEN [reads EXCEPT ![target] = [filled |-> Filled(c), ready |-> TRUE]]
              ELSE reads
  /\ UNCHANGED <<pc, fileVars, target, engineVars, pool, broken, abandoned>>

WaitAbsorbs(c) ==
  /\ pc = "wait"
  /\ ~reads[target].ready
  /\ c \in cq /\ c.res > 0
  /\ LET s == c.op.slot
         len == WindowLen(slots[s].win)
         rest == ReadOp(s, slots[s].win, Filled(c))
     IN \/ /\ Filled(c) >= len
           /\ reads' = [reads EXCEPT ![s] = [filled |-> Filled(c), ready |-> TRUE]]
           /\ Reap(c)
           /\ UNCHANGED <<pc, broken>>
        \* a short read: the rest is requested at once, which may fail
        \/ /\ Filled(c) < len
           /\ reads' = [reads EXCEPT ![s].filled = Filled(c)]
           /\ \/ Submit(rest, {c}) /\ UNCHANGED <<pc, broken>>
              \/ SubmitFails(rest, {c}) /\ pc' = "idle" /\ broken' = TRUE
  /\ UNCHANGED <<fileVars, target, engineVars, pool, abandoned>>

\* wait(): any slot's failed read, or end of file, is thrown from next().
WaitThrows(c) ==
  /\ pc = "wait"
  /\ ~reads[target].ready
  /\ c \in cq /\ c.res <= 0
  /\ Reap(c)
  /\ pc' = "idle"
  /\ broken' = TRUE
  /\ UNCHANGED <<fileVars, target, engineVars, reads, pool, abandoned>>

\* io_uring_enter(wait) itself fails: thrown, with nothing consumed.
WaitEnterFails ==
  /\ pc = "wait"
  /\ ~reads[target].ready
  /\ cq = {}
  /\ pc' = "idle"
  /\ UNCHANGED <<ringVars, fileVars, target, engineVars, reads, pool, broken,
                 abandoned>>

NextDelivers ==
  /\ pc = "wait"
  /\ reads[target].ready
  /\ HandOut(target)
  /\ pc' = "idle"
  /\ UNCHANGED <<ringVars, fileVars, target, nextSubmit, latched, reads, pool,
                 broken, abandoned>>

-----------------------------------------------------------------------------
(* release(): the slot is recycled at once for the next unread window; a   *)
(* failure is latched for next() because release() cannot throw.           *)

Vacated(s) == [slots EXCEPT ![s].assigned = FALSE, ![s].held = FALSE]

\* mutant: release() only marks the slot free
ReleaseLazily(s) ==
  /\ slots' = Vacated(s)
  /\ UNCHANGED <<latched, nextSubmit, reads, ringVars>>

ReleaseSlot(s) ==
  \/ /\ nextSubmit < NumWindows /\ ~latched
     /\ AssignOk(s)
     /\ UNCHANGED latched
  \/ /\ nextSubmit < NumWindows /\ ~latched
     /\ AssignThrows(s)
     /\ latched' = TRUE
  \/ /\ ~(nextSubmit < NumWindows /\ ~latched)
     /\ slots' = Vacated(s)
     /\ UNCHANGED <<latched, nextSubmit, reads, ringVars>>

Release(g) ==
  /\ pc = "idle"
  /\ g \in got
  /\ slots[g.slot].held
  /\ ReleaseSlot(g.slot)
  /\ got' = got \ {g}
  /\ UNCHANGED <<fileVars, pc, target, nextDeliver, pool, broken, abandoned>>

\* A slot that is not out (a second release, or a window of another reader,
\* whose slot index may be QD or more) is latched.
ReleaseNotHeld(s) ==
  /\ pc = "idle"
  /\ s \in Slots => ~slots[s].held
  /\ latched' = TRUE
  /\ UNCHANGED <<ringVars, fileVars, pc, target, nextSubmit, nextDeliver, slots,
                 reads, pool, got, broken, abandoned>>

-----------------------------------------------------------------------------
(* ~uring_reader, then ~aligned_pool *)

Destroy ==
  /\ pc = "idle"
  /\ pc' = "drain"
  /\ got' = {}
  /\ UNCHANGED <<ringVars, fileVars, target, nextSubmit, nextDeliver, latched,
                 slots, reads, pool, broken, abandoned>>

Drain ==
  /\ pc = "drain"
  /\ DrainRound
  /\ UNCHANGED <<fileVars, pc, target, engineVars, reads, pool, broken, abandoned>>

FreePool ==
  /\ pc = "drain"
  /\ outstanding = 0
  /\ pc' = "freed"
  /\ UNCHANGED <<ringVars, fileVars, target, engineVars, reads, pool, broken,
                 abandoned>>

\* io_uring_enter(wait) failed: drain() breaks out of its loop.
AbandonDrain ==
  /\ pc = "drain"
  /\ outstanding > 0 /\ cq = {}
  /\ pc' = "freed"
  /\ abandoned' = TRUE
  /\ UNCHANGED <<ringVars, fileVars, target, engineVars, reads, pool, broken>>

-----------------------------------------------------------------------------
(* The kernel: reads what the request names, in full or in part, or fails. *)

KernelReads(op, n) ==
  /\ Complete(op, n)
  /\ pool' = [pool EXCEPT ![op.slot] = [i \in Positions |->
                IF i \in op.at .. op.at + n - 1 THEN op.off + (i - op.at) ELSE @[i]]]
  /\ UNCHANGED <<fileVars, pc, target, engineVars, reads, broken, abandoned>>

\* An errno, or 0 because the file was truncated behind the reader.
KernelFails(op) ==
  /\ \E res \in {-1, 0} : Complete(op, res)
  /\ UNCHANGED <<fileVars, pc, target, engineVars, reads, pool, broken, abandoned>>

Kernel(op) == (\E n \in 1 .. op.len : KernelReads(op, n)) \/ KernelFails(op)

-----------------------------------------------------------------------------
\* What the thread does in wait() when io_uring_enter behaves.
Wait ==
  \/ \E c \in cq : WaitAbsorbs(c) \/ WaitThrows(c)
  \/ NextDelivers

Reader ==
  \/ ConstructAssign \/ ConstructDone
  \/ NextReturnsNothing
  \/ \E s \in Slots : NextWaits(s) \/ NextReadsSync(s)
  \/ Wait \/ WaitEnterFails
  \/ \E g \in got : Release(g)
  \/ \E s \in 0 .. QD : ReleaseNotHeld(s)
  \/ Destroy \/ Drain \/ FreePool \/ AbandonDrain

Next == Reader \/ \E op \in flight : Kernel(op)

Spec == Init /\ [][Next]_vars

(***************************************************************************)
(* The kernel finishes what it accepted, and a thread inside wait() or     *)
(* drain() runs.  Nothing obliges the caller to make a further call.       *)
(***************************************************************************)
KernelServes(s) == \E op \in flight : op.slot = s /\ Kernel(op)
Fairness ==
  /\ \A s \in Slots : WF_vars(KernelServes(s))
  /\ WF_vars(Wait)
  /\ WF_vars(Drain \/ FreePool)

FairSpec == Spec /\ Fairness

-----------------------------------------------------------------------------
(* Properties *)

\* Every variable has its type, and the engine's cursors stay in order.
TypeOK ==
  /\ size \in Sizes /\ useUring \in BOOLEAN
  /\ pc \in States /\ target \in Slots
  /\ nextDeliver \in Nat /\ nextSubmit \in Nat
  /\ nextDeliver <= nextSubmit /\ nextSubmit <= NumWindows
  /\ slots \in [Slots -> [win : Nat, assigned : BOOLEAN, started : BOOLEAN,
                          held : BOOLEAN]]
  /\ reads \in [Slots -> [filled : 0 .. WindowSize, ready : BOOLEAN]]
  /\ pool \in [Slots -> [Positions -> Nat \cup {Junk}]]
  /\ got \subseteq [win : Nat, slot : Slots]
  /\ {latched, broken, abandoned} \subseteq BOOLEAN
  /\ outstanding \in Nat

(***************************************************************************)
(* The ring's bookkeeping is exact whatever fails: a refused submission,   *)
(* the stale entry it leaves, a partial acceptance, a short read.          *)
(* (submit_rw, wait_one, drain)                                            *)
(***************************************************************************)
RingSound == OutstandingExact /\ OneRequestPerSlot

(***************************************************************************)
(* While the caller holds a window no request for its buffer exists at any *)
(* stage, so no transfer can land in it: "The data stays valid until       *)
(* release() of this window" (file_reader.hpp), across recycling of the    *)
(* other slots, short reads and repeated calls after a failure.            *)
(***************************************************************************)
BufferExclusive ==
  \A g \in got : g.slot \notin BusySlots /\ slots[g.slot].win = g.win

(***************************************************************************)
(* The pool is freed only when the kernel can no longer write into it (the *)
(* teardown contract of engine.hpp and backend.hpp), after any history of  *)
(* failures, unless drain() itself had to give up.                         *)
(***************************************************************************)
PoolOutlivesReads == pc = "freed" /\ ~abandoned => flight = {}

(***************************************************************************)
(* "release() reassigns eagerly, so `want` has a slot unless the caller    *)
(* holds every one of them" (engine.hpp, next()): the EINVAL of next()     *)
(* really means that every slot is held.                                   *)
(***************************************************************************)
WantHasSlot ==
  pc = "idle" /\ ~latched /\ nextDeliver < NumWindows
    => (\E s \in Slots : HasWant(s)) \/ (\A s \in Slots : slots[s].held)

(***************************************************************************)
(* next() never blocks on a read nobody will complete: unless an earlier   *)
(* read failed, the awaited slot's request is with the kernel or its       *)
(* completion is there to be reaped.                                       *)
(***************************************************************************)
AwaitedReadPending ==
  pc = "wait" /\ ~broken /\ ~reads[target].ready
    => target \in SlotsOf(flight) \cup SlotsOf(Completed)

\* Every call of next() on an unbroken reader returns.
NextReturns == pc = "wait" /\ ~broken ~> pc # "wait"

\* The destructor returns whatever state the calls left behind.
DrainEnds == pc = "drain" ~> pc = "freed"

(***************************************************************************)
(* The reader is a WindowStream: windows in file order with the file's     *)
(* bytes, unchanged while held, at most QD out.                            *)
(***************************************************************************)
HeldWindow(w) == CHOOSE g \in got : g.win = w
HeldBytes(w) == [i \in 0 .. WindowLen(w) - 1 |-> pool[HeldWindow(w).slot][i]]

Windows == {g.win : g \in got}
View == [w \in Windows |-> HeldBytes(w)]
Open == pc \notin {"drain", "freed"}

Stream == INSTANCE WindowStream WITH
  delivered <- nextDeliver, view <- View, open <- Open

ImplementsStream == Stream!StreamSpec
=============================================================================
