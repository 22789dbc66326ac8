---------------------------- MODULE UringWriter ----------------------------
(***************************************************************************)
(* file_writer on Linux: writer_engine (src/src/io/engine.hpp) over        *)
(* uring_writer (src/src/io/uring_backend.hpp), driven by one producer.    *)
(*                                                                         *)
(* The stream the producer writes has the number i as its unit i, so the   *)
(* file is right where file[i] = i.  Buffers are BufferSize units; lengths *)
(* that are not multiples of Align go through the synchronous path and     *)
(* close the stream.                                                       *)
(***************************************************************************)
EXTENDS Uring

CONSTANTS
  QD,          \* queue depth: number of buffers
  BufferSize,  \* units per buffer
  Align,       \* units per direct_align granule
  MaxUnits,    \* bound on the stream's length
  Preallocs,   \* the preallocate_bytes considered
  Resubmits    \* the producer may submit() a buffer again that an
               \* asynchronous submit() threw for

ASSUME QDAssumption == QD \in Nat /\ QD >= 2
ASSUME BufferAssumption ==
  BufferSize \in Nat \ {0} /\ Align \in Nat \ {0} /\ MaxUnits \in Nat
ASSUME ResubmitsAssumption == Resubmits \in BOOLEAN
ASSUME PreallocsAssumption == Preallocs \subseteq 0 .. MaxUnits

VARIABLES
  useUring,    \* uring_writer::use_uring_
  prealloc,    \* uring_writer::prealloc_
  pc,          \* where the producer is
  target,      \* the slot wait_slot() is on
  nextSlot,    \* next_slot_
  written,     \* offset_ and written_, which advance together
  tail,        \* tail_submitted_
  writes,      \* uring_writer::slots_
  pool,        \* the buffers: slot -> position -> unit of the stream
  owned,       \* the slot of the buffer the producer was handed, or None
  file,        \* the file's units
  fileLen,     \* the file's size
  finished,    \* finish() has returned and nothing was submitted since
  refused,     \* a submit() has thrown
  broken,      \* a write or a submission has failed
  abandoned    \* drain() gave up because io_uring_enter(wait) failed

engineVars == <<nextSlot, written, tail>>
diskVars == <<file, fileLen>>
vars == <<ringVars, useUring, prealloc, pc, target, engineVars, writes, pool,
          owned, diskVars, finished, refused, broken, abandoned>>

Slots == 0 .. QD - 1
Positions == 0 .. BufferSize - 1
Units == 0 .. MaxUnits - 1
None == -1
Hole == -1
States == {"idle", "acquire", "finish", "destroy", "drain", "freed"}

WantsAsync(n) == useUring /\ n % Align = 0

\* mutant: a continuation repeats the start of the buffer
WriteOpFromStart(s, off, len, at) ==
  [slot |-> s, at |-> 0, off |-> off + at, len |-> len - at]

\* The write of what slot s still has of a buffer of len units at off.
WriteOp(s, off, len, at) ==
  [slot |-> s, at |-> at, off |-> off + at, len |-> len - at]

Init ==
  /\ RingInit
  /\ useUring \in BOOLEAN
  /\ prealloc \in Preallocs
  /\ pc = "idle"
  /\ target = 0
  /\ nextSlot = 0
  /\ written = 0
  /\ tail = FALSE
  /\ writes = [s \in Slots |-> [off |-> 0, len |-> 0, done |-> 0, busy |-> FALSE]]
  /\ pool = [s \in Slots |-> [i \in Positions |-> Hole]]
  /\ owned = None
  /\ file = [u \in Units |-> Hole]
  /\ fileLen = prealloc
  /\ finished = FALSE
  /\ refused = FALSE
  /\ broken = FALSE
  /\ abandoned = FALSE

-----------------------------------------------------------------------------
(* acquire(): wait for the next slot in turn. *)

Acquire ==
  /\ pc = "idle"
  /\ pc' = "acquire"
  /\ target' = nextSlot
  /\ owned' = None
  /\ UNCHANGED <<ringVars, useUring, prealloc, engineVars, writes, pool, diskVars,
                 finished, refused, broken, abandoned>>

\* The buffer is handed out and the producer fills it.
AcquireReturns ==
  /\ pc = "acquire"
  /\ ~writes[target].busy
  /\ pc' = "idle"
  /\ owned' = target
  /\ pool' = [pool EXCEPT ![target] = [i \in Positions |-> written + i]]
  /\ UNCHANGED <<ringVars, useUring, prealloc, target, engineVars, writes, diskVars,
                 finished, refused, broken, abandoned>>

-----------------------------------------------------------------------------
(* submit() *)

\* An empty buffer is accepted; a submit after a partial one, or of more
\* than the buffer holds, is refused.  Nothing changes.
SubmitNothing ==
  /\ pc = "idle"
  /\ owned # None
  /\ UNCHANGED vars

Advance(n) ==
  /\ written' = written + n
  /\ nextSlot' = (owned + 1) % QD

\* mutant: the slot is not marked busy
StartWriteIdle(s, n) ==
  writes' = [writes EXCEPT ![s] = [off |-> written, len |-> n, done |-> 0,
                                   busy |-> FALSE]]

StartWrite(s, n) ==
  writes' = [writes EXCEPT ![s] = [off |-> written, len |-> n, done |-> 0,
                                   busy |-> TRUE]]

PutUnits(s, at, off, n) ==
  /\ file' = [u \in Units |->
                IF u \in off .. off + n - 1 THEN pool[s][at + (u - off)] ELSE file[u]]
  /\ fileLen' = IF fileLen < off + n THEN off + n ELSE fileLen

SubmitCall(n) ==
  /\ pc = "idle"
  /\ owned # None
  /\ n <= BufferSize
  /\ ~tail
  /\ written + n <= MaxUnits
  /\ tail' = (n % Align # 0)

SubmitAsync(n) ==
  /\ SubmitCall(n)
  /\ WantsAsync(n)
  /\ StartWrite(owned, n)
  /\ \/ /\ Submit(WriteOp(owned, written, n, 0), {})
        /\ Advance(n)
        /\ finished' = FALSE
        /\ owned' = None
        /\ UNCHANGED <<refused, broken>>
     \/ /\ SubmitFails(WriteOp(owned, written, n, 0), {})
        /\ refused' = TRUE
        /\ broken' = TRUE
        /\ owned' = IF Resubmits THEN owned ELSE None
        /\ UNCHANGED <<written, nextSlot, finished>>
  /\ UNCHANGED <<useUring, prealloc, pc, target, pool, diskVars, abandoned>>

\* write_sync: all of it, or an exception that leaves the offset alone.
SubmitSync(n) ==
  /\ SubmitCall(n)
  /\ ~WantsAsync(n)
  /\ \/ /\ PutUnits(owned, 0, written, n)
        /\ Advance(n)
        /\ finished' = FALSE
        /\ owned' = None
        /\ UNCHANGED <<refused, broken>>
     \/ /\ \E put \in 0 .. n - 1 :
             IF put = 0 THEN UNCHANGED diskVars ELSE PutUnits(owned, 0, written, put)
        /\ refused' = TRUE
        /\ broken' = TRUE
        /\ UNCHANGED <<written, nextSlot, finished, owned>>
  /\ UNCHANGED <<ringVars, useUring, prealloc, pc, target, writes, pool, abandoned>>

-----------------------------------------------------------------------------
(* wait_slot() and reap_one(), from acquire(), finish() or the destructor. *)

InWait == pc \in {"acquire", "finish", "destroy"} /\ writes[target].busy

\* An exception leaves acquire() and finish(); ~file_writer swallows it and
\* goes on to destroy the engine.
Throw == pc' = IF pc = "destroy" THEN "drain" ELSE "idle"

Done(c) == writes[c.op.slot].done + c.res

\* mutant: a short write counts as done
ReapOneTakesShort(c) ==
  /\ InWait
  /\ c \in cq /\ c.res > 0
  /\ writes' = [writes EXCEPT ![c.op.slot].done = Done(c), ![c.op.slot].busy = FALSE]
  /\ Reap(c)
  /\ UNCHANGED <<pc, broken, useUring, prealloc, target, engineVars, pool, owned,
                 diskVars, finished, refused, abandoned>>

\* mutant: the rest of a short write is never issued
ReapOneForgetsRest(c) ==
  /\ InWait
  /\ c \in cq /\ c.res > 0
  /\ writes' = [writes EXCEPT ![c.op.slot].done = Done(c),
                              ![c.op.slot].busy = Done(c) < writes[c.op.slot].len]
  /\ Reap(c)
  /\ UNCHANGED <<pc, broken, useUring, prealloc, target, engineVars, pool, owned,
                 diskVars, finished, refused, abandoned>>

ReapOne(c) ==
  /\ InWait
  /\ c \in cq /\ c.res > 0
  /\ LET s == c.op.slot
         rest == WriteOp(s, writes[s].off, writes[s].len, Done(c))
     IN \/ /\ Done(c) >= writes[s].len
           /\ writes' = [writes EXCEPT ![s].done = Done(c), ![s].busy = FALSE]
           /\ Reap(c)
           /\ UNCHANGED <<pc, broken>>
        \* a short write: the rest is issued at once, which may fail
        \/ /\ Done(c) < writes[s].len
           /\ writes' = [writes EXCEPT ![s].done = Done(c)]
           /\ \/ Submit(rest, {c}) /\ UNCHANGED <<pc, broken>>
              \/ SubmitFails(rest, {c}) /\ Throw /\ broken' = TRUE
  /\ UNCHANGED <<useUring, prealloc, target, engineVars, pool, owned, diskVars,
                 finished, refused, abandoned>>

\* The write failed: thrown, and its slot stays busy.
ReapOneThrows(c) ==
  /\ InWait
  /\ c \in cq /\ c.res <= 0
  /\ Reap(c)
  /\ Throw
  /\ broken' = TRUE
  /\ UNCHANGED <<useUring, prealloc, target, engineVars, writes, pool, owned,
                 diskVars, finished, refused, abandoned>>

WaitEnterFails ==
  /\ InWait
  /\ cq = {}
  /\ Throw
  /\ UNCHANGED <<ringVars, useUring, prealloc, target, engineVars, writes, pool,
                 owned, diskVars, finished, refused, broken, abandoned>>

-----------------------------------------------------------------------------
(* finish(), called by the producer or by ~file_writer *)

Finish(state) ==
  /\ pc = "idle"
  /\ pc' = state
  /\ target' = 0
  /\ owned' = None
  /\ UNCHANGED <<ringVars, useUring, prealloc, engineVars, writes, pool, diskVars,
                 finished, refused, broken, abandoned>>

FinishNextSlot ==
  /\ pc \in {"finish", "destroy"}
  /\ ~writes[target].busy
  /\ target < QD - 1
  /\ target' = target + 1
  /\ UNCHANGED <<ringVars, useUring, prealloc, pc, engineVars, writes, pool, owned,
                 diskVars, finished, refused, broken, abandoned>>

Truncate(n) ==
  /\ fileLen' = n
  /\ file' = [u \in Units |-> IF u < n THEN file[u] ELSE Hole]

\* mutant: the preallocation is never given back
FinishKeepsPrealloc ==
  /\ pc \in {"finish", "destroy"}
  /\ ~writes[target].busy
  /\ target = QD - 1
  /\ prealloc' = 0
  /\ finished' = TRUE
  /\ pc' = IF pc = "destroy" THEN "drain" ELSE "idle"
  /\ UNCHANGED <<ringVars, useUring, target, engineVars, writes, pool, owned,
                 diskVars, refused, broken, abandoned>>

\* Every slot is idle: trim the preallocation, which may fail.
FinishTrims ==
  /\ pc \in {"finish", "destroy"}
  /\ ~writes[target].busy
  /\ target = QD - 1
  /\ \/ /\ IF prealloc > written THEN Truncate(written) ELSE UNCHANGED diskVars
        /\ prealloc' = 0
        /\ finished' = TRUE
     \/ /\ prealloc > written
        /\ UNCHANGED <<diskVars, prealloc, finished>>
  /\ pc' = IF pc = "destroy" THEN "drain" ELSE "idle"
  /\ UNCHANGED <<ringVars, useUring, target, engineVars, writes, pool, owned,
                 refused, broken, abandoned>>

-----------------------------------------------------------------------------
(* ~uring_writer, then ~aligned_pool *)

Drain ==
  /\ pc = "drain"
  /\ DrainRound
  /\ UNCHANGED <<useUring, prealloc, pc, target, engineVars, writes, pool, owned,
                 diskVars, finished, refused, broken, abandoned>>

FreePool ==
  /\ pc = "drain"
  /\ outstanding = 0
  /\ pc' = "freed"
  /\ UNCHANGED <<ringVars, useUring, prealloc, target, engineVars, writes, pool,
                 owned, diskVars, finished, refused, broken, abandoned>>

\* io_uring_enter(wait) failed: drain() breaks out of its loop.
AbandonDrain ==
  /\ pc = "drain"
  /\ outstanding > 0 /\ cq = {}
  /\ pc' = "freed"
  /\ abandoned' = TRUE
  /\ UNCHANGED <<ringVars, useUring, prealloc, target, engineVars, writes, pool,
                 owned, diskVars, finished, refused, broken>>

-----------------------------------------------------------------------------
(* The kernel: takes what the buffer holds when the transfer happens. *)

KernelWrites(op, n) ==
  /\ Complete(op, n)
  /\ PutUnits(op.slot, op.at, op.off, n)
  /\ UNCHANGED <<useUring, prealloc, pc, target, engineVars, writes, pool, owned,
                 finished, refused, broken, abandoned>>

KernelFails(op) ==
  /\ \E res \in {-1, 0} : Complete(op, res)
  /\ UNCHANGED <<useUring, prealloc, pc, target, engineVars, writes, pool, owned,
                 diskVars, finished, refused, broken, abandoned>>

Kernel(op) == (\E n \in 1 .. op.len : KernelWrites(op, n)) \/ KernelFails(op)

-----------------------------------------------------------------------------
\* What the thread does inside a call when io_uring_enter behaves.
InCall ==
  \/ AcquireReturns
  \/ \E c \in cq : ReapOne(c) \/ ReapOneThrows(c)
  \/ FinishNextSlot \/ FinishTrims

Writer ==
  \/ Acquire \/ SubmitNothing
  \/ \E n \in 1 .. BufferSize : SubmitAsync(n) \/ SubmitSync(n)
  \/ Finish("finish") \/ Finish("destroy")
  \/ InCall \/ WaitEnterFails
  \/ Drain \/ FreePool \/ AbandonDrain

Next == Writer \/ \E op \in flight : Kernel(op)

Spec == Init /\ [][Next]_vars

(***************************************************************************)
(* The kernel finishes what it accepted and a thread inside a call runs;   *)
(* nothing obliges the producer to make a further call.                    *)
(***************************************************************************)
KernelServes(s) == \E op \in flight : op.slot = s /\ Kernel(op)
Fairness ==
  /\ \A s \in Slots : WF_vars(KernelServes(s))
  /\ WF_vars(InCall)
  /\ WF_vars(Drain \/ FreePool)

FairSpec == Spec /\ Fairness

-----------------------------------------------------------------------------
(* Properties *)

\* Every variable has its type.
TypeOK ==
  /\ useUring \in BOOLEAN /\ prealloc \in 0 .. MaxUnits
  /\ pc \in States /\ target \in Slots /\ nextSlot \in Slots
  /\ written \in 0 .. MaxUnits /\ tail \in BOOLEAN
  /\ writes \in [Slots -> [off : Nat, len : 0 .. BufferSize, done : 0 .. BufferSize,
                           busy : BOOLEAN]]
  /\ pool \in [Slots -> [Positions -> Nat \cup {Hole}]]
  /\ owned \in Slots \cup {None}
  /\ file \in [Units -> Nat \cup {Hole}] /\ fileLen \in 0 .. MaxUnits
  /\ {finished, refused, broken, abandoned} \subseteq BOOLEAN
  /\ outstanding \in Nat

(***************************************************************************)
(* Backpressure: the buffer the producer fills is never one the kernel may *)
(* still read from, also after failed writes and refused submissions.      *)
(* (acquire, wait_slot)                                                    *)
(***************************************************************************)
BufferExclusive ==
  /\ \A s \in BusySlots : writes[s].busy
  /\ owned # None => owned \notin BusySlots

Sink == INSTANCE ByteSink WITH
  Capacity <- BufferSize, Granule <- Align, Lengths <- Preallocs,
  accepted <- written, lent <- owned # None, closed <- tail,
  disk <- file, length <- fileLen

(***************************************************************************)
(* The writer keeps file_writer's promise: reordered, short, continued and *)
(* repeated transfers misplace nothing, no unit is lost again, and         *)
(* finish() returns, after whatever failed before, only when the file is   *)
(* exactly the bytes submit() accepted, the preallocation trimmed.         *)
(***************************************************************************)
ImplementsSink == Sink!SinkSpec

(***************************************************************************)
(* submit() "queues `bytes` from the buffer at the next sequential file    *)
(* offset" (file_writer.hpp): no unit ever lands elsewhere, whatever       *)
(* submit() threw for before and the producer submitted again.             *)
(***************************************************************************)
NothingMisplaced == \A u \in Units : file[u] \in {u, Hole}

(***************************************************************************)
(* The pool is freed only when the kernel no longer reads from it, unless  *)
(* drain() itself had to give up.                                          *)
(***************************************************************************)
PoolOutlivesWrites == pc = "freed" /\ ~abandoned => flight = {}

\* While no write failed, acquire(), finish() and the destructor return.
CallsReturn ==
  pc \in {"acquire", "finish", "destroy"} /\ ~broken ~> pc \in {"idle", "drain"}

(***************************************************************************)
(* finish() "may be called more than once; the destructor is the           *)
(* error-swallowing fallback for what finish() didn't get to"              *)
(* (backend.hpp): ~file_writer returns, whatever failed before.            *)
(***************************************************************************)
DestructorReturns == pc = "destroy" ~> pc = "freed"
=============================================================================
