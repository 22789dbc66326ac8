------------------------- MODULE UringReaderProofs -------------------------
(***************************************************************************)
(* The reader's invariants, for every queue depth, window size, alignment  *)
(* and file size, and its refinement of WindowStream: what arrives in the  *)
(* buffers, in whatever order and pieces, is what the caller is handed in  *)
(* file order.                                                             *)
(***************************************************************************)
EXTENDS UringReader, UringProofs

\* A request asks for exactly what its slot's window still misses, and the
\* slot it names is assigned, not yet complete and not with the caller.
OpMatches(op) ==
  /\ op.slot \in Slots
  /\ slots[op.slot].assigned
  /\ slots[op.slot].started
  /\ ~slots[op.slot].held
  /\ ~reads[op.slot].ready
  /\ op = ReadOp(op.slot, slots[op.slot].win, reads[op.slot].filled)
  /\ op.len > 0

Requests ==
  /\ \A op \in PendingOps : OpMatches(op)
  /\ \A c \in cq : c.res \in Int /\ c.res <= c.op.len

\* The windows from nextDeliver to nextSubmit are spread over the slots, one
\* each, and a slot holds an older window only while the caller has it.
Cursors ==
  /\ \A s \in Slots : slots[s].assigned => slots[s].win < nextSubmit
  /\ \A s \in Slots : slots[s].held => slots[s].assigned /\ slots[s].win < nextDeliver
  /\ \A s \in Slots : slots[s].assigned /\ ~slots[s].held => nextDeliver <= slots[s].win
  /\ \A s, t \in Slots :
       slots[s].assigned /\ slots[t].assigned /\ slots[s].win = slots[t].win => s = t
  /\ \A w \in nextDeliver .. nextSubmit - 1 :
       \E s \in Slots : slots[s].assigned /\ slots[s].win = w

\* A slot is idle only when there is no window left to read.
Eager ==
  /\ pc = "ctor" =>
       /\ nextDeliver = 0
       /\ \A s \in Slots : slots[s].assigned <=> s < nextSubmit
  /\ pc \in {"idle", "wait"} /\ ~latched =>
       nextSubmit = NumWindows \/ \A s \in Slots : slots[s].assigned

\* What the caller holds is held; next() waits for the window it wants.
Calls ==
  /\ \A g \in got : slots[g.slot].held /\ slots[g.slot].win = g.win
  /\ pc = "wait" =>
       /\ ~latched
       /\ HasWant(target) /\ slots[target].started /\ ~slots[target].held

\* Until something fails, nothing stale is published and every slot whose
\* read is not complete has a request with the kernel.
Live ==
  pc \in {"ctor", "idle", "wait"} /\ ~latched /\ ~broken =>
    /\ sq = {}
    /\ \A s \in Slots :
         slots[s].assigned /\ slots[s].started /\ ~slots[s].held /\ ~reads[s].ready
           => \E op \in PendingOps : op.slot = s

Quiet == pc = "freed" /\ ~abandoned => flight = {}

IInv ==
  /\ TypeOK
  /\ RingInv
  /\ Requests
  /\ Cursors
  /\ Eager
  /\ Calls
  /\ Live
  /\ Quiet

-----------------------------------------------------------------------------
(* Arithmetic of windows *)

\* Every counted window starts inside the file.
LEMMA WindowCount ==
  ASSUME NEW a \in Nat, NEW W \in Nat \ {0}
  PROVE  /\ (a + W - 1) \div W \in Nat
         /\ \A w \in Nat : w < (a + W - 1) \div W => w * W < a
<1> DEFINE n == (a + W - 1) \div W
<1>1. n \in Int /\ n * W <= a + W - 1 /\ a + W - 1 < n * W + W
  OBVIOUS
<1>2. n >= 0
  <2>1. ASSUME n < 0 PROVE FALSE
    <3>1. n + 1 <= 0
      BY <1>1, <2>1
    <3>2. (n + 1) * W <= 0
      BY <1>1, <3>1
    <3>3. (n + 1) * W = n * W + W
      BY <1>1
    <3> QED
      BY <1>1, <3>2, <3>3
  <2> QED
    BY <1>1, <2>1
<1>3. ASSUME NEW w \in Nat, w < n PROVE w * W < a
  <2>1. w + 1 <= n
    BY <1>1, <1>3
  <2>2. (w + 1) * W <= n * W
    BY <1>1, <2>1
  <2>3. (w + 1) * W = w * W + W /\ w * W \in Int /\ n * W \in Int
    BY <1>1
  <2> QED
    BY <1>1, <2>2, <2>3
<1> QED
  BY <1>1, <1>2, <1>3

\* A window is one unit long at least, inside the file, and ends in its buffer.
LEMMA WindowFacts ==
  ASSUME size \in Sizes
  PROVE  /\ NumWindows \in Nat
         /\ \A w \in Nat : /\ WindowLen(w) \in Int /\ WindowLen(w) <= WindowSize
                           /\ w < NumWindows => WindowLen(w) > 0
<1>1. size \in Nat /\ WindowSize \in Nat \ {0}
  BY SizesAssumption, WindowAssumption
<1>2. /\ NumWindows \in Nat
      /\ \A w \in Nat : w < NumWindows => w * WindowSize < size
  BY <1>1, WindowCount DEF NumWindows
<1>3. \A w \in Nat : w * WindowSize \in Nat
  BY <1>1
<1> QED
  BY <1>1, <1>2, <1>3 DEF WindowLen, Lesser

-----------------------------------------------------------------------------
(* What stays true when an action leaves the state alone *)

\* The number of windows and their lengths depend on the file alone.
LEMMA SizesUnchanged ==
  ASSUME size' = size
  PROVE  NumWindows' = NumWindows /\ \A w : WindowLen(w)' = WindowLen(w)
BY DEF NumWindows, WindowLen

\* A request still matches its slot if the slot did not move.
LEMMA OpStable ==
  ASSUME NEW op, OpMatches(op), size' = size,
         slots'[op.slot] = slots[op.slot], reads'[op.slot] = reads[op.slot]
  PROVE  OpMatches(op)'
BY DEF OpMatches, ReadOp, WindowLen

\* Requests and cursors depend on nothing but the queues, slots and reads.
LEMMA EngineUnchanged ==
  ASSUME Requests, Cursors, size' = size, slots' = slots, reads' = reads,
         nextSubmit' = nextSubmit, nextDeliver' = nextDeliver,
         PendingOps' \subseteq PendingOps, cq' \subseteq cq
  PROVE  Requests' /\ Cursors'
<1>1. \A op \in PendingOps' : OpMatches(op)'
  BY OpStable DEF Requests
<1> QED
  BY <1>1 DEF Requests, Cursors

-----------------------------------------------------------------------------
(* assign() *)

SlotType == [win : Nat, assigned : BOOLEAN, started : BOOLEAN, held : BOOLEAN]
ReadType == [filled : 0 .. WindowSize, ready : BOOLEAN]

\* Assigning a slot that no request and no undelivered window uses.
AssignStep(s) ==
  /\ s \in Slots
  /\ slots[s].assigned => slots[s].held
  /\ nextSubmit < NumWindows
  /\ AssignOk(s) \/ AssignThrows(s)
  /\ size' = size /\ useUring' = useUring
  /\ nextDeliver' = nextDeliver

\* It keeps the types, and the slot becomes the next window's.
LEMMA AssignTypes ==
  ASSUME TypeOK, NEW s, AssignStep(s)
  PROVE  /\ nextSubmit' = nextSubmit + 1
         /\ slots' = [slots EXCEPT ![s] = AssignedSlot(nextSubmit)]
         /\ slots' \in [Slots -> SlotType]
         /\ reads' \in [Slots -> ReadType]
         /\ \A t \in Slots \ {s} : slots'[t] = slots[t] /\ reads'[t] = reads[t]
         /\ slots'[s] = AssignedSlot(nextSubmit)
         /\ WantsAsync(nextSubmit) => reads'[s] = StartedRead
<1>1. /\ nextSubmit' = nextSubmit + 1
      /\ slots' = [slots EXCEPT ![s] = AssignedSlot(nextSubmit)]
  BY DEF AssignStep, AssignOk, AssignThrows
<1>2. AssignedSlot(nextSubmit) \in SlotType
  BY DEF AssignedSlot, SlotType, TypeOK, WantsAsync
<1>3. StartedRead \in ReadType
  BY WindowAssumption DEF StartedRead, ReadType
<1>4. reads' = IF WantsAsync(nextSubmit) THEN [reads EXCEPT ![s] = StartedRead] ELSE reads
  BY DEF AssignStep, AssignOk, AssignThrows
<1>5. slots \in [Slots -> SlotType] /\ reads \in [Slots -> ReadType] /\ s \in Slots
  BY DEF TypeOK, SlotType, ReadType, AssignStep
<1> QED
  BY <1>1, <1>2, <1>3, <1>4, <1>5

\* The only new request is the window's own, on a slot that had none.
LEMMA AssignRing ==
  ASSUME TypeOK, RingInv, Requests, NEW s, AssignStep(s)
  PROVE  /\ RingInv'
         /\ PendingOps' = IF WantsAsync(nextSubmit)
                          THEN PendingOps \cup {ReadOp(s, nextSubmit, 0)} ELSE PendingOps
         /\ cq' = cq
         /\ sq = {} /\ AssignOk(s) => sq' = {}
         /\ \A op \in PendingOps : op.slot # s
<1> DEFINE new == ReadOp(s, nextSubmit, 0)
<1>1. \A op \in PendingOps : op.slot # s
  BY DEF Requests, OpMatches, AssignStep
<1>2. Remaining({}) = PendingOps
  BY DEF Remaining, PendingOps, Completed
<1>3. new.slot = s
  BY DEF ReadOp
<1>4. CASE WantsAsync(nextSubmit)
  <2>1. Submit(new, {}) \/ SubmitFails(new, {})
    BY <1>4 DEF AssignStep, AssignOk, AssignThrows
  <2>2. \A q \in Remaining({}) : q.slot # new.slot
    BY <1>1, <1>2, <1>3
  <2> HIDE DEF new
  <2>3. RingInv' /\ PendingOps' = Remaining({}) \cup {new} /\ cq' = cq \ {}
    <3>1. {} \in SUBSET cq
      OBVIOUS
    <3> QED
      BY <2>1, <2>2, <3>1, SubmitSound
  <2>4. sq = {} /\ AssignOk(s) => sq' = {}
    BY <1>4, SubmitAccepted DEF AssignOk
  <2>5. cq \ {} = cq
    OBVIOUS
  <2> QED
    BY <1>1, <1>2, <1>4, <2>3, <2>4, <2>5 DEF new
<1>5. CASE ~WantsAsync(nextSubmit)
  <2>1. UNCHANGED ringVars
    BY <1>5 DEF AssignStep, AssignOk, AssignThrows
  <2> QED
    BY <1>1, <1>5, <2>1, RingUnchanged DEF ringVars
<1> QED
  BY <1>4, <1>5

\* assign() of the next window to a vacant slot keeps the whole invariant but
\* for what its caller does to the control state.
LEMMA AssignSound ==
  ASSUME TypeOK, RingInv, Requests, Cursors, NEW s, AssignStep(s)
  PROVE  Requests' /\ Cursors'
<1>1. nextSubmit \in Nat /\ nextDeliver \in Nat /\ nextDeliver <= nextSubmit /\ s \in Slots
  BY DEF TypeOK, AssignStep
<1>2. /\ slots'[s].assigned /\ ~slots'[s].held
      /\ slots'[s].win = nextSubmit
      /\ slots'[s].started <=> WantsAsync(nextSubmit)
  BY AssignTypes DEF AssignedSlot
<1>3. \A t \in Slots \ {s} : slots'[t] = slots[t] /\ reads'[t] = reads[t]
  BY AssignTypes
<1>4. Requests'
  <2>1. ASSUME NEW op \in PendingOps PROVE OpMatches(op)'
    <3>1. OpMatches(op) /\ op.slot \in Slots /\ op.slot # s /\ size' = size
      BY AssignRing DEF Requests, OpMatches, AssignStep
    <3> QED
      BY <1>3, <3>1, OpStable
  <2>2. ASSUME WantsAsync(nextSubmit), NEW op, op = ReadOp(s, nextSubmit, 0)
        PROVE  OpMatches(op)'
    <3>1. reads'[s].filled = 0 /\ ~reads'[s].ready
      BY <2>2, AssignTypes DEF StartedRead
    <3>2. WindowLen(nextSubmit) \in Int /\ WindowLen(nextSubmit) > 0
      BY <1>1, WindowFacts DEF TypeOK, AssignStep
    <3>3. op.slot = s /\ op.len > 0
      BY <2>2, <3>2 DEF ReadOp
    <3>4. op = ReadOp(s, slots[s].win, reads[s].filled)'
      BY <1>2, <2>2, <3>1 DEF ReadOp, WindowLen, AssignStep
    <3> QED
      BY <1>1, <1>2, <2>2, <3>1, <3>3, <3>4 DEF OpMatches
  <2>3. \A c \in cq' : c.res \in Int /\ c.res <= c.op.len
    BY AssignRing DEF Requests
  <2>4. \A op \in PendingOps' :
          op \in PendingOps \/ (WantsAsync(nextSubmit) /\ op = ReadOp(s, nextSubmit, 0))
    BY AssignRing
  <2> QED
    BY <2>1, <2>2, <2>3, <2>4 DEF Requests
<1>5. Cursors'
  <2>1. nextSubmit' = nextSubmit + 1 /\ nextDeliver' = nextDeliver
    BY AssignTypes DEF AssignStep
  <2>2. \A t \in Slots : slots[t].win \in Nat
    BY DEF TypeOK
  <2>3. \A t \in Slots : slots'[t].assigned => slots'[t].win < nextSubmit'
    BY <1>1, <1>2, <1>3, <2>1, <2>2 DEF Cursors
  <2>4. \A t \in Slots : slots'[t].held => slots'[t].assigned /\ slots'[t].win < nextDeliver'
    BY <1>2, <1>3, <2>1 DEF Cursors
  <2>5. \A t \in Slots : slots'[t].assigned /\ ~slots'[t].held => nextDeliver' <= slots'[t].win
    BY <1>1, <1>2, <1>3, <2>1 DEF Cursors
  <2>6. \A t, u \in Slots :
          slots'[t].assigned /\ slots'[u].assigned /\ slots'[t].win = slots'[u].win => t = u
    BY <1>1, <1>2, <1>3, <2>2 DEF Cursors
  <2>7. ASSUME NEW w \in nextDeliver' .. nextSubmit' - 1
        PROVE  \E t \in Slots : slots'[t].assigned /\ slots'[t].win = w
    <3>1. CASE w = nextSubmit
      BY <1>1, <1>2, <3>1
    <3>2. CASE w \in nextDeliver .. nextSubmit - 1
      <4>1. PICK t \in Slots : slots[t].assigned /\ slots[t].win = w
        BY <3>2 DEF Cursors
      <4>2. t # s
        BY <1>1, <3>2, <4>1 DEF Cursors, AssignStep
      <4> QED
        BY <1>3, <4>1, <4>2
    <3> QED
      BY <1>1, <2>1, <3>1, <3>2
  <2> QED
    BY <2>3, <2>4, <2>5, <2>6, <2>7 DEF Cursors
<1> QED
  BY <1>4, <1>5

\* A successful assignment keeps every unfinished slot's request pending.
LEMMA AssignLive ==
  ASSUME TypeOK, RingInv, Requests, Live, NEW s, AssignStep(s), AssignOk(s),
         pc \in {"ctor", "idle", "wait"}, latched' = latched, broken' = broken
  PROVE  Live'
<1> SUFFICES ASSUME ~latched, ~broken
             PROVE  /\ sq' = {}
                    /\ \A t \in Slots :
                         slots'[t].assigned /\ slots'[t].started /\ ~slots'[t].held
                           /\ ~reads'[t].ready => \E op \in PendingOps' : op.slot = t
  BY DEF Live
<1>1. sq' = {} /\ PendingOps \subseteq PendingOps'
  BY AssignRing DEF Live
<1>2. CASE WantsAsync(nextSubmit)
  <2>1. ReadOp(s, nextSubmit, 0) \in PendingOps' /\ ReadOp(s, nextSubmit, 0).slot = s
    BY <1>2, AssignRing DEF ReadOp
  <2> QED
    BY <1>1, <2>1, AssignTypes DEF Live
<1>3. CASE ~WantsAsync(nextSubmit)
  <2>1. ~slots'[s].started
    BY <1>3, AssignTypes DEF AssignedSlot
  <2> QED
    BY <1>1, <2>1, AssignTypes DEF Live
<1> QED
  BY <1>2, <1>3

-----------------------------------------------------------------------------
(* Delivery: the wanted window's slot goes to the caller. *)

\* Handing the wanted window out moves the cursor over exactly that window.
LEMMA HandOutSound ==
  ASSUME TypeOK, Requests, Cursors, Calls, NEW s \in Slots, HasWant(s), HandOut(s),
         \A op \in PendingOps : op.slot # s,
         size' = size, reads' = reads, nextSubmit' = nextSubmit,
         UNCHANGED ringVars
  PROVE  /\ Requests' /\ Cursors'
         /\ slots' \in [Slots -> SlotType]
         /\ nextDeliver' = nextDeliver + 1 /\ nextDeliver' <= nextSubmit
         /\ got' \subseteq [win : Nat, slot : Slots]
         /\ \A g \in got' : slots'[g.slot].held /\ slots'[g.slot].win = g.win
         /\ \A t \in Slots : slots[t].assigned => slots'[t].assigned
         /\ \A t \in Slots : ~slots'[t].held => slots'[t] = slots[t]
<1>1. /\ nextSubmit \in Nat /\ nextDeliver \in Nat /\ nextDeliver' = nextDeliver + 1
      /\ slots \in [Slots -> SlotType]
  BY DEF TypeOK, SlotType, HandOut
<1>2. slots' = [slots EXCEPT ![s].held = TRUE] /\ slots' \in [Slots -> SlotType]
  BY <1>1 DEF HandOut, SlotType
<1>3. /\ \A t \in Slots \ {s} : slots'[t] = slots[t]
      /\ slots'[s].held /\ slots'[s].assigned
      /\ slots'[s].win = nextDeliver /\ slots[s].win = nextDeliver
      /\ slots'[s].started = slots[s].started
      /\ slots'[s].assigned = slots[s].assigned
      /\ slots[s].assigned
  BY <1>1, <1>2 DEF HasWant, SlotType
<1>4. nextDeliver < nextSubmit
  BY <1>3 DEF Cursors
<1>5. Requests'
  <2>1. PendingOps' = PendingOps /\ cq' = cq
    BY RingUnchanged
  <2>2. ASSUME NEW op \in PendingOps PROVE OpMatches(op)'
    <3>1. OpMatches(op) /\ op.slot \in Slots /\ op.slot # s
      BY DEF Requests, OpMatches
    <3> QED
      BY <1>3, <3>1, OpStable
  <2> QED
    BY <2>1, <2>2 DEF Requests
<1>6. Cursors'
  <2>1. \A t \in Slots : slots[t].win \in Nat
    BY <1>1 DEF SlotType
  <2>2. \A t \in Slots : slots'[t].held => slots'[t].assigned /\ slots'[t].win < nextDeliver'
    BY <1>1, <1>3, <2>1 DEF Cursors
  <2>3. ASSUME NEW t \in Slots, slots'[t].assigned, ~slots'[t].held
        PROVE  nextDeliver' <= slots'[t].win
    <3>1. t # s /\ slots'[t] = slots[t]
      BY <1>3, <2>3
    <3>2. slots[t].win # nextDeliver /\ nextDeliver <= slots[t].win
      BY <1>3, <2>3, <3>1 DEF Cursors
    <3> QED
      BY <1>1, <2>1, <3>1, <3>2
  <2>4. \A t \in Slots : slots'[t].assigned = slots[t].assigned /\ slots'[t].win = slots[t].win
    BY <1>3
  <2>5. nextDeliver' .. nextSubmit - 1 \subseteq nextDeliver .. nextSubmit - 1
    BY <1>1
  <2> QED
    BY <2>2, <2>3, <2>4, <2>5 DEF Cursors
<1>7. \A g \in got' : slots'[g.slot].held /\ slots'[g.slot].win = g.win
  <2>1. ASSUME NEW g \in got PROVE slots'[g.slot].held /\ slots'[g.slot].win = g.win
    <3>1. g.slot \in Slots /\ slots[g.slot].held /\ slots[g.slot].win = g.win
      BY DEF Calls, TypeOK
    <3> QED
      BY <1>3, <3>1
  <2>2. got' = got \cup {[win |-> nextDeliver, slot |-> s]}
    BY DEF HandOut
  <2> QED
    BY <1>3, <2>1, <2>2
<1>8. got' \subseteq [win : Nat, slot : Slots]
  BY <1>1 DEF TypeOK, HandOut
<1> QED
  BY <1>1, <1>2, <1>3, <1>4, <1>5, <1>6, <1>7, <1>8

-----------------------------------------------------------------------------
(* The steps that move neither a request nor a slot *)

StillStep ==
  \/ ConstructDone \/ NextReturnsNothing \/ (\E s \in Slots : NextWaits(s))
  \/ WaitEnterFails \/ (\E s \in 0 .. QD : ReleaseNotHeld(s)) \/ Destroy
  \/ FreePool \/ AbandonDrain \/ UNCHANGED vars

\* Such steps preserve the invariant.
LEMMA StillSound == ASSUME IInv, StillStep PROVE IInv'
<1>1. /\ UNCHANGED ringVars /\ UNCHANGED fileVars
      /\ slots' = slots /\ reads' = reads /\ pool' = pool
      /\ nextSubmit' = nextSubmit /\ nextDeliver' = nextDeliver
      /\ got' \subseteq got
  BY DEF StillStep, ConstructDone, NextReturnsNothing, NextWaits, WaitEnterFails,
         ReleaseNotHeld, Destroy, FreePool, AbandonDrain, vars, engineVars
<1>2. size' = size /\ useUring' = useUring /\ NumWindows' = NumWindows
  BY <1>1, SizesUnchanged DEF fileVars
<1>3. RingInv' /\ PendingOps' = PendingOps /\ cq' = cq /\ sq' = sq /\ flight' = flight
  BY <1>1, RingUnchanged DEF IInv, ringVars
<1>4. Requests' /\ Cursors'
  BY <1>1, <1>2, <1>3, EngineUnchanged DEF IInv
<1>5. TypeOK'
  <2>1. pc' \in States /\ target' \in Slots
    BY DEF StillStep, ConstructDone, NextReturnsNothing, NextWaits, WaitEnterFails,
           ReleaseNotHeld, Destroy, FreePool, AbandonDrain, vars, States, IInv, TypeOK
  <2>2. /\ latched' \in BOOLEAN /\ broken' \in BOOLEAN
        /\ abandoned' \in BOOLEAN
    BY DEF StillStep, ConstructDone, NextReturnsNothing, NextWaits, WaitEnterFails,
           ReleaseNotHeld, Destroy, FreePool, AbandonDrain, vars, engineVars, IInv, TypeOK
  <2> QED
    BY <1>1, <1>2, <1>3, <2>1, <2>2, RingCount DEF IInv, TypeOK
<1>6. Eager'
  <2>1. pc' = "ctor" => pc = "ctor"
    BY DEF StillStep, ConstructDone, NextReturnsNothing, NextWaits, WaitEnterFails,
           ReleaseNotHeld, Destroy, FreePool, AbandonDrain, vars
  <2>2. CASE ConstructDone
    <3>1. pc' = "idle" /\ pc = "ctor" /\ nextSubmit = Lesser(QD, NumWindows)
      BY <2>2 DEF ConstructDone
    <3>2. nextSubmit = NumWindows \/ nextSubmit = QD
      BY <3>1 DEF Lesser
    <3>3. nextSubmit = NumWindows \/ \A s \in Slots : slots[s].assigned
      BY <3>1, <3>2, QDAssumption DEF IInv, Eager, Slots
    <3> QED
      BY <1>1, <1>2, <3>1, <3>3 DEF Eager
  <2>3. CASE ~ConstructDone
    <3>1. /\ pc' \in {"idle", "wait"} => pc \in {"idle", "wait"}
          /\ ~latched' => ~latched
      BY <2>3 DEF StillStep, ConstructDone, NextReturnsNothing, NextWaits, CallNext,
             WaitEnterFails, ReleaseNotHeld, Destroy, FreePool, AbandonDrain, vars, engineVars
    <3> QED
      BY <1>1, <1>2, <2>1, <3>1 DEF IInv, Eager
  <2> QED
    BY <2>2, <2>3
<1>7. Calls'
  <2>1. \A g \in got' : slots'[g.slot].held /\ slots'[g.slot].win = g.win
    BY <1>1 DEF IInv, Calls
  <2>2. CASE \E s \in Slots : NextWaits(s)
    <3>1. PICK s \in Slots : NextWaits(s)
      BY <2>2
    <3>2. target' = s /\ ~latched' /\ HasWant(s) /\ slots[s].started
      BY <3>1 DEF NextWaits, CallNext, engineVars
    <3>3. ~slots[s].held
      BY <3>2 DEF IInv, Cursors, HasWant, TypeOK
    <3> QED
      BY <1>1, <2>1, <3>2, <3>3 DEF Calls, HasWant
  <2>3. CASE ~\E s \in Slots : NextWaits(s)
    <3>1. pc' = "wait" => pc = "wait" /\ target' = target /\ latched' = latched
      BY <2>3 DEF StillStep, ConstructDone, NextReturnsNothing, WaitEnterFails,
             ReleaseNotHeld, Destroy, FreePool, AbandonDrain, vars, engineVars
    <3> QED
      BY <1>1, <2>1, <3>1 DEF IInv, Calls, HasWant
  <2> QED
    BY <2>2, <2>3
<1>8. Live'
  <2>1. /\ pc' \in {"ctor", "idle", "wait"} => pc \in {"ctor", "idle", "wait"}
        /\ ~latched' => ~latched
        /\ broken' = broken
    BY DEF StillStep, ConstructDone, NextReturnsNothing, NextWaits, CallNext,
           WaitEnterFails, ReleaseNotHeld, Destroy, FreePool, AbandonDrain, vars, engineVars
  <2> QED
    BY <1>1, <1>3, <2>1 DEF IInv, Live
<1>9. Quiet'
  <2>1. CASE FreePool
    BY <1>3, <2>1, DrainedIsQuiet DEF FreePool, IInv, Quiet
  <2>2. CASE ~FreePool
    <3>1. pc' = "freed" /\ ~abandoned' => pc = "freed" /\ ~abandoned
      BY <2>2 DEF StillStep, ConstructDone, NextReturnsNothing, NextWaits, CallNext,
             WaitEnterFails, ReleaseNotHeld, Destroy, AbandonDrain, vars
    <3> QED
      BY <1>3, <3>1 DEF IInv, Quiet
  <2> QED
    BY <2>1, <2>2
<1> QED
  BY <1>3, <1>4, <1>5, <1>6, <1>7, <1>8, <1>9 DEF IInv

-----------------------------------------------------------------------------
(* Steps that assign a slot, deliver one or vacate one *)

\* The constructor's assignments fill the slots in order.
LEMMA ConstructAssignSound == ASSUME IInv, ConstructAssign PROVE IInv'
<1> DEFINE s == nextSubmit
<1>1. /\ nextSubmit \in Nat /\ NumWindows \in Nat /\ s \in Slots
      /\ nextSubmit < NumWindows /\ nextSubmit < QD /\ pc = "ctor"
  BY QDAssumption, WindowFacts DEF IInv, TypeOK, ConstructAssign, Lesser, Slots
<1>2. /\ UNCHANGED <<target, nextDeliver, latched, pool, got, broken, abandoned>>
      /\ size' = size /\ useUring' = useUring
      /\ (AssignOk(s) /\ pc' = "ctor") \/ (AssignThrows(s) /\ pc' = "drain")
  BY DEF ConstructAssign, fileVars
<1>3. AssignStep(s)
  BY <1>1, <1>2 DEF AssignStep, IInv, Eager
<1>4. TypeOK /\ RingInv /\ Requests /\ Cursors
  BY DEF IInv
<1>5. RingInv' /\ Requests' /\ Cursors' /\ NumWindows' = NumWindows
  BY <1>2, <1>3, <1>4, AssignRing, AssignSound, SizesUnchanged
<1>6. TypeOK'
  <2>1. /\ nextSubmit' = nextSubmit + 1 /\ outstanding' \in Nat
        /\ slots' \in [Slots -> SlotType] /\ reads' \in [Slots -> ReadType]
    BY <1>3, <1>4, <1>5, AssignTypes, RingCount
  <2>2. pc' \in States
    BY <1>2 DEF States
  <2> QED
    BY <1>1, <1>2, <1>4, <1>5, <2>1, <2>2 DEF TypeOK, SlotType, ReadType
<1>7. Eager'
  <2>1. /\ nextSubmit' = nextSubmit + 1
        /\ \A t \in Slots \ {s} : slots'[t] = slots[t]
        /\ slots'[s].assigned
    BY <1>3, <1>4, AssignTypes DEF AssignedSlot
  <2>2. \A t \in Slots : slots'[t].assigned <=> t < nextSubmit'
    BY <1>1, <2>1 DEF IInv, Eager, Slots
  <2>3. nextDeliver' = 0
    BY <1>1, <1>2 DEF IInv, Eager
  <2> QED
    BY <1>2, <2>2, <2>3 DEF Eager
<1>8. Calls'
  <2>1. ASSUME NEW g \in got PROVE slots'[g.slot].held /\ slots'[g.slot].win = g.win
    <3>1. g.slot \in Slots /\ slots[g.slot].held /\ slots[g.slot].win = g.win
      BY DEF IInv, Calls, TypeOK
    <3>2. nextDeliver = 0 /\ slots[g.slot].win \in Nat /\ slots[g.slot].win < nextDeliver
      BY <1>1, <3>1 DEF IInv, Cursors, Eager, TypeOK
    <3> QED
      BY <3>2
  <2> QED
    BY <1>2, <2>1 DEF Calls
<1>9. Live'
  <2>1. CASE AssignThrows(s) /\ pc' = "drain"
    BY <2>1 DEF Live
  <2>2. CASE AssignOk(s) /\ pc' = "ctor"
    BY <1>1, <1>2, <1>3, <1>4, <2>2, AssignLive DEF IInv
  <2> QED
    BY <1>2, <2>1, <2>2
<1>10. Quiet'
  BY <1>2 DEF Quiet
<1> QED
  BY <1>5, <1>6, <1>7, <1>8, <1>9, <1>10 DEF IInv

\* Delivery, after a wait or after a synchronous read.
DeliverStep(s) ==
  /\ pc \in {"idle", "wait"} /\ pc' = "idle"
  /\ ~latched
  /\ HasWant(s)
  /\ HandOut(s)
  /\ UNCHANGED <<ringVars, fileVars, target, nextSubmit, latched, reads, broken,
                 abandoned>>

\* A next() that returns the window it wants, read complete, preserves the
\* invariant.
LEMMA DeliverSound ==
  ASSUME IInv, NEW s \in Slots, DeliverStep(s),
         \A op \in PendingOps : op.slot # s,
         pool' \in [Slots -> [Positions -> Nat \cup {Junk}]]
  PROVE  IInv'
<1>1. /\ UNCHANGED ringVars /\ size' = size /\ useUring' = useUring
      /\ reads' = reads /\ nextSubmit' = nextSubmit /\ HandOut(s) /\ HasWant(s)
      /\ pc \in {"idle", "wait"} /\ pc' = "idle"
      /\ ~latched /\ latched' = latched /\ broken' = broken
      /\ TypeOK /\ RingInv /\ Requests /\ Cursors /\ Calls /\ Eager /\ Live
  BY DEF DeliverStep, fileVars, IInv
<1>2. /\ Requests' /\ Cursors'
      /\ slots' \in [Slots -> SlotType]
      /\ nextDeliver' = nextDeliver + 1 /\ nextDeliver' <= nextSubmit
      /\ got' \subseteq [win : Nat, slot : Slots]
      /\ \A g \in got' : slots'[g.slot].held /\ slots'[g.slot].win = g.win
  BY <1>1, HandOutSound
<1>3. /\ \A t \in Slots : slots[t].assigned => slots'[t].assigned
      /\ \A t \in Slots : ~slots'[t].held => slots'[t] = slots[t]
  BY <1>1, HandOutSound
<1>4. RingInv' /\ PendingOps' = PendingOps /\ sq' = sq /\ NumWindows' = NumWindows
  BY <1>1, RingUnchanged, SizesUnchanged DEF ringVars
<1>5. TypeOK'
  BY <1>1, <1>2, <1>4, RingCount DEF TypeOK, DeliverStep, States, SlotType
<1>6. Eager'
  <2>1. nextSubmit = NumWindows \/ \A t \in Slots : slots[t].assigned
    BY <1>1 DEF Eager
  <2>2. nextSubmit' = NumWindows' \/ \A t \in Slots : slots'[t].assigned
    BY <1>1, <1>3, <1>4, <2>1
  <2> QED
    BY <1>1, <2>2 DEF Eager
<1>7. Calls'
  BY <1>2 DEF Calls, DeliverStep
<1>8. Live'
  BY <1>1, <1>3, <1>4 DEF Live
<1>9. Quiet'
  BY DEF Quiet, DeliverStep
<1> QED
  BY <1>2, <1>4, <1>5, <1>6, <1>7, <1>8, <1>9 DEF IInv

\* The same when the window is read synchronously at the wanted turn.
LEMMA NextReadsSyncSound == ASSUME IInv, NEW s \in Slots, NextReadsSync(s) PROVE IInv'
<1>1. CASE HandOut(s) /\ pool' = [pool EXCEPT ![s] = [i \in Positions |->
             IF i < WindowLen(nextDeliver) THEN nextDeliver * WindowSize + i ELSE @[i]]]
  <2>1. DeliverStep(s)
    BY <1>1 DEF NextReadsSync, CallNext, DeliverStep
  <2>2. \A op \in PendingOps : op.slot # s
    BY DEF NextReadsSync, IInv, Requests, OpMatches
  <2>3. pool' \in [Slots -> [Positions -> Nat \cup {Junk}]]
    <3>1. \A i \in Positions : nextDeliver * WindowSize + i \in Nat
      <4>1. nextDeliver \in Nat /\ nextDeliver * WindowSize \in Nat
        BY WindowAssumption DEF IInv, TypeOK
      <4> QED
        BY <4>1 DEF Positions
    <3> QED
      BY <1>1, <3>1 DEF IInv, TypeOK
  <2> QED
    BY <2>1, <2>2, <2>3, DeliverSound
<1>2. CASE UNCHANGED <<pool, slots, nextDeliver, got>>
  <2>1. UNCHANGED vars
    BY <1>2 DEF NextReadsSync, vars, engineVars
  <2> QED
    BY <2>1, StillSound DEF StillStep
<1> QED
  BY <1>1, <1>2 DEF NextReadsSync

\* The same after the wait.
LEMMA NextDeliversSound == ASSUME IInv, NextDelivers PROVE IInv'
<1>1. target \in Slots /\ pool' \in [Slots -> [Positions -> Nat \cup {Junk}]]
  BY DEF NextDelivers, IInv, TypeOK
<1>2. DeliverStep(target)
  BY DEF NextDelivers, DeliverStep, IInv, Calls
<1>3. \A op \in PendingOps : op.slot # target
  BY DEF NextDelivers, IInv, Requests, OpMatches
<1> QED
  BY <1>1, <1>2, <1>3, DeliverSound

\* release() frees the slot it names and reuses it at once when there is a
\* window left.
LEMMA ReleaseSound == ASSUME IInv, NEW g \in got, Release(g) PROVE IInv'
<1> DEFINE s == g.slot
<1>1. /\ s \in Slots /\ slots[s].held /\ g = [win |-> g.win, slot |-> g.slot]
      /\ nextSubmit \in Nat /\ NumWindows \in Nat /\ nextSubmit <= NumWindows
      /\ pc = "idle" /\ pc' = "idle" /\ got' = got \ {g}
      /\ size' = size /\ useUring' = useUring
      /\ UNCHANGED <<target, nextDeliver, pool, broken, abandoned>>
  BY WindowFacts DEF IInv, TypeOK, Release, fileVars
<1>2. TypeOK /\ RingInv /\ Requests /\ Cursors /\ Eager /\ Calls /\ Live /\ Quiet
  BY DEF IInv
<1>3. \A h \in got' : h.slot \in Slots /\ h.slot # s
  <2>1. \A h \in got : h.slot = s => h = g
    BY <1>1, <1>2 DEF Calls, TypeOK
  <2> QED
    BY <1>1, <1>2, <2>1 DEF TypeOK
<1>4. NumWindows' = NumWindows
  BY <1>1, SizesUnchanged
<1>5. CASE nextSubmit < NumWindows /\ ~latched
           /\ (AssignOk(s) \/ AssignThrows(s))
           /\ ((AssignOk(s) /\ latched' = latched) \/ latched' = TRUE)
  <2>1. AssignStep(s)
    BY <1>1, <1>5 DEF AssignStep
  <2>2. RingInv' /\ Requests' /\ Cursors'
    BY <1>2, <2>1, AssignRing, AssignSound
  <2>3. /\ nextSubmit' = nextSubmit + 1
        /\ slots' \in [Slots -> SlotType] /\ reads' \in [Slots -> ReadType]
        /\ \A t \in Slots \ {s} : slots'[t] = slots[t]
        /\ slots'[s].assigned
    BY <1>2, <2>1, AssignTypes DEF AssignedSlot
  <2>4. TypeOK'
    <3>1. latched' \in BOOLEAN
      BY <1>2, <1>5 DEF TypeOK
    <3>2. nextDeliver' <= nextSubmit' /\ nextSubmit' <= NumWindows' /\ nextSubmit' \in Nat
      BY <1>1, <1>2, <1>4, <1>5, <2>3 DEF TypeOK
    <3>3. outstanding' \in Nat
      BY <2>2, RingCount
    <3> QED
      BY <1>1, <1>2, <2>3, <3>1, <3>2, <3>3 DEF TypeOK, SlotType, ReadType
  <2>5. Eager'
    BY <1>1, <1>2, <1>4, <1>5, <2>3 DEF Eager
  <2>6. Calls'
    BY <1>1, <1>2, <1>3, <2>3 DEF Calls
  <2>7. Live'
    <3>1. CASE AssignOk(s) /\ latched' = latched
      BY <1>1, <1>2, <2>1, <3>1, AssignLive
    <3>2. CASE latched' = TRUE
      BY <3>2 DEF Live
    <3> QED
      BY <1>5, <3>1, <3>2
  <2>8. Quiet'
    BY <1>1 DEF Quiet
  <2> QED
    BY <2>2, <2>4, <2>5, <2>6, <2>7, <2>8 DEF IInv
<1>6. CASE /\ ~(nextSubmit < NumWindows /\ ~latched)
           /\ slots' = Vacated(s)
           /\ UNCHANGED <<latched, nextSubmit, reads, ringVars>>
  <2>1. /\ slots' \in [Slots -> SlotType]
        /\ \A t \in Slots \ {s} : slots'[t] = slots[t]
        /\ ~slots'[s].assigned /\ ~slots'[s].held
    <3> DEFINE unassigned == [slots EXCEPT ![s].assigned = FALSE]
    <3>1. /\ unassigned \in [Slots -> SlotType] /\ ~unassigned[s].assigned
          /\ \A t \in Slots \ {s} : unassigned[t] = slots[t]
      BY <1>1, <1>2 DEF TypeOK, SlotType
    <3>2. slots' = [unassigned EXCEPT ![s].held = FALSE]
      BY <1>6 DEF Vacated
    <3> HIDE DEF unassigned
    <3> QED
      BY <1>1, <3>1, <3>2 DEF SlotType
  <2>2. RingInv' /\ PendingOps' = PendingOps /\ cq' = cq /\ sq' = sq
    BY <1>2, <1>6, RingUnchanged DEF ringVars
  <2>3. Requests'
    <3>1. ASSUME NEW op \in PendingOps PROVE OpMatches(op)'
      <4>1. OpMatches(op) /\ op.slot \in Slots /\ op.slot # s
        BY <1>1, <1>2 DEF Requests, OpMatches
      <4> QED
        BY <1>1, <1>6, <2>1, <4>1, OpStable
    <3> QED
      BY <1>2, <2>2, <3>1 DEF Requests
  <2>4. Cursors'
    <3>1. ASSUME NEW w \in nextDeliver .. nextSubmit - 1
          PROVE  \E t \in Slots : slots'[t].assigned /\ slots'[t].win = w
      <4>1. PICK t \in Slots : slots[t].assigned /\ slots[t].win = w
        BY <1>2 DEF Cursors
      <4>2. t # s
        BY <1>1, <1>2, <4>1 DEF Cursors, TypeOK
      <4> QED
        BY <2>1, <4>1, <4>2
    <3> QED
      BY <1>1, <1>2, <1>6, <2>1, <3>1 DEF Cursors
  <2>5. TypeOK'
    BY <1>1, <1>2, <1>4, <1>6, <2>1, <2>2, RingCount DEF TypeOK, SlotType
  <2>6. Eager'
    BY <1>1, <1>4, <1>6 DEF Eager
  <2>7. Calls'
    BY <1>1, <1>2, <1>3, <2>1 DEF Calls
  <2>8. Live'
    BY <1>1, <1>2, <1>6, <2>1, <2>2 DEF Live
  <2>9. Quiet'
    BY <1>1 DEF Quiet
  <2> QED
    BY <2>2, <2>3, <2>4, <2>5, <2>6, <2>7, <2>8, <2>9 DEF IInv
<1> QED
  BY <1>5, <1>6 DEF Release, ReleaseSlot

-----------------------------------------------------------------------------
(* Completions *)

\* A reaped completion belongs to an unfinished slot and carries no more
\* than that slot misses.
LEMMA CompletionFacts ==
  ASSUME IInv, NEW c \in cq
  PROVE  /\ OpMatches(c.op) /\ c.op.slot \in Slots
         /\ reads[c.op.slot].filled \in Nat /\ slots[c.op.slot].win \in Nat
         /\ WindowLen(slots[c.op.slot].win) \in Int
         /\ WindowLen(slots[c.op.slot].win) <= WindowSize
         /\ c.res \in Int
         /\ Filled(c) <= WindowLen(slots[c.op.slot].win)
<1>1. c.op \in PendingOps
  BY DEF PendingOps, Completed
<1>2. OpMatches(c.op) /\ c.op.slot \in Slots /\ c.res \in Int /\ c.res <= c.op.len
  BY <1>1 DEF IInv, Requests, OpMatches
<1>3. reads[c.op.slot].filled \in Nat /\ slots[c.op.slot].win \in Nat
  BY <1>2 DEF IInv, TypeOK
<1>4. /\ WindowLen(slots[c.op.slot].win) \in Int
      /\ WindowLen(slots[c.op.slot].win) <= WindowSize
  BY <1>3, WindowFacts DEF IInv, TypeOK
<1>5. c.op.len = WindowLen(slots[c.op.slot].win) - reads[c.op.slot].filled
  BY <1>2 DEF OpMatches, ReadOp
<1> QED
  BY <1>2, <1>3, <1>4, <1>5 DEF Filled

\* A reaped completion, short or not, in or out of order, is absorbed by the
\* slot it names; a short one is resubmitted for the rest.
LEMMA WaitAbsorbsSound == ASSUME IInv, NEW c \in cq, WaitAbsorbs(c) PROVE IInv'
<1> DEFINE s == c.op.slot
           len == WindowLen(slots[s].win)
           rest == ReadOp(s, slots[s].win, Filled(c))
           done == [filled |-> Filled(c), ready |-> TRUE]
<1>1. /\ TypeOK /\ RingInv /\ Requests /\ Cursors /\ Eager /\ Calls /\ Live /\ Quiet
  BY DEF IInv
<1>2. /\ pc = "wait" /\ c.res > 0 /\ size' = size /\ useUring' = useUring
      /\ UNCHANGED <<target, pool, abandoned, nextSubmit, nextDeliver,
                     latched, slots, got>>
  BY DEF WaitAbsorbs, fileVars, engineVars
<1>3. /\ s \in Slots /\ slots[s].assigned /\ slots[s].started /\ ~slots[s].held
      /\ ~reads[s].ready
      /\ Filled(c) \in Nat /\ len \in Int /\ Filled(c) <= len /\ len <= WindowSize
  BY <1>2, CompletionFacts DEF OpMatches, Filled
<1>4. /\ \A q \in Remaining({c}) : q.slot # s
      /\ Remaining({c}) \subseteq PendingOps
      /\ PendingOps = Remaining({c}) \cup {c.op}
  BY <1>1, ReapFreesSlot
<1>5. NumWindows' = NumWindows
  BY <1>2, SizesUnchanged
<1>6. /\ \A t \in Slots \ {s} : reads'[t] = reads[t]
      /\ reads' \in [Slots -> ReadType]
      /\ reads'[s].filled = Filled(c)
      /\ reads'[s].ready <=> Filled(c) >= len
  <2>1. reads \in [Slots -> ReadType] /\ Filled(c) \in 0 .. WindowSize
    BY <1>1, <1>3, WindowAssumption DEF TypeOK, ReadType
  <2> HIDE DEF s, len
  <2>2. CASE Filled(c) >= len /\ reads' = [reads EXCEPT ![s] = done]
    BY <1>3, <2>1, <2>2 DEF ReadType
  <2>3. CASE Filled(c) < len /\ reads' = [reads EXCEPT ![s].filled = Filled(c)]
    <3>1. Filled(c) >= len <=> FALSE
      BY <1>3, <2>3
    <3>2. ~reads'[s].ready
      BY <1>3, <2>1, <2>3 DEF ReadType
    <3> QED
      BY <1>3, <2>1, <2>3, <3>1, <3>2 DEF ReadType
  <2> QED
    BY <2>2, <2>3 DEF WaitAbsorbs, s, len
<1>7. ASSUME NEW op \in Remaining({c}) PROVE OpMatches(op)'
  <2>1. OpMatches(op) /\ op.slot \in Slots /\ op.slot # s
    BY <1>1, <1>4 DEF Requests, OpMatches
  <2> QED
    BY <1>2, <1>6, <2>1, OpStable
<1>8. CASE Filled(c) >= len /\ Reap(c) /\ pc' = pc /\ broken' = broken
  <2>1. RingInv' /\ PendingOps' = Remaining({c}) /\ cq' = cq \ {c} /\ sq' = sq
    BY <1>1, <1>8, ReapSound DEF Reap
  <2>2. Requests'
    BY <1>1, <1>7, <2>1 DEF Requests
  <2>3. Cursors' /\ Eager' /\ Calls' /\ Quiet'
    BY <1>1, <1>2, <1>5, <1>8 DEF Cursors, Eager, Calls, Quiet, HasWant
  <2>4. TypeOK'
    BY <1>1, <1>2, <1>5, <1>6, <1>8, <2>1, RingCount DEF TypeOK, ReadType
  <2>5. Live'
    <3>1. reads'[s].ready
      BY <1>6, <1>8
    <3> QED
      BY <1>1, <1>2, <1>4, <1>6, <1>8, <2>1, <3>1 DEF Live
  <2> QED
    BY <2>1, <2>2, <2>3, <2>4, <2>5 DEF IInv
<1>9. CASE /\ Filled(c) < len
           /\ \/ Submit(rest, {c}) /\ pc' = pc /\ broken' = broken
              \/ SubmitFails(rest, {c}) /\ pc' = "idle" /\ broken' = TRUE
  <2>1. rest.slot = s /\ rest.len > 0
    BY <1>3, <1>9 DEF ReadOp
  <2>2. RingInv' /\ PendingOps' = Remaining({c}) \cup {rest} /\ cq' = cq \ {c}
    <3>1. {c} \in SUBSET cq /\ \A q \in Remaining({c}) : q.slot # rest.slot
      BY <1>4, <2>1
    <3>2. Submit(rest, {c}) \/ SubmitFails(rest, {c})
      BY <1>9
    <3> HIDE DEF rest
    <3> QED
      BY <1>1, <3>1, <3>2, SubmitSound
  <2>3. Requests'
    <3>1. ASSUME NEW op, op = rest PROVE OpMatches(op)'
      <4>1. op.slot = s /\ op.len > 0
        BY <2>1, <3>1
      <4>2. op = ReadOp(s, slots[s].win, reads[s].filled)'
        BY <1>2, <1>6, <3>1 DEF ReadOp, WindowLen
      <4> QED
        BY <1>2, <1>3, <1>6, <1>9, <4>1, <4>2 DEF OpMatches
    <3> QED
      BY <1>1, <1>7, <2>2, <3>1 DEF Requests
  <2>4. pc' \in {"wait", "idle"} /\ broken' \in BOOLEAN
    BY <1>1, <1>2, <1>9 DEF TypeOK
  <2>5. Cursors' /\ Eager' /\ Calls' /\ Quiet'
    BY <1>1, <1>2, <1>5, <2>4 DEF Cursors, Eager, Calls, Quiet, HasWant
  <2>6. TypeOK'
    BY <1>1, <1>2, <1>5, <1>6, <2>2, <2>4, RingCount DEF TypeOK, ReadType, States
  <2>7. Live'
    <3>1. CASE Submit(rest, {c}) /\ pc' = pc /\ broken' = broken
      <4>1. sq = {} => sq' = {}
        BY <3>1, SubmitAccepted
      <4>2. rest \in PendingOps' /\ Remaining({c}) \subseteq PendingOps'
        BY <2>2
      <4> HIDE DEF rest
      <4> QED
        BY <1>1, <1>2, <1>4, <1>6, <2>1, <3>1, <4>1, <4>2 DEF Live
    <3>2. CASE broken' = TRUE
      BY <3>2 DEF Live
    <3> QED
      BY <1>9, <3>1, <3>2
  <2> QED
    BY <2>2, <2>3, <2>5, <2>6, <2>7 DEF IInv
<1> QED
  BY <1>8, <1>9 DEF WaitAbsorbs

\* A failed read is thrown: nothing waits any more.
LEMMA WaitThrowsSound == ASSUME IInv, NEW c \in cq, WaitThrows(c) PROVE IInv'
<1>1. /\ TypeOK /\ RingInv /\ Requests /\ Cursors /\ Eager /\ Calls /\ Live /\ Quiet
  BY DEF IInv
<1>2. /\ pc = "wait" /\ pc' = "idle" /\ broken' = TRUE
      /\ size' = size /\ useUring' = useUring
      /\ UNCHANGED <<target, pool, abandoned, nextSubmit, nextDeliver,
                     latched, slots, got, reads>>
  BY DEF WaitThrows, fileVars, engineVars
<1>3. RingInv' /\ PendingOps' \subseteq PendingOps /\ cq' \subseteq cq
  BY <1>1, ReapSound, ReapFreesSlot DEF WaitThrows, Reap
<1>4. Requests' /\ Cursors' /\ NumWindows' = NumWindows
  BY <1>1, <1>2, <1>3, EngineUnchanged, SizesUnchanged
<1>5. Eager' /\ Calls' /\ Live' /\ Quiet'
  BY <1>1, <1>2, <1>4 DEF Eager, Calls, Live, Quiet
<1>6. TypeOK'
  BY <1>1, <1>2, <1>3, <1>4, RingCount DEF TypeOK, States
<1> QED
  BY <1>3, <1>4, <1>5, <1>6 DEF IInv

\* drain() keeps the invariant.
LEMMA DrainSoundReader == ASSUME IInv, Drain PROVE IInv'
<1>1. /\ TypeOK /\ RingInv /\ Requests /\ Cursors /\ Eager /\ Calls /\ Live /\ Quiet
  BY DEF IInv
<1>2. /\ pc = "drain" /\ pc' = "drain" /\ size' = size /\ useUring' = useUring
      /\ UNCHANGED <<target, pool, abandoned, nextSubmit, nextDeliver,
                     latched, slots, got, reads, broken>>
  BY DEF Drain, fileVars, engineVars
<1>3. RingInv' /\ PendingOps' \subseteq PendingOps /\ cq' \subseteq cq
  BY <1>1, DrainSound DEF Drain, DrainRound, PendingOps
<1>4. Requests' /\ Cursors' /\ NumWindows' = NumWindows
  BY <1>1, <1>2, <1>3, EngineUnchanged, SizesUnchanged
<1>5. Eager' /\ Calls' /\ Live' /\ Quiet'
  BY <1>1, <1>2, <1>4 DEF Eager, Calls, Live, Quiet
<1>6. TypeOK'
  BY <1>1, <1>2, <1>3, <1>4, RingCount DEF TypeOK
<1> QED
  BY <1>3, <1>4, <1>5, <1>6 DEF IInv

\* So does the kernel, whatever it completes and with what result.
LEMMA KernelSound == ASSUME IInv, NEW op \in flight, Kernel(op) PROVE IInv'
<1>1. /\ TypeOK /\ RingInv /\ Requests /\ Cursors /\ Eager /\ Calls /\ Live /\ Quiet
  BY DEF IInv
<1>2. /\ size' = size /\ useUring' = useUring
      /\ UNCHANGED <<pc, target, abandoned, nextSubmit, nextDeliver,
                     latched, slots, got, reads, broken>>
  BY DEF Kernel, KernelReads, KernelFails, fileVars, engineVars
<1>3. OpMatches(op) /\ op.slot \in Slots /\ op \in PendingOps
  BY <1>1 DEF Requests, PendingOps, OpMatches
<1>4. /\ op.at \in Nat /\ op.off \in Nat /\ op.len \in Int
  <2>1. slots[op.slot].win \in Nat /\ reads[op.slot].filled \in Nat
    BY <1>1, <1>3 DEF TypeOK
  <2>2. WindowLen(slots[op.slot].win) \in Int /\ slots[op.slot].win * WindowSize \in Nat
    BY <1>1, <2>1, WindowFacts, WindowAssumption DEF TypeOK
  <2> QED
    BY <1>3, <2>1, <2>2 DEF OpMatches, ReadOp
<1>5. PICK res \in Int : res <= op.len /\ Complete(op, res)
  <2>1. CASE \E n \in 1 .. op.len : KernelReads(op, n)
    BY <1>4, <2>1 DEF KernelReads
  <2>2. CASE KernelFails(op)
    BY <1>3, <1>4, <2>2 DEF KernelFails, OpMatches
  <2> QED
    BY <2>1, <2>2 DEF Kernel
<1>6. /\ RingInv' /\ PendingOps' = PendingOps
      /\ cq' = cq \cup {[op |-> op, res |-> res]} /\ flight' \subseteq flight /\ sq' = sq
  BY <1>1, <1>5, CompleteSound DEF Complete
<1>7. Requests'
  <2>1. \A p \in PendingOps' : OpMatches(p)'
    BY <1>1, <1>2, <1>6, OpStable DEF Requests
  <2>2. \A c \in cq' : c.res \in Int /\ c.res <= c.op.len
    BY <1>1, <1>5, <1>6 DEF Requests
  <2> QED
    BY <2>1, <2>2 DEF Requests
<1>8. pool' \in [Slots -> [Positions -> Nat \cup {Junk}]]
  <2>1. CASE \E n \in 1 .. op.len : KernelReads(op, n)
    <3>1. PICK n \in 1 .. op.len :
            pool' = [pool EXCEPT ![op.slot] = [i \in Positions |->
              IF i \in op.at .. op.at + n - 1 THEN op.off + (i - op.at) ELSE @[i]]]
      BY <2>1 DEF KernelReads
    <3>2. \A i \in op.at .. op.at + n - 1 : op.off + (i - op.at) \in Nat
      BY <1>4
    <3> QED
      BY <1>1, <1>3, <3>1, <3>2 DEF TypeOK
  <2>2. CASE KernelFails(op)
    BY <1>1, <2>2 DEF KernelFails, TypeOK
  <2> QED
    BY <2>1, <2>2 DEF Kernel
<1>9. TypeOK' /\ NumWindows' = NumWindows
  BY <1>1, <1>2, <1>6, <1>8, RingCount, SizesUnchanged DEF TypeOK
<1>10. Cursors' /\ Eager' /\ Calls' /\ Live' /\ Quiet'
  BY <1>1, <1>2, <1>6, <1>9 DEF Cursors, Eager, Calls, Live, Quiet, HasWant
<1> QED
  BY <1>6, <1>7, <1>9, <1>10 DEF IInv

-----------------------------------------------------------------------------
(* The invariant and what follows from it *)

\* The invariant holds when the constructor starts.
LEMMA InitSound == Init => IInv
<1> SUFFICES ASSUME Init PROVE IInv
  OBVIOUS
<1>1. RingInv /\ PendingOps = {} /\ cq = {} /\ sq = {} /\ flight = {} /\ outstanding = 0
  BY RingInitial DEF Init, RingInit
<1>2. TypeOK
  <2>1. NumWindows \in Nat
    BY WindowFacts DEF Init
  <2>2. 0 \in Slots
    BY QDAssumption DEF Slots
  <2>3. slots \in [Slots -> SlotType] /\ reads \in [Slots -> ReadType]
    BY WindowAssumption DEF Init, SlotType, ReadType
  <2>4. pool \in [Slots -> [Positions -> Nat \cup {Junk}]] /\ got \subseteq [win : Nat, slot : Slots]
    BY DEF Init
  <2>5. {latched, broken, abandoned} \subseteq BOOLEAN /\ useUring \in BOOLEAN
    BY DEF Init
  <2>6. nextDeliver \in Nat /\ nextSubmit \in Nat /\ nextDeliver <= nextSubmit
        /\ nextSubmit <= NumWindows /\ outstanding \in Nat
    BY <1>1, <2>1 DEF Init
  <2>7. size \in Sizes /\ pc \in States /\ target \in Slots
    BY <2>2 DEF Init, States
  <2> QED
    BY <2>3, <2>4, <2>5, <2>6, <2>7 DEF TypeOK, SlotType, ReadType
<1>3. Requests /\ Cursors /\ Eager /\ Calls /\ Live /\ Quiet
  BY <1>1, QDAssumption DEF Init, Requests, Cursors, Eager, Calls, Live, Quiet, Slots
<1> QED
  BY <1>1, <1>2, <1>3 DEF IInv

\* One step per action.
LEMMA NextSound == IInv /\ [Next]_vars => IInv'
<1> SUFFICES ASSUME IInv, [Next]_vars PROVE IInv'
  OBVIOUS
<1>1. CASE StillStep
  BY <1>1, StillSound
<1>2. CASE ConstructAssign
  BY <1>2, ConstructAssignSound
<1>3. ASSUME NEW s \in Slots, NextReadsSync(s) PROVE IInv'
  BY <1>3, NextReadsSyncSound
<1>4. ASSUME NEW c \in cq, WaitAbsorbs(c) PROVE IInv'
  BY <1>4, WaitAbsorbsSound
<1>5. ASSUME NEW c \in cq, WaitThrows(c) PROVE IInv'
  BY <1>5, WaitThrowsSound
<1>6. CASE NextDelivers
  BY <1>6, NextDeliversSound
<1>7. ASSUME NEW g \in got, Release(g) PROVE IInv'
  BY <1>7, ReleaseSound
<1>8. CASE Drain
  BY <1>8, DrainSoundReader
<1>9. ASSUME NEW op \in flight, Kernel(op) PROVE IInv'
  BY <1>9, KernelSound
<1> QED
  BY <1>1, <1>2, <1>3, <1>4, <1>5, <1>6, <1>7, <1>8, <1>9
  DEF Next, Reader, Wait, StillStep

\* The inductive invariant holds of every behaviour of the reader.
THEOREM Invariance == Spec => []IInv
BY InitSound, NextSound, PTL DEF Spec

\* Every variable keeps its type and the cursors their order: whatever the
\* kernel does, nextDeliver <= nextSubmit <= NumWindows.
THEOREM TypeCorrect == Spec => []TypeOK
<1>1. IInv => TypeOK
  BY DEF IInv
<1> QED
  BY <1>1, Invariance, PTL

\* The count drain() loops on is exact, and no two requests share a slot.
THEOREM RingIsSound == Spec => []RingSound
<1>1. IInv => RingSound
  BY DEF IInv, RingInv, RingSound
<1> QED
  BY <1>1, Invariance, PTL

\* No request for a buffer exists, at any stage, while the caller holds it.
THEOREM ExclusiveBuffers == Spec => []BufferExclusive
<1>1. IInv => BufferExclusive
  <2> SUFFICES ASSUME IInv, NEW g \in got
               PROVE  g.slot \notin BusySlots /\ slots[g.slot].win = g.win
    BY DEF BufferExclusive
  <2>1. slots[g.slot].held /\ slots[g.slot].win = g.win
    BY DEF IInv, Calls
  <2>2. \A op \in PendingOps : ~slots[op.slot].held
    BY DEF IInv, Requests, OpMatches
  <2>3. BusySlots = {op.slot : op \in PendingOps}
    BY DEF BusySlots, SlotsOf, PendingOps
  <2> QED
    BY <2>1, <2>2, <2>3
<1> QED
  BY <1>1, Invariance, PTL

\* The EINVAL of next() really means that the caller holds every slot.
THEOREM WantedWindowHasSlot == Spec => []WantHasSlot
<1>1. IInv => WantHasSlot
  <2> SUFFICES ASSUME IInv, pc = "idle", ~latched, nextDeliver < NumWindows
               PROVE  (\E s \in Slots : HasWant(s)) \/ (\A s \in Slots : slots[s].held)
    BY DEF WantHasSlot
  <2>1. nextDeliver \in Nat /\ nextSubmit \in Nat /\ nextDeliver <= nextSubmit
    BY DEF IInv, TypeOK
  <2>2. CASE nextDeliver < nextSubmit
    <3>1. nextDeliver \in nextDeliver .. nextSubmit - 1
      BY <2>1, <2>2
    <3> QED
      BY <3>1 DEF IInv, Cursors, HasWant
  <2>3. CASE nextDeliver = nextSubmit
    <3>1. NumWindows \in Nat
      BY WindowFacts DEF IInv, TypeOK
    <3>2. \A s \in Slots : slots[s].assigned
      BY <2>1, <2>3, <3>1 DEF IInv, Eager
    <3>3. \A s \in Slots : slots[s].win \in Nat /\ slots[s].win < nextDeliver
      BY <2>3, <3>2 DEF IInv, Cursors, TypeOK
    <3>4. \A s \in Slots : slots[s].held
      BY <2>1, <3>2, <3>3 DEF IInv, Cursors
    <3> QED
      BY <3>4
  <2> QED
    BY <2>1, <2>2, <2>3
<1> QED
  BY <1>1, Invariance, PTL

\* next() never blocks on a read that nobody will complete.
THEOREM AwaitedReadIsPending == Spec => []AwaitedReadPending
<1>1. IInv => AwaitedReadPending
  <2> SUFFICES ASSUME IInv, pc = "wait", ~broken, ~reads[target].ready
               PROVE  target \in SlotsOf(flight) \cup SlotsOf(Completed)
    BY DEF AwaitedReadPending
  <2>1. /\ ~latched /\ slots[target].assigned /\ slots[target].started
        /\ ~slots[target].held /\ target \in Slots
    BY DEF IInv, Calls, HasWant, TypeOK
  <2>2. sq = {} /\ \E op \in PendingOps : op.slot = target
    BY <2>1 DEF IInv, Live
  <2> QED
    BY <2>2 DEF PendingOps, SlotsOf
<1> QED
  BY <1>1, Invariance, PTL

\* The buffers are freed only when the kernel owes nothing.
THEOREM PoolOutlives == Spec => []PoolOutlivesReads
<1>1. IInv => PoolOutlivesReads
  BY DEF IInv, Quiet, PoolOutlivesReads
<1> QED
  BY <1>1, Invariance, PTL

-----------------------------------------------------------------------------
(* The stream: what the buffers hold *)

\* The position i of window w is this unit of the file.
UnitOf(w, i) == w * WindowSize + i

\* The first n positions of slot s hold the start of its window.
Holds(s, n) == \A i \in 0 .. n - 1 : pool[s][i] = UnitOf(slots[s].win, i)

\* What backend and engine believe of a slot is true of its buffer.
SlotTrue(s) ==
  /\ slots[s].assigned /\ slots[s].started =>
       /\ Holds(s, reads[s].filled)
       /\ reads[s].ready => reads[s].filled >= WindowLen(slots[s].win)
  /\ slots[s].held => Holds(s, WindowLen(slots[s].win))

\* What a completion claims is in the buffer.
Arrived(c) ==
  \A i \in c.op.at .. c.op.at + c.res - 1 : pool[c.op.slot][i] = c.op.off + (i - c.op.at)

Bytes ==
  /\ \A s \in Slots : SlotTrue(s)
  /\ \A c \in cq : Arrived(c)

\* Nothing is out once the reader is being destroyed.
Closed == pc \in {"drain", "freed"} => got = {}

SInv == IInv /\ Bytes /\ Closed

-----------------------------------------------------------------------------
(* Each action keeps the buffers true. *)

\* Both depend only on the slot's own state and buffer.
LEMMA SlotStable ==
  ASSUME NEW s, SlotTrue(s), size' = size, slots'[s] = slots[s],
         reads'[s] = reads[s], pool'[s] = pool[s]
  PROVE  SlotTrue(s)'
BY DEF SlotTrue, Holds, WindowLen

LEMMA ArrivedStable ==
  ASSUME NEW c, Arrived(c), pool'[c.op.slot] = pool[c.op.slot]
  PROVE  Arrived(c)'
BY DEF Arrived

\* Steps that only take completions away.
LEMMA BytesUnchanged ==
  ASSUME Bytes, UNCHANGED <<size, slots, reads, pool>>, cq' \subseteq cq
  PROVE  Bytes'
BY SlotStable, ArrivedStable DEF Bytes

\* A newly assigned slot claims nothing yet.
LEMMA AssignBytes ==
  ASSUME IInv, Bytes, NEW s, AssignStep(s), pool' = pool
  PROVE  Bytes'
<1>1. /\ slots'[s] = AssignedSlot(nextSubmit) /\ cq' = cq /\ size' = size
      /\ \A t \in Slots \ {s} : slots'[t] = slots[t] /\ reads'[t] = reads[t]
      /\ WantsAsync(nextSubmit) => reads'[s] = StartedRead
  BY AssignTypes, AssignRing DEF IInv, AssignStep
<1>2. SlotTrue(s)'
  <2>1. ~slots'[s].held /\ (slots'[s].started => WantsAsync(nextSubmit))
    BY <1>1 DEF AssignedSlot
  <2>2. slots'[s].started => reads'[s].filled = 0 /\ ~reads'[s].ready
    BY <1>1, <2>1 DEF StartedRead
  <2> QED
    BY <2>1, <2>2 DEF SlotTrue, Holds
<1> QED
  BY <1>1, <1>2, SlotStable, ArrivedStable DEF Bytes

\* release() keeps the buffers, and makes no claim for an idle slot.
LEMMA ReleaseBytes == ASSUME IInv, Bytes, NEW g \in got, Release(g) PROVE Bytes'
<1>1. /\ g.slot \in Slots /\ slots[g.slot].held /\ pool' = pool /\ size' = size
      /\ useUring' = useUring /\ nextDeliver' = nextDeliver
      /\ slots \in [Slots -> SlotType]
  BY DEF Release, fileVars, IInv, TypeOK, SlotType
<1>2. CASE nextSubmit < NumWindows /\ (AssignOk(g.slot) \/ AssignThrows(g.slot))
  <2>1. AssignStep(g.slot)
    BY <1>1, <1>2 DEF AssignStep
  <2> QED
    BY <1>1, <2>1, AssignBytes
<1>3. CASE slots' = Vacated(g.slot) /\ UNCHANGED <<reads, ringVars>>
  <2>1. PICK s : s = g.slot
    OBVIOUS
  <2>2. PICK first : first = [slots EXCEPT ![s].assigned = FALSE]
    OBVIOUS
  <2>3. /\ first \in [Slots -> SlotType] /\ ~first[s].assigned
        /\ \A t \in Slots \ {s} : first[t] = slots[t]
    BY <1>1, <2>1, <2>2 DEF SlotType
  <2>4. slots' = [first EXCEPT ![s].held = FALSE]
    BY <1>3, <2>1, <2>2 DEF Vacated
  <2>5. /\ ~slots'[s].assigned /\ ~slots'[s].held
        /\ \A t \in Slots \ {s} : slots'[t] = slots[t]
    BY <1>1, <2>1, <2>3, <2>4 DEF SlotType
  <2>6. SlotTrue(s)'
    BY <2>5 DEF SlotTrue
  <2>7. \A t \in Slots : SlotTrue(t)'
    BY <1>1, <1>3, <2>5, <2>6, SlotStable DEF Bytes
  <2>8. \A c \in cq' : Arrived(c)'
    BY <1>1, <1>3, ArrivedStable DEF Bytes, ringVars
  <2> QED
    BY <2>7, <2>8 DEF Bytes
<1> QED
  BY <1>2, <1>3 DEF Release, ReleaseSlot

\* A window is handed out only when its buffer holds all of it.
LEMMA HandOutBytes ==
  ASSUME IInv, Bytes, NEW s \in Slots, HasWant(s), HandOut(s), size' = size, cq' = cq,
         reads' = reads, \A op \in PendingOps : op.slot # s,
         \A t \in Slots \ {s} : pool'[t] = pool[t],
         \A i \in 0 .. WindowLen(nextDeliver) - 1 : pool'[s][i] = UnitOf(nextDeliver, i),
         slots[s].started => pool'[s] = pool[s]
  PROVE  Bytes'
<1>1. /\ \A t \in Slots \ {s} : slots'[t] = slots[t]
      /\ slots'[s].win = slots[s].win /\ slots'[s].started = slots[s].started
      /\ slots'[s].assigned = slots[s].assigned
      /\ slots[s].win = nextDeliver
  BY DEF HandOut, HasWant, IInv, TypeOK
<1>2. SlotTrue(s)'
  <2>1. WindowLen(slots[s].win)' = WindowLen(slots[s].win)
    BY <1>1 DEF WindowLen
  <2>2. slots'[s].assigned /\ slots'[s].started =>
          /\ Holds(s, reads[s].filled)'
          /\ reads'[s].ready => reads'[s].filled >= WindowLen(slots[s].win)'
    BY <1>1, <2>1 DEF Bytes, SlotTrue, Holds
  <2>3. Holds(s, WindowLen(slots[s].win))'
    BY <1>1, <2>1 DEF Holds
  <2> QED
    BY <2>2, <2>3 DEF SlotTrue
<1>3. \A t \in Slots \ {s} : SlotTrue(t)'
  BY <1>1, SlotStable DEF Bytes
<1>4. \A c \in cq : Arrived(c)'
  <2>1. \A c \in cq : c.op \in PendingOps /\ c.op.slot \in Slots
    BY DEF IInv, Requests, OpMatches, PendingOps, Completed
  <2> QED
    BY <2>1, ArrivedStable DEF Bytes
<1> QED
  BY <1>2, <1>3, <1>4 DEF Bytes

LEMMA NextReadsSyncBytes ==
  ASSUME IInv, Bytes, NEW s \in Slots, NextReadsSync(s)
  PROVE  Bytes'
<1>1. /\ size' = size /\ cq' = cq /\ reads' = reads /\ HasWant(s) /\ ~slots[s].started
      /\ nextDeliver \in Nat
  BY DEF NextReadsSync, fileVars, ringVars, IInv, TypeOK
<1>2. CASE HandOut(s) /\ pool' = [pool EXCEPT ![s] = [i \in Positions |->
             IF i < WindowLen(nextDeliver) THEN nextDeliver * WindowSize + i ELSE @[i]]]
  <2>1. \A op \in PendingOps : op.slot # s
    BY <1>1 DEF IInv, Requests, OpMatches
  <2>2. 0 .. WindowLen(nextDeliver) - 1 \subseteq Positions
    BY <1>1, WindowFacts, WindowAssumption DEF IInv, TypeOK, Positions
  <2>3. ASSUME NEW i \in 0 .. WindowLen(nextDeliver) - 1
        PROVE  pool'[s][i] = UnitOf(nextDeliver, i)
    <3>1. WindowLen(nextDeliver) \in Int
      BY <1>1, WindowFacts DEF IInv, TypeOK
    <3>2. i \in Positions /\ i < WindowLen(nextDeliver)
      BY <2>2, <3>1
    <3> QED
      BY <1>2, <3>2 DEF IInv, TypeOK, UnitOf
  <2>4. \A t \in Slots \ {s} : pool'[t] = pool[t]
    BY <1>2 DEF IInv, TypeOK
  <2> QED
    BY <1>1, <1>2, <2>1, <2>3, <2>4, HandOutBytes
<1>3. CASE UNCHANGED <<pool, slots, nextDeliver, got>>
  BY <1>1, <1>3, BytesUnchanged
<1> QED
  BY <1>2, <1>3 DEF NextReadsSync

LEMMA NextDeliversBytes == ASSUME IInv, Bytes, NextDelivers PROVE Bytes'
<1>1. /\ size' = size /\ cq' = cq /\ reads' = reads /\ pool' = pool
      /\ HandOut(target) /\ HasWant(target) /\ target \in Slots
      /\ slots[target].started /\ reads[target].ready
      /\ nextDeliver \in Nat /\ slots[target].win = nextDeliver /\ slots[target].assigned
      /\ reads[target].filled \in Nat
  BY DEF NextDelivers, fileVars, ringVars, IInv, TypeOK, Calls, HasWant
<1>2. \A op \in PendingOps : op.slot # target
  BY <1>1 DEF IInv, Requests, OpMatches
<1>3. ASSUME NEW i \in 0 .. WindowLen(nextDeliver) - 1
      PROVE  pool'[target][i] = UnitOf(nextDeliver, i)
  <2>1. WindowLen(nextDeliver) \in Int /\ reads[target].filled >= WindowLen(nextDeliver)
    BY <1>1, WindowFacts DEF IInv, TypeOK, Bytes, SlotTrue
  <2>2. i \in 0 .. reads[target].filled - 1
    BY <1>1, <2>1
  <2> QED
    BY <1>1, <2>2 DEF Bytes, SlotTrue, Holds
<1> QED
  BY <1>1, <1>2, <1>3, HandOutBytes

\* The units a completion brought extend what its slot already had.
LEMMA WaitAbsorbsBytes == ASSUME IInv, Bytes, NEW c \in cq, WaitAbsorbs(c) PROVE Bytes'
<1>1. PICK s : s = c.op.slot
  OBVIOUS
<1>2. PICK at : at = reads[s].filled
  OBVIOUS
<1>3. /\ s \in Slots /\ at \in Nat /\ c.res \in Int /\ c.res > 0
      /\ slots[s].win \in Nat /\ slots[s].assigned /\ slots[s].started /\ ~slots[s].held
      /\ ~reads[s].ready
      /\ WindowLen(slots[s].win) \in Int
      /\ c.op = ReadOp(s, slots[s].win, at)
  BY <1>1, <1>2, CompletionFacts DEF OpMatches, WaitAbsorbs
<1>4. PICK first : first = slots[s].win * WindowSize
  OBVIOUS
<1>5. first \in Nat /\ c.op.at = at /\ c.op.off = first + at
  BY <1>3, <1>4, WindowAssumption DEF ReadOp
<1>6. size' = size /\ slots' = slots /\ pool' = pool /\ cq' \subseteq cq
  BY DEF WaitAbsorbs, fileVars, engineVars, Reap, Submit, SubmitFails
<1>7. /\ \A t \in Slots \ {s} : reads'[t] = reads[t]
      /\ reads'[s].filled = at + c.res
      /\ reads'[s].ready => at + c.res >= WindowLen(slots[s].win)
  <2>1. Filled(c) = at + c.res /\ reads \in [Slots -> ReadType]
    BY <1>1, <1>2 DEF Filled, IInv, TypeOK, ReadType
  <2>2. CASE /\ Filled(c) >= WindowLen(slots[s].win)
             /\ reads' = [reads EXCEPT ![s] = [filled |-> Filled(c), ready |-> TRUE]]
    BY <1>3, <2>1, <2>2 DEF ReadType
  <2>3. CASE reads' = [reads EXCEPT ![s].filled = Filled(c)]
    BY <1>3, <2>1, <2>3 DEF ReadType
  <2> QED
    BY <1>1, <2>2, <2>3 DEF WaitAbsorbs
<1>8. SlotTrue(s)'
  <2>1. ASSUME NEW i \in 0 .. at + c.res - 1 PROVE pool[s][i] = first + i
    <3>1. CASE i < at
      <4>1. i \in 0 .. at - 1
        BY <1>3, <3>1
      <4> QED
        BY <1>2, <1>3, <1>4, <4>1 DEF Bytes, SlotTrue, Holds, UnitOf
    <3>2. CASE i >= at
      <4>1. i \in c.op.at .. c.op.at + c.res - 1 /\ c.op.off + (i - c.op.at) = first + i
        BY <1>3, <1>5, <3>2
      <4> QED
        BY <1>1, <4>1 DEF Bytes, Arrived
    <3> QED
      BY <1>3, <3>1, <3>2
  <2>2. Holds(s, reads[s].filled)'
    <3>1. PICK m : m = at + c.res
      OBVIOUS
    <3>2. ASSUME NEW i \in 0 .. m - 1 PROVE pool[s][i] = UnitOf(slots[s].win, i)
      <4>1. UnitOf(slots[s].win, i) = first + i
        BY <1>4 DEF UnitOf
      <4>2. pool[s][i] = first + i
        BY <1>3, <2>1, <3>1
      <4> QED
        BY <4>1, <4>2
    <3>3. reads'[s].filled = m
      BY <1>7, <3>1
    <3> QED
      BY <1>6, <3>2, <3>3 DEF Holds
  <2>3. WindowLen(slots[s].win)' = WindowLen(slots[s].win)
    BY <1>6 DEF WindowLen
  <2>4. reads'[s].ready => reads'[s].filled >= WindowLen(slots[s].win)'
    BY <1>7, <2>3
  <2>5. ~slots'[s].held
    BY <1>3, <1>6
  <2> QED
    BY <2>2, <2>4, <2>5 DEF SlotTrue
<1> QED
  BY <1>6, <1>7, <1>8, SlotStable, ArrivedStable DEF Bytes

\* The kernel writes beyond what the slot already had, into a buffer nobody
\* else has a request on.
LEMMA KernelBytes == ASSUME IInv, Bytes, NEW op \in flight, Kernel(op) PROVE Bytes'
<1>1. /\ size' = size /\ slots' = slots /\ reads' = reads
  BY DEF Kernel, KernelReads, KernelFails, fileVars, engineVars
<1>a. PICK s : s = op.slot
  OBVIOUS
<1>b. /\ s \in Slots /\ ~slots[s].held /\ op.at = reads[s].filled /\ op.at \in Nat
      /\ op.len \in Int /\ slots[s].win \in Nat
      /\ 0 .. op.at + op.len - 1 \subseteq Positions
  <2>1. OpMatches(op)
    BY DEF IInv, Requests, PendingOps
  <2>2. /\ s \in Slots /\ ~slots[s].held /\ op.at = reads[s].filled /\ op.at \in Nat
        /\ slots[s].win \in Nat /\ op.len = WindowLen(slots[s].win) - op.at
    BY <1>a, <2>1 DEF OpMatches, ReadOp, IInv, TypeOK
  <2>3. WindowLen(slots[s].win) \in Int /\ WindowLen(slots[s].win) <= WindowSize
    BY <2>2, WindowFacts DEF IInv, TypeOK
  <2> QED
    BY <2>2, <2>3, WindowAssumption DEF Positions
<1>2. CASE KernelFails(op)
  <2>1. PICK res \in {-1, 0} : cq' = cq \cup {[op |-> op, res |-> res]} /\ pool' = pool
    BY <1>2 DEF KernelFails, Complete
  <2>2. PICK c : c = [op |-> op, res |-> res]
    OBVIOUS
  <2>3. cq' = cq \cup {c} /\ c.op = op /\ c.res = res
    BY <2>1, <2>2
  <2>4. op.at \in Nat
    BY <1>b
  <2>5. Arrived(c)'
    BY <2>1, <2>3, <2>4 DEF Arrived
  <2>6. \A d \in cq : Arrived(d)'
    BY <2>1, ArrivedStable DEF Bytes
  <2>7. \A t \in Slots : SlotTrue(t)'
    BY <1>1, <2>1, SlotStable DEF Bytes
  <2> QED
    BY <2>3, <2>5, <2>6, <2>7 DEF Bytes
<1>3. ASSUME NEW n \in 1 .. op.len, KernelReads(op, n)
      PROVE  Bytes'
  <2>3. pool' = [pool EXCEPT ![s] = [i \in Positions |->
                  IF i \in op.at .. op.at + n - 1 THEN op.off + (i - op.at) ELSE @[i]]]
    BY <1>3, <1>a DEF KernelReads
  <2>4. /\ \A t \in Slots \ {s} : pool'[t] = pool[t]
        /\ \A i \in Positions : pool'[s][i] = IF i \in op.at .. op.at + n - 1
                                              THEN op.off + (i - op.at) ELSE pool[s][i]
    BY <1>b, <2>3 DEF IInv, TypeOK
  <2>5. SlotTrue(s)'
    <3>1. ASSUME NEW i \in 0 .. op.at - 1 PROVE pool'[s][i] = pool[s][i]
      <4>1. i \in Positions /\ i \notin op.at .. op.at + n - 1
        BY <1>b, <3>1
      <4> QED
        BY <2>4, <4>1
    <3>2. Holds(s, reads[s].filled) => Holds(s, reads[s].filled)'
      BY <1>1, <1>b, <3>1 DEF Holds
    <3>3. WindowLen(slots[s].win)' = WindowLen(slots[s].win)
      BY <1>1 DEF WindowLen
    <3> QED
      BY <1>1, <1>b, <3>2, <3>3 DEF Bytes, SlotTrue
  <2>6. PICK c : c = [op |-> op, res |-> n]
    OBVIOUS
  <2>7. cq' = cq \cup {c} /\ c.op = op /\ c.res = n
    BY <1>3, <2>6 DEF KernelReads, Complete
  <2>8. Arrived(c)'
    <3>1. ASSUME NEW i \in op.at .. op.at + n - 1
          PROVE  pool'[s][i] = op.off + (i - op.at)
      <4>1. i \in Positions
        BY <1>b, <3>1
      <4> QED
        BY <2>4, <3>1, <4>1
    <3> QED
      BY <1>a, <2>7, <3>1 DEF Arrived
  <2>9. \A d \in cq : Arrived(d)'
    <3>1. ASSUME NEW d \in cq PROVE d.op.slot \in Slots /\ d.op.slot # s
      <4>1. d.op \in Completed /\ d.op # op
        BY DEF IInv, RingInv, OneRequestPerSlot, Completed
      <4>2. d.op.slot # op.slot
        BY <4>1 DEF IInv, RingInv, OneRequestPerSlot
      <4>3. d.op.slot \in Slots
        BY <4>1 DEF IInv, Requests, PendingOps, OpMatches
      <4> QED
        BY <1>a, <4>2, <4>3
    <3> QED
      BY <2>4, <3>1, ArrivedStable DEF Bytes
  <2>10. \A t \in Slots \ {s} : SlotTrue(t)'
    BY <1>1, <2>4, SlotStable DEF Bytes
  <2> QED
    BY <2>5, <2>7, <2>8, <2>9, <2>10 DEF Bytes
<1> QED
  BY <1>2, <1>3 DEF Kernel

-----------------------------------------------------------------------------
(* The stream's invariant *)

LEMMA StreamInitSound == Init => SInv
<1> SUFFICES ASSUME Init PROVE SInv
  OBVIOUS
<1>1. Bytes /\ Closed
  BY DEF Init, RingInit, Bytes, SlotTrue, Closed
<1> QED
  BY <1>1, InitSound DEF SInv

\* Every action keeps the buffers true.
LEMMA BytesSound == IInv /\ Bytes /\ [Next]_vars => Bytes'
<1> SUFFICES ASSUME IInv, Bytes, [Next]_vars PROVE Bytes'
  OBVIOUS
<1>1. CASE StillStep
  <2>1. UNCHANGED <<size, slots, reads, pool>> /\ cq' = cq
    BY <1>1 DEF StillStep, ConstructDone, NextReturnsNothing, NextWaits, WaitEnterFails,
         ReleaseNotHeld, Destroy, FreePool, AbandonDrain, vars, engineVars, fileVars, ringVars
  <2> QED
    BY <2>1, BytesUnchanged
<1>2. CASE ConstructAssign
  <2>1. /\ nextSubmit \in Nat /\ NumWindows \in Nat /\ nextSubmit \in Slots
        /\ nextSubmit < NumWindows /\ pc = "ctor"
    <3>1. nextSubmit \in Nat /\ NumWindows \in Nat /\ size \in Sizes
      BY WindowFacts DEF IInv, TypeOK
    <3> QED
      BY <1>2, <3>1, QDAssumption DEF ConstructAssign, Lesser, Slots
  <2>2. AssignStep(nextSubmit) /\ pool' = pool
    BY <1>2, <2>1 DEF ConstructAssign, AssignStep, IInv, Eager, fileVars
  <2> QED
    BY <2>2, AssignBytes
<1>3. ASSUME NEW s \in Slots, NextReadsSync(s) PROVE Bytes'
  BY <1>3, NextReadsSyncBytes
<1>4. ASSUME NEW c \in cq, WaitAbsorbs(c) PROVE Bytes'
  BY <1>4, WaitAbsorbsBytes
<1>5. ASSUME NEW c \in cq, WaitThrows(c) PROVE Bytes'
  BY <1>5, BytesUnchanged DEF WaitThrows, Reap, fileVars, engineVars
<1>6. CASE NextDelivers
  BY <1>6, NextDeliversBytes
<1>7. ASSUME NEW g \in got, Release(g) PROVE Bytes'
  BY <1>7, ReleaseBytes
<1>8. CASE Drain
  BY <1>8, BytesUnchanged DEF Drain, DrainRound, fileVars, engineVars
<1>9. ASSUME NEW op \in flight, Kernel(op) PROVE Bytes'
  BY <1>9, KernelBytes
<1> QED
  BY <1>1, <1>2, <1>3, <1>4, <1>5, <1>6, <1>7, <1>8, <1>9
  DEF Next, Reader, Wait, StillStep

\* The destructor takes every window back, and nothing is handed out after.
LEMMA ClosedSound == IInv /\ Closed /\ [Next]_vars => Closed'
<1> SUFFICES ASSUME IInv, Closed, [Next]_vars PROVE Closed'
  OBVIOUS
<1>1. CASE ConstructAssign
  <2>1. got' = got /\ pc = "ctor"
    BY <1>1 DEF ConstructAssign
  <2>2. ASSUME NEW g \in got PROVE FALSE
    <3>1. g.slot \in Slots /\ slots[g.slot].held
      BY DEF IInv, Calls, TypeOK
    <3>2. slots[g.slot].win \in Nat /\ slots[g.slot].win < 0
      BY <2>1, <3>1 DEF IInv, Cursors, Eager, TypeOK
    <3> QED
      BY <3>2
  <2> QED
    BY <2>1, <2>2 DEF Closed
<1>2. CASE ~ConstructAssign
  BY <1>2
  DEF Closed, Next, Reader, Wait, ConstructDone, NextReturnsNothing, NextWaits,
      NextReadsSync, CallNext, WaitAbsorbs, WaitThrows, NextDelivers, WaitEnterFails,
      Release, ReleaseNotHeld, Destroy, Drain, FreePool, AbandonDrain, Kernel,
      KernelReads, KernelFails, vars, engineVars
<1> QED
  BY <1>1, <1>2

\* The buffers hold what slots, reads and completions say of them.
THEOREM BuffersAreTrue == Spec => []SInv
<1>1. SInv /\ [Next]_vars => SInv'
  BY NextSound, BytesSound, ClosedSound DEF SInv
<1> QED
  BY <1>1, StreamInitSound, PTL DEF Spec

-----------------------------------------------------------------------------
(* What the caller sees *)

\* A held window shows the file's bytes, wherever its buffer is.
LEMMA ViewIsFile == SInv => View = [w \in Windows |-> Stream!FileWindow(size, w)]
<1> SUFFICES ASSUME SInv, NEW w \in Windows
             PROVE  HeldBytes(w) = Stream!FileWindow(size, w)
  BY DEF View
<1>1. PICK g : g = HeldWindow(w)
  OBVIOUS
<1>2. g \in got /\ g.win = w
  BY <1>1 DEF HeldWindow, Windows
<1>3. Holds(g.slot, WindowLen(w)) /\ slots[g.slot].win = w
  BY <1>2 DEF SInv, IInv, TypeOK, Calls, Bytes, SlotTrue
<1>4. HeldBytes(w) = [i \in 0 .. WindowLen(w) - 1 |-> pool[g.slot][i]]
  BY <1>1 DEF HeldBytes
<1>5. \A i \in 0 .. WindowLen(w) - 1 : pool[g.slot][i] = w * WindowSize + i
  BY <1>3 DEF Holds, UnitOf
<1>6. Stream!FileWindow(size, w) = [i \in 0 .. WindowLen(w) - 1 |-> w * WindowSize + i]
  BY DEF Stream!FileWindow, WindowLen, Lesser
<1> QED
  BY <1>4, <1>5, <1>6

\* So it does in the next state.
LEMMA ViewIsFileNext ==
  ASSUME SInv', size' = size
  PROVE  View' = [w \in Windows' |-> Stream!FileWindow(size, w)]
<1>1. SInv' => (View = [w \in Windows |-> Stream!FileWindow(size, w)])'
  BY ViewIsFile, PTL
<1> QED
  BY <1>1

\* A window index is out at most once.
LEMMA OneSlotPerWindow ==
  ASSUME IInv, NEW g \in got, NEW h \in got, g.win = h.win
  PROVE  g = h
<1>1. /\ g.slot \in Slots /\ slots[g.slot].held /\ slots[g.slot].win = g.win
      /\ h.slot \in Slots /\ slots[h.slot].held /\ slots[h.slot].win = h.win
  BY DEF IInv, TypeOK, Calls
<1>2. g.slot = h.slot
  BY <1>1 DEF IInv, Cursors
<1>3. g \in [win : Nat, slot : Slots] /\ h \in [win : Nat, slot : Slots]
  BY DEF IInv, TypeOK
<1> QED
  BY <1>2, <1>3

\* While some slot is not held, another window may still be out.
LEMMA RoomForWindow ==
  ASSUME IInv, NEW s \in Slots, ~slots[s].held
  PROVE  Cardinality(Windows) < QD
<1>1. PICK f : f = [w \in Windows |-> HeldWindow(w).slot]
  OBVIOUS
<1>2. \A w \in Windows : HeldWindow(w) \in got /\ HeldWindow(w).win = w
  BY DEF HeldWindow, Windows
<1>3. \A g \in got : g.slot \in Slots \ {s} /\ slots[g.slot].win = g.win
  BY DEF IInv, TypeOK, Calls
<1>4. f \in Injection(Windows, Slots \ {s})
  <2>1. f \in [Windows -> Slots \ {s}]
    BY <1>1, <1>2, <1>3
  <2>2. \A v, w \in Windows : f[v] = f[w] => v = w
    BY <1>1, <1>2, <1>3
  <2> QED
    BY <2>1, <2>2 DEF Injection, IsInjective
<1>5. QD \in Nat /\ QD >= 2
  BY QDAssumption
<1>6. IsFiniteSet(Slots) /\ Cardinality(Slots) = QD
  BY <1>5, FS_Interval DEF Slots
<1>7. IsFiniteSet(Slots \ {s}) /\ Cardinality(Slots \ {s}) = QD - 1
  BY <1>6, FS_RemoveElement
<1>8. IsFiniteSet(Windows) /\ Cardinality(Windows) <= QD - 1
  BY <1>4, <1>7, FS_Injection
<1>9. Cardinality(Windows) \in Nat
  BY <1>8, FS_CardinalityType
<1> QED
  BY <1>5, <1>8, <1>9

-----------------------------------------------------------------------------
(* Each step of the reader is a step of the stream, or one it does not see. *)

\* The stream counts as the reader does.
LEMMA SameCardinality == \A S : Stream!Cardinality(S) = Cardinality(S)
BY DEF Cardinality, Stream!Cardinality, IsFiniteSet, Stream!IsFiniteSet

\* Handing out the wanted window is Deliver.
LEMMA HandOutDelivers ==
  ASSUME SInv, SInv', NEW s \in Slots, HasWant(s), ~slots[s].held, HandOut(s),
         nextDeliver < NumWindows, Open, Open', size' = size
  PROVE  Stream!Deliver
<1>1. nextDeliver' = nextDeliver + 1 /\ Windows' = Windows \cup {nextDeliver}
  <2>1. PICK g : g = [win |-> nextDeliver, slot |-> s]
    OBVIOUS
  <2>2. g.win = nextDeliver /\ got' = got \cup {g} /\ nextDeliver' = nextDeliver + 1
    BY <2>1 DEF HandOut
  <2> QED
    BY <2>2 DEF Windows
<1>2. View' = [w \in Windows' |-> Stream!FileWindow(size, w)]
  BY ViewIsFileNext
<1>3. View = [w \in Windows |-> Stream!FileWindow(size, w)]
  BY ViewIsFile
<1>4. DOMAIN View = Windows /\ Cardinality(DOMAIN View) < QD
  BY RoomForWindow DEF View, SInv
<1>5. View' = [w \in DOMAIN View \cup {nextDeliver} |->
                 IF w = nextDeliver THEN Stream!FileWindow(size, w) ELSE View[w]]
  BY <1>1, <1>2, <1>3, <1>4
<1>6. nextDeliver < Stream!NumWindows(size)
  BY DEF NumWindows, Stream!NumWindows
<1>7. Open = TRUE /\ Open' = TRUE
  BY DEF Open
<1>8. Stream!Deliver <=>
        /\ Open = TRUE
        /\ nextDeliver < Stream!NumWindows(size)
        /\ Cardinality(DOMAIN View) < QD
        /\ nextDeliver' = nextDeliver + 1
        /\ View' = [w \in DOMAIN View \cup {nextDeliver} |->
                      IF w = nextDeliver THEN Stream!FileWindow(size, w) ELSE View[w]]
        /\ UNCHANGED <<size, Open>>
  BY SameCardinality DEF Stream!Deliver
<1> QED
  BY <1>1, <1>4, <1>5, <1>6, <1>7, <1>8

\* release() is GiveBack of the released window.
LEMMA ReleaseGivesBack ==
  ASSUME SInv, SInv', NEW g \in got, Release(g)
  PROVE  Stream!GiveBack(g.win)
<1>1. /\ got' = got \ {g} /\ size' = size /\ nextDeliver' = nextDeliver /\ pc' = pc
      /\ pc = "idle"
  BY DEF Release, fileVars
<1>2. Windows' = Windows \ {g.win}
  <2>1. ASSUME NEW w \in Windows \ {g.win} PROVE w \in Windows'
    BY <1>1 DEF Windows
  <2>2. ASSUME NEW h \in got \ {g} PROVE h.win \in Windows \ {g.win}
    BY OneSlotPerWindow DEF Windows, SInv
  <2> QED
    BY <1>1, <2>1, <2>2 DEF Windows
<1>3. View' = [w \in Windows' |-> Stream!FileWindow(size, w)]
  BY <1>1, ViewIsFileNext
<1>4. View = [w \in Windows |-> Stream!FileWindow(size, w)]
  BY ViewIsFile
<1>5. DOMAIN View = Windows /\ g.win \in Windows
  BY DEF View, Windows
<1>6. View' = [v \in DOMAIN View \ {g.win} |-> View[v]]
  BY <1>2, <1>3, <1>4, <1>5
<1>7. Open = TRUE /\ Open' = TRUE
  BY <1>1 DEF Open
<1> QED
  BY <1>1, <1>5, <1>6, <1>7 DEF Stream!GiveBack

\* The destructor, or a constructor that throws, is Close.
LEMMA LeavingCloses ==
  ASSUME Open, ~Open', got' = {}, size' = size, nextDeliver' = nextDeliver
  PROVE  Stream!Close
<1>1. Open = TRUE /\ Open' = FALSE
  BY DEF Open
<1>2. View' = << >>
  <2>1. Windows' = {}
    BY DEF Windows
  <2> QED
    BY <2>1 DEF View
<1> QED
  BY <1>1, <1>2 DEF Stream!Close

\* Where the caller's windows stay, so does what it sees in them.
LEMMA KeptViewStutters ==
  ASSUME SInv, SInv', got' = got, size' = size, nextDeliver' = nextDeliver,
         Open' <=> Open
  PROVE  UNCHANGED Stream!streamVars
<1>1. View' = [w \in Windows |-> Stream!FileWindow(size, w)]
  <2>1. Windows' = Windows
    BY DEF Windows
  <2> QED
    BY <2>1, ViewIsFileNext
<1>2. View' = View
  BY <1>1, ViewIsFile
<1>3. Open' = Open
  BY DEF Open
<1> QED
  BY <1>2, <1>3 DEF Stream!streamVars

LEMMA StreamStep ==
  SInv /\ SInv' /\ [Next]_vars => [Stream!StreamNext]_(Stream!streamVars)
<1> SUFFICES ASSUME SInv, SInv', [Next]_vars
             PROVE  Stream!StreamNext \/ UNCHANGED Stream!streamVars
  OBVIOUS
<1>1. CASE /\ got' = got /\ size' = size /\ nextDeliver' = nextDeliver
           /\ Open' <=> Open
  BY <1>1, KeptViewStutters
<1>2. CASE \/ ConstructDone \/ NextReturnsNothing \/ WaitEnterFails \/ Drain \/ FreePool
           \/ AbandonDrain \/ UNCHANGED vars
           \/ \E s \in Slots : NextWaits(s)
           \/ \E s \in 0 .. QD : ReleaseNotHeld(s)
           \/ \E c \in cq : WaitAbsorbs(c) \/ WaitThrows(c)
           \/ \E op \in flight : Kernel(op)
  BY <1>1, <1>2
  DEF ConstructDone, NextReturnsNothing, WaitEnterFails, Drain, FreePool, AbandonDrain,
      NextWaits, ReleaseNotHeld, WaitAbsorbs, WaitThrows, Kernel, KernelReads, KernelFails,
      CallNext, vars, engineVars, fileVars, Open
<1>3. CASE ConstructAssign
  <2>1. got' = got /\ size' = size /\ nextDeliver' = nextDeliver /\ Open
    BY <1>3 DEF ConstructAssign, fileVars, Open
  <2>2. CASE Open'
    BY <1>1, <2>1, <2>2
  <2>3. CASE ~Open'
    <3>1. got' = {}
      BY <2>3 DEF SInv, Closed, Open
    <3> QED
      BY <2>1, <2>3, <3>1, LeavingCloses DEF Stream!StreamNext
  <2> QED
    BY <2>2, <2>3
<1>4. CASE Destroy
  <2>1. got' = {} /\ size' = size /\ nextDeliver' = nextDeliver /\ Open /\ ~Open'
    BY <1>4 DEF Destroy, fileVars, Open
  <2> QED
    BY <2>1, LeavingCloses DEF Stream!StreamNext
<1>5. ASSUME NEW s \in Slots, NextReadsSync(s)
      PROVE  Stream!StreamNext \/ UNCHANGED Stream!streamVars
  <2>1. /\ size' = size /\ pc' = pc /\ pc = "idle" /\ HasWant(s) /\ nextDeliver < NumWindows
    BY <1>5 DEF NextReadsSync, CallNext, fileVars
  <2>2. Open /\ Open'
    BY <2>1 DEF Open
  <2>3. ~slots[s].held
    BY <2>1 DEF SInv, IInv, Cursors, HasWant, TypeOK
  <2>4. CASE HandOut(s)
    BY <2>1, <2>2, <2>3, <2>4, HandOutDelivers DEF Stream!StreamNext
  <2>5. CASE UNCHANGED <<pool, slots, nextDeliver, got>>
    BY <1>1, <2>1, <2>2, <2>5
  <2> QED
    BY <1>5, <2>4, <2>5 DEF NextReadsSync
<1>6. CASE NextDelivers
  <2>1. /\ size' = size /\ pc = "wait" /\ pc' = "idle" /\ HandOut(target)
    BY <1>6 DEF NextDelivers, fileVars
  <2>2. target \in Slots /\ HasWant(target) /\ ~slots[target].held
    BY <2>1 DEF SInv, IInv, TypeOK, Calls
  <2>3. Open /\ Open'
    BY <2>1 DEF Open
  <2>4. nextDeliver < NumWindows
    <3>1. /\ slots[target].win < nextSubmit /\ slots[target].win = nextDeliver
          /\ nextSubmit \in Nat /\ nextDeliver \in Nat /\ nextSubmit <= NumWindows
          /\ NumWindows \in Nat
      BY <2>2, WindowFacts DEF SInv, IInv, TypeOK, Cursors, HasWant
    <3> QED
      BY <3>1
  <2> QED
    BY <2>1, <2>2, <2>3, <2>4, HandOutDelivers DEF Stream!StreamNext
<1>7. ASSUME NEW g \in got, Release(g)
      PROVE  Stream!StreamNext
  <2>1. g.win \in DOMAIN View
    BY DEF View, Windows
  <2> QED
    BY <1>7, <2>1, ReleaseGivesBack DEF Stream!StreamNext
<1> QED
  BY <1>2, <1>3, <1>4, <1>5, <1>6, <1>7 DEF Next, Reader, Wait

\* file_reader's promise holds for every queue depth, window size, alignment
\* and file size: the windows come in file order with the file's bytes, which
\* no transfer touches while the caller holds them, and at most QD are out.
THEOREM ReaderImplementsStream == Spec => ImplementsStream
<1>1. Init => Stream!StreamInit
  BY DEF Init, Stream!StreamInit, View, Windows, Open
<1>2. Spec => Stream!StreamSpec
  BY <1>1, BuffersAreTrue, StreamStep, PTL DEF Spec, Stream!StreamSpec
<1> QED
  BY <1>2 DEF ImplementsStream
=============================================================================
