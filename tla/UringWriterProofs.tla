------------------------- MODULE UringWriterProofs -------------------------
(***************************************************************************)
(* The writer's invariants and its refinement of ByteSink, for every queue *)
(* depth, buffer size, alignment, preallocation and stream length, and a   *)
(* producer that does not submit a buffer again that an asynchronous       *)
(* submit() threw for (~Resubmits: with it, OneRequestPerSlot is lost and  *)
(* NothingMisplaced is violated).                                          *)
(***************************************************************************)
EXTENDS UringWriter, UringProofs

WriteType == [off : Nat, len : 0 .. BufferSize, done : 0 .. BufferSize, busy : BOOLEAN]

\* Where the write of slot s ends in the file.
End(s) == writes[s].off + writes[s].len

\* A request asks for exactly what its slot's write still misses.
OpMatches(op) ==
  /\ op.slot \in Slots
  /\ writes[op.slot].busy
  /\ op = WriteOp(op.slot, writes[op.slot].off, writes[op.slot].len,
                  writes[op.slot].done)

\* What a completion claims has reached the file.
InFile(first, n) == \A u \in first .. first + n - 1 : file[u] = u

Requests ==
  /\ \A op \in PendingOps : OpMatches(op)
  /\ \A c \in cq : c.res \in Int /\ c.res <= c.op.len /\ InFile(c.op.off, c.res)

\* How far beyond the accepted units a refused submit() may have written.
Reserve == IF refused THEN BufferSize ELSE 0

\* A busy slot's buffer holds the units its write stands for, and the lent
\* buffer, which nobody writes from, those that come next.
Buffers ==
  /\ \A s \in Slots : writes[s].busy =>
       /\ writes[s].done < writes[s].len
       /\ End(s) <= written + Reserve /\ End(s) <= MaxUnits
       /\ \A i \in 0 .. writes[s].len - 1 : pool[s][i] = writes[s].off + i
  /\ owned # None =>
       /\ ~writes[owned].busy
       /\ \A i \in Positions : pool[owned][i] = written + i

\* What the write w still misses.
Missing(w) == w.off + w.done .. w.off + w.len - 1

\* Unit u is in what the write of some busy slot still misses.
Awaited(u) == \E s \in Slots : writes[s].busy /\ u \in Missing(writes[s])

\* Every accepted unit is in its place in the file or awaited, and the file
\* is no longer than the preallocation and the accepted units together.
Disk ==
  /\ \A u \in Units : file[u] \in {u, Hole}
  /\ \A u \in Units : u < written => file[u] = u \/ Awaited(u)
  /\ \A u \in Units : file[u] = u => u < fileLen
  /\ ~refused => fileLen <= prealloc \/ fileLen <= written

\* finish() leaves only idle slots behind it.
Calls ==
  pc \in {"finish", "destroy"} => \A s \in Slots : s < target => ~writes[s].busy

Quiet == pc = "freed" /\ ~abandoned => flight = {}

IInv ==
  /\ TypeOK
  /\ RingInv
  /\ Requests
  /\ Buffers
  /\ Disk
  /\ Calls
  /\ Quiet

-----------------------------------------------------------------------------
(* Requests and transfers *)

\* The fields of a pending request, from its slot's write.
LEMMA OpFacts ==
  ASSUME TypeOK, Buffers, NEW op, OpMatches(op)
  PROVE  LET w == writes[op.slot] IN
         /\ op.slot \in Slots /\ w \in WriteType /\ w.busy
         /\ op.at = w.done /\ op.off = w.off + w.done /\ op.len = w.len - w.done
         /\ w.off \in Nat /\ w.done \in Nat /\ w.len \in Nat
         /\ op.at \in Nat /\ op.off \in Nat /\ op.len \in Nat \ {0}
         /\ op.off + op.len = End(op.slot)
         /\ \A i \in 0 .. op.len - 1 : pool[op.slot][op.at + i] = op.off + i
<1> DEFINE w == writes[op.slot]
<1>1. op.slot \in Slots /\ w.busy /\ w \in WriteType
  BY DEF OpMatches, TypeOK, WriteType
<1>2. op.at = w.done /\ op.off = w.off + w.done /\ op.len = w.len - w.done
  BY DEF OpMatches, WriteOp
<1>3. w.off \in Nat /\ w.done \in Nat /\ w.len \in Nat /\ w.done < w.len
  BY <1>1, BufferAssumption DEF WriteType, Buffers
<1>4. \A i \in 0 .. w.len - 1 : pool[op.slot][i] = w.off + i
  BY <1>1 DEF Buffers
<1>5. ASSUME NEW i \in 0 .. op.len - 1
      PROVE  pool[op.slot][op.at + i] = op.off + i
  <2>1. op.at + i \in 0 .. w.len - 1 /\ w.off + (op.at + i) = op.off + i
    BY <1>2, <1>3
  <2> QED
    BY <1>4, <2>1
<1> QED
  BY <1>1, <1>2, <1>3, <1>5 DEF End

\* A request still matches its slot if the write did not move.
LEMMA OpStable ==
  ASSUME NEW op, OpMatches(op), writes'[op.slot] = writes[op.slot]
  PROVE  OpMatches(op)'
BY DEF OpMatches, WriteOp

\* A file that only gains units in their places keeps what completions claim.
LEMMA InFileGrows ==
  ASSUME TypeOK, Requests, Buffers, NEW c \in cq,
         \A u \in Units : file'[u] \in {u, file[u]}
  PROVE  InFile(c.op.off, c.res)'
<1>1. /\ OpMatches(c.op) /\ InFile(c.op.off, c.res)
      /\ c.res \in Int /\ c.res <= c.op.len
  BY DEF Requests, PendingOps, Completed
<1>2. /\ c.op.off \in Nat /\ c.op.len \in Nat /\ c.op.slot \in Slots
      /\ c.op.off + c.op.len = End(c.op.slot) /\ writes[c.op.slot].busy
  BY <1>1, OpFacts
<1>3. End(c.op.slot) <= MaxUnits /\ MaxUnits \in Nat
  BY <1>2, BufferAssumption DEF Buffers
<1>4. ASSUME NEW u \in c.op.off .. c.op.off + c.res - 1 PROVE file'[u] = u
  <2>1. u \in Units /\ file[u] = u
    BY <1>1, <1>2, <1>3 DEF Units, InFile
  <2> QED
    BY <2>1
<1> QED
  BY <1>4 DEF InFile

\* The n units at an offset reached the file, each in its own place.
Placed(off, n) ==
  /\ file' = [u \in Units |-> IF u \in off .. off + n - 1 THEN u ELSE file[u]]
  /\ file' \in [Units -> Nat \cup {Hole}]
  /\ \A u \in Units : file'[u] \in {u, file[u]} /\ file'[u] \in {u, Hole}
  /\ fileLen' = (IF fileLen < off + n THEN off + n ELSE fileLen)
  /\ fileLen' \in 0 .. MaxUnits
  /\ \A u \in Units : file'[u] = u => u < fileLen'

\* A transfer of units that the buffer holds places them.
LEMMA PutPlaces ==
  ASSUME TypeOK, Disk, NEW s \in Slots, NEW at \in Nat, NEW off \in Nat, NEW n \in Nat,
         off + n <= MaxUnits, \A i \in 0 .. n - 1 : pool[s][at + i] = off + i,
         PutUnits(s, at, off, n)
  PROVE  Placed(off, n)
<1>1. MaxUnits \in Nat /\ fileLen \in 0 .. MaxUnits /\ Units \subseteq Nat
  BY BufferAssumption DEF TypeOK, Units
<1>2. ASSUME NEW u \in Units, u \in off .. off + n - 1
      PROVE  pool[s][at + (u - off)] = u
  <2>1. u - off \in 0 .. n - 1 /\ off + (u - off) = u
    BY <1>2
  <2> QED
    BY <2>1
<1>3. file' = [u \in Units |-> IF u \in off .. off + n - 1 THEN u ELSE file[u]]
  BY <1>2 DEF PutUnits
<1>4. \A u \in Units : file'[u] = IF u \in off .. off + n - 1 THEN u ELSE file[u]
  BY <1>3
<1>5. \A u \in Units : file[u] \in {u, Hole} /\ (file[u] = u => u < fileLen)
  BY DEF Disk
<1>6. fileLen' = (IF fileLen < off + n THEN off + n ELSE fileLen)
  BY DEF PutUnits
<1>7. file' \in [Units -> Nat \cup {Hole}]
  BY <1>1, <1>3, <1>5
<1>8. fileLen' \in 0 .. MaxUnits
  BY <1>1, <1>6
<1>9. \A u \in Units : file'[u] = u => u < fileLen'
  BY <1>1, <1>4, <1>5, <1>6
<1> QED
  BY <1>3, <1>4, <1>5, <1>6, <1>7, <1>8, <1>9 DEF Placed

-----------------------------------------------------------------------------
(* The steps that move neither a request, a buffer nor the file *)

StillStep ==
  /\ UNCHANGED <<ringVars, useUring, prealloc, engineVars, writes, pool, diskVars,
                 finished, refused>>
  /\ owned' \in {owned, None} /\ target' \in Slots /\ pc' \in States
  /\ broken' \in BOOLEAN /\ abandoned' \in BOOLEAN
  /\ Calls' /\ Quiet'

\* They keep the invariant.
LEMMA StillSound == IInv /\ StillStep => IInv'
<1> SUFFICES ASSUME IInv, StillStep PROVE IInv'
  OBVIOUS
<1>1. RingInv' /\ PendingOps' = PendingOps /\ cq' = cq
  BY RingUnchanged DEF IInv, StillStep
<1>2. /\ writes' = writes /\ pool' = pool /\ file' = file /\ fileLen' = fileLen
      /\ written' = written /\ refused' = refused /\ prealloc' = prealloc
      /\ owned' \in {owned, None}
  BY DEF StillStep, engineVars, diskVars
<1>3. TypeOK'
  BY <1>1, <1>2, RingCount DEF IInv, TypeOK, StillStep, engineVars
<1>4. Requests'
  <2>1. \A op \in PendingOps' : OpMatches(op)'
    BY <1>1, <1>2, OpStable DEF IInv, Requests
  <2> QED
    BY <1>1, <1>2, <2>1 DEF IInv, Requests, InFile
<1>5. Buffers' /\ Disk'
  BY <1>2 DEF IInv, Buffers, Disk, Awaited, End, Reserve
<1> QED
  BY <1>1, <1>3, <1>4, <1>5 DEF IInv, StillStep

\* The calls that only move the producer along are such steps.
LEMMA StillActions ==
  ASSUME IInv,
         Acquire \/ SubmitNothing \/ WaitEnterFails \/ FinishNextSlot \/ FreePool
           \/ AbandonDrain \/ Finish("finish") \/ Finish("destroy") \/ UNCHANGED vars
  PROVE  StillStep
<1>1. /\ 0 \in Slots /\ target \in Slots /\ nextSlot \in Slots /\ pc \in States
      /\ broken \in BOOLEAN /\ abandoned \in BOOLEAN
  BY QDAssumption DEF IInv, TypeOK, Slots
<1>2. CASE Acquire
  BY <1>1, <1>2 DEF Acquire, StillStep, States, Calls, Quiet
<1>3. CASE SubmitNothing \/ UNCHANGED vars
  BY <1>1, <1>3 DEF SubmitNothing, StillStep, vars, ringVars, diskVars, engineVars, IInv,
                    Calls, Quiet
<1>4. CASE WaitEnterFails
  BY <1>1, <1>4 DEF WaitEnterFails, Throw, InWait, StillStep, States, Calls, Quiet
<1>5. CASE FinishNextSlot
  <2>1. target' = target + 1 /\ target + 1 \in Slots /\ ~writes[target].busy
    BY <1>1, <1>5, QDAssumption DEF FinishNextSlot, Slots
  <2>2. Calls'
    <3>1. ASSUME NEW t \in Slots, t < target' PROVE ~writes[t].busy
      <4>1. t < target \/ t = target
        BY <1>1, <2>1, <3>1 DEF Slots
      <4> QED
        BY <1>5, <2>1, <4>1 DEF IInv, Calls, FinishNextSlot
    <3> QED
      BY <1>5, <3>1 DEF Calls, FinishNextSlot
  <2> QED
    BY <1>1, <1>5, <2>1, <2>2 DEF FinishNextSlot, StillStep, Quiet
<1>6. CASE FreePool
  <2>1. flight = {}
    BY <1>6, DrainedIsQuiet DEF FreePool, IInv
  <2> QED
    BY <1>1, <1>6, <2>1 DEF FreePool, StillStep, States, Calls, Quiet, ringVars
<1>7. CASE AbandonDrain
  BY <1>1, <1>7 DEF AbandonDrain, StillStep, States, Calls, Quiet
<1>8. CASE Finish("finish") \/ Finish("destroy")
  BY <1>1, <1>8 DEF Finish, StillStep, States, Calls, Quiet, Slots
<1> QED
  BY <1>2, <1>3, <1>4, <1>5, <1>6, <1>7, <1>8

-----------------------------------------------------------------------------
(* acquire() *)

\* The buffer handed out is one nobody writes from, so it may be refilled.
LEMMA AcquireReturnsSound == IInv /\ AcquireReturns => IInv'
<1> SUFFICES ASSUME IInv, AcquireReturns PROVE IInv'
  OBVIOUS
<1>1. RingInv' /\ PendingOps' = PendingOps /\ cq' = cq
  BY RingUnchanged DEF IInv, AcquireReturns
<1>2. /\ target \in Slots /\ ~writes[target].busy /\ written \in Nat
      /\ pool \in [Slots -> [Positions -> Nat \cup {Hole}]]
      /\ Positions \subseteq Nat
  BY BufferAssumption DEF IInv, TypeOK, AcquireReturns, Positions
<1>3. /\ pool' = [pool EXCEPT ![target] = [i \in Positions |-> written + i]]
      /\ writes' = writes /\ owned' = target /\ written' = written
      /\ refused' = refused /\ file' = file /\ fileLen' = fileLen /\ prealloc' = prealloc
  BY DEF AcquireReturns, engineVars, diskVars
<1>4. pool' \in [Slots -> [Positions -> Nat \cup {Hole}]]
  <2>1. [i \in Positions |-> written + i] \in [Positions -> Nat \cup {Hole}]
    BY <1>2
  <2> QED
    BY <1>2, <1>3, <2>1
<1>5. TypeOK'
  BY <1>1, <1>2, <1>3, <1>4, RingCount DEF IInv, TypeOK, AcquireReturns, engineVars, States
<1>6. Requests'
  <2>1. \A op \in PendingOps' : OpMatches(op)'
    BY <1>1, <1>3, OpStable DEF IInv, Requests
  <2> QED
    BY <1>1, <1>3, <2>1 DEF IInv, Requests, InFile
<1>7. Buffers'
  <2>1. \A i \in Positions : pool'[target][i] = written + i
    BY <1>2, <1>3
  <2>2. \A s \in Slots : writes[s].busy => pool'[s] = pool[s]
    BY <1>2, <1>3
  <2> QED
    BY <1>2, <1>3, <2>1, <2>2 DEF IInv, Buffers, End, Reserve
<1>8. Disk' /\ Calls' /\ Quiet'
  BY <1>3 DEF IInv, Disk, Awaited, Calls, Quiet, AcquireReturns
<1> QED
  BY <1>1, <1>5, <1>6, <1>7, <1>8 DEF IInv

-----------------------------------------------------------------------------
(* submit() *)

\* What holds when a submit() is past its checks.
LEMMA SubmitFacts ==
  ASSUME IInv, NEW n \in 1 .. BufferSize, SubmitCall(n)
  PROVE  /\ owned \in Slots /\ ~writes[owned].busy /\ n \in Nat /\ n > 0
         /\ BufferSize \in Nat /\ MaxUnits \in Nat
         /\ written \in Nat /\ written + n <= MaxUnits /\ n <= BufferSize
         /\ writes \in [Slots -> WriteType]
         /\ (owned + 1) % QD \in Slots
         /\ tail' \in BOOLEAN /\ pc = "idle"
         /\ \A i \in 0 .. n - 1 : pool[owned][i] = written + i
         /\ \A op \in PendingOps : op.slot \in Slots /\ op.slot # owned
<1>1. owned \in Slots /\ ~writes[owned].busy /\ written \in Nat /\ writes \in [Slots -> WriteType]
  BY BufferAssumption DEF IInv, TypeOK, Buffers, SubmitCall, WriteType
<1>2. (owned + 1) % QD \in Slots
  BY <1>1, QDAssumption DEF Slots
<1>3. \A i \in 0 .. n - 1 : pool[owned][i] = written + i
  <2>1. 0 .. n - 1 \subseteq Positions
    BY BufferAssumption DEF Positions
  <2> QED
    BY <2>1 DEF IInv, Buffers, SubmitCall
<1>4. \A op \in PendingOps : op.slot \in Slots /\ op.slot # owned
  BY <1>1 DEF IInv, Requests, OpMatches
<1> QED
  BY <1>1, <1>2, <1>3, <1>4, BufferAssumption DEF SubmitCall

\* An asynchronous submit() that succeeds adds one request, of a slot that
\* had none; one that fails leaves the request published and takes the
\* buffer away from the producer.
LEMMA SubmitAsyncSound ==
  ASSUME ~Resubmits, IInv, NEW n \in 1 .. BufferSize, SubmitAsync(n)
  PROVE  IInv'
<1>a. PICK t : t = owned
  OBVIOUS
<1>b. PICK new : new = WriteOp(t, written, n, 0)
  OBVIOUS
<1>c. PICK started : started = [off |-> written, len |-> n, done |-> 0, busy |-> TRUE]
  OBVIOUS
<1>0. SubmitCall(n)
  BY DEF SubmitAsync
<1>1. /\ t \in Slots /\ ~writes[t].busy /\ n \in Nat /\ n > 0
      /\ BufferSize \in Nat /\ MaxUnits \in Nat
      /\ written \in Nat /\ written + n <= MaxUnits /\ n <= BufferSize
      /\ writes \in [Slots -> WriteType]
      /\ (t + 1) % QD \in Slots /\ tail' \in BOOLEAN /\ pc = "idle"
      /\ \A i \in 0 .. n - 1 : pool[t][i] = written + i
      /\ \A op \in PendingOps : op.slot \in Slots /\ op.slot # t
  BY <1>0, <1>a, SubmitFacts
<1>2. /\ writes' = [writes EXCEPT ![t] = started] /\ owned' = None /\ pool' = pool
      /\ file' = file /\ fileLen' = fileLen /\ prealloc' = prealloc /\ pc' = pc
      /\ useUring' = useUring /\ target' = target /\ abandoned' = abandoned
  BY <1>a, <1>c DEF SubmitAsync, StartWrite, diskVars
<1>3. /\ Submit(new, {}) \/ SubmitFails(new, {})
      /\ \/ /\ written' = written + n /\ nextSlot' = (t + 1) % QD
            /\ finished' = FALSE /\ refused' = refused /\ broken' = broken
         \/ /\ written' = written /\ nextSlot' = nextSlot
            /\ finished' = finished /\ refused' = TRUE /\ broken' = TRUE
  BY <1>a, <1>b DEF SubmitAsync, Advance
<1>4. RingInv' /\ PendingOps' = PendingOps \cup {new} /\ cq' = cq
  <2>1. Remaining({}) = PendingOps
    BY DEF Remaining, PendingOps, Completed
  <2>2. \A q \in Remaining({}) : q.slot # new.slot
    BY <1>1, <1>b, <2>1 DEF WriteOp
  <2>3. {} \in SUBSET cq /\ cq \ {} = cq
    OBVIOUS
  <2> QED
    BY <1>3, <2>1, <2>2, <2>3, SubmitSound DEF IInv
<1>5. /\ writes' \in [Slots -> WriteType] /\ writes'[t] = started
      /\ \A s \in Slots \ {t} : writes'[s] = writes[s]
  <2>1. started \in WriteType
    BY <1>1, <1>c DEF WriteType
  <2> QED
    BY <1>1, <1>2, <2>1
<1>6. written' \in Nat /\ written' <= MaxUnits /\ written <= written'
  BY <1>1, <1>3
<1>d. PICK limit \in Nat :
        limit = written' + Reserve' /\ written + n <= limit /\ written + Reserve <= limit
  BY <1>1, <1>3 DEF Reserve
<1>7. TypeOK'
  <2>1. nextSlot' \in Slots /\ {finished', refused', broken'} \subseteq BOOLEAN
    BY <1>1, <1>3 DEF IInv, TypeOK
  <2> QED
    BY <1>1, <1>2, <1>4, <1>5, <1>6, <2>1, RingCount DEF IInv, TypeOK, WriteType
<1>8. Requests'
  <2>1. ASSUME NEW op \in PendingOps PROVE OpMatches(op)'
    BY <1>1, <1>5, OpStable DEF IInv, Requests
  <2>2. OpMatches(new)'
    BY <1>1, <1>5, <1>b, <1>c DEF OpMatches, WriteOp
  <2>3. \A op \in PendingOps' : OpMatches(op)'
    BY <1>4, <2>1, <2>2
  <2> QED
    BY <1>2, <1>4, <2>3 DEF IInv, Requests, InFile
<1>9. Buffers'
  <2>1. ASSUME NEW s \in Slots, writes'[s].busy, s # t
        PROVE  /\ writes'[s].done < writes'[s].len
               /\ End(s)' <= (written + Reserve)' /\ End(s)' <= MaxUnits
               /\ \A i \in 0 .. writes'[s].len - 1 : pool'[s][i] = writes'[s].off + i
    <3>1. writes'[s] = writes[s] /\ writes[s] \in WriteType /\ End(s)' = End(s)
      BY <1>1, <1>5, <2>1 DEF End
    <3>2. /\ writes[s].done < writes[s].len
          /\ End(s) <= written + Reserve /\ End(s) <= MaxUnits
          /\ \A i \in 0 .. writes[s].len - 1 : pool[s][i] = writes[s].off + i
      BY <2>1, <3>1 DEF IInv, Buffers
    <3>3. End(s) \in Nat /\ written + Reserve \in Nat
      BY <1>1, <3>1 DEF End, WriteType, Reserve
    <3>4. End(s) <= limit
      BY <1>d, <3>2, <3>3
    <3>5. pool'[s] = pool[s]
      BY <1>2
    <3> QED
      BY <1>d, <3>1, <3>2, <3>4, <3>5
  <2>2. /\ writes'[t].done < writes'[t].len
        /\ End(t)' = written + n
        /\ \A i \in 0 .. writes'[t].len - 1 : pool'[t][i] = writes'[t].off + i
    BY <1>1, <1>2, <1>5, <1>c DEF End
  <2> QED
    BY <1>1, <1>2, <1>d, <2>1, <2>2 DEF Buffers, None
<1>10. Disk'
  <2>1. ASSUME NEW u \in Units, u < written' PROVE file[u] = u \/ Awaited(u)'
    <3>1. u \in Nat
      BY <1>1 DEF Units
    <3>2. CASE u < written
      <4>1. CASE file[u] = u
        BY <4>1
      <4>2. CASE file[u] # u
        <5>1. PICK s \in Slots : writes[s].busy /\ u \in Missing(writes[s])
          BY <3>2, <4>2 DEF IInv, Disk, Awaited
        <5>2. writes'[s] = writes[s]
          BY <1>1, <1>5, <5>1
        <5> QED
          BY <5>1, <5>2 DEF Awaited
      <4> QED
        BY <4>1, <4>2
    <3>3. CASE u >= written
      <4>1. u \in written .. written + n - 1
        BY <1>1, <1>3, <2>1, <3>1, <3>3
      <4>2. u \in Missing(started)
        BY <1>1, <1>c, <4>1 DEF Missing
      <4>3. t \in Slots /\ writes'[t] = started /\ started.busy
        BY <1>1, <1>5, <1>c
      <4> QED
        BY <4>2, <4>3 DEF Awaited
    <3> QED
      BY <1>1, <3>1, <3>2, <3>3
  <2>2. ~refused' => ~refused
    BY <1>3
  <2>3. fileLen \in Nat
    BY DEF IInv, TypeOK
  <2> QED
    BY <1>1, <1>2, <1>6, <2>1, <2>2, <2>3 DEF IInv, Disk
<1> QED
  BY <1>1, <1>2, <1>4, <1>7, <1>8, <1>9, <1>10 DEF IInv, Calls, Quiet

\* The file after a synchronous transfer of the lent buffer's first m units:
\* accepted, or left behind by a submit() that threw.
LEMMA SyncPlaces ==
  ASSUME IInv, NEW n \in 1 .. BufferSize, SubmitCall(n), NEW m \in 0 .. n,
         PutUnits(owned, 0, written, m)
  PROVE  Placed(written, m)
<1>1. /\ owned \in Slots /\ written \in Nat /\ written + m <= MaxUnits /\ m \in Nat
      /\ 0 \in Nat
      /\ \A i \in 0 .. m - 1 : pool[owned][0 + i] = written + i
  BY SubmitFacts
<1> QED
  BY <1>1, PutPlaces DEF IInv

\* What a synchronous submit() leaves of the invariant: the engine did not
\* move, and the file only gained units that are where they belong.
LEMMA SubmitSyncFrame ==
  ASSUME IInv, NEW n \in 1 .. BufferSize, SubmitSync(n)
  PROVE  /\ RingInv' /\ PendingOps' = PendingOps /\ cq' = cq /\ writes' = writes
         /\ pool' = pool /\ prealloc' = prealloc /\ outstanding' \in Nat
         /\ \A u \in Units : file'[u] \in {u, file[u]} /\ file'[u] \in {u, Hole}
         /\ \A u \in Units : file'[u] = u => u < fileLen'
         /\ file' \in [Units -> Nat \cup {Hole}] /\ fileLen' \in 0 .. MaxUnits
         /\ \/ /\ written' = written + n /\ nextSlot' = (owned + 1) % QD
               /\ finished' = FALSE /\ owned' = None
               /\ refused' = refused /\ broken' = broken
               /\ \A u \in Units : u \in written .. written + n - 1 => file'[u] = u
               /\ fileLen' \in {fileLen, written + n}
            \/ /\ written' = written /\ nextSlot' = nextSlot
               /\ finished' = finished /\ owned' = owned
               /\ refused' = TRUE /\ broken' = TRUE
<1>1. SubmitCall(n) /\ UNCHANGED ringVars
  BY DEF SubmitSync
<1>2. RingInv' /\ PendingOps' = PendingOps /\ cq' = cq /\ outstanding' \in Nat
  BY <1>1, RingUnchanged, RingCount DEF IInv
<1>3. n \in 0 .. n /\ n \in Nat /\ written \in Nat
  BY <1>1, SubmitFacts
<1>4. CASE PutUnits(owned, 0, written, n) /\ Advance(n) /\ finished' = FALSE
             /\ owned' = None /\ UNCHANGED <<refused, broken>>
  <2>1. /\ file' \in [Units -> Nat \cup {Hole}] /\ fileLen' \in 0 .. MaxUnits
        /\ file' = [u \in Units |-> IF u \in written .. written + n - 1
                                    THEN u ELSE file[u]]
        /\ \A u \in Units : file'[u] \in {u, file[u]} /\ file'[u] \in {u, Hole}
        /\ \A u \in Units : file'[u] = u => u < fileLen'
        /\ fileLen' = (IF fileLen < written + n THEN written + n ELSE fileLen)
    <3>1. Placed(written, n)
      BY <1>1, <1>3, <1>4, SyncPlaces
    <3> QED
      BY <3>1 DEF Placed
  <2>2. \A u \in Units : u \in written .. written + n - 1 => file'[u] = u
    BY <2>1
  <2> QED
    BY <1>2, <1>4, <2>1, <2>2 DEF SubmitSync, Advance
<1>5. CASE \E put \in 0 .. n - 1 :
             IF put = 0 THEN UNCHANGED diskVars ELSE PutUnits(owned, 0, written, put)
  <2>1. /\ file' \in [Units -> Nat \cup {Hole}] /\ fileLen' \in 0 .. MaxUnits
        /\ \A u \in Units : file'[u] \in {u, file[u]} /\ file'[u] \in {u, Hole}
        /\ \A u \in Units : file'[u] = u => u < fileLen'
    <3>1. PICK put \in 0 .. n - 1 :
            IF put = 0 THEN UNCHANGED diskVars ELSE PutUnits(owned, 0, written, put)
      BY <1>5
    <3>2. CASE put = 0
      BY <3>1, <3>2 DEF IInv, TypeOK, Disk, diskVars
    <3>3. CASE put # 0
      <4>1. put \in 0 .. n
        BY <1>3
      <4>2. Placed(written, put)
        BY <1>1, <3>1, <3>3, <4>1, SyncPlaces
      <4> QED
        BY <4>2 DEF Placed
    <3> QED
      BY <3>2, <3>3
  <2>2. CASE refused' = TRUE /\ broken' = TRUE /\ UNCHANGED <<written, nextSlot, finished, owned>>
    BY <1>2, <2>1, <2>2 DEF SubmitSync
  <2> QED
    BY <1>2, <1>4, <2>1, <2>2 DEF SubmitSync
<1> QED
  BY <1>4, <1>5 DEF SubmitSync

LEMMA SubmitSyncSound ==
  ASSUME IInv, NEW n \in 1 .. BufferSize, SubmitSync(n)
  PROVE  IInv'
<1>1. /\ owned \in Slots /\ n \in Nat /\ written \in Nat /\ written + n <= MaxUnits
      /\ BufferSize \in Nat /\ MaxUnits \in Nat
      /\ writes \in [Slots -> WriteType] /\ (owned + 1) % QD \in Slots
      /\ tail' \in BOOLEAN /\ pc = "idle"
  BY SubmitFacts DEF SubmitSync
<1>2. /\ RingInv' /\ PendingOps' = PendingOps /\ cq' = cq /\ writes' = writes
      /\ pool' = pool /\ prealloc' = prealloc /\ outstanding' \in Nat
      /\ \A u \in Units : file'[u] \in {u, file[u]} /\ file'[u] \in {u, Hole}
      /\ \A u \in Units : file'[u] = u => u < fileLen'
      /\ file' \in [Units -> Nat \cup {Hole}] /\ fileLen' \in 0 .. MaxUnits
  BY SubmitSyncFrame
<1>3. \/ /\ written' = written + n /\ nextSlot' = (owned + 1) % QD
         /\ finished' = FALSE /\ owned' = None
         /\ refused' = refused /\ broken' = broken
         /\ \A u \in Units : u \in written .. written + n - 1 => file'[u] = u
         /\ fileLen' \in {fileLen, written + n}
      \/ /\ written' = written /\ nextSlot' = nextSlot
         /\ finished' = finished /\ owned' = owned
         /\ refused' = TRUE /\ broken' = TRUE
  BY SubmitSyncFrame
<1>4. /\ useUring' = useUring /\ pc' = pc /\ target' = target /\ abandoned' = abandoned
  BY DEF SubmitSync
<1>5. written' \in 0 .. MaxUnits /\ written <= written'
  BY <1>1, <1>3 DEF IInv, TypeOK
<1>6. TypeOK'
  <2>1. nextSlot' \in Slots /\ {finished', refused', broken'} \subseteq BOOLEAN
    BY <1>1, <1>3 DEF IInv, TypeOK
  <2>2. owned' \in Slots \cup {None}
    BY <1>1, <1>3
  <2> QED
    BY <1>1, <1>2, <1>4, <1>5, <2>1, <2>2 DEF IInv, TypeOK
<1>7. Requests'
  <2>1. \A op \in PendingOps' : OpMatches(op)'
    BY <1>2, OpStable DEF IInv, Requests
  <2>2. \A c \in cq : InFile(c.op.off, c.res)'
    BY <1>2, InFileGrows DEF IInv
  <2> QED
    BY <1>2, <2>1, <2>2 DEF IInv, Requests
<1>8. Buffers'
  <2>1. PICK limit \in Nat : limit = written' + Reserve' /\ written + Reserve <= limit
    BY <1>1, <1>3 DEF Reserve
  <2>2. ASSUME NEW s \in Slots, writes[s].busy
        PROVE  End(s) <= limit
    <3>1. End(s) \in Nat /\ written + Reserve \in Nat
      BY <1>1 DEF End, WriteType, Reserve
    <3>2. End(s) <= written + Reserve
      BY <2>2 DEF IInv, Buffers
    <3> QED
      BY <2>1, <3>1, <3>2
  <2>3. \A s \in Slots : End(s)' = End(s)
    BY <1>2 DEF End
  <2>4. owned' # None => owned' = owned /\ written' = written
    BY <1>3
  <2> QED
    BY <1>2, <2>1, <2>2, <2>3, <2>4 DEF IInv, Buffers
<1>9. Disk'
  <2>1. ASSUME NEW u \in Units, u < written' PROVE file'[u] = u \/ Awaited(u)'
    <3>1. u \in Nat
      BY <1>1 DEF Units
    <3>2. CASE u < written
      BY <1>2, <3>2 DEF IInv, Disk, Awaited
    <3>3. CASE u >= written
      BY <1>1, <1>3, <2>1, <3>1, <3>3
    <3> QED
      BY <1>1, <3>1, <3>2, <3>3
  <2>2. ~refused' => fileLen' <= prealloc' \/ fileLen' <= written'
    <3>1. SUFFICES ASSUME ~refused' PROVE fileLen' <= prealloc \/ fileLen' <= written'
      BY <1>2
    <3>2. fileLen \in Nat /\ prealloc \in Nat /\ (fileLen <= prealloc \/ fileLen <= written)
      BY <1>3, <3>1 DEF IInv, Disk, TypeOK
    <3> QED
      BY <1>1, <1>3, <1>5, <3>1, <3>2
  <2> QED
    BY <1>2, <2>1, <2>2 DEF Disk
<1> QED
  BY <1>1, <1>2, <1>4, <1>6, <1>7, <1>8, <1>9 DEF IInv, Calls, Quiet

-----------------------------------------------------------------------------
(* wait_slot() and reap_one() *)

\* Progress of the write whose completion c is reaped: the units it claims
\* are in the file, so only what is still missing stays awaited.
LEMMA ProgressSound ==
  ASSUME TypeOK, Requests, Buffers, Disk, Calls, NEW c \in cq, c.res > 0,
         NEW s, s = c.op.slot,
         NEW left \in BOOLEAN, left <=> Done(c) < writes[s].len,
         writes' = [writes EXCEPT ![s] = [@ EXCEPT !.done = Done(c), !.busy = left]],
         UNCHANGED <<pool, owned, written, refused, file, fileLen, prealloc>>
  PROVE  /\ writes' \in [Slots -> WriteType]
         /\ s \in Slots /\ writes'[s].busy = left
         /\ writes'[s].off = writes[s].off /\ writes'[s].len = writes[s].len
         /\ writes'[s].done = Done(c)
         /\ \A t \in Slots \ {s} : writes'[t] = writes[t]
         /\ \A t \in Slots : writes'[t].busy => writes[t].busy
         /\ Buffers' /\ Disk'
<1>1. OpMatches(c.op) /\ InFile(c.op.off, c.res) /\ c.res \in Int /\ c.res <= c.op.len
  BY DEF Requests, PendingOps, Completed
<1>2. PICK w : w = writes[s]
  OBVIOUS
<1>3. /\ s \in Slots /\ w \in WriteType /\ w.busy
      /\ c.op.off = w.off + w.done /\ c.op.len = w.len - w.done
      /\ w.off \in Nat /\ w.done \in Nat /\ w.len \in Nat
  BY <1>1, <1>2, OpFacts
<1>4. PICK d : d = Done(c)
  OBVIOUS
<1>5. d = w.done + c.res /\ d \in Nat /\ w.done < d /\ d <= w.len
  BY <1>1, <1>2, <1>3, <1>4 DEF Done
<1>6. PICK v : v = [w EXCEPT !.done = d, !.busy = left]
  OBVIOUS
<1>7. v \in WriteType /\ v.off = w.off /\ v.len = w.len /\ v.done = d /\ v.busy = left
  <2>1. d \in 0 .. BufferSize
    BY <1>3, <1>5, BufferAssumption DEF WriteType
  <2>2. left \in BOOLEAN
    OBVIOUS
  <2> QED
    BY <1>3, <1>6, <2>1, <2>2 DEF WriteType
<1>8. writes \in [Slots -> WriteType] /\ writes' = [writes EXCEPT ![s] = v]
  BY <1>2, <1>4, <1>6 DEF TypeOK, WriteType
<1>9. /\ writes' \in [Slots -> WriteType] /\ writes'[s] = v
      /\ \A t \in Slots \ {s} : writes'[t] = writes[t]
  BY <1>3, <1>7, <1>8
<1>10. /\ \A t \in Slots : writes'[t].busy => writes[t].busy
       /\ \A t \in Slots : writes'[t].off = writes[t].off /\ writes'[t].len = writes[t].len
  BY <1>2, <1>3, <1>7, <1>9
<1>11. (left => d < w.len) /\ (d < w.len => left)
  BY <1>2, <1>4
<1>12. Buffers'
  <2>1. ASSUME NEW t \in Slots, writes'[t].busy
        PROVE  /\ writes'[t].done < writes'[t].len
               /\ End(t)' <= (written + Reserve)' /\ End(t)' <= MaxUnits
               /\ \A i \in 0 .. writes'[t].len - 1 : pool'[t][i] = writes'[t].off + i
    <3>1. writes'[t].done < writes'[t].len
      <4>1. CASE t = s
        BY <1>7, <1>9, <1>11, <2>1, <4>1
      <4>2. CASE t # s
        BY <1>9, <2>1, <4>2 DEF Buffers
      <4> QED
        BY <4>1, <4>2
    <3>2. End(t)' = End(t) /\ (written + Reserve)' = written + Reserve
      BY <1>10 DEF End, Reserve
    <3>3. /\ End(t) <= written + Reserve /\ End(t) <= MaxUnits
          /\ \A i \in 0 .. writes[t].len - 1 : pool[t][i] = writes[t].off + i
      BY <1>10, <2>1 DEF Buffers
    <3> QED
      BY <1>10, <3>1, <3>2, <3>3
  <2>2. owned' # None => ~writes'[owned].busy /\ owned \in Slots
    BY <1>10 DEF Buffers, TypeOK
  <2> QED
    BY <2>1, <2>2 DEF Buffers
<1>13. Disk'
  <2>1. ASSUME NEW u \in Units, u < written PROVE file[u] = u \/ Awaited(u)'
    <3>1. SUFFICES ASSUME file[u] # u PROVE Awaited(u)'
      OBVIOUS
    <3>2. PICK t \in Slots : writes[t].busy /\ u \in Missing(writes[t])
      BY <2>1, <3>1 DEF Disk, Awaited
    <3>3. CASE t # s
      BY <1>9, <3>2, <3>3 DEF Awaited
    <3>4. CASE t = s
      <4>1. u \in w.off + w.done .. w.off + w.len - 1 /\ u \in Int
        BY <1>2, <1>3, <3>2, <3>4 DEF Missing
      <4>2. u \notin c.op.off .. c.op.off + c.res - 1
        BY <1>1, <3>1 DEF InFile
      <4>3. u >= w.off + d
        BY <1>1, <1>3, <1>5, <4>1, <4>2
      <4>4. u \in w.off + d .. w.off + w.len - 1 /\ d < w.len
        BY <1>3, <1>5, <4>1, <4>3
      <4>5. writes'[s].busy /\ writes'[s] = v
        BY <1>7, <1>9, <1>11, <4>4
      <4>6. u \in Missing(v)
        BY <1>7, <4>4 DEF Missing
      <4> QED
        BY <1>3, <4>5, <4>6 DEF Awaited
    <3> QED
      BY <3>3, <3>4
  <2> QED
    BY <2>1 DEF Disk
<1> QED
  BY <1>2, <1>3, <1>4, <1>7, <1>9, <1>10, <1>12, <1>13

\* Leaving by an exception goes where the call was made from.
LEMMA ThrowStates == Throw => pc' = "idle" \/ pc' = "drain"
BY DEF Throw

\* A completion that carried units: the slot is idle, or the rest is issued.
LEMMA ReapOneSound ==
  ASSUME IInv, NEW c \in cq, ReapOne(c)
  PROVE  IInv'
<1>1. PICK s : s = c.op.slot
  OBVIOUS
<1>2. PICK left \in BOOLEAN : left <=> Done(c) < writes[s].len
  <2>1. (TRUE <=> Done(c) < writes[s].len) \/ (FALSE <=> Done(c) < writes[s].len)
    OBVIOUS
  <2> QED
    BY <2>1
<1>3. PICK rest : rest = WriteOp(s, writes[s].off, writes[s].len, Done(c))
  OBVIOUS
<1>4. c.res > 0 /\ UNCHANGED <<pool, owned, written, refused, file, fileLen, prealloc>>
  BY DEF ReapOne, engineVars, diskVars
<1>5. /\ OpMatches(c.op) /\ c.res \in Int /\ c.res <= c.op.len
      /\ s \in Slots /\ writes[s].busy /\ c.op.len = writes[s].len - writes[s].done
      /\ writes[s].len \in Nat /\ writes[s].done \in Nat
  <2>1. OpMatches(c.op) /\ c.res \in Int /\ c.res <= c.op.len
    BY DEF IInv, Requests, PendingOps, Completed
  <2> QED
    BY <1>1, <2>1, OpFacts DEF IInv
<1>6. Done(c) \in Nat
  BY <1>1, <1>4, <1>5 DEF Done
<1>7. \/ /\ ~left /\ Reap(c) /\ UNCHANGED <<pc, broken>>
         /\ writes' = [writes EXCEPT ![s] = [@ EXCEPT !.done = Done(c), !.busy = left]]
      \/ /\ left
         /\ writes' = [writes EXCEPT ![s] = [@ EXCEPT !.done = Done(c), !.busy = left]]
         /\ \/ Submit(rest, {c}) /\ UNCHANGED <<pc, broken>>
            \/ SubmitFails(rest, {c}) /\ Throw /\ broken' = TRUE
  <2>1. CASE /\ Done(c) >= writes[s].len
             /\ writes' = [writes EXCEPT ![s].done = Done(c), ![s].busy = FALSE]
             /\ Reap(c) /\ UNCHANGED <<pc, broken>>
    <3>1. ~(Done(c) < writes[s].len)
      BY <1>5, <1>6, <2>1
    <3>3. left = FALSE
      BY <1>2, <3>1
    <3>2. writes' = [writes EXCEPT ![s] = [@ EXCEPT !.done = Done(c), !.busy = FALSE]]
      BY <1>5, <2>1 DEF IInv, TypeOK
    <3> QED
      BY <2>1, <3>2, <3>3
  <2>2. CASE /\ Done(c) < writes[s].len
             /\ writes' = [writes EXCEPT ![s].done = Done(c)]
             /\ \/ Submit(rest, {c}) /\ UNCHANGED <<pc, broken>>
                \/ SubmitFails(rest, {c}) /\ Throw /\ broken' = TRUE
    <3>1. left = TRUE
      BY <1>2, <2>2
    <3>2. writes' = [writes EXCEPT ![s] = [@ EXCEPT !.done = Done(c), !.busy = TRUE]]
      <4>1. writes[s] \in WriteType /\ writes[s].busy = TRUE
        BY <1>5 DEF IInv, TypeOK, WriteType
      <4>2. [writes[s] EXCEPT !.done = Done(c)]
              = [writes[s] EXCEPT !.done = Done(c), !.busy = TRUE]
        BY <4>1 DEF WriteType
      <4> QED
        BY <1>5, <2>2, <4>2
    <3> QED
      BY <2>2, <3>1, <3>2
  <2> QED
    BY <1>1, <1>3, <2>1, <2>2 DEF ReapOne
<1>8. /\ writes' \in [Slots -> WriteType] /\ writes'[s].busy = left
      /\ writes'[s].off = writes[s].off /\ writes'[s].len = writes[s].len
      /\ writes'[s].done = Done(c)
      /\ \A t \in Slots \ {s} : writes'[t] = writes[t]
      /\ \A t \in Slots : writes'[t].busy => writes[t].busy
      /\ Buffers' /\ Disk'
  BY <1>1, <1>2, <1>4, <1>7, ProgressSound DEF IInv
<1>9. /\ \A q \in Remaining({c}) : q.slot # s
      /\ Remaining({c}) \subseteq PendingOps /\ {c} \in SUBSET cq
  BY <1>1, ReapFreesSlot DEF IInv
<1>10. /\ RingInv' /\ cq' = cq \ {c}
       /\ PendingOps' = Remaining({c}) \cup (IF left THEN {rest} ELSE {})
  <2>1. CASE ~left
    <3>1. Reap(c)
      BY <1>7, <2>1
    <3> QED
      BY <2>1, <3>1, ReapSound DEF Reap, IInv
  <2>2. CASE left
    <3>1. Submit(rest, {c}) \/ SubmitFails(rest, {c})
      BY <1>7, <2>2
    <3>2. rest.slot = s
      BY <1>3 DEF WriteOp
    <3> QED
      BY <1>9, <2>2, <3>1, <3>2, SubmitSound DEF IInv
  <2> QED
    BY <2>1, <2>2
<1>11. pc' \in {pc, "idle", "drain"} /\ broken' \in BOOLEAN /\ pc \in States
  BY <1>7, ThrowStates DEF IInv, TypeOK
<1>12. TypeOK'
  BY <1>4, <1>8, <1>10, <1>11, RingCount
  DEF IInv, TypeOK, WriteType, ReapOne, engineVars, States
<1>13. Requests'
  <2>1. ASSUME NEW op \in Remaining({c}) PROVE OpMatches(op)'
    BY <1>8, <1>9, <2>1, OpStable DEF IInv, Requests, OpMatches
  <2>2. left => OpMatches(rest)'
    BY <1>3, <1>5, <1>8 DEF OpMatches, WriteOp
  <2>3. \A op \in PendingOps' : OpMatches(op)'
    BY <1>10, <2>1, <2>2
  <2>4. \A d \in cq' : d.res \in Int /\ d.res <= d.op.len /\ InFile(d.op.off, d.res)'
    BY <1>4, <1>10 DEF IInv, Requests, InFile
  <2> QED
    BY <2>3, <2>4 DEF Requests
<1>14. Calls' /\ Quiet'
  BY <1>8, <1>11 DEF IInv, Calls, Quiet, ReapOne, InWait
<1> QED
  BY <1>8, <1>10, <1>12, <1>13, <1>14 DEF IInv

\* Taking requests off the ring disturbs neither buffers nor file.
LEMMA FewerRequests ==
  ASSUME Requests, Buffers, Disk,
         UNCHANGED <<writes, pool, owned, written, refused, file, fileLen, prealloc>>,
         PendingOps' \subseteq PendingOps, cq' \subseteq cq
  PROVE  Requests' /\ Buffers' /\ Disk'
<1>1. \A op \in PendingOps' : OpMatches(op)'
  BY OpStable DEF Requests
<1>2. Requests'
  BY <1>1 DEF Requests, InFile
<1> QED
  BY <1>2 DEF Buffers, Disk, Awaited, End, Reserve

\* A failed completion: its request is gone and its slot stays busy.
LEMMA ReapOneThrowsSound ==
  ASSUME IInv, NEW c \in cq, ReapOneThrows(c)
  PROVE  IInv'
<1>1. RingInv' /\ PendingOps' \subseteq PendingOps /\ cq' \subseteq cq
  BY ReapSound, ReapFreesSlot DEF IInv, ReapOneThrows, Reap
<1>2. Requests' /\ Buffers' /\ Disk'
  BY <1>1, FewerRequests DEF IInv, ReapOneThrows, engineVars, diskVars
<1>3. pc' \in {"idle", "drain"}
  BY ThrowStates DEF ReapOneThrows
<1>4. TypeOK'
  BY <1>1, <1>3, RingCount DEF IInv, TypeOK, ReapOneThrows, engineVars, diskVars, States
<1> QED
  BY <1>1, <1>2, <1>3, <1>4 DEF IInv, Calls, Quiet

\* A round of drain() drops completions and nothing else.
LEMMA DrainSoundWriter == IInv /\ Drain => IInv'
<1> SUFFICES ASSUME IInv, Drain PROVE IInv'
  OBVIOUS
<1>1. RingInv' /\ PendingOps' \subseteq PendingOps /\ cq' \subseteq cq
  BY DrainSound DEF IInv, Drain, DrainRound, PendingOps
<1>2. Requests' /\ Buffers' /\ Disk'
  BY <1>1, FewerRequests DEF IInv, Drain, engineVars, diskVars
<1>3. TypeOK'
  BY <1>1, RingCount DEF IInv, TypeOK, Drain, engineVars, diskVars
<1> QED
  BY <1>1, <1>2, <1>3 DEF IInv, Calls, Quiet, Drain

-----------------------------------------------------------------------------
(* finish() *)

\* At the end of finish() every slot is idle, so every accepted unit is in
\* the file and nothing is pending.
LEMMA FinishFacts ==
  ASSUME IInv, pc \in {"finish", "destroy"}, ~writes[target].busy, target = QD - 1
  PROVE  /\ \A s \in Slots : ~writes[s].busy
         /\ PendingOps = {} /\ cq = {}
         /\ \A u \in Units : u < written => file[u] = u
         /\ \A u \in Units : file[u] \in {u, Hole} /\ (file[u] = u => u < fileLen)
         /\ written <= fileLen
         /\ written \in 0 .. MaxUnits /\ fileLen \in 0 .. MaxUnits
         /\ prealloc \in 0 .. MaxUnits /\ MaxUnits \in Nat
<1>1. \A s \in Slots : ~writes[s].busy
  <2>1. ASSUME NEW s \in Slots PROVE ~writes[s].busy
    <3>1. s < target \/ s = target
      BY QDAssumption DEF Slots
    <3> QED
      BY <3>1 DEF IInv, Calls
  <2> QED
    BY <2>1
<1>2. PendingOps = {}
  BY <1>1 DEF IInv, Requests, OpMatches
<1>3. cq = {}
  BY <1>2 DEF PendingOps, Completed
<1>4. \A u \in Units : u < written => file[u] = u
  BY <1>1 DEF IInv, Disk, Awaited
<1>5. /\ written \in 0 .. MaxUnits /\ fileLen \in 0 .. MaxUnits
      /\ prealloc \in 0 .. MaxUnits /\ MaxUnits \in Nat
  BY BufferAssumption DEF IInv, TypeOK
<1>6. written <= fileLen
  <2>1. CASE written = 0
    BY <1>5, <2>1
  <2>2. CASE written # 0
    <3>1. written - 1 \in Units /\ written - 1 < written
      BY <1>5, <2>2 DEF Units
    <3>2. written - 1 < fileLen
      BY <1>4, <3>1 DEF IInv, Disk
    <3> QED
      BY <1>5, <3>2
  <2> QED
    BY <2>1, <2>2
<1> QED
  BY <1>1, <1>2, <1>3, <1>4, <1>5, <1>6 DEF IInv, Disk

\* Trimming takes only what lies beyond the accepted units.
LEMMA FinishTrimsSound == IInv /\ FinishTrims => IInv'
<1> SUFFICES ASSUME IInv, FinishTrims PROVE IInv'
  OBVIOUS
<1>1. /\ \A s \in Slots : ~writes[s].busy
      /\ PendingOps = {} /\ cq = {}
      /\ \A u \in Units : u < written => file[u] = u
      /\ \A u \in Units : file[u] \in {u, Hole} /\ (file[u] = u => u < fileLen)
      /\ written \in 0 .. MaxUnits /\ fileLen \in 0 .. MaxUnits
      /\ prealloc \in 0 .. MaxUnits /\ MaxUnits \in Nat
  BY FinishFacts DEF FinishTrims
<1>2. RingInv' /\ PendingOps' = PendingOps /\ cq' = cq
  BY RingUnchanged DEF IInv, FinishTrims
<1>3. /\ writes' = writes /\ pool' = pool /\ owned' = owned /\ written' = written
      /\ refused' = refused
  BY DEF FinishTrims, engineVars
<1>4. Requests' /\ Buffers'
  BY <1>1, <1>2, <1>3 DEF Requests, IInv, Buffers, End, Reserve
<1>5. pc' \in {"drain", "idle"}
  BY DEF FinishTrims
<1>6. /\ file' \in [Units -> Nat \cup {Hole}] /\ fileLen' \in 0 .. MaxUnits
      /\ prealloc' \in 0 .. MaxUnits /\ finished' \in BOOLEAN
      /\ Disk'
  <2>1. CASE prealloc > written /\ Truncate(written) /\ prealloc' = 0 /\ finished' = TRUE
    <3>1. /\ fileLen' = written
          /\ file' = [u \in Units |-> IF u < written THEN file[u] ELSE Hole]
      BY <2>1 DEF Truncate
    <3>2. \A u \in Units : file'[u] = IF u < written THEN u ELSE Hole
      BY <1>1, <3>1
    <3>3. file' \in [Units -> Nat \cup {Hole}] /\ \A u \in Units : u # Hole
      BY <1>1, <3>1 DEF Units, Hole
    <3>4. Disk'
      BY <1>1, <1>3, <3>1, <3>2, <3>3 DEF Disk
    <3> QED
      BY <1>1, <2>1, <3>1, <3>3, <3>4
  <2>2. CASE prealloc <= written /\ UNCHANGED diskVars /\ prealloc' = 0 /\ finished' = TRUE
    <3>1. ~refused => fileLen <= written
      BY <1>1, <2>2 DEF IInv, Disk
    <3>2. Disk'
      BY <1>1, <1>3, <2>2, <3>1 DEF Disk, diskVars
    <3> QED
      BY <1>1, <2>2, <3>2 DEF diskVars, IInv, TypeOK
  <2>3. CASE UNCHANGED <<diskVars, prealloc, finished>>
    BY <1>3, <2>3 DEF IInv, TypeOK, diskVars, Disk, Awaited
  <2>4. prealloc > written \/ prealloc <= written
    BY <1>1
  <2> QED
    BY <2>1, <2>2, <2>3, <2>4 DEF FinishTrims
<1>7. TypeOK'
  BY <1>2, <1>3, <1>5, <1>6, RingCount
  DEF IInv, TypeOK, FinishTrims, engineVars, States
<1> QED
  BY <1>2, <1>4, <1>5, <1>6, <1>7 DEF IInv, Calls, Quiet

-----------------------------------------------------------------------------
(* The kernel *)

\* A completion moves a request along; the process sees no other change.
LEMMA KernelFrame ==
  ASSUME IInv, NEW op \in flight, Kernel(op)
  PROVE  /\ UNCHANGED <<useUring, prealloc, pc, target, engineVars, writes, pool, owned,
                        finished, refused, broken, abandoned>>
         /\ RingInv' /\ PendingOps' = PendingOps /\ flight' \subseteq flight
         /\ outstanding' \in Nat /\ OpMatches(op)
<1>1. PICK res : Complete(op, res)
  BY DEF Kernel, KernelWrites, KernelFails
<1>2. RingInv' /\ PendingOps' = PendingOps /\ flight' \subseteq flight
  BY <1>1, CompleteSound DEF IInv, Complete
<1>3. OpMatches(op)
  BY DEF IInv, Requests, PendingOps
<1> QED
  BY <1>2, <1>3, RingCount DEF Kernel, KernelWrites, KernelFails

\* Units reach the file where the request says, from a buffer that still
\* holds them.
LEMMA KernelWritesPlaces ==
  ASSUME IInv, NEW op \in flight, NEW n \in 1 .. op.len, KernelWrites(op, n)
  PROVE  /\ op.off \in Nat /\ n \in Nat /\ n > 0 /\ n <= op.len
         /\ op.off + n <= End(op.slot) /\ End(op.slot) <= MaxUnits /\ End(op.slot) \in Nat
         /\ End(op.slot) <= written + Reserve
         /\ file' = [u \in Units |-> IF u \in op.off .. op.off + n - 1 THEN u ELSE file[u]]
         /\ file' \in [Units -> Nat \cup {Hole}]
         /\ \A u \in Units : file'[u] \in {u, file[u]} /\ file'[u] \in {u, Hole}
         /\ fileLen' = (IF fileLen < op.off + n THEN op.off + n ELSE fileLen)
         /\ fileLen' \in 0 .. MaxUnits
         /\ \A u \in Units : file'[u] = u => u < fileLen'
<1>1. Kernel(op)
  BY DEF Kernel
<1>2. /\ op.slot \in Slots /\ writes[op.slot].busy
      /\ op.at \in Nat /\ op.off \in Nat /\ op.len \in Nat \ {0}
      /\ op.off + op.len = End(op.slot)
      /\ \A i \in 0 .. op.len - 1 : pool[op.slot][op.at + i] = op.off + i
  BY <1>1, KernelFrame, OpFacts DEF IInv
<1>3. End(op.slot) <= MaxUnits /\ MaxUnits \in Nat /\ End(op.slot) <= written + Reserve
  BY <1>2, BufferAssumption DEF IInv, Buffers
<1>4. /\ n \in Nat /\ n > 0 /\ n <= op.len /\ op.off + n <= MaxUnits
      /\ op.off + n <= End(op.slot) /\ End(op.slot) \in Nat
  BY <1>2, <1>3
<1>5. \A i \in 0 .. n - 1 : pool[op.slot][op.at + i] = op.off + i
  BY <1>2, <1>4
<1>6. PutUnits(op.slot, op.at, op.off, n)
  BY DEF KernelWrites
<1>7. PICK s, at, off : s = op.slot /\ at = op.at /\ off = op.off
  OBVIOUS
<1>8. /\ s \in Slots /\ at \in Nat /\ off \in Nat /\ n \in Nat /\ off + n <= MaxUnits
      /\ \A i \in 0 .. n - 1 : pool[s][at + i] = off + i
      /\ PutUnits(s, at, off, n)
  BY <1>2, <1>4, <1>5, <1>6, <1>7
<1>9. /\ file' = [u \in Units |-> IF u \in off .. off + n - 1 THEN u ELSE file[u]]
      /\ file' \in [Units -> Nat \cup {Hole}]
      /\ \A u \in Units : file'[u] \in {u, file[u]} /\ file'[u] \in {u, Hole}
      /\ fileLen' = (IF fileLen < off + n THEN off + n ELSE fileLen)
      /\ fileLen' \in 0 .. MaxUnits
      /\ \A u \in Units : file'[u] = u => u < fileLen'
  <2>1. Placed(off, n)
    BY <1>8, PutPlaces DEF IInv
  <2> QED
    BY <2>1 DEF Placed
<1> QED
  BY <1>2, <1>3, <1>4, <1>7, <1>9

LEMMA KernelSound ==
  ASSUME IInv, NEW op \in flight, Kernel(op)
  PROVE  IInv'
<1>1. /\ UNCHANGED <<useUring, prealloc, pc, target, engineVars, writes, pool, owned,
                     finished, refused, broken, abandoned>>
      /\ RingInv' /\ PendingOps' = PendingOps /\ flight' \subseteq flight
      /\ outstanding' \in Nat
  BY KernelFrame
<1>2. CASE KernelFails(op)
  <2>1. PICK res \in {-1, 0} : cq' = cq \cup {[op |-> op, res |-> res]}
    BY <1>2 DEF KernelFails, Complete
  <2>2. op.off \in Nat /\ op.len \in Nat \ {0}
    BY KernelFrame, OpFacts DEF IInv
  <2>3. PICK c : c = [op |-> op, res |-> res]
    OBVIOUS
  <2>4. c.op = op /\ c.res = res /\ cq' = cq \cup {c}
    BY <2>1, <2>3
  <2>5. InFile(op.off, res)'
    BY <2>1, <2>2 DEF InFile
  <2>6. c.res \in Int /\ c.res <= c.op.len /\ InFile(c.op.off, c.res)'
    BY <2>1, <2>2, <2>4, <2>5
  <2>7. UNCHANGED diskVars
    BY <1>2 DEF KernelFails
  <2>8. Requests'
    <3>1. \A o \in PendingOps' : OpMatches(o)'
      BY <1>1, OpStable DEF IInv, Requests
    <3>2. \A d \in cq : d.res \in Int /\ d.res <= d.op.len /\ InFile(d.op.off, d.res)'
      BY <2>7 DEF IInv, Requests, InFile, diskVars
    <3> QED
      BY <2>4, <2>6, <3>1, <3>2 DEF Requests
  <2>9. TypeOK' /\ Buffers' /\ Disk'
    BY <1>1, <2>7
    DEF IInv, TypeOK, engineVars, diskVars, Buffers, Disk, Awaited, End, Reserve
  <2> QED
    BY <1>1, <2>8, <2>9 DEF IInv, Calls, Quiet
<1>3. ASSUME NEW n \in 1 .. op.len, KernelWrites(op, n)
      PROVE  IInv'
  <2>1. /\ op.off \in Nat /\ n \in Nat /\ n > 0 /\ n <= op.len
        /\ op.off + n <= End(op.slot) /\ End(op.slot) <= MaxUnits /\ End(op.slot) \in Nat
        /\ End(op.slot) <= written + Reserve
        /\ file' = [u \in Units |-> IF u \in op.off .. op.off + n - 1 THEN u ELSE file[u]]
        /\ file' \in [Units -> Nat \cup {Hole}]
        /\ \A u \in Units : file'[u] \in {u, file[u]} /\ file'[u] \in {u, Hole}
        /\ fileLen' = (IF fileLen < op.off + n THEN op.off + n ELSE fileLen)
        /\ fileLen' \in 0 .. MaxUnits
        /\ \A u \in Units : file'[u] = u => u < fileLen'
    BY <1>3, KernelWritesPlaces
  <2>2. PICK c : c = [op |-> op, res |-> n]
    OBVIOUS
  <2>3. c.op = op /\ c.res = n /\ cq' = cq \cup {c}
    BY <1>3, <2>2 DEF KernelWrites, Complete
  <2>4. InFile(op.off, n)'
    <3>1. \A u \in op.off .. op.off + n - 1 : u \in Units
      BY <2>1, BufferAssumption DEF Units
    <3> QED
      BY <2>1, <3>1 DEF InFile
  <2>5. Requests'
    <3>1. \A o \in PendingOps' : OpMatches(o)'
      BY <1>1, OpStable DEF IInv, Requests
    <3>2. \A d \in cq : InFile(d.op.off, d.res)'
      BY <2>1, InFileGrows DEF IInv
    <3>3. c.res \in Int /\ c.res <= c.op.len /\ InFile(c.op.off, c.res)'
      BY <2>1, <2>3, <2>4
    <3> QED
      BY <2>3, <3>1, <3>2, <3>3 DEF IInv, Requests
  <2>6. TypeOK'
    BY <1>1, <2>1 DEF IInv, TypeOK, engineVars
  <2>7. Buffers'
    BY <1>1 DEF IInv, Buffers, End, Reserve, engineVars
  <2>8. Disk'
    <3>1. \A u \in Units : u < written => file'[u] = u \/ Awaited(u)'
      BY <1>1, <2>1 DEF IInv, Disk, Awaited
    <3>2. ~refused => fileLen' <= prealloc \/ fileLen' <= written
      <4>1. SUFFICES ASSUME ~refused PROVE fileLen' <= prealloc \/ fileLen' <= written
        OBVIOUS
      <4>2. /\ fileLen \in Nat /\ prealloc \in Nat /\ written \in Nat
            /\ fileLen <= prealloc \/ fileLen <= written
        BY <4>1, BufferAssumption DEF IInv, Disk, TypeOK
      <4>3. End(op.slot) <= written
        BY <2>1, <4>1, <4>2 DEF Reserve
      <4> QED
        BY <2>1, <4>2, <4>3
    <3> QED
      BY <1>1, <2>1, <3>1, <3>2 DEF Disk, engineVars
  <2> QED
    BY <1>1, <2>5, <2>6, <2>7, <2>8 DEF IInv, Calls, Quiet
<1> QED
  BY <1>2, <1>3 DEF Kernel

-----------------------------------------------------------------------------
(* The invariant and what follows from it *)

LEMMA InitSound == Init => IInv
<1> SUFFICES ASSUME Init PROVE IInv
  OBVIOUS
<1>1. RingInv /\ PendingOps = {} /\ cq = {} /\ flight = {} /\ outstanding = 0
  BY RingInitial DEF Init, RingInit
<1>2. 0 \in Slots /\ BufferSize \in Nat \ {0} /\ MaxUnits \in Nat /\ prealloc \in 0 .. MaxUnits
  BY QDAssumption, BufferAssumption, PreallocsAssumption DEF Slots, Init
<1>3. TypeOK
  <2>1. writes \in [Slots -> WriteType] /\ pool \in [Slots -> [Positions -> Nat \cup {Hole}]]
    BY <1>2 DEF Init, WriteType
  <2>2. file \in [Units -> Nat \cup {Hole}] /\ fileLen \in 0 .. MaxUnits
    BY <1>2 DEF Init
  <2>3. written \in 0 .. MaxUnits /\ outstanding \in Nat
    BY <1>1, <1>2 DEF Init
  <2> QED
    BY <1>2, <2>1, <2>2, <2>3 DEF Init, TypeOK, States, WriteType
<1>4. Requests /\ Buffers /\ Calls /\ Quiet
  BY <1>1 DEF Init, Requests, Buffers, Calls, Quiet
<1>5. Disk
  <2>1. \A u \in Units : u >= 0 /\ u # Hole /\ file[u] = Hole
    BY <1>2 DEF Init, Units, Hole
  <2> QED
    BY <1>2, <2>1 DEF Init, Disk, Units
<1> QED
  BY <1>1, <1>3, <1>4, <1>5 DEF IInv

\* One step per action.
LEMMA NextSound == ~Resubmits /\ IInv /\ [Next]_vars => IInv'
<1> SUFFICES ASSUME ~Resubmits, IInv, [Next]_vars PROVE IInv'
  OBVIOUS
<1>1. CASE Acquire \/ SubmitNothing \/ WaitEnterFails \/ FinishNextSlot \/ FreePool
             \/ AbandonDrain \/ Finish("finish") \/ Finish("destroy") \/ UNCHANGED vars
  BY <1>1, StillActions, StillSound
<1>2. CASE AcquireReturns
  BY <1>2, AcquireReturnsSound
<1>3. ASSUME NEW n \in 1 .. BufferSize, SubmitAsync(n) PROVE IInv'
  BY <1>3, SubmitAsyncSound
<1>4. ASSUME NEW n \in 1 .. BufferSize, SubmitSync(n) PROVE IInv'
  BY <1>4, SubmitSyncSound
<1>5. ASSUME NEW c \in cq, ReapOne(c) PROVE IInv'
  BY <1>5, ReapOneSound
<1>6. ASSUME NEW c \in cq, ReapOneThrows(c) PROVE IInv'
  BY <1>6, ReapOneThrowsSound
<1>7. CASE FinishTrims
  BY <1>7, FinishTrimsSound
<1>8. CASE Drain
  BY <1>8, DrainSoundWriter
<1>9. ASSUME NEW op \in flight, Kernel(op) PROVE IInv'
  BY <1>9, KernelSound
<1> QED
  BY <1>1, <1>2, <1>3, <1>4, <1>5, <1>6, <1>7, <1>8, <1>9 DEF Next, Writer, InCall

\* The inductive invariant holds of every behaviour of a writer whose
\* producer does not resubmit.
THEOREM Invariance == ASSUME ~Resubmits PROVE Spec => []IInv
BY InitSound, NextSound, PTL DEF Spec

\* Every variable keeps its type; the stream, the file and each transfer
\* stay within their bounds.
THEOREM TypeCorrect == ASSUME ~Resubmits PROVE Spec => []TypeOK
<1>1. IInv => TypeOK
  BY DEF IInv
<1> QED
  BY <1>1, Invariance, PTL

\* The buffer the producer fills is never one with a request anywhere
\* between its publication and the reaping of its completion, also after
\* failed writes and refused submissions (acquire, wait_slot).
THEOREM BufferStaysExclusive == ASSUME ~Resubmits PROVE Spec => []BufferExclusive
<1>1. IInv => BufferExclusive
  <2> SUFFICES ASSUME IInv PROVE BufferExclusive
    OBVIOUS
  <2>1. BusySlots = {op.slot : op \in PendingOps}
    BY DEF BusySlots, SlotsOf, PendingOps
  <2>2. \A op \in PendingOps : writes[op.slot].busy
    BY DEF IInv, Requests, OpMatches
  <2>3. \A s \in BusySlots : writes[s].busy
    BY <2>1, <2>2
  <2>4. owned # None => ~writes[owned].busy
    BY DEF IInv, Buffers
  <2> QED
    BY <2>3, <2>4 DEF BufferExclusive
<1> QED
  BY <1>1, Invariance, PTL

\* ~aligned_pool runs when the kernel reads from no buffer any more, unless
\* drain() gave up (~uring_writer).
THEOREM PoolOutlives == ASSUME ~Resubmits PROVE Spec => []PoolOutlivesWrites
<1>1. IInv => PoolOutlivesWrites
  BY DEF IInv, Quiet, PoolOutlivesWrites
<1> QED
  BY <1>1, Invariance, PTL

\* A producer that leaves a refused buffer alone has every unit of its
\* stream land in its own place (submit(): "at the next sequential file
\* offset").
THEOREM PlacedWithoutResubmits == ASSUME ~Resubmits PROVE Spec => []NothingMisplaced
<1>1. IInv => NothingMisplaced
  BY DEF IInv, Disk, NothingMisplaced
<1> QED
  BY <1>1, Invariance, PTL

-----------------------------------------------------------------------------
(* The writer implements ByteSink. *)

\* The largest of an interval's numbers.
LEMMA LastOfInterval ==
  ASSUME NEW a \in Nat, NEW n \in Nat, n > 0
  PROVE  (CHOOSE u \in a .. a + n - 1 : \A v \in a .. a + n - 1 : v <= u) = a + n - 1
<1> DEFINE Last(u) == u \in a .. a + n - 1 /\ \A v \in a .. a + n - 1 : v <= u
<1>1. Last(a + n - 1)
  OBVIOUS
<1>2. \A u : Last(u) => u = a + n - 1
  OBVIOUS
<1>3. (CHOOSE u : Last(u)) = a + n - 1
  <2> HIDE DEF Last
  <2> QED
    BY <1>1, <1>2
<1> QED
  BY <1>3

\* What PutUnits does to the file is what the sink calls reaching it.
LEMMA PutIsReach ==
  ASSUME TypeOK, NEW off \in Nat, NEW n \in Nat, n > 0, off + n <= MaxUnits,
         file' = [u \in Units |-> IF u \in off .. off + n - 1 THEN u ELSE file[u]],
         fileLen' = (IF fileLen < off + n THEN off + n ELSE fileLen)
  PROVE  Sink!Reach(off .. off + n - 1)
<1>1. fileLen \in Nat /\ MaxUnits \in Nat
  BY BufferAssumption DEF TypeOK
<1>2. file' = [u \in Sink!Offsets |-> IF u \in off .. off + n - 1 THEN u ELSE file[u]]
  BY DEF Units, Sink!Offsets
<1>3. (\E u \in off .. off + n - 1 : u >= fileLen) <=> fileLen < off + n
  <2>1. off + n - 1 \in off .. off + n - 1
    OBVIOUS
  <2>2. fileLen < off + n => off + n - 1 >= fileLen
    BY <1>1
  <2>3. \A u \in off .. off + n - 1 : u >= fileLen => fileLen < off + n
    BY <1>1
  <2> QED
    BY <2>1, <2>2, <2>3
<1>4. (CHOOSE u \in off .. off + n - 1 : \A v \in off .. off + n - 1 : v <= u) + 1 = off + n
  BY LastOfInterval
<1> QED
  BY <1>2, <1>3, <1>4 DEF Sink!Reach

\* Nothing reaches the file where it does not change.
LEMMA NoUnitsReach ==
  ASSUME TypeOK, file' = file, fileLen' = fileLen
  PROVE  Sink!Reach({})
<1>1. file = [u \in Units |-> file[u]]
  BY DEF TypeOK
<1> QED
  BY <1>1 DEF Sink!Reach, Sink!Offsets, Units

\* A unit range below a bound is a set of units the sink may put there.
LEMMA RangeBelow ==
  ASSUME NEW off \in Nat, NEW n \in Nat, NEW bound \in Nat,
         off + n <= MaxUnits, off + n <= bound
  PROVE  off .. off + n - 1 \in SUBSET Sink!Below(bound)
BY BufferAssumption DEF Sink!Below, Sink!Offsets

\* What the producer sees of an asynchronous submit(): the units are taken
\* and reach the file later, or it throws.
LEMMA SubmitAsyncStep ==
  ASSUME IInv, NEW n \in 1 .. BufferSize, SubmitAsync(n)
  PROVE  Sink!SinkNext
<1>1. SubmitCall(n) /\ UNCHANGED diskVars
  BY DEF SubmitAsync
<1>2. owned # None /\ ~tail /\ tail' = (n % Align # 0)
  BY <1>1 DEF SubmitCall
<1>3. Sink!Reach({})
  BY <1>1, NoUnitsReach DEF IInv, diskVars
<1>4. CASE Advance(n) /\ finished' = FALSE /\ owned' = None /\ UNCHANGED <<refused, broken>>
  <2>1. Sink!Accept(n, {})
    BY <1>2, <1>3, <1>4 DEF Sink!Accept, Advance
  <2> QED
    BY <2>1 DEF Sink!SinkNext
<1>5. CASE refused' = TRUE /\ UNCHANGED <<written, nextSlot, finished>>
  <2>1. Sink!Refuse({})
    BY <1>2, <1>3, <1>5 DEF Sink!Refuse
  <2> QED
    BY <2>1 DEF Sink!SinkNext
<1> QED
  BY <1>4, <1>5 DEF SubmitAsync

\* A synchronous submit() puts all its units in the file, or throws and may
\* leave some of them behind.
LEMMA SubmitSyncStep ==
  ASSUME IInv, NEW n \in 1 .. BufferSize, SubmitSync(n)
  PROVE  Sink!SinkNext
<1>1. SubmitCall(n)
  BY DEF SubmitSync
<1>2. owned # None /\ ~tail /\ tail' = (n % Align # 0)
  BY <1>1 DEF SubmitCall
<1>3. /\ written \in Nat /\ n \in Nat /\ n > 0 /\ n <= BufferSize
      /\ BufferSize \in Nat /\ written + n <= MaxUnits
  BY <1>1, SubmitFacts
<1>4. ASSUME NEW m \in 1 .. n, PutUnits(owned, 0, written, m)
      PROVE  Sink!Reach(written .. written + m - 1)
  <2>1. m \in 0 .. n /\ m \in Nat /\ m > 0 /\ written + m <= MaxUnits
    BY <1>3, BufferAssumption
  <2>2. /\ file' = [u \in Units |-> IF u \in written .. written + m - 1 THEN u ELSE file[u]]
        /\ fileLen' = (IF fileLen < written + m THEN written + m ELSE fileLen)
    <3>1. Placed(written, m)
      BY <1>1, <1>4, <2>1, SyncPlaces
    <3> QED
      BY <3>1 DEF Placed
  <2>3. PICK off : off = written
    OBVIOUS
  <2>4. /\ off \in Nat /\ off + m <= MaxUnits
        /\ file' = [u \in Units |-> IF u \in off .. off + m - 1 THEN u ELSE file[u]]
        /\ fileLen' = (IF fileLen < off + m THEN off + m ELSE fileLen)
    BY <1>3, <2>1, <2>2, <2>3
  <2>5. Sink!Reach(off .. off + m - 1)
    BY <2>1, <2>4, PutIsReach DEF IInv
  <2> QED
    BY <2>3, <2>5
<1>5. CASE /\ PutUnits(owned, 0, written, n) /\ Advance(n) /\ finished' = FALSE
           /\ owned' = None /\ UNCHANGED <<refused, broken>>
  <2>1. n \in 1 .. n
    BY <1>3
  <2>2. Sink!Reach(written .. written + n - 1)
    BY <1>4, <1>5, <2>1
  <2>3. Sink!Accept(n, written .. written + n - 1)
    BY <1>2, <1>5, <2>2 DEF Sink!Accept, Advance
  <2>4. written .. written + n - 1 \in SUBSET Sink!Below(written + n)
    BY <1>3, RangeBelow
  <2> QED
    BY <2>3, <2>4 DEF Sink!SinkNext
<1>6. CASE /\ \E put \in 0 .. n - 1 :
                IF put = 0 THEN UNCHANGED diskVars ELSE PutUnits(owned, 0, written, put)
           /\ refused' = TRUE /\ UNCHANGED <<written, nextSlot, finished, owned>>
  <2>1. PICK put \in 0 .. n - 1 :
          IF put = 0 THEN UNCHANGED diskVars ELSE PutUnits(owned, 0, written, put)
    BY <1>6
  <2>2. PICK units \in SUBSET Sink!Below(written + BufferSize) : Sink!Reach(units)
    <3>1. CASE put = 0
      <4>1. Sink!Reach({})
        BY <2>1, <3>1, NoUnitsReach DEF IInv, diskVars
      <4> QED
        BY <4>1
    <3>2. CASE put # 0
      <4>1. put \in 1 .. n /\ put \in Nat /\ written + BufferSize \in Nat
            /\ written + put <= MaxUnits /\ written + put <= written + BufferSize
        BY <1>3, <2>1, <3>2, BufferAssumption
      <4>2. Sink!Reach(written .. written + put - 1)
        BY <1>4, <2>1, <3>2, <4>1
      <4>3. written .. written + put - 1 \in SUBSET Sink!Below(written + BufferSize)
        BY <1>3, <4>1, RangeBelow
      <4> QED
        BY <4>2, <4>3
    <3> QED
      BY <3>1, <3>2
  <2>3. Sink!Refuse(units)
    BY <1>2, <1>6, <2>2 DEF Sink!Refuse
  <2> QED
    BY <2>2, <2>3 DEF Sink!SinkNext
<1> QED
  BY <1>5, <1>6 DEF SubmitSync

\* finish() returns only over a file that is the accepted units; a failed
\* trim changes nothing the producer sees.
LEMMA FinishTrimsStep ==
  ASSUME IInv, FinishTrims
  PROVE  Sink!SinkNext \/ UNCHANGED Sink!sinkVars
<1>1. /\ \A u \in Units : u < written => file[u] = u
      /\ \A u \in Units : file[u] \in {u, Hole} /\ (file[u] = u => u < fileLen)
      /\ written <= fileLen
      /\ written \in 0 .. MaxUnits /\ fileLen \in 0 .. MaxUnits
      /\ prealloc \in 0 .. MaxUnits /\ MaxUnits \in Nat
  BY FinishFacts DEF FinishTrims
<1>2. UNCHANGED <<written, tail, owned, refused>>
  BY DEF FinishTrims, engineVars
<1>3. Units = Sink!Offsets /\ Hole = Sink!Unwritten
  BY DEF Units, Hole, Sink!Offsets, Sink!Unwritten
<1>4. \A u \in Sink!Offsets : u < written => file[u] = u
  BY <1>1, <1>3
<1>5. CASE prealloc > written /\ Truncate(written) /\ finished' = TRUE
  <2>1. /\ fileLen' = written
        /\ file' = [u \in Units |-> IF u < written THEN file[u] ELSE Hole]
    BY <1>5 DEF Truncate
  <2>2. Sink!FinishReturns
    BY <1>2, <1>3, <1>4, <1>5, <2>1 DEF Sink!FinishReturns
  <2> QED
    BY <2>2 DEF Sink!SinkNext
<1>6. CASE prealloc <= written /\ UNCHANGED diskVars /\ finished' = TRUE
  <2>1. file' = file /\ fileLen' = fileLen
    BY <1>6 DEF diskVars
  <2>2. refused \/ fileLen = written
    BY <1>1, <1>6 DEF IInv, Disk
  <2>3. \A u \in Units : u >= fileLen => file[u] = Hole
    BY <1>1 DEF Units
  <2>4. file = [u \in Units |-> IF u < fileLen THEN file[u] ELSE Hole]
    <3>1. file = [u \in Units |-> file[u]]
      BY DEF IInv, TypeOK
    <3>2. \A u \in Units : file[u] = IF u < fileLen THEN file[u] ELSE Hole
      BY <1>1, <2>3 DEF Units
    <3> QED
      BY <3>1, <3>2
  <2>5. Sink!FinishReturns
    BY <1>2, <1>3, <1>4, <1>6, <2>1, <2>2, <2>4 DEF Sink!FinishReturns
  <2> QED
    BY <2>5 DEF Sink!SinkNext
<1>7. CASE UNCHANGED <<diskVars, prealloc, finished>>
  BY <1>2, <1>7 DEF Sink!sinkVars, diskVars
<1>8. prealloc > written \/ prealloc <= written
  BY <1>1
<1> QED
  BY <1>5, <1>6, <1>7, <1>8 DEF FinishTrims

\* A transfer of the kernel's puts units in place that were accepted, or
\* that a refused submit() left behind.
LEMMA KernelStep ==
  ASSUME IInv, NEW op \in flight, Kernel(op)
  PROVE  Sink!SinkNext \/ UNCHANGED Sink!sinkVars
<1>1. UNCHANGED <<written, tail, owned, refused, finished>>
  BY KernelFrame DEF engineVars
<1>2. CASE KernelFails(op)
  BY <1>1, <1>2 DEF KernelFails, diskVars, Sink!sinkVars
<1>3. ASSUME NEW n \in 1 .. op.len, KernelWrites(op, n)
      PROVE  Sink!SinkNext
  <2>1. /\ op.off \in Nat /\ n \in Nat /\ n > 0
        /\ op.off + n <= End(op.slot) /\ End(op.slot) <= MaxUnits /\ End(op.slot) \in Nat
        /\ End(op.slot) <= written + Reserve
        /\ file' = [u \in Units |-> IF u \in op.off .. op.off + n - 1 THEN u ELSE file[u]]
        /\ fileLen' = (IF fileLen < op.off + n THEN op.off + n ELSE fileLen)
    BY <1>3, KernelWritesPlaces
  <2>2. PICK off : off = op.off
    OBVIOUS
  <2>3. PICK bound : bound = written + Reserve
    OBVIOUS
  <2>4. bound \in Nat /\ off \in Nat /\ off + n <= MaxUnits /\ off + n <= bound
    <3>1. written \in Nat /\ BufferSize \in Nat /\ MaxUnits \in Nat
      BY BufferAssumption DEF IInv, TypeOK
    <3>2. bound \in Nat
      BY <2>3, <3>1 DEF Reserve
    <3> QED
      BY <2>1, <2>2, <2>3, <3>1, <3>2
  <2>5. /\ file' = [u \in Units |-> IF u \in off .. off + n - 1 THEN u ELSE file[u]]
        /\ fileLen' = (IF fileLen < off + n THEN off + n ELSE fileLen)
    BY <2>1, <2>2
  <2>6. Sink!Reach(off .. off + n - 1)
    BY <2>1, <2>4, <2>5, PutIsReach DEF IInv
  <2>7. off .. off + n - 1 \in SUBSET Sink!Below(bound)
    BY <2>1, <2>4, RangeBelow
  <2>8. Sink!Transfer(off .. off + n - 1)
    BY <1>1, <2>6 DEF Sink!Transfer
  <2>9. bound = written + (IF refused THEN BufferSize ELSE 0)
    BY <2>3 DEF Reserve
  <2> QED
    BY <2>7, <2>8, <2>9 DEF Sink!SinkNext
<1> QED
  BY <1>2, <1>3 DEF Kernel

\* Every step of the writer is a step of the sink or one it does not see.
LEMMA SinkStep ==
  IInv /\ [Next]_vars => [Sink!SinkNext]_(Sink!sinkVars)
<1> SUFFICES ASSUME IInv, [Next]_vars
             PROVE  Sink!SinkNext \/ UNCHANGED Sink!sinkVars
  OBVIOUS
<1>1. ASSUME /\ UNCHANGED <<engineVars, diskVars, finished, refused>>
      PROVE  Sink!SinkNext \/ UNCHANGED Sink!sinkVars
  <2>1. (owned # None)' \in BOOLEAN
    OBVIOUS
  <2>2. Sink!Lend
    BY <1>1, <2>1 DEF Sink!Lend, engineVars, diskVars
  <2> QED
    BY <2>2 DEF Sink!SinkNext
<1>2. CASE Acquire \/ SubmitNothing \/ WaitEnterFails \/ FinishNextSlot \/ FreePool
             \/ AbandonDrain \/ Finish("finish") \/ Finish("destroy") \/ UNCHANGED vars
  BY <1>1, <1>2, StillActions DEF StillStep
<1>3. CASE AcquireReturns \/ Drain
  BY <1>1, <1>3 DEF AcquireReturns, Drain
<1>4. ASSUME NEW c \in cq, ReapOne(c) \/ ReapOneThrows(c)
      PROVE  Sink!SinkNext \/ UNCHANGED Sink!sinkVars
  BY <1>1, <1>4 DEF ReapOne, ReapOneThrows
<1>5. ASSUME NEW n \in 1 .. BufferSize, SubmitAsync(n)
      PROVE  Sink!SinkNext
  BY <1>5, SubmitAsyncStep
<1>6. ASSUME NEW n \in 1 .. BufferSize, SubmitSync(n)
      PROVE  Sink!SinkNext
  BY <1>6, SubmitSyncStep
<1>7. CASE FinishTrims
  BY <1>7, FinishTrimsStep
<1>8. ASSUME NEW op \in flight, Kernel(op)
      PROVE  Sink!SinkNext \/ UNCHANGED Sink!sinkVars
  BY <1>8, KernelStep
<1> QED
  BY <1>2, <1>3, <1>4, <1>5, <1>6, <1>7, <1>8 DEF Next, Writer, InCall

\* file_writer's promise holds for every queue depth, buffer size, alignment
\* and preallocation, whatever the kernel does and in whatever order.
THEOREM WriterImplementsSink == ASSUME ~Resubmits PROVE Spec => ImplementsSink
<1>1. Init => Sink!SinkInit
  BY DEF Init, Sink!SinkInit, Units, Hole, Sink!Offsets, Sink!Unwritten
<1>2. IInv /\ [Next]_vars => [Sink!SinkNext]_(Sink!sinkVars)
  BY SinkStep
<1>3. Spec => Sink!SinkSpec
  BY <1>1, <1>2, Invariance, PTL DEF Spec, Sink!SinkSpec
<1> QED
  BY <1>3 DEF ImplementsSink
=============================================================================
