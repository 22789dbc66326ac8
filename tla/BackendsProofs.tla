--------------------------- MODULE BackendsProofs ---------------------------
(***************************************************************************)
(* Grand Central Dispatch and completion ports under the engines' calls,   *)
(* for any number of slots, any length of a transfer and any number of     *)
(* starts: whatever the pieces and the failures, a slot given back holds   *)
(* its transfer, every failure is told, and nothing outlives the backend.  *)
(* And the handles below them: every call goes to one that admits it.      *)
(***************************************************************************)
EXTENDS IoBackends, FiniteSetTheorems, TLAPS

ClientTyped ==
  /\ role \in {"reader", "writer"} /\ stalls \in BOOLEAN
  /\ pc \in {"idle", "wait", "finish", "destroy", "sync", "drain", "freed"}
  /\ target \in Slots /\ mine \subseteq Slots
  /\ latched \in BOOLEAN /\ starts \in Nat
  /\ moved \in [Slots -> [Positions -> Positions \cup {Junk}]]
  /\ fate \in [Slots -> {"fine", "unreported", "told"}]
  /\ finished \in BOOLEAN
  /\ kind \in {"gcd", "iocp"} /\ done \in 0 .. Len

GcdTyped ==
  /\ gslots \in [Slots -> [error : BOOLEAN, ready : BOOLEAN]]
  /\ workers \in [Slots -> {Gone} \cup [got : 0 .. Len, err : BOOLEAN]]
  /\ notifying \in Nat /\ asleep \in BOOLEAN

IocpTyped ==
  /\ islots \in [Slots -> [filled : 0 .. Len, ready : BOOLEAN]]
  /\ flight \subseteq [slot : Slots, at : 0 .. Len - 1] /\ IsFiniteSet(flight)
  /\ port \subseteq [slot : Slots, at : 0 .. Len - 1, bytes : 0 .. Len]
  /\ IsFiniteSet(port)
  /\ outstanding \in Nat
  /\ cancelled \in BOOLEAN /\ portFailed \in BOOLEAN

Typed == ClientTyped /\ GcdTyped /\ IocpTyped

-----------------------------------------------------------------------------
(* The inductive invariant *)

\* The first n units of the transfer are in their places, and no other.
Filled(s, n) == \A i \in Positions : moved[s][i] = IF i < n THEN i ELSE Junk

InSync(s) == pc = "sync" /\ target = s

\* A transfer that did not fail is whole.
Right(s) == fate[s] = "fine" /\ ~InSync(s) => moved[s] = Whole

ClientInv ==
  /\ pc \in {"finish", "destroy"} => \A s \in Slots : s < target => s \in mine
  /\ finished => mine = Slots
  /\ pc = "sync" => target \in mine /\ Filled(target, done) /\ fate[target] = "fine"
  /\ \A s \in mine : fate[s] # "unreported" /\ Right(s)

\* A worker owns its slot; one that is gone has left its errno.
GcdInv(s) ==
  IF Working(s)
  THEN /\ s \notin mine /\ ~gslots[s].ready /\ ~gslots[s].error
       /\ Filled(s, workers[s].got)
       /\ fate[s] = IF workers[s].err THEN "unreported" ELSE "fine"
  ELSE /\ Right(s)
       /\ fate[s] = "unreported" => gslots[s].error
       /\ s \in mine => ~gslots[s].error

\* A request goes on where its slot is filled to, and a slot has one.
IocpInv(s) ==
  /\ \A r \in flight : r.slot = s =>
       /\ r.at = islots[s].filled /\ s \notin mine /\ ~islots[s].ready
       /\ Filled(s, r.at) /\ fate[s] = "fine"
  /\ \A c \in port : c.slot = s =>
       /\ c.at = islots[s].filled /\ s \notin mine /\ ~islots[s].ready
       /\ c.at + c.bytes <= Len
       /\ IF c.bytes = 0 THEN fate[s] = "unreported"
          ELSE Filled(s, c.at + c.bytes) /\ fate[s] = "fine"
       /\ \A d \in port : d.slot = s => d = c
       /\ \A r \in flight : r.slot # s
  /\ islots[s].ready => fate[s] # "unreported" /\ Right(s)

Counted == outstanding = Cardinality(flight) + Cardinality(port)

GcdSide ==
  /\ flight = {} /\ port = {} /\ ~portFailed
  /\ \A s \in Slots : GcdInv(s)
  /\ pc = "freed" => notifying = 0 /\ \A s \in Slots : ~Working(s)

IocpSide ==
  /\ notifying = 0 /\ \A s \in Slots : ~Working(s)
  /\ Counted
  /\ \A s \in Slots : IocpInv(s)
  /\ portFailed => pc = "freed"
  /\ pc = "freed" /\ ~portFailed => flight = {} /\ port = {}

IInv ==
  /\ Typed /\ ClientInv
  /\ kind = "gcd" => GcdSide
  /\ kind = "iocp" => IocpSide

-----------------------------------------------------------------------------
(* The engine's side of a call *)

LEMMA SlotsAre ==
  /\ QD \in Nat /\ Len \in Nat /\ Len > 0
  /\ 0 \in Slots /\ QD - 1 \in Slots /\ Slots \subseteq Nat
  /\ \A s \in Slots : s < QD - 1 => s + 1 \in Slots
  /\ \A s \in Slots : s <= QD - 1
BY SlotsAssumption DEF Slots

LEMMA WholeIsFilled ==
  ASSUME ClientTyped, NEW s \in Slots
  PROVE  moved[s] = Whole <=> Filled(s, Len)
<1>1. moved[s] \in [Positions -> Positions \cup {Junk}]
  BY DEF ClientTyped
<1>2. \A i \in Positions : i < Len
  BY SlotsAre DEF Positions
<1>3. ASSUME Filled(s, Len) PROVE moved[s] = Whole
  BY <1>1, <1>2, <1>3 DEF Filled, Whole
<1>4. ASSUME moved[s] = Whole PROVE Filled(s, Len)
  BY <1>2, <1>4 DEF Filled, Whole
<1> QED
  BY <1>3, <1>4

\* A piece extends what is filled.
LEMMA PassFills ==
  ASSUME ClientTyped, NEW s \in Slots, NEW k \in 0 .. Len, NEW n \in 0 .. Len,
         k + n <= Len, Pass(s, k, k, n)
  PROVE  /\ moved' \in [Slots -> [Positions -> Positions \cup {Junk}]]
         /\ \A x \in Slots \ {s} : moved'[x] = moved[x]
         /\ Filled(s, k) => \A i \in Positions : moved'[s][i] = IF i < k + n THEN i ELSE Junk
<1> DEFINE new == [i \in Positions |-> IF i \in k .. k + n - 1 THEN k + (i - k)
                                       ELSE moved[s][i]]
<1>1. moved' = [moved EXCEPT ![s] = new]
  BY DEF Pass
<1>2. k \in Int /\ n \in Int /\ Positions \subseteq Int /\ \A i \in Positions : i >= 0
  BY SlotsAre DEF Positions
<1>3. \A i \in Positions : new[i] = IF i \in k .. k + n - 1 THEN i ELSE moved[s][i]
  BY <1>2
<1>4. moved[s] \in [Positions -> Positions \cup {Junk}]
  BY DEF ClientTyped
<1>5. new \in [Positions -> Positions \cup {Junk}]
  BY <1>3, <1>4
<1>6. Filled(s, k) => \A i \in Positions : new[i] = IF i < k + n THEN i ELSE Junk
  BY <1>2, <1>3 DEF Filled
<1> HIDE DEF new
<1>7. moved'[s] = new /\ \A x \in Slots \ {s} : moved'[x] = moved[x]
  BY <1>1 DEF ClientTyped
<1>8. moved' \in [Slots -> [Positions -> Positions \cup {Junk}]]
  BY <1>1, <1>5 DEF ClientTyped
<1> QED
  BY <1>6, <1>7, <1>8

LEMMA BlankTyped == Blank \in [Positions -> Positions \cup {Junk}]
BY DEF Blank

LEMMA BlankIsFilled ==
  ASSUME NEW s \in Slots, moved[s] = Blank
  PROVE  Filled(s, 0)
BY SlotsAre DEF Filled, Blank, Positions

\* A start takes the slot from the engine.
LEMMA StartSafe ==
  ASSUME ClientTyped, ClientInv, NEW s \in Slots, StartCall(s),
         UNCHANGED <<kind, done>>, latched' \in BOOLEAN,
         NEW f \in {"fine", "unreported", "told"}, fate' = [fate EXCEPT ![s] = f]
  PROVE  /\ ClientTyped' /\ ClientInv'
         /\ s \in mine /\ mine' = mine \ {s} /\ moved'[s] = Blank /\ fate'[s] = f
         /\ Afresh(s) = "fine"
         /\ \A x \in Slots \ {s} : moved'[x] = moved[x] /\ fate'[x] = fate[x]
         /\ \A x \in Slots : ~InSync(x) /\ ~InSync(x)'
         /\ pc = "idle" /\ pc' = "idle"
<1>1. /\ s \in mine /\ mine' = mine \ {s} /\ moved'[s] = Blank /\ fate'[s] = f
      /\ \A x \in Slots \ {s} : moved'[x] = moved[x] /\ fate'[x] = fate[x]
      /\ pc = "idle" /\ pc' = "idle" /\ finished' = FALSE
  BY DEF ClientTyped, StartCall
<1>2. ClientTyped'
  <2>1. moved' \in [Slots -> [Positions -> Positions \cup {Junk}]]
    BY BlankTyped DEF ClientTyped, StartCall
  <2>2. fate' \in [Slots -> {"fine", "unreported", "told"}]
    BY DEF ClientTyped
  <2>3. starts' \in Nat
    BY DEF ClientTyped, StartCall
  <2>4. mine' \subseteq Slots /\ finished' \in BOOLEAN
    BY <1>1 DEF ClientTyped
  <2>5. UNCHANGED <<role, stalls, pc, target>>
    BY DEF StartCall
  <2> QED
    BY <2>1, <2>2, <2>3, <2>4, <2>5 DEF ClientTyped
<1>3. \A x : ~InSync(x) /\ ~InSync(x)'
  BY <1>1 DEF InSync
<1>4. \A x \in mine' : x \in Slots \ {s} /\ x \in mine
  BY <1>1 DEF ClientTyped
<1>5. ClientInv'
  BY <1>1, <1>3, <1>4 DEF ClientInv, Right
<1>6. Afresh(s) = "fine"
  <2>1. fate[s] \in {"fine", "told"}
    BY <1>1 DEF ClientInv, ClientTyped
  <2> QED
    BY <2>1 DEF Afresh
<1> QED
  BY <1>1, <1>2, <1>3, <1>5, <1>6

\* A wait that returns gives the awaited slot back.
LEMMA IdleSafe ==
  ASSUME ClientTyped, ClientInv, InWait, SlotIdle, UNCHANGED <<kind, done>>,
         fate[target] # "unreported", Right(target)
  PROVE  /\ ClientTyped' /\ ClientInv'
         /\ mine' = mine \cup {target} /\ UNCHANGED <<moved, fate>>
         /\ \A s \in Slots : ~InSync(s) /\ ~InSync(s)'
         /\ pc' # "freed" /\ pc # "freed"
<1>1. pc \in {"wait", "finish", "destroy"}
  BY DEF InWait
<1>2. /\ mine' = mine \cup {target} /\ UNCHANGED <<role, stalls, latched, starts, moved, fate>>
      /\ \/ pc = "wait" /\ pc' = "idle" /\ UNCHANGED <<target, finished>>
         \/ /\ pc # "wait" /\ target < QD - 1 /\ target' = target + 1
            /\ UNCHANGED <<pc, finished>>
         \/ /\ pc # "wait" /\ target = QD - 1 /\ finished' \in {finished, TRUE}
            /\ pc' \in {"idle", "drain"} /\ UNCHANGED target
  BY DEF SlotIdle, LeaveByException
<1>3. ClientTyped'
  BY <1>1, <1>2, SlotsAre DEF ClientTyped
<1>4. \A s : ~InSync(s) /\ ~InSync(s)'
  BY <1>1, <1>2 DEF InSync
<1>5. \A s \in mine' : fate'[s] # "unreported" /\ Right(s)'
  BY <1>2, <1>4 DEF ClientInv, Right
<1>6. pc' \in {"finish", "destroy"} => \A s \in Slots : s < target' => s \in mine'
  <2> SUFFICES ASSUME pc' \in {"finish", "destroy"}, NEW s \in Slots, s < target'
               PROVE  s \in mine'
    OBVIOUS
  <2>1. pc \in {"finish", "destroy"} /\ target \in Slots /\ target' = target + 1
    BY <1>1, <1>2 DEF ClientTyped
  <2>2. s < target \/ s = target
    BY <2>1, SlotsAre
  <2> QED
    BY <1>2, <2>1, <2>2 DEF ClientInv
<1>7. finished' => mine' = Slots
  <2>1. CASE finished
    BY <2>1, <1>2 DEF ClientInv, ClientTyped
  <2>2. CASE ~finished /\ finished'
    <3>1. pc # "wait" /\ target = QD - 1
      BY <1>2, <2>2 DEF ClientTyped
    <3>2. \A s \in Slots : s \in mine'
      BY <1>1, <1>2, <3>1, SlotsAre DEF ClientInv
    <3> QED
      BY <1>2, <3>2 DEF ClientTyped
  <2> QED
    BY <2>1, <2>2 DEF ClientTyped
<1>8. pc' # "sync" /\ pc' # "freed" /\ pc # "freed"
  BY <1>1, <1>2
<1>9. ClientInv'
  BY <1>5, <1>6, <1>7, <1>8 DEF ClientInv
<1> QED
  BY <1>2, <1>3, <1>4, <1>8, <1>9

\* An exception tells of the slots that failed.
LEMMA ThrownSafe ==
  ASSUME ClientTyped, ClientInv, InWait \/ pc = "sync", NEW slots, Thrown(slots),
         pc = "sync" => target \in slots,
         UNCHANGED <<kind, done>>
  PROVE  /\ ClientTyped' /\ ClientInv'
         /\ \A s \in Slots : fate'[s] = IF s \in slots THEN "told" ELSE fate[s]
         /\ UNCHANGED <<mine, moved, target>>
         /\ \A s \in Slots : ~InSync(s)' /\ (Right(s) => Right(s)')
         /\ pc' # "freed" /\ pc # "freed"
<1>1. /\ UNCHANGED <<role, stalls, target, mine, latched, starts, moved, finished>>
      /\ fate' = [s \in Slots |-> IF s \in slots THEN "told" ELSE fate[s]]
      /\ pc' \in {"idle", "drain"} /\ pc # "freed"
  BY DEF Thrown, LeaveByException, InWait
<1>2. \A s \in Slots : fate'[s] = IF s \in slots THEN "told" ELSE fate[s]
  BY <1>1
<1>3. fate' \in [Slots -> {"fine", "unreported", "told"}]
  BY <1>1 DEF ClientTyped
<1>4. ClientTyped'
  BY <1>1, <1>3 DEF ClientTyped
<1>5. \A s : ~InSync(s)'
  BY <1>1 DEF InSync
<1>6. \A s \in Slots : Right(s) => Right(s)'
  BY <1>1, <1>2, <1>5 DEF Right, InSync
<1>7. ClientInv'
  BY <1>1, <1>2, <1>6 DEF ClientInv, ClientTyped
<1> QED
  BY <1>1, <1>2, <1>4, <1>5, <1>6, <1>7

-----------------------------------------------------------------------------
(* What a step keeps of the slots it is not about *)

LEMMA GcdKept ==
  ASSUME NEW s \in Slots, GcdInv(s), gslots'[s] = gslots[s], workers'[s] = workers[s],
         moved'[s] = moved[s], fate'[s] = fate[s], s \in mine' <=> s \in mine,
         InSync(s) => InSync(s)'
  PROVE  GcdInv(s)'
BY DEF GcdInv, Working, Filled, Right

\* A slot of the engine's is judged by the engine's side alone.
LEMMA GcdMine ==
  ASSUME NEW s \in mine, s \in Slots, GcdInv(s), UNCHANGED <<gslots, workers>>,
         s \in mine', ClientInv'
  PROVE  GcdInv(s)'
BY DEF GcdInv, Working, ClientInv

LEMMA IocpKept ==
  ASSUME NEW s \in Slots, IocpInv(s), islots'[s] = islots[s],
         \A r \in flight' : r.slot = s => r \in flight,
         \A c \in port' : c.slot = s => c \in port,
         moved'[s] = moved[s], fate'[s] = fate[s], s \in mine' => s \in mine,
         InSync(s) => InSync(s)'
  PROVE  IocpInv(s)'
<1>1. \A n : Filled(s, n)' <=> Filled(s, n)
  BY DEF Filled
<1>2. Right(s) => Right(s)'
  BY DEF Right
<1> QED
  BY <1>1, <1>2 DEF IocpInv

LEMMA IocpMine ==
  ASSUME NEW s \in mine, s \in Slots, IocpInv(s), UNCHANGED <<islots, flight, port>>,
         s \in mine', ClientInv'
  PROVE  IocpInv(s)'
BY DEF IocpInv, ClientInv

\* The engine's own steps leave the backend alone.
LEMMA CallSafe ==
  ASSUME IInv, ClientTyped', ClientInv', UNCHANGED <<gcdVars, iocpVars, kind, mine>>,
         \A s \in Slots \ mine : moved'[s] = moved[s] /\ fate'[s] = fate[s],
         pc # "freed", pc' # "freed"
  PROVE  IInv'
<1>1. Typed'
  BY DEF IInv, Typed, GcdTyped, IocpTyped, gcdVars, iocpVars
<1>2. \A s \in Slots \ mine : ~InSync(s)
  BY DEF IInv, ClientInv, InSync
<1>3. ASSUME kind = "gcd" PROVE GcdSide'
  <2>1. \A s \in Slots : GcdInv(s)
    BY <1>3 DEF IInv, GcdSide
  <2>2. \A s \in Slots : GcdInv(s)'
    BY <1>2, <2>1, GcdKept, GcdMine DEF gcdVars
  <2> QED
    BY <1>3, <2>2 DEF IInv, GcdSide, iocpVars
<1>4. ASSUME kind = "iocp" PROVE IocpSide'
  <2>1. \A s \in Slots : IocpInv(s)
    BY <1>4 DEF IInv, IocpSide
  <2>2. \A s \in Slots : IocpInv(s)'
    BY <1>2, <2>1, IocpKept, IocpMine DEF iocpVars
  <2> QED
    BY <1>4, <2>2 DEF IInv, IocpSide, Counted, Working, gcdVars, iocpVars
<1> QED
  BY <1>1, <1>3, <1>4 DEF IInv

LEMMA CallsSafe ==
  ASSUME IInv, Calls, UNCHANGED <<gcdVars, iocpVars, kind, done>>
  PROVE  IInv'
<1>1. /\ UNCHANGED <<role, stalls, mine, latched, starts, moved, fate, finished>>
      /\ pc = "idle" /\ pc' \in {"wait", "finish", "destroy", "drain"}
      /\ target' \in Slots
      /\ pc' \in {"finish", "destroy"} => target' = 0
  BY SlotsAre DEF Calls, WaitCall, FinishCall, DestroyReader, IInv, Typed, ClientTyped
<1>2. ClientTyped'
  BY <1>1 DEF IInv, Typed, ClientTyped
<1>3. \A s : ~InSync(s) /\ ~InSync(s)'
  BY <1>1 DEF InSync
<1>4. \A s \in Slots : ~(s < 0)
  BY SlotsAre
<1>5. ClientInv'
  BY <1>1, <1>3, <1>4 DEF IInv, ClientInv, Right
<1> QED
  BY <1>1, <1>2, <1>5, CallSafe

-----------------------------------------------------------------------------
(* The synchronous path *)

LEMMA SyncCallSafe ==
  ASSUME IInv, NEW s \in Slots, SyncCall(s)
  PROVE  IInv'
<1>1. /\ s \in mine /\ mine' = mine /\ pc = "idle" /\ pc' = "sync" /\ target' = s
      /\ done' = 0 /\ finished' = FALSE
      /\ UNCHANGED <<role, stalls, latched, gcdVars, iocpVars, kind>>
      /\ starts' = starts + 1
      /\ moved' = [moved EXCEPT ![s] = Blank] /\ fate' = [fate EXCEPT ![s] = "fine"]
  BY DEF SyncCall
<1>2. /\ moved'[s] = Blank /\ fate'[s] = "fine"
      /\ \A x \in Slots \ {s} : moved'[x] = moved[x] /\ fate'[x] = fate[x]
  BY <1>1 DEF IInv, Typed, ClientTyped
<1>3. ClientTyped'
  <2>1. moved' \in [Slots -> [Positions -> Positions \cup {Junk}]]
    BY <1>1, BlankTyped DEF IInv, Typed, ClientTyped
  <2>2. fate' \in [Slots -> {"fine", "unreported", "told"}]
    BY <1>1 DEF IInv, Typed, ClientTyped
  <2>3. starts' \in Nat /\ done' \in 0 .. Len
    BY <1>1, SlotsAre DEF IInv, Typed, ClientTyped
  <2>4. latched' \in BOOLEAN /\ kind' \in {"gcd", "iocp"} /\ mine' \subseteq Slots
          /\ role' \in {"reader", "writer"} /\ stalls' \in BOOLEAN
    BY <1>1 DEF IInv, Typed, ClientTyped
  <2> QED
    BY <1>1, <2>1, <2>2, <2>3, <2>4 DEF ClientTyped
<1>4. Filled(s, 0)'
  BY <1>2, SlotsAre DEF Filled, Blank, Positions
<1>5. \A x \in mine : fate'[x] # "unreported" /\ Right(x)'
  <2> TAKE x \in mine
  <2>1. CASE x = s
    BY <1>1, <1>2, <2>1 DEF Right, InSync
  <2>2. CASE x # s
    BY <1>1, <1>2, <2>2 DEF Right, InSync, IInv, ClientInv, Typed, ClientTyped
  <2> QED
    BY <2>1, <2>2
<1>6. ClientInv'
  BY <1>1, <1>2, <1>4, <1>5 DEF ClientInv
<1> QED
  BY <1>1, <1>2, <1>3, <1>6, CallSafe

LEMMA SyncMovesSafe ==
  ASSUME IInv, NEW n \in 1 .. Len, SyncMoves(n)
  PROVE  IInv'
<1>1. /\ pc = "sync" /\ done + n <= Len /\ Pass(target, done, done, n) /\ done' = done + n
      /\ UNCHANGED <<role, stalls, pc, target, mine, latched, starts, fate, finished,
                     gcdVars, iocpVars, kind>>
  BY DEF SyncMoves
<1>2. /\ ClientTyped /\ ClientInv /\ target \in Slots /\ target \in mine
      /\ Filled(target, done) /\ fate[target] = "fine" /\ done \in 0 .. Len
      /\ n \in 0 .. Len
  BY <1>1, SlotsAre DEF IInv, Typed, ClientTyped, ClientInv
<1>3. /\ moved' \in [Slots -> [Positions -> Positions \cup {Junk}]]
      /\ \A x \in Slots \ {target} : moved'[x] = moved[x]
      /\ \A i \in Positions : moved'[target][i] = IF i < done + n THEN i ELSE Junk
  BY <1>1, <1>2, PassFills
<1>4. done' \in 0 .. Len
  BY <1>1, <1>2, SlotsAre
<1>5. ClientTyped'
  BY <1>1, <1>2, <1>3, <1>4 DEF ClientTyped
<1>6. Filled(target, done)'
  BY <1>1, <1>3 DEF Filled
<1>7. \A x \in mine : fate'[x] # "unreported" /\ Right(x)'
  BY <1>1, <1>2, <1>3 DEF ClientInv, ClientTyped, Right, InSync
<1>8. ClientInv'
  BY <1>1, <1>2, <1>6, <1>7 DEF ClientInv
<1> QED
  BY <1>1, <1>2, <1>3, <1>5, <1>8, CallSafe

LEMMA SyncThrowsSafe ==
  ASSUME IInv, SyncThrows
  PROVE  IInv'
<1>1. /\ pc = "sync" /\ Thrown({target}) /\ UNCHANGED <<gcdVars, iocpVars, kind, done>>
      /\ ClientTyped /\ ClientInv
  BY DEF SyncThrows, IInv, Typed
<1>2. /\ ClientTyped' /\ ClientInv'
      /\ \A s \in Slots : fate'[s] = IF s \in {target} THEN "told" ELSE fate[s]
      /\ UNCHANGED <<mine, moved, target>>
      /\ pc' # "freed" /\ pc # "freed"
  BY <1>1, ThrownSafe
<1>3. target \in mine
  BY <1>1 DEF ClientInv
<1> QED
  BY <1>1, <1>2, <1>3, CallSafe

LEMMA SyncReturnsSafe ==
  ASSUME IInv, SyncReturns
  PROVE  IInv'
<1>1. /\ pc = "sync" /\ done = Len /\ pc' = "idle"
      /\ UNCHANGED <<role, stalls, target, mine, latched, starts, moved, fate, finished,
                     gcdVars, iocpVars, kind, done>>
      /\ ClientTyped /\ ClientInv
  BY DEF SyncReturns, SyncOver, IInv, Typed
<1>2. target \in Slots /\ Filled(target, Len)
  BY <1>1 DEF ClientInv, ClientTyped
<1>3. moved[target] = Whole
  BY <1>1, <1>2, WholeIsFilled
<1>4. ClientTyped'
  BY <1>1 DEF ClientTyped
<1>5. \A x \in mine : Right(x)'
  BY <1>1, <1>3 DEF ClientInv, Right, InSync
<1>6. ClientInv'
  BY <1>1, <1>5 DEF ClientInv
<1> QED
  BY <1>1, <1>4, <1>6, CallSafe

-----------------------------------------------------------------------------
(* Grand Central Dispatch *)

\* The steps of the queue leave the completion port's variables alone.
GcdStep == kind = "gcd" /\ UNCHANGED <<iocpVars, kind, done>>

LEMMA GcdFacts ==
  ASSUME IInv, GcdStep
  PROVE  /\ ClientTyped /\ ClientInv /\ GcdTyped
         /\ \A s \in Slots : GcdInv(s)
         /\ pc = "freed" => notifying = 0 /\ \A s \in Slots : ~Working(s)
         /\ \A s \in mine : s \in Slots /\ ~Working(s)
         /\ UNCHANGED <<kind, done>>
BY DEF IInv, Typed, GcdSide, GcdStep, GcdInv, ClientTyped

LEMMA GcdSafe ==
  ASSUME IInv, GcdStep, ClientTyped', ClientInv', GcdTyped',
         \A s \in Slots : GcdInv(s)',
         pc' = "freed" => notifying' = 0 /\ \A s \in Slots : ~Working(s)'
  PROVE  IInv'
BY DEF IInv, Typed, IocpTyped, GcdSide, GcdStep, iocpVars

LEMMA GcdStartSafe ==
  ASSUME IInv, GcdStep, NEW s \in Slots, GcdStart(s)
  PROVE  IInv'
<1>1. /\ ClientTyped /\ ClientInv /\ GcdTyped /\ UNCHANGED <<kind, done>>
      /\ \A x \in Slots : GcdInv(x)
      /\ \A x \in mine : x \in Slots /\ ~Working(x)
  BY GcdFacts
<1>2. /\ StartCall(s) /\ fate' = [fate EXCEPT ![s] = Afresh(s)]
      /\ gslots' = [gslots EXCEPT ![s] = StartedSlot(s)]
      /\ workers' = [workers EXCEPT ![s] = [got |-> 0, err |-> FALSE]]
      /\ UNCHANGED <<latched, notifying, asleep>>
  BY DEF GcdStart
<1>3. Afresh(s) \in {"fine", "unreported", "told"} /\ latched' \in BOOLEAN
  BY <1>1, <1>2 DEF Afresh, ClientTyped
<1>4. /\ ClientTyped' /\ ClientInv'
      /\ s \in mine /\ mine' = mine \ {s} /\ moved'[s] = Blank /\ fate'[s] = "fine"
      /\ \A x \in Slots \ {s} : moved'[x] = moved[x] /\ fate'[x] = fate[x]
      /\ \A x \in Slots : ~InSync(x) /\ ~InSync(x)'
      /\ pc = "idle" /\ pc' = "idle"
  <2> PICK f \in {"fine", "unreported", "told"} : f = Afresh(s)
    BY <1>3
  <2>1. fate' = [fate EXCEPT ![s] = f]
    BY <1>2
  <2> QED
    BY <1>1, <1>2, <1>3, <2>1, StartSafe
<1>5. ~gslots[s].error
  BY <1>1, <1>4 DEF GcdInv
<1>6. /\ gslots'[s] = [error |-> FALSE, ready |-> FALSE]
      /\ workers'[s] = [got |-> 0, err |-> FALSE]
      /\ \A x \in Slots \ {s} : gslots'[x] = gslots[x] /\ workers'[x] = workers[x]
  BY <1>1, <1>2, <1>5 DEF GcdTyped, StartedSlot
<1>7. GcdTyped'
  <2>1. gslots' \in [Slots -> [error : BOOLEAN, ready : BOOLEAN]]
    BY <1>1, <1>2, <1>5 DEF GcdTyped, StartedSlot
  <2>2. workers' \in [Slots -> {Gone} \cup [got : 0 .. Len, err : BOOLEAN]]
    <3>1. [got |-> 0, err |-> FALSE] \in [got : 0 .. Len, err : BOOLEAN]
      BY SlotsAre
    <3> QED
      BY <1>1, <1>2, <3>1 DEF GcdTyped
  <2> QED
    BY <1>1, <1>2, <2>1, <2>2 DEF GcdTyped
<1>8. GcdInv(s)'
  <2>1. Filled(s, 0)'
    BY <1>4, SlotsAre DEF Filled, Blank, Positions
  <2> QED
    BY <1>4, <1>6, <2>1 DEF GcdInv, Working, Gone
<1>9. \A x \in Slots \ {s} : GcdInv(x)'
  BY <1>1, <1>4, <1>6, GcdKept
<1> QED
  BY <1>4, <1>7, <1>8, <1>9, GcdSafe

LEMMA GcdWaitReturnsSafe ==
  ASSUME IInv, GcdStep, GcdWaitReturns
  PROVE  IInv'
<1>1. /\ ClientTyped /\ ClientInv /\ GcdTyped /\ UNCHANGED <<kind, done>>
      /\ \A x \in Slots : GcdInv(x)
  BY GcdFacts
<1>2. /\ InWait /\ SlotIdle /\ UNCHANGED gcdVars
      /\ gslots[target].ready /\ ~gslots[target].error /\ target \in Slots
  BY <1>1 DEF GcdWaitReturns, ClientTyped
<1>3. ~Working(target) /\ fate[target] # "unreported" /\ Right(target)
  BY <1>1, <1>2 DEF GcdInv
<1>4. /\ ClientTyped' /\ ClientInv'
      /\ mine' = mine \cup {target} /\ UNCHANGED <<moved, fate>>
      /\ \A s \in Slots : ~InSync(s) /\ ~InSync(s)'
      /\ pc' # "freed"
  BY <1>1, <1>2, <1>3, IdleSafe
<1>5. GcdTyped'
  BY <1>1, <1>2 DEF GcdTyped, gcdVars
<1>6. \A x \in Slots : GcdInv(x)'
  <2> PICK t \in Slots : t = target
    BY <1>2
  <2>1. GcdInv(t)'
    BY <1>2, <1>3, <1>4 DEF GcdInv, Working, Right, gcdVars
  <2>2. \A x \in Slots \ {t} : GcdInv(x)'
    BY <1>1, <1>2, <1>4, GcdKept DEF gcdVars
  <2> QED
    BY <2>1, <2>2
<1> QED
  BY <1>4, <1>5, <1>6, GcdSafe

LEMMA GcdWaitThrowsSafe ==
  ASSUME IInv, GcdStep, GcdWaitThrows
  PROVE  IInv'
<1>1. /\ ClientTyped /\ ClientInv /\ GcdTyped /\ UNCHANGED <<kind, done>>
      /\ \A x \in Slots : GcdInv(x)
  BY GcdFacts
<1>2. /\ InWait /\ Thrown({target}) /\ UNCHANGED <<workers, notifying, asleep>>
      /\ gslots' = ErrorCleared
      /\ gslots[target].ready /\ gslots[target].error /\ target \in Slots
  BY <1>1 DEF GcdWaitThrows, ClientTyped
<1>3. pc # "sync"
  BY <1>2 DEF InWait
<1>4. /\ ClientTyped' /\ ClientInv'
      /\ \A s \in Slots : fate'[s] = IF s \in {target} THEN "told" ELSE fate[s]
      /\ UNCHANGED <<mine, moved, target>>
      /\ \A s \in Slots : ~InSync(s)' /\ (Right(s) => Right(s)')
      /\ pc' # "freed" /\ pc # "freed"
  BY <1>1, <1>2, <1>3, ThrownSafe
<1>5. ~Working(target) /\ target \notin mine
  BY <1>1, <1>2 DEF GcdInv
<1>6. GcdTyped' /\ \A x \in Slots \ {target} : gslots'[x] = gslots[x]
  <2>1. CASE role = "writer"
    BY <1>1, <1>2, <2>1 DEF GcdTyped, ErrorCleared
  <2>2. CASE role # "writer"
    BY <1>1, <1>2, <2>2 DEF GcdTyped, ErrorCleared
  <2> QED
    BY <2>1, <2>2
<1>7. \A s \in Slots : ~InSync(s)
  BY <1>3 DEF InSync
<1>8. \A x \in Slots : GcdInv(x)'
  <2> PICK t \in Slots : t = target
    BY <1>2
  <2>1. GcdInv(t)'
    BY <1>2, <1>4, <1>5 DEF GcdInv, Working, Right
  <2>2. \A x \in Slots \ {t} : GcdInv(x)'
    BY <1>1, <1>2, <1>4, <1>6, <1>7, GcdKept
  <2> QED
    BY <2>1, <2>2
<1> QED
  BY <1>4, <1>6, <1>8, GcdSafe

\* A worker's step in its loop or out of it.
LEMMA GcdWorkerSafe ==
  ASSUME IInv, GcdStep, NEW s \in Slots, GcdWorker(s)
  PROVE  IInv'
<1>1. /\ ClientTyped /\ ClientInv /\ GcdTyped /\ UNCHANGED <<kind, done>>
      /\ \A x \in Slots : GcdInv(x)
      /\ \A x \in mine : x \in Slots /\ ~Working(x)
  BY GcdFacts
<1>2. Working(s) /\ UNCHANGED <<role, stalls, pc, target, mine, latched, starts, finished>>
  BY DEF GcdWorker, GcdMoves, GcdFails, GcdPublishes, LoopRuns, LoopEnds, clientVars
<1>3. /\ s \notin mine /\ ~gslots[s].ready /\ ~gslots[s].error /\ pc # "freed"
      /\ Filled(s, workers[s].got)
      /\ fate[s] = IF workers[s].err THEN "unreported" ELSE "fine"
      /\ workers[s] \in [got : 0 .. Len, err : BOOLEAN]
  BY <1>1, <1>2, GcdFacts DEF GcdInv, GcdTyped, Working
<1>4. \A x : InSync(x)' <=> InSync(x)
  BY <1>2 DEF InSync
<1>5. ASSUME /\ moved' \in [Slots -> [Positions -> Positions \cup {Junk}]]
             /\ fate' \in [Slots -> {"fine", "unreported", "told"}]
             /\ \A x \in Slots \ {s} : moved'[x] = moved[x] /\ fate'[x] = fate[x]
      PROVE  ClientTyped' /\ ClientInv'
  <2>1. ClientTyped'
    BY <1>1, <1>2, <1>5 DEF ClientTyped
  <2>2. \A x \in mine : x \in Slots \ {s}
    BY <1>1, <1>3
  <2>3. \A x \in mine : fate'[x] # "unreported" /\ Right(x)'
    BY <1>1, <1>4, <1>5, <2>2 DEF ClientInv, Right
  <2>4. pc = "sync" => Filled(target, done)'
    BY <1>1, <1>2, <1>5, <2>2 DEF ClientInv, Filled
  <2> QED
    BY <1>1, <1>2, <1>5, <2>1, <2>2, <2>3, <2>4 DEF ClientInv
<1>6. ASSUME NEW n \in 1 .. Len, GcdMoves(s, n) PROVE IInv'
  <2>1. /\ ~workers[s].err /\ workers[s].got + n <= Len
        /\ Pass(s, workers[s].got, workers[s].got, n)
        /\ workers' = [workers EXCEPT ![s].got = @ + n]
        /\ UNCHANGED <<fate, gslots, notifying, asleep>>
    BY <1>6 DEF GcdMoves, LoopRuns
  <2>2. workers[s].got \in 0 .. Len /\ n \in 0 .. Len
    BY <1>3, SlotsAre
  <2>3. /\ moved' \in [Slots -> [Positions -> Positions \cup {Junk}]]
        /\ \A x \in Slots \ {s} : moved'[x] = moved[x]
        /\ \A i \in Positions : moved'[s][i] = IF i < workers[s].got + n THEN i ELSE Junk
    BY <1>1, <1>3, <2>1, <2>2, PassFills
  <2>4. /\ workers'[s] = [got |-> workers[s].got + n, err |-> FALSE]
        /\ \A x \in Slots \ {s} : workers'[x] = workers[x]
    BY <1>1, <1>3, <2>1 DEF GcdTyped
  <2>5. workers[s].got + n \in 0 .. Len
    BY <2>1, <2>2, SlotsAre
  <2>6. GcdTyped'
    <3>1. workers'[s] \in [got : 0 .. Len, err : BOOLEAN]
      BY <2>4, <2>5
    <3>2. workers' \in [Slots -> {Gone} \cup [got : 0 .. Len, err : BOOLEAN]]
      BY <1>1, <2>1, <2>4, <3>1 DEF GcdTyped
    <3> QED
      BY <1>1, <2>1, <3>2 DEF GcdTyped
  <2>7. GcdInv(s)'
    <3>1. Working(s)' /\ workers'[s].got = workers[s].got + n /\ ~workers'[s].err
      BY <2>4, <2>5, SlotsAre DEF Working, Gone
    <3>2. Filled(s, workers[s].got)'
      BY <2>3, <3>1 DEF Filled
    <3> QED
      BY <1>2, <1>3, <2>1, <3>1, <3>2 DEF GcdInv
  <2>8. \A x \in Slots \ {s} : GcdInv(x)'
    BY <1>1, <1>2, <1>4, <2>1, <2>3, <2>4, GcdKept
  <2>9. fate' \in [Slots -> {"fine", "unreported", "told"}]
    BY <1>1, <2>1 DEF ClientTyped
  <2>10. ClientTyped' /\ ClientInv'
    BY <1>5, <2>1, <2>3, <2>9
  <2> QED
    BY <1>2, <1>3, <2>6, <2>7, <2>8, <2>10, GcdSafe
<1>7. CASE GcdFails(s)
  <2>1. /\ ~workers[s].err
        /\ workers' = [workers EXCEPT ![s].err = TRUE]
        /\ fate' = [fate EXCEPT ![s] = "unreported"]
        /\ UNCHANGED <<moved, gslots, notifying, asleep>>
    BY <1>7 DEF GcdFails, LoopRuns, Fails
  <2>2. /\ workers'[s] \in [got : 0 .. Len, err : BOOLEAN]
        /\ workers'[s].got = workers[s].got /\ workers'[s].err
        /\ workers' \in [Slots -> {Gone} \cup [got : 0 .. Len, err : BOOLEAN]]
        /\ \A x \in Slots \ {s} : workers'[x] = workers[x]
    <3> DEFINE w == [workers[s] EXCEPT !.err = TRUE]
    <3>1. w \in [got : 0 .. Len, err : BOOLEAN] /\ w.got = workers[s].got /\ w.err
      BY <1>3
    <3>2. workers' = [workers EXCEPT ![s] = w]
      BY <2>1
    <3> HIDE DEF w
    <3> QED
      BY <1>1, <3>1, <3>2 DEF GcdTyped
  <2>3. fate'[s] = "unreported" /\ \A x \in Slots \ {s} : fate'[x] = fate[x]
    BY <1>1, <2>1 DEF ClientTyped
  <2>4. GcdTyped'
    BY <1>1, <2>1, <2>2 DEF GcdTyped
  <2>5. GcdInv(s)'
    <3>1. Working(s)' /\ workers'[s].got = workers[s].got /\ workers'[s].err
      BY <2>2, SlotsAre DEF Working, Gone
    <3>2. Filled(s, workers[s].got)'
      BY <1>3, <2>1, <3>1 DEF Filled
    <3> QED
      BY <1>2, <1>3, <2>1, <2>3, <3>1, <3>2 DEF GcdInv
  <2>6. \A x \in Slots \ {s} : GcdInv(x)'
    BY <1>1, <1>2, <1>4, <2>1, <2>2, <2>3, GcdKept
  <2>7. /\ moved' \in [Slots -> [Positions -> Positions \cup {Junk}]]
        /\ fate' \in [Slots -> {"fine", "unreported", "told"}]
    BY <1>1, <2>1 DEF ClientTyped
  <2>8. ClientTyped' /\ ClientInv'
    BY <1>5, <2>1, <2>3, <2>7
  <2> QED
    BY <1>2, <1>3, <2>4, <2>5, <2>6, <2>8, GcdSafe
<1>8. CASE GcdPublishes(s)
  <2>1. /\ workers[s].err \/ workers[s].got = Len
        /\ gslots' = [gslots EXCEPT ![s] = Result(s)]
        /\ workers' = [workers EXCEPT ![s] = Gone]
        /\ notifying' = notifying + 1
        /\ UNCHANGED <<fate, moved, asleep>>
    BY <1>2, <1>3, <1>8, SlotsAre DEF GcdPublishes, LoopEnds, LoopRuns, clientVars
  <2>2. /\ workers'[s] = Gone /\ gslots'[s] = [error |-> workers[s].err, ready |-> TRUE]
        /\ \A x \in Slots \ {s} : workers'[x] = workers[x] /\ gslots'[x] = gslots[x]
    BY <1>1, <2>1 DEF GcdTyped, Result
  <2>3. GcdTyped'
    <3>1. Result(s) \in [error : BOOLEAN, ready : BOOLEAN]
      BY <1>3 DEF Result
    <3> QED
      BY <1>1, <2>1, <3>1 DEF GcdTyped
  <2>4. GcdInv(s)'
    <3>1. ~workers[s].err => moved[s] = Whole
      BY <1>1, <1>3, <2>1, WholeIsFilled
    <3> QED
      BY <1>2, <1>3, <2>1, <2>2, <3>1 DEF GcdInv, Working, Right
  <2>5. \A x \in Slots \ {s} : GcdInv(x)'
    BY <1>1, <1>2, <1>4, <2>1, <2>2, GcdKept
  <2>6. /\ moved' \in [Slots -> [Positions -> Positions \cup {Junk}]]
        /\ fate' \in [Slots -> {"fine", "unreported", "told"}]
    BY <1>1, <2>1 DEF ClientTyped
  <2>7. ClientTyped' /\ ClientInv'
    BY <1>5, <2>1, <2>6
  <2> QED
    BY <1>2, <1>3, <2>3, <2>4, <2>5, <2>7, GcdSafe
<1> QED
  BY <1>6, <1>7, <1>8 DEF GcdWorker

LEMMA GcdOtherSafe ==
  ASSUME IInv, GcdStep, GcdWaitBlocks \/ GcdNotifies \/ GcdDestroyed
  PROVE  IInv'
<1>1. /\ ClientTyped /\ ClientInv /\ GcdTyped /\ UNCHANGED <<kind, done>>
      /\ \A x \in Slots : GcdInv(x)
      /\ pc = "freed" => notifying = 0 /\ \A s \in Slots : ~Working(s)
  BY GcdFacts
<1>2. /\ UNCHANGED <<role, stalls, target, mine, latched, starts, moved, fate, finished,
                     gslots, workers>>
      /\ pc' = pc \/ (pc = "drain" /\ pc' = "freed")
  BY DEF GcdWaitBlocks, GcdNotifies, GcdDestroyed, clientVars, gcdVars
<1>3. GcdTyped'
  <2>1. CASE GcdWaitBlocks
    BY <1>1, <2>1 DEF GcdWaitBlocks, GcdTyped
  <2>2. CASE GcdNotifies
    <3>1. notifying' \in Nat /\ asleep' = FALSE
      BY <1>1, <2>2 DEF GcdNotifies, GcdTyped, Awake
    <3> QED
      BY <1>1, <1>2, <3>1 DEF GcdTyped
  <2>3. CASE GcdDestroyed
    BY <1>1, <2>3 DEF GcdDestroyed, GcdTyped, gcdVars
  <2> QED
    BY <2>1, <2>2, <2>3
<1>4. \A s : InSync(s)' <=> InSync(s)
  BY <1>2 DEF InSync
<1>5. ClientTyped'
  BY <1>1, <1>2 DEF ClientTyped
<1>6. ClientInv'
  BY <1>1, <1>2, <1>4 DEF ClientInv, Right, Filled
<1>7. \A s \in Slots : GcdInv(s)'
  BY <1>1, <1>2, <1>4, GcdKept
<1>8. pc' = "freed" => notifying' = 0 /\ \A s \in Slots : ~Working(s)'
  <2>1. CASE GcdWaitBlocks
    BY <1>1, <2>1 DEF GcdWaitBlocks, Working, clientVars
  <2>2. CASE GcdNotifies
    <3>1. pc # "freed" /\ pc' = pc
      BY <1>1, <2>2 DEF GcdNotifies, clientVars
    <3> QED
      BY <3>1
  <2>3. CASE GcdDestroyed
    BY <2>3 DEF GcdDestroyed, Working, gcdVars
  <2> QED
    BY <2>1, <2>2, <2>3
<1> QED
  BY <1>3, <1>5, <1>6, <1>7, <1>8, GcdSafe

-----------------------------------------------------------------------------
(* Completion ports *)

\* The steps over a port leave Grand Central Dispatch's variables alone.
IocpStep == kind = "iocp" /\ UNCHANGED <<gcdVars, kind, done>>

LEMMA IocpFacts ==
  ASSUME IInv, IocpStep
  PROVE  /\ ClientTyped /\ ClientInv /\ IocpTyped
         /\ \A s \in Slots : IocpInv(s)
         /\ Counted
         /\ portFailed => pc = "freed"
         /\ pc = "freed" /\ ~portFailed => flight = {} /\ port = {}
         /\ \A s \in mine : s \in Slots
         /\ UNCHANGED <<kind, done>>
BY DEF IInv, Typed, IocpSide, IocpStep, ClientTyped

LEMMA IocpSafe ==
  ASSUME IInv, IocpStep, ClientTyped', ClientInv', IocpTyped',
         \A s \in Slots : IocpInv(s)', Counted',
         portFailed' => pc' = "freed",
         pc' = "freed" /\ ~portFailed' => flight' = {} /\ port' = {}
  PROVE  IInv'
BY DEF IInv, Typed, GcdTyped, IocpSide, IocpStep, gcdVars, Working

\* What the completions of a slot say of it.
LEMMA CompletionIs ==
  ASSUME IocpTyped, NEW c \in port, \A s \in Slots : IocpInv(s)
  PROVE  /\ c.slot \in Slots /\ c.at \in 0 .. Len - 1 /\ c.bytes \in 0 .. Len
         /\ c.at = islots[c.slot].filled /\ c.slot \notin mine /\ ~islots[c.slot].ready
         /\ c.at + c.bytes <= Len
         /\ IF c.bytes = 0 THEN fate[c.slot] = "unreported"
            ELSE Filled(c.slot, c.at + c.bytes) /\ fate[c.slot] = "fine"
         /\ \A d \in port \ {c} : d.slot # c.slot
         /\ \A r \in flight : r.slot # c.slot
<1>1. c.slot \in Slots /\ c.at \in 0 .. Len - 1 /\ c.bytes \in 0 .. Len
  BY DEF IocpTyped
<1>2. IocpInv(c.slot)
  BY <1>1
<1> QED
  BY <1>1, <1>2 DEF IocpInv

LEMMA TakenOff ==
  ASSUME IocpTyped, NEW c \in port, port' = port \ {c}
  PROVE  /\ IsFiniteSet(port')
         /\ port' \subseteq [slot : Slots, at : 0 .. Len - 1, bytes : 0 .. Len]
         /\ Cardinality(port') = Cardinality(port) - 1
         /\ Cardinality(port) \in Nat /\ Cardinality(flight) \in Nat
         /\ Cardinality(port) > 0
<1>1. IsFiniteSet(port) /\ IsFiniteSet(flight)
  BY DEF IocpTyped
<1>2. Cardinality(port \ {c}) = Cardinality(port) - 1 /\ IsFiniteSet(port \ {c})
  BY <1>1, FS_RemoveElement
<1>3. Cardinality(port) \in Nat /\ Cardinality(flight) \in Nat
  BY <1>1, FS_CardinalityType
<1>4. Cardinality(port) # 0
  BY <1>1, FS_EmptySet
<1> QED
  BY <1>2, <1>3, <1>4 DEF IocpTyped

LEMMA Issued ==
  ASSUME IsFiniteSet(flight), NEW r, r \notin flight, flight' = flight \cup {r}
  PROVE  /\ IsFiniteSet(flight') /\ Cardinality(flight') = Cardinality(flight) + 1
         /\ Cardinality(flight) \in Nat
BY FS_AddElement, FS_CardinalityType

LEMMA SameClient ==
  ASSUME ClientTyped, ClientInv, UNCHANGED <<clientVars, kind, done>>
  PROVE  /\ ClientTyped' /\ ClientInv'
         /\ \A s : InSync(s)' <=> InSync(s)
         /\ \A s : Right(s)' <=> Right(s)
         /\ \A s : \A n : Filled(s, n)' <=> Filled(s, n)
<1>1. ClientTyped'
  BY DEF ClientTyped, clientVars
<1>2. \A s : InSync(s)' <=> InSync(s)
  BY DEF InSync, clientVars
<1>3. \A s : Right(s)' <=> Right(s)
  BY <1>2 DEF Right, clientVars
<1>4. \A s : \A n : Filled(s, n)' <=> Filled(s, n)
  BY DEF Filled, clientVars
<1>5. Filled(target, done)' <=> Filled(target, done)
  BY DEF Filled, clientVars
<1>6. ClientInv'
  BY <1>3, <1>5 DEF ClientInv, clientVars
<1> QED
  BY <1>1, <1>2, <1>3, <1>4, <1>6

LEMMA IocpStartSafe ==
  ASSUME IInv, IocpStep, NEW s \in Slots, IocpStart(s)
  PROVE  IInv'
<1>1. /\ ClientTyped /\ ClientInv /\ IocpTyped /\ UNCHANGED <<kind, done>>
      /\ \A x \in Slots : IocpInv(x)
      /\ Counted
      /\ portFailed => pc = "freed"
  BY IocpFacts
<1> DEFINE new == [slot |-> s, at |-> 0]
<1>2. /\ StartCall(s)
      /\ islots' = [islots EXCEPT ![s] = [filled |-> 0, ready |-> FALSE]]
      /\ \/ flight' = flight \cup {new} /\ outstanding' = outstanding + 1
         \/ flight' = flight /\ outstanding' = outstanding
      /\ fate' = [fate EXCEPT ![s] = IF flight' = flight THEN "told" ELSE Afresh(s)]
      /\ latched' = (flight' = flight /\ role = "reader")
      /\ UNCHANGED <<port, cancelled, portFailed>>
  BY DEF IocpStart, SubmitRequest, Refused
<1>3. latched' \in BOOLEAN
  BY <1>2
<1>4. PICK f \in {"fine", "unreported", "told"} :
        f = IF flight' = flight THEN "told" ELSE Afresh(s)
  <2>1. s \in Slots /\ fate[s] \in {"fine", "unreported", "told"}
    BY <1>1 DEF ClientTyped
  <2>2. Afresh(s) \in {"fine", "unreported", "told"}
    BY <2>1 DEF Afresh
  <2> QED
    BY <2>2
<1>5. fate' = [fate EXCEPT ![s] = f]
  BY <1>2, <1>4
<1>6. /\ ClientTyped' /\ ClientInv'
      /\ s \in mine /\ mine' = mine \ {s} /\ moved'[s] = Blank /\ fate'[s] = f
      /\ Afresh(s) = "fine"
      /\ \A x \in Slots \ {s} : moved'[x] = moved[x] /\ fate'[x] = fate[x]
      /\ \A x \in Slots : ~InSync(x) /\ ~InSync(x)'
      /\ pc = "idle" /\ pc' = "idle"
  BY <1>1, <1>2, <1>3, <1>5, StartSafe
<1>7. /\ islots'[s] = [filled |-> 0, ready |-> FALSE]
      /\ \A x \in Slots \ {s} : islots'[x] = islots[x]
      /\ islots' \in [Slots -> [filled : 0 .. Len, ready : BOOLEAN]]
  <2>1. [filled |-> 0, ready |-> FALSE] \in [filled : 0 .. Len, ready : BOOLEAN]
    BY SlotsAre
  <2> QED
    BY <1>1, <1>2, <2>1 DEF IocpTyped
<1>8. (\A r \in flight : r.slot # s) /\ (\A c \in port : c.slot # s)
  BY <1>1, <1>6 DEF IocpInv
<1>9. new.slot = s /\ new.at = 0 /\ new \in [slot : Slots, at : 0 .. Len - 1]
  BY SlotsAre
<1>10. Filled(s, 0)'
  BY <1>6, SlotsAre DEF Filled, Blank, Positions
<1>11. CASE flight' = flight /\ outstanding' = outstanding
  <2>1. IocpTyped' /\ Counted'
    BY <1>1, <1>2, <1>7, <1>11 DEF IocpTyped, Counted
  <2>2. IocpInv(s)'
    BY <1>2, <1>7, <1>8, <1>11 DEF IocpInv
  <2>3. \A x \in Slots \ {s} : IocpInv(x)'
    BY <1>1, <1>2, <1>6, <1>7, <1>11, IocpKept
  <2> QED
    BY <1>1, <1>2, <1>6, <2>1, <2>2, <2>3, IocpSafe
<1>12. CASE flight' = flight \cup {new} /\ outstanding' = outstanding + 1
  <2>1. new \notin flight
    BY <1>8, <1>9
  <2> HIDE DEF new
  <2>2. /\ IsFiniteSet(flight') /\ Cardinality(flight') = Cardinality(flight) + 1
        /\ Cardinality(flight) \in Nat
    BY <1>1, <1>12, <2>1, Issued DEF IocpTyped
  <2>3. Cardinality(port) \in Nat /\ Cardinality(port') = Cardinality(port)
    BY <1>1, <1>2, FS_CardinalityType DEF IocpTyped
  <2>4. IocpTyped'
    BY <1>1, <1>2, <1>7, <1>9, <1>12, <2>2 DEF IocpTyped
  <2>5. Counted'
    BY <1>1, <1>12, <2>2, <2>3 DEF Counted
  <2>6. fate'[s] = "fine"
    BY <1>4, <1>6, <1>12, <2>1
  <2>7. s \notin mine'
    BY <1>6
  <2>8. IocpInv(s)'
    BY <1>2, <1>7, <1>8, <1>9, <1>10, <1>12, <2>6, <2>7 DEF IocpInv
  <2>9. \A x \in Slots \ {s} : IocpInv(x)'
    BY <1>1, <1>2, <1>6, <1>7, <1>9, <1>12, IocpKept
  <2> QED
    BY <1>1, <1>2, <1>6, <2>4, <2>5, <2>8, <2>9, IocpSafe
<1> QED
  BY <1>2, <1>11, <1>12

LEMMA IocpWaitReturnsSafe ==
  ASSUME IInv, IocpStep, IocpWaitReturns
  PROVE  IInv'
<1>1. /\ ClientTyped /\ ClientInv /\ IocpTyped /\ UNCHANGED <<kind, done>>
      /\ \A x \in Slots : IocpInv(x)
      /\ Counted
      /\ portFailed => pc = "freed"
  BY IocpFacts
<1>2. /\ InWait /\ SlotIdle /\ islots[target].ready /\ target \in Slots
      /\ UNCHANGED <<islots, flight, port, outstanding, cancelled, portFailed>>
  BY <1>1 DEF IocpWaitReturns, ClientTyped, iocpVars
<1>3. fate[target] # "unreported" /\ Right(target)
  BY <1>1, <1>2 DEF IocpInv
<1>4. /\ ClientTyped' /\ ClientInv'
      /\ mine' = mine \cup {target} /\ UNCHANGED <<moved, fate>>
      /\ \A s \in Slots : ~InSync(s) /\ ~InSync(s)'
      /\ pc' # "freed" /\ pc # "freed"
  BY <1>1, <1>2, <1>3, IdleSafe
<1>5. IocpTyped' /\ Counted'
  BY <1>1, <1>2 DEF IocpTyped, Counted
<1>6. \A x \in Slots : IocpInv(x)'
  <2> PICK t \in Slots : t = target
    BY <1>2
  <2>1. islots[t].ready /\ \A r \in flight : r.slot # t
    BY <1>1, <1>2 DEF IocpInv
  <2>2. \A c \in port : c.slot # t
    BY <1>1, <1>2 DEF IocpInv
  <2>3. IocpInv(t)'
    BY <1>2, <1>3, <1>4, <2>1, <2>2 DEF IocpInv, Right
  <2>4. \A x \in Slots \ {t} : IocpInv(x)'
    BY <1>1, <1>2, <1>4, IocpKept
  <2> QED
    BY <2>3, <2>4
<1> QED
  BY <1>1, <1>2, <1>4, <1>5, <1>6, IocpSafe

LEMMA IocpAbsorbsSafe ==
  ASSUME IInv, IocpStep, NEW c \in port, IocpAbsorbs(c)
  PROVE  IInv'
<1>1. /\ ClientTyped /\ ClientInv /\ IocpTyped /\ UNCHANGED <<kind, done>>
      /\ \A x \in Slots : IocpInv(x)
      /\ Counted
      /\ portFailed => pc = "freed"
  BY IocpFacts
<1>2. /\ c.bytes > 0 /\ Enough(c) /\ pc # "freed"
      /\ islots' = [islots EXCEPT ![c.slot] = [filled |-> FilledBy(c), ready |-> TRUE]]
      /\ port' = port \ {c} /\ outstanding' = outstanding - 1
      /\ UNCHANGED <<clientVars, flight, cancelled, portFailed>>
  BY DEF IocpAbsorbs, Waiting, InWait
<1> PICK t \in Slots : t = c.slot
  BY <1>1, CompletionIs
<1>3. /\ t \notin mine /\ FilledBy(c) = Len /\ Filled(t, Len) /\ fate[t] = "fine"
      /\ \A d \in port' : d.slot # t
      /\ \A r \in flight : r.slot # t
  <2>1. /\ c.at \in 0 .. Len - 1 /\ c.bytes \in 0 .. Len /\ c.at = islots[c.slot].filled
        /\ c.at + c.bytes <= Len /\ c.bytes # 0
        /\ t \notin mine /\ Filled(t, c.at + c.bytes) /\ fate[t] = "fine"
        /\ \A d \in port \ {c} : d.slot # t
        /\ \A r \in flight : r.slot # t
    BY <1>1, <1>2, SlotsAre, CompletionIs
  <2>2. c.at + c.bytes = Len
    BY <1>2, <2>1, SlotsAre DEF Enough, FilledBy
  <2> QED
    BY <1>2, <2>1, <2>2 DEF FilledBy
<1>4. /\ ClientTyped' /\ ClientInv'
      /\ \A s : InSync(s)' <=> InSync(s)
      /\ \A s : Right(s)' <=> Right(s)
      /\ UNCHANGED <<moved, fate, mine, pc>>
  BY <1>1, <1>2, SameClient DEF clientVars
<1>5. /\ islots'[t] = [filled |-> Len, ready |-> TRUE]
      /\ \A x \in Slots \ {t} : islots'[x] = islots[x]
      /\ islots' \in [Slots -> [filled : 0 .. Len, ready : BOOLEAN]]
  <2>1. [filled |-> Len, ready |-> TRUE] \in [filled : 0 .. Len, ready : BOOLEAN]
    BY SlotsAre
  <2> QED
    BY <1>1, <1>2, <1>3, <2>1 DEF IocpTyped
<1>6. /\ IsFiniteSet(port')
      /\ port' \subseteq [slot : Slots, at : 0 .. Len - 1, bytes : 0 .. Len]
      /\ Cardinality(port') = Cardinality(port) - 1
      /\ Cardinality(port) \in Nat /\ Cardinality(flight) \in Nat /\ Cardinality(port) > 0
  BY <1>1, <1>2, TakenOff
<1>7. Counted' /\ outstanding' \in Nat
  BY <1>1, <1>2, <1>6 DEF Counted, IocpTyped
<1>8. IocpTyped'
  BY <1>1, <1>2, <1>5, <1>6, <1>7 DEF IocpTyped
<1>9. IocpInv(t)'
  <2>1. Right(t)
    BY <1>1, <1>3, WholeIsFilled DEF Right
  <2> QED
    BY <1>2, <1>3, <1>4, <1>5, <2>1 DEF IocpInv
<1>10. \A x \in Slots \ {t} : IocpInv(x)'
  BY <1>1, <1>2, <1>4, <1>5, IocpKept
<1> QED
  BY <1>1, <1>2, <1>4, <1>7, <1>8, <1>9, <1>10, IocpSafe

\* A short transfer goes on, or the next request is refused and thrown.
LEMMA IocpContinuesSafe ==
  ASSUME IInv, IocpStep, NEW c \in port, IocpContinues(c)
  PROVE  IInv'
<1>1. /\ ClientTyped /\ ClientInv /\ IocpTyped /\ UNCHANGED <<kind, done>>
      /\ \A x \in Slots : IocpInv(x)
      /\ Counted
      /\ portFailed => pc = "freed"
  BY IocpFacts
<1> PICK t \in Slots : t = c.slot
  BY <1>1, CompletionIs
<1> PICK k \in Int : k = FilledBy(c)
  BY <1>1, CompletionIs DEF FilledBy, IocpTyped
<1> DEFINE new == [slot |-> t, at |-> k]
<1>2. /\ c.bytes > 0 /\ ~(k >= Len) /\ InWait
      /\ islots' = [islots EXCEPT ![t].filled = k]
      /\ port' = port \ {c}
      /\ \/ flight' = flight \cup {new} /\ outstanding' = outstanding - 1 + 1
         \/ flight' = flight /\ outstanding' = outstanding - 1
      /\ IF flight' = flight THEN Thrown({t}) ELSE UNCHANGED <<fate, pc>>
      /\ UNCHANGED <<role, stalls, target, mine, latched, starts, moved, finished,
                     cancelled, portFailed>>
  BY DEF IocpContinues, Waiting, Enough, SubmitRequest, Refused
<1>3. /\ c.at \in 0 .. Len - 1 /\ c.bytes \in 0 .. Len /\ c.at = islots[t].filled
      /\ c.at + c.bytes <= Len /\ c.bytes # 0
      /\ t \notin mine /\ ~islots[t].ready
      /\ Filled(t, c.at + c.bytes) /\ fate[t] = "fine"
      /\ \A d \in port \ {c} : d.slot # t
      /\ \A r \in flight : r.slot # t
  BY <1>1, <1>2, SlotsAre, CompletionIs
<1>4. k = c.at + c.bytes /\ k \in 0 .. Len - 1 /\ Filled(t, k)
  BY <1>2, <1>3, SlotsAre DEF FilledBy
<1>5. /\ islots'[t].filled = k /\ ~islots'[t].ready
      /\ \A x \in Slots \ {t} : islots'[x] = islots[x]
      /\ islots' \in [Slots -> [filled : 0 .. Len, ready : BOOLEAN]]
  <2> DEFINE w == [islots[t] EXCEPT !.filled = k]
  <2>1. /\ w \in [filled : 0 .. Len, ready : BOOLEAN]
        /\ w.filled = k /\ w.ready = islots[t].ready
    BY <1>1, <1>4, SlotsAre DEF IocpTyped
  <2>2. islots' = [islots EXCEPT ![t] = w]
    BY <1>2
  <2> HIDE DEF w
  <2> QED
    BY <1>1, <1>3, <2>1, <2>2 DEF IocpTyped
<1>6. /\ IsFiniteSet(port')
      /\ port' \subseteq [slot : Slots, at : 0 .. Len - 1, bytes : 0 .. Len]
      /\ Cardinality(port') = Cardinality(port) - 1
      /\ Cardinality(port) \in Nat /\ Cardinality(flight) \in Nat /\ Cardinality(port) > 0
  BY <1>1, <1>2, TakenOff
<1>7. pc # "freed" /\ pc # "sync" /\ \A s : ~InSync(s)
  BY <1>2 DEF InWait, InSync
<1>8. CASE flight' = flight /\ outstanding' = outstanding - 1
  <2>1. Thrown({t})
    BY <1>2, <1>8
  <2>2. /\ ClientTyped' /\ ClientInv'
        /\ \A s \in Slots : fate'[s] = IF s \in {t} THEN "told" ELSE fate[s]
        /\ UNCHANGED <<mine, moved, target>>
        /\ \A s \in Slots : ~InSync(s)'
        /\ pc' # "freed"
    BY <1>1, <1>2, <1>7, <2>1, ThrownSafe
  <2>3. Counted' /\ outstanding' \in Nat
    BY <1>1, <1>6, <1>8 DEF Counted, IocpTyped
  <2>4. IocpTyped'
    BY <1>1, <1>2, <1>5, <1>6, <1>8, <2>3 DEF IocpTyped
  <2>5. IocpInv(t)'
    BY <1>2, <1>3, <1>5, <1>8 DEF IocpInv
  <2>6. \A x \in Slots \ {t} : IocpInv(x)'
    BY <1>1, <1>2, <1>5, <1>7, <1>8, <2>2, IocpKept
  <2> QED
    BY <1>1, <1>2, <1>7, <2>2, <2>3, <2>4, <2>5, <2>6, IocpSafe
<1>9. CASE flight' = flight \cup {new} /\ outstanding' = outstanding - 1 + 1
  <2>1. new.slot = t /\ new.at = k /\ new \in [slot : Slots, at : 0 .. Len - 1]
    BY <1>4
  <2>2. new \notin flight
    BY <1>3, <2>1
  <2> HIDE DEF new
  <2>3. flight' # flight
    BY <1>9, <2>2
  <2>4. UNCHANGED clientVars
    BY <1>2, <2>3 DEF clientVars
  <2>5. /\ IsFiniteSet(flight') /\ Cardinality(flight') = Cardinality(flight) + 1
    BY <1>1, <1>9, <2>2, Issued DEF IocpTyped
  <2>6. Counted' /\ outstanding' \in Nat
    BY <1>1, <1>6, <1>9, <2>5 DEF Counted, IocpTyped
  <2>7. IocpTyped'
    BY <1>1, <1>2, <1>5, <1>6, <1>9, <2>1, <2>5, <2>6 DEF IocpTyped
  <2>8. /\ ClientTyped' /\ ClientInv'
        /\ \A s : \A n : Filled(s, n)' <=> Filled(s, n)
        /\ \A s : InSync(s)' <=> InSync(s)
        /\ UNCHANGED <<moved, fate, mine, pc>>
    BY <1>1, <2>4, SameClient DEF clientVars
  <2>9. IocpInv(t)'
    BY <1>2, <1>3, <1>4, <1>5, <1>9, <2>1, <2>8 DEF IocpInv
  <2>10. \A x \in Slots \ {t} : IocpInv(x)'
    BY <1>1, <1>2, <1>5, <1>9, <2>1, <2>8, IocpKept
  <2> QED
    BY <1>1, <1>2, <1>7, <2>6, <2>7, <2>8, <2>9, <2>10, IocpSafe
<1> QED
  BY <1>2, <1>8, <1>9

LEMMA IocpWaitThrowsSafe ==
  ASSUME IInv, IocpStep, NEW c \in port, IocpWaitThrows(c)
  PROVE  IInv'
<1>1. /\ ClientTyped /\ ClientInv /\ IocpTyped /\ UNCHANGED <<kind, done>>
      /\ \A x \in Slots : IocpInv(x)
      /\ Counted
      /\ portFailed => pc = "freed"
  BY IocpFacts
<1> PICK t \in Slots : t = c.slot
  BY <1>1, CompletionIs
<1>2. /\ InWait /\ port' = port \ {c} /\ outstanding' = outstanding - 1
      /\ Thrown({t}) /\ UNCHANGED <<islots, flight, cancelled, portFailed>>
  BY DEF IocpWaitThrows, Waiting
<1>3. /\ t \notin mine /\ ~islots[t].ready
      /\ \A d \in port \ {c} : d.slot # t
      /\ \A r \in flight : r.slot # t
  BY <1>1, CompletionIs
<1>4. pc # "freed" /\ pc # "sync" /\ \A s : ~InSync(s)
  BY <1>2 DEF InWait, InSync
<1>5. /\ ClientTyped' /\ ClientInv'
      /\ \A s \in Slots : fate'[s] = IF s \in {t} THEN "told" ELSE fate[s]
      /\ UNCHANGED <<mine, moved, target>>
      /\ \A s \in Slots : ~InSync(s)'
      /\ pc' # "freed"
  BY <1>1, <1>2, <1>4, ThrownSafe
<1>6. /\ IsFiniteSet(port')
      /\ port' \subseteq [slot : Slots, at : 0 .. Len - 1, bytes : 0 .. Len]
      /\ Cardinality(port') = Cardinality(port) - 1
      /\ Cardinality(port) \in Nat /\ Cardinality(flight) \in Nat /\ Cardinality(port) > 0
  BY <1>1, <1>2, TakenOff
<1>7. Counted' /\ outstanding' \in Nat
  BY <1>1, <1>2, <1>6 DEF Counted, IocpTyped
<1>8. IocpTyped'
  BY <1>1, <1>2, <1>6, <1>7 DEF IocpTyped
<1>9. IocpInv(t)'
  BY <1>2, <1>3 DEF IocpInv
<1>10. \A x \in Slots \ {t} : IocpInv(x)'
  BY <1>1, <1>2, <1>4, <1>5, IocpKept
<1> QED
  BY <1>1, <1>2, <1>4, <1>5, <1>7, <1>8, <1>9, <1>10, IocpSafe

LEMMA IocpPortThrowsSafe ==
  ASSUME IInv, IocpStep, IocpPortThrows
  PROVE  IInv'
<1>1. /\ ClientTyped /\ ClientInv /\ UNCHANGED <<kind, done, gcdVars, iocpVars>>
      /\ InWait /\ Thrown({})
  BY DEF IInv, Typed, IocpStep, IocpPortThrows, Waiting
<1>2. pc # "sync"
  BY <1>1 DEF InWait
<1>3. /\ ClientTyped' /\ ClientInv'
      /\ \A s \in Slots : fate'[s] = IF s \in {} THEN "told" ELSE fate[s]
      /\ UNCHANGED <<mine, moved, target>>
      /\ pc' # "freed" /\ pc # "freed"
  BY <1>1, <1>2, ThrownSafe
<1> QED
  BY <1>1, <1>3, CallSafe

\* The system serves a request in part, or fails it.
LEMMA IocpServesSafe ==
  ASSUME IInv, IocpStep, NEW r \in flight, NEW n \in 0 .. Len, IocpServes(r, n)
  PROVE  IInv'
<1>1. /\ ClientTyped /\ ClientInv /\ IocpTyped /\ UNCHANGED <<kind, done>>
      /\ \A x \in Slots : IocpInv(x)
      /\ \A x \in mine : x \in Slots
      /\ Counted
      /\ portFailed => pc = "freed"
      /\ pc = "freed" /\ ~portFailed => flight = {} /\ port = {}
  BY IocpFacts
<1> PICK t \in Slots, k \in 0 .. Len - 1 : t = r.slot /\ k = r.at
  BY <1>1 DEF IocpTyped
<1> DEFINE c == [slot |-> t, at |-> k, bytes |-> n]
<1>2. /\ k + n <= Len /\ flight' = flight \ {r} /\ port' = port \cup {c}
      /\ Pass(t, k, k, n)
      /\ IF n = 0 THEN fate' = [fate EXCEPT ![t] = "unreported"] ELSE UNCHANGED fate
      /\ UNCHANGED <<role, stalls, pc, target, mine, latched, starts, finished, islots,
                     outstanding, cancelled, portFailed>>
  BY DEF IocpServes, Fails
<1>3. /\ k = islots[t].filled /\ t \notin mine /\ ~islots[t].ready
      /\ Filled(t, k) /\ fate[t] = "fine"
      /\ \A d \in port : d.slot # t
  BY <1>1 DEF IocpInv
<1>4. \A q \in flight \ {r} : q.slot # t
  <2> SUFFICES ASSUME NEW q \in flight, q.slot = t PROVE q = r
    OBVIOUS
  <2>1. q.at = islots[t].filled
    BY <1>1 DEF IocpInv
  <2>2. q.at = r.at /\ q.slot = r.slot
    BY <1>3, <2>1
  <2>3. q \in [slot : Slots, at : 0 .. Len - 1] /\ r \in [slot : Slots, at : 0 .. Len - 1]
    BY <1>1 DEF IocpTyped
  <2>4. q = [slot |-> q.slot, at |-> q.at] /\ r = [slot |-> r.slot, at |-> r.at]
    BY <2>3, Zenon
  <2> QED
    BY <2>2, <2>4
<1>5. k \in 0 .. Len /\ k + n \in 0 .. Len /\ k + n <= Len
  BY <1>2, SlotsAre
<1>6. /\ moved' \in [Slots -> [Positions -> Positions \cup {Junk}]]
      /\ \A x \in Slots \ {t} : moved'[x] = moved[x]
      /\ \A i \in Positions : moved'[t][i] = IF i < k + n THEN i ELSE Junk
  BY <1>1, <1>2, <1>3, <1>5, PassFills
<1>7. /\ fate' \in [Slots -> {"fine", "unreported", "told"}]
      /\ \A x \in Slots \ {t} : fate'[x] = fate[x]
      /\ fate'[t] = IF n = 0 THEN "unreported" ELSE "fine"
  <2>1. CASE n = 0
    BY <1>1, <1>2, <2>1 DEF ClientTyped
  <2>2. CASE n # 0
    BY <1>1, <1>2, <1>3, <2>2 DEF ClientTyped
  <2> QED
    BY <2>1, <2>2
<1>8. \A x : InSync(x)' <=> InSync(x)
  BY <1>2 DEF InSync
<1>9. ClientTyped'
  BY <1>1, <1>2, <1>6, <1>7 DEF ClientTyped
<1>10. ClientInv'
  <2>1. \A x \in mine : x \in Slots \ {t}
    BY <1>1, <1>3
  <2>2. \A x \in mine : fate'[x] # "unreported" /\ Right(x)'
    BY <1>1, <1>6, <1>7, <1>8, <2>1 DEF ClientInv, Right
  <2>3. pc = "sync" => Filled(target, done)' /\ fate'[target] = "fine"
    BY <1>1, <1>2, <1>6, <1>7, <2>1 DEF ClientInv, Filled
  <2> QED
    BY <1>1, <1>2, <2>2, <2>3 DEF ClientInv
<1>11. /\ c.slot = t /\ c.at = k /\ c.bytes = n
       /\ c \in [slot : Slots, at : 0 .. Len - 1, bytes : 0 .. Len]
  OBVIOUS
<1>12. c \notin port
  BY <1>3, <1>11
<1> HIDE DEF c
<1>13. /\ IsFiniteSet(flight') /\ IsFiniteSet(port')
       /\ Cardinality(flight') = Cardinality(flight) - 1
       /\ Cardinality(port') = Cardinality(port) + 1
       /\ Cardinality(flight) \in Nat /\ Cardinality(port) \in Nat
  BY <1>1, <1>2, <1>12, FS_AddElement, FS_RemoveElement, FS_CardinalityType DEF IocpTyped
<1>14. Counted'
  BY <1>1, <1>2, <1>13 DEF Counted, IocpTyped
<1>15. IocpTyped'
  BY <1>1, <1>2, <1>11, <1>13 DEF IocpTyped
<1>16. IocpInv(t)'
  <2>1. \A d \in port' : d.slot = t => d = c
    BY <1>2, <1>3
  <2>2. \A q \in flight' : q.slot # t
    BY <1>2, <1>4
  <2>3. Filled(t, c.at + c.bytes)'
    <3>1. c.at' = k /\ c.bytes' = n
      BY <1>11 DEF c
    <3> QED
      BY <1>6, <1>11, <3>1 DEF Filled
  <2>4. islots' = islots /\ t \notin mine'
    BY <1>2, <1>3
  <2>5. ASSUME NEW d \in port', d.slot = t
        PROVE  /\ d.at = islots'[t].filled /\ d.at + d.bytes <= Len
               /\ IF d.bytes = 0 THEN fate'[t] = "unreported"
                  ELSE Filled(t, d.at + d.bytes)' /\ fate'[t] = "fine"
    <3>1. d = c
      BY <2>1, <2>5
    <3>2. d.at = k /\ d.bytes = n
      BY <3>1, <1>11
    <3>3. \A i \in Positions : moved'[t][i] = IF i < d.at + d.bytes THEN i ELSE Junk
      BY <1>6, <3>2
    <3> QED
      BY <1>3, <1>5, <1>7, <2>4, <3>2, <3>3 DEF Filled
  <2> QED
    BY <1>3, <2>1, <2>2, <2>4, <2>5 DEF IocpInv
<1>17. \A x \in Slots \ {t} : IocpInv(x)'
  BY <1>1, <1>2, <1>6, <1>7, <1>8, <1>11, IocpKept
<1> QED
  BY <1>1, <1>2, <1>9, <1>10, <1>14, <1>15, <1>16, <1>17, IocpSafe

\* The destructor's steps.
LEMMA IocpDrainsSafe ==
  ASSUME IInv, IocpStep, NEW c \in port, IocpDrains(c)
  PROVE  IInv'
<1>1. /\ ClientTyped /\ ClientInv /\ IocpTyped /\ UNCHANGED <<kind, done>>
      /\ \A x \in Slots : IocpInv(x)
      /\ Counted
      /\ portFailed => pc = "freed"
  BY IocpFacts
<1>2. /\ pc = "drain" /\ port' = port \ {c} /\ outstanding' = outstanding - 1
      /\ UNCHANGED <<clientVars, islots, flight, cancelled, portFailed>>
  BY DEF IocpDrains
<1>3. /\ ClientTyped' /\ ClientInv'
      /\ \A s : InSync(s)' <=> InSync(s)
      /\ UNCHANGED <<moved, fate, mine, pc>>
  BY <1>1, <1>2, SameClient DEF clientVars
<1>4. /\ IsFiniteSet(port')
      /\ port' \subseteq [slot : Slots, at : 0 .. Len - 1, bytes : 0 .. Len]
      /\ Cardinality(port') = Cardinality(port) - 1
      /\ Cardinality(port) \in Nat /\ Cardinality(flight) \in Nat /\ Cardinality(port) > 0
  BY <1>1, <1>2, TakenOff
<1>5. Counted' /\ outstanding' \in Nat
  BY <1>1, <1>2, <1>4 DEF Counted, IocpTyped
<1>6. IocpTyped'
  BY <1>1, <1>2, <1>4, <1>5 DEF IocpTyped
<1>7. \A x \in Slots : IocpInv(x)'
  BY <1>1, <1>2, <1>3, IocpKept
<1> QED
  BY <1>1, <1>2, <1>3, <1>5, <1>6, <1>7, IocpSafe

LEMMA IocpOtherSafe ==
  ASSUME IInv, IocpStep, IocpCancels \/ IocpDestroyed \/ IocpGivesUp
  PROVE  IInv'
<1>1. /\ ClientTyped /\ ClientInv /\ IocpTyped /\ UNCHANGED <<kind, done>>
      /\ \A x \in Slots : IocpInv(x)
      /\ Counted
      /\ portFailed => pc = "freed"
  BY IocpFacts
<1>2. /\ pc = "drain" /\ pc' \in {"drain", "freed"}
      /\ UNCHANGED <<role, stalls, target, mine, latched, starts, moved, fate, finished,
                     islots, flight, port, outstanding>>
      /\ cancelled' \in BOOLEAN /\ portFailed' \in BOOLEAN
      /\ portFailed' => pc' = "freed"
      /\ pc' = "freed" /\ ~portFailed' => outstanding = 0
  <2>1. CASE IocpCancels
    BY <1>1, <2>1 DEF IocpCancels, clientVars, IocpTyped
  <2>2. CASE IocpDestroyed
    BY <1>1, <2>2 DEF IocpDestroyed, iocpVars, IocpTyped
  <2>3. CASE IocpGivesUp
    BY <1>1, <2>3 DEF IocpGivesUp, IocpTyped
  <2> QED
    BY <2>1, <2>2, <2>3
<1>3. outstanding = 0 => flight = {} /\ port = {}
  <2>1. Cardinality(flight) \in Nat /\ Cardinality(port) \in Nat
    BY <1>1, FS_CardinalityType DEF IocpTyped
  <2>2. ASSUME outstanding = 0 PROVE Cardinality(flight) = 0 /\ Cardinality(port) = 0
    BY <1>1, <2>1, <2>2 DEF Counted
  <2> QED
    BY <1>1, <2>2, FS_EmptySet DEF IocpTyped
<1>4. \A s : ~InSync(s)' /\ ~InSync(s)
  BY <1>2 DEF InSync
<1>5. ClientTyped'
  BY <1>1, <1>2 DEF ClientTyped
<1>6. ClientInv'
  BY <1>1, <1>2, <1>4 DEF ClientInv, Right
<1>7. IocpTyped' /\ Counted'
  BY <1>1, <1>2 DEF IocpTyped, Counted
<1>8. \A x \in Slots : IocpInv(x)'
  BY <1>1, <1>2, <1>4, IocpKept
<1> QED
  BY <1>2, <1>3, <1>5, <1>6, <1>7, <1>8, IocpSafe

-----------------------------------------------------------------------------
(* Theorems *)

LEMMA InitSafe == Init => IInv
<1> SUFFICES ASSUME Init PROVE IInv
  OBVIOUS
<1>1. ClientTyped
  <2>1. Whole \in [Positions -> Positions \cup {Junk}]
    BY DEF Whole
  <2>2. moved \in [Slots -> [Positions -> Positions \cup {Junk}]]
    BY <2>1 DEF Init, ClientInit
  <2>3. fate \in [Slots -> {"fine", "unreported", "told"}]
    BY DEF Init, ClientInit
  <2>4. target \in Slots /\ done \in 0 .. Len /\ starts \in Nat
    BY SlotsAre DEF Init, ClientInit
  <2>5. /\ role \in {"reader", "writer"} /\ stalls \in BOOLEAN /\ pc = "idle"
        /\ mine = Slots /\ latched = FALSE /\ finished = FALSE /\ kind \in {"gcd", "iocp"}
    BY DEF Init, ClientInit
  <2> QED
    BY <2>2, <2>3, <2>4, <2>5 DEF ClientTyped
<1>2. IocpTyped
  <2>1. islots \in [Slots -> [filled : 0 .. Len, ready : BOOLEAN]]
    <3>1. 0 \in 0 .. Len /\ (role = "writer") \in BOOLEAN
      BY SlotsAre
    <3>2. [filled |-> 0, ready |-> role = "writer"] \in [filled : 0 .. Len, ready : BOOLEAN]
      BY <3>1
    <3> QED
      BY <3>2 DEF Init, IocpInit
  <2>2. flight = {} /\ port = {} /\ outstanding = 0 /\ cancelled = FALSE /\ portFailed = FALSE
    BY DEF Init, IocpInit
  <2> QED
    BY <2>1, <2>2, FS_EmptySet DEF IocpTyped
<1>3. GcdTyped
  <2>1. workers \in [Slots -> {Gone} \cup [got : 0 .. Len, err : BOOLEAN]]
    BY DEF Init, GcdInit
  <2>2. gslots \in [Slots -> [error : BOOLEAN, ready : BOOLEAN]]
    BY DEF Init, GcdInit
  <2> QED
    BY <2>1, <2>2 DEF Init, GcdInit, GcdTyped
<1>4. ClientInv
  BY DEF Init, ClientInit, ClientInv, Right
<1>5. \A s \in Slots : GcdInv(s)
  BY DEF Init, ClientInit, GcdInit, GcdInv, Working, Right
<1>6. \A s \in Slots : IocpInv(s)
  BY DEF Init, ClientInit, IocpInit, IocpInv, Right
<1>7. Counted
  BY FS_EmptySet DEF Init, IocpInit, Counted
<1>8. GcdSide /\ IocpSide
  BY <1>5, <1>6, <1>7 DEF Init, ClientInit, GcdInit, IocpInit, GcdSide, IocpSide, Working
<1> QED
  BY <1>1, <1>2, <1>3, <1>4, <1>8 DEF IInv, Typed

LEMMA NextSafe ==
  ASSUME IInv, [Next]_vars
  PROVE  IInv'
<1>1. CASE UNCHANGED vars
  <2>1. UNCHANGED <<role, stalls, pc, target, mine, latched, starts, moved, fate, finished,
                    gslots, workers, notifying, asleep, islots, flight, port, outstanding,
                    cancelled, portFailed, kind, done>>
    BY <1>1 DEF vars, clientVars, gcdVars, iocpVars
  <2>2. Typed'
    BY <2>1 DEF IInv, Typed, ClientTyped, GcdTyped, IocpTyped
  <2>3. ClientInv'
    BY <2>1 DEF IInv, ClientInv, Right, InSync, Filled
  <2>4. kind = "gcd" => GcdSide'
    BY <2>1 DEF IInv, GcdSide, GcdInv, Working, Right, InSync, Filled
  <2>5. kind = "iocp" => IocpSide'
    <3>1. \A s : Right(s)' <=> Right(s)
      BY <2>1 DEF Right, InSync
    <3>2. \A s : \A n : Filled(s, n)' <=> Filled(s, n)
      BY <2>1 DEF Filled
    <3>3. ASSUME NEW s \in Slots, IocpInv(s) PROVE IocpInv(s)'
      BY <2>1, <3>1, <3>2, <3>3 DEF IocpInv
    <3> QED
      BY <2>1, <3>3 DEF IInv, IocpSide, Counted, Working
  <2> QED
    BY <2>1, <2>2, <2>3, <2>4, <2>5 DEF IInv
<1>2. CASE Calls /\ UNCHANGED <<gcdVars, iocpVars, kind, done>>
  BY <1>2, CallsSafe
<1>3. CASE \E s \in Slots : SyncCall(s)
  BY <1>3, SyncCallSafe
<1>4. CASE \E n \in 1 .. Len : SyncMoves(n)
  BY <1>4, SyncMovesSafe
<1>5. CASE SyncThrows \/ SyncReturns
  BY <1>5, SyncThrowsSafe, SyncReturnsSafe
<1>6. CASE kind = "gcd" /\ GcdNext /\ UNCHANGED <<iocpVars, kind, done>>
  BY <1>6, GcdStartSafe, GcdWorkerSafe, GcdWaitReturnsSafe, GcdWaitThrowsSafe, GcdOtherSafe
     DEF GcdStep, GcdNext, GcdThread
<1>7. CASE kind = "iocp" /\ IocpNext /\ UNCHANGED <<gcdVars, kind, done>>
  BY <1>7, IocpStartSafe, IocpServesSafe, IocpWaitReturnsSafe, IocpAbsorbsSafe,
     IocpContinuesSafe, IocpWaitThrowsSafe, IocpPortThrowsSafe, IocpDrainsSafe, IocpOtherSafe
     DEF IocpStep, IocpNext, IocpDevice, IocpThread, IocpTeardown
<1> QED
  BY <1>1, <1>2, <1>3, <1>4, <1>5, <1>6, <1>7 DEF Next

\* The inductive invariant of the backends: where every transfer stands, whom
\* its failure is still to be told, and what the count of requests counts.
\* (gcd_backend.hpp, iocp_backend.hpp)
THEOREM Invariance == Spec => []IInv
<1>1. Init => IInv
  BY InitSafe
<1>2. IInv /\ [Next]_vars => IInv'
  BY NextSafe
<1> QED
  BY <1>1, <1>2, PTL DEF Spec

\* A slot the engine was given back and that did not fail holds its whole
\* transfer, for every length and however it was cut into pieces.
\* (run_read, run_write, wait, reap_one, read_sync, write_sync)
THEOREM TransfersAreExact == Spec => []TransfersExact
<1>1. IInv => TransfersExact
  BY DEF IInv, ClientInv, Right, InSync, TransfersExact
<1> QED
  BY <1>1, Invariance, PTL

\* When finish() returns every failed transfer has been thrown to somebody,
\* whichever slot it was on. (wait_slot, finish)
THEOREM FailuresAreTold == Spec => []FailuresSurface
<1>1. IInv => FailuresSurface
  BY DEF IInv, ClientInv, FailuresSurface
<1> QED
  BY <1>1, Invariance, PTL

\* A destroyed backend leaves no worker, no notification and no request
\* behind, unless the port itself failed. (gcd_pump::destroy, drain_cancelled)
THEOREM NothingOutlives == Spec => []NoneOutlives
<1>1. IInv => NoneOutlives
  <2> SUFFICES ASSUME IInv, pc = "freed", ~portFailed
               PROVE  (\A s \in Slots : ~Working(s)) /\ notifying = 0 /\ flight = {}
    BY DEF NoneOutlives
  <2>1. kind \in {"gcd", "iocp"}
    BY DEF IInv, Typed, ClientTyped
  <2> QED
    BY <2>1 DEF IInv, GcdSide, IocpSide
<1> QED
  BY <1>1, Invariance, PTL

-----------------------------------------------------------------------------
(* The contract of backend.hpp *)

Op(s) == IF kind = "gcd" THEN GcdOp(s) ELSE IocpOp(s)
Ops == [s \in Slots |-> Op(s)]
Open == pc # "freed" \/ portFailed

\* A slot's step of the contract, by what becomes of the slot.
LEMMA ContractStep ==
  ASSUME NEW s \in Slots, \A x \in Slots \ {s} : Op(x)' = Op(x), Open' <=> Open,
         \/ /\ Open /\ s \in mine /\ Op(s) = "idle" /\ Op(s)' \in {"pending", "failed"}
            /\ mine' = mine \ {s}
         \/ Op(s) = "pending" /\ Op(s)' \in {"idle", "failed"} /\ mine' = mine
         \/ /\ Open /\ Op(s) = "idle" /\ Op(s)' = "idle" /\ mine' = mine \cup {s}
         \/ Open /\ Op(s) = "failed" /\ Op(s)' = "idle" /\ mine' = mine
         \/ Op(s)' = Op(s) /\ mine' = mine
  PROVE  [Contract!ContractNext]_Contract!contractVars
<1>1. PICK o : o = Op(s)'
  OBVIOUS
<1>2. Ops' = [Ops EXCEPT ![s] = o] /\ Ops[s] = Op(s)
  BY <1>1 DEF Ops
<1>3. o = Op(s) => Ops' = Ops
  BY <1>2 DEF Ops
<1>4. Open' = Open
  BY DEF Open
<1>5. CASE Open /\ s \in mine /\ Op(s) = "idle" /\ o \in {"pending", "failed"} /\ mine' = mine \ {s}
  <2>1. Contract!Begin(s)
    BY <1>2, <1>4, <1>5 DEF Contract!Begin, Ops, Op, Open
  <2> QED
    BY <2>1 DEF Contract!ContractNext
<1>6. CASE Op(s) = "pending" /\ o \in {"idle", "failed"} /\ mine' = mine
  <2>1. Contract!Settle(s)
    BY <1>2, <1>4, <1>6 DEF Contract!Settle, Ops, Op, Open
  <2> QED
    BY <2>1 DEF Contract!ContractNext
<1>7. CASE Open /\ Op(s) = "idle" /\ o = "idle" /\ mine' = mine \cup {s}
  <2>1. Contract!GiveBack(s)
    BY <1>2, <1>3, <1>4, <1>7 DEF Contract!GiveBack, Ops, Op, Open
  <2> QED
    BY <2>1 DEF Contract!ContractNext
<1>8. CASE Open /\ Op(s) = "failed" /\ o = "idle" /\ mine' = mine
  <2>1. Contract!Throw(s)
    BY <1>2, <1>4, <1>8 DEF Contract!Throw, Ops, Op, Open
  <2> QED
    BY <2>1 DEF Contract!ContractNext
<1>9. CASE o = Op(s) /\ mine' = mine
  BY <1>3, <1>4, <1>9 DEF Contract!contractVars, Ops, Op, Open
<1> QED
  BY <1>1, <1>5, <1>6, <1>7, <1>8, <1>9

LEMMA ContractStutter ==
  ASSUME \A x \in Slots : Op(x)' = Op(x), Open' <=> Open, mine' = mine
  PROVE  [Contract!ContractNext]_Contract!contractVars
<1>1. 0 \in Slots
  BY SlotsAre
<1> QED
  BY <1>1, ContractStep

LEMMA ContractTeardown ==
  ASSUME Open, ~Open', \A x \in Slots : Op(x) # "pending" /\ Op(x)' = Op(x), mine' = mine
  PROVE  [Contract!ContractNext]_Contract!contractVars
<1>1. Ops' = Ops /\ \A x \in Slots : Ops[x] # "pending"
  BY DEF Ops
<1>2. Contract!Teardown
  BY <1>1 DEF Contract!Teardown, Ops, Op, Open
<1> QED
  BY <1>2 DEF Contract!ContractNext

\* What the contract sees of a slot is of its own requests alone.
LEMMA GcdOpKept ==
  ASSUME kind = "gcd", kind' = kind, NEW x \in Slots, workers'[x] = workers[x],
         gslots'[x].error = gslots[x].error
  PROVE  Op(x)' = Op(x)
BY DEF Op, GcdOp, Working

LEMMA IocpOpKept ==
  ASSUME kind = "iocp", kind' = kind, NEW x \in Slots, islots'[x].ready = islots[x].ready,
         x \in mine' <=> x \in mine,
         \A r \in flight' : r.slot = x => r \in flight,
         \A r \in flight : r.slot = x => r \in flight',
         \A c \in port' : c.slot = x => c \in port,
         \A c \in port : c.slot = x => c \in port'
  PROVE  Op(x)' = Op(x)
<1>1. (\E r \in flight' : r.slot = x) <=> (\E r \in flight : r.slot = x)
  OBVIOUS
<1>2. (\E c \in port' : c.slot = x /\ c.bytes > 0) <=> (\E c \in port : c.slot = x /\ c.bytes > 0)
  OBVIOUS
<1> QED
  BY <1>1, <1>2 DEF Op, IocpOp

LEMMA OwnStepsStutter ==
  ASSUME IInv, UNCHANGED <<gcdVars, iocpVars, kind, mine>>, pc # "freed", pc' # "freed"
  PROVE  [Contract!ContractNext]_Contract!contractVars
<1>1. \A x \in Slots : Op(x)' = Op(x)
  BY DEF Op, GcdOp, IocpOp, Working, gcdVars, iocpVars
<1>2. Open' <=> Open
  BY DEF Open, iocpVars
<1> QED
  BY <1>1, <1>2, ContractStutter

LEMMA GcdKeepsContract ==
  ASSUME IInv, GcdStep, GcdNext
  PROVE  [Contract!ContractNext]_Contract!contractVars
<1>1. /\ ClientTyped /\ ClientInv /\ GcdTyped
      /\ \A s \in Slots : GcdInv(s)
      /\ pc = "freed" => notifying = 0 /\ \A s \in Slots : ~Working(s)
      /\ \A s \in mine : s \in Slots /\ ~Working(s)
      /\ kind = "gcd" /\ kind' = kind
  BY GcdFacts DEF GcdStep
<1>2. ~portFailed /\ ~portFailed'
  BY DEF IInv, GcdSide, GcdStep, iocpVars
<1>3. ASSUME NEW s \in Slots, GcdStart(s)
      PROVE  [Contract!ContractNext]_Contract!contractVars
  <2>1. /\ pc = "idle" /\ pc' = pc /\ s \in mine /\ mine' = mine \ {s}
        /\ gslots' = [gslots EXCEPT ![s] = StartedSlot(s)]
        /\ workers' = [workers EXCEPT ![s] = [got |-> 0, err |-> FALSE]]
    BY <1>3 DEF GcdStart, StartCall
  <2>2. ~Working(s) /\ ~gslots[s].error
    BY <1>1, <2>1 DEF GcdInv
  <2>3. workers'[s] = [got |-> 0, err |-> FALSE]
    BY <1>1, <2>1 DEF GcdTyped
  <2>4. Op(s) = "idle" /\ Op(s)' = "pending"
    BY <1>1, <2>2, <2>3 DEF Op, GcdOp, Working, Gone
  <2>5. \A x \in Slots \ {s} : Op(x)' = Op(x)
    BY <1>1, <2>1, GcdOpKept DEF GcdTyped
  <2> QED
    BY <1>2, <2>1, <2>4, <2>5, ContractStep DEF Open
<1>4. CASE GcdWaitReturns
  <2> PICK t \in Slots : t = target
    BY <1>1 DEF ClientTyped
  <2>1. /\ pc # "freed" /\ pc' # "freed" /\ mine' = mine \cup {t}
        /\ UNCHANGED <<gslots, workers>> /\ gslots[t].ready /\ ~gslots[t].error
    BY <1>4 DEF GcdWaitReturns, SlotIdle, InWait, LeaveByException, gcdVars
  <2>2. Op(t) = "idle"
    BY <1>1, <2>1 DEF GcdInv, Op, GcdOp
  <2>3. \A x \in Slots : Op(x)' = Op(x)
    BY <1>1, <2>1, GcdOpKept
  <2> QED
    BY <1>2, <2>1, <2>2, <2>3, ContractStep DEF Open
<1>5. CASE GcdWaitThrows
  <2> PICK t \in Slots : t = target
    BY <1>1 DEF ClientTyped
  <2>1. /\ pc # "freed" /\ pc' # "freed" /\ mine' = mine /\ UNCHANGED workers
        /\ gslots' = ErrorCleared /\ gslots[t].ready /\ gslots[t].error
    BY <1>5 DEF GcdWaitThrows, Thrown, InWait, LeaveByException
  <2>2. Op(t) = "failed" /\ ~Working(t)
    BY <1>1, <2>1 DEF GcdInv, Op, GcdOp
  <2>3. CASE role = "writer"
    <3>1. gslots' = [gslots EXCEPT ![t].error = FALSE]
      BY <2>1, <2>3 DEF ErrorCleared
    <3>2. ~gslots'[t].error /\ \A x \in Slots \ {t} : gslots'[x] = gslots[x]
      BY <1>1, <3>1 DEF GcdTyped
    <3>3. Op(t)' = "idle"
      BY <1>1, <2>1, <2>2, <3>2 DEF Op, GcdOp, Working
    <3>4. \A x \in Slots \ {t} : Op(x)' = Op(x)
      BY <1>1, <2>1, <3>2, GcdOpKept
    <3> QED
      BY <1>2, <2>1, <2>2, <3>3, <3>4, ContractStep DEF Open
  <2>4. CASE role # "writer"
    <3>1. \A x \in Slots : Op(x)' = Op(x)
      BY <1>1, <2>1, <2>4, GcdOpKept DEF ErrorCleared
    <3> QED
      BY <1>2, <2>1, <3>1, ContractStutter DEF Open
  <2> QED
    BY <2>3, <2>4
<1>6. CASE GcdWaitBlocks \/ GcdNotifies
  <2>1. UNCHANGED <<pc, mine, gslots, workers>>
    BY <1>6 DEF GcdWaitBlocks, GcdNotifies, clientVars
  <2>2. \A x \in Slots : Op(x)' = Op(x)
    BY <1>1, <2>1, GcdOpKept
  <2> QED
    BY <1>2, <2>1, <2>2, ContractStutter DEF Open
<1>7. CASE GcdDestroyed
  <2>1. /\ pc = "drain" /\ pc' = "freed" /\ UNCHANGED <<mine, gslots, workers>>
        /\ \A s \in Slots : ~Working(s)
    BY <1>7 DEF GcdDestroyed, gcdVars
  <2>2. \A x \in Slots : Op(x)' = Op(x) /\ Op(x) # "pending"
    <3>1. \A x \in Slots : Op(x)' = Op(x)
      BY <1>1, <2>1, GcdOpKept
    <3>2. \A x \in Slots : Op(x) # "pending"
      BY <1>1, <2>1 DEF Op, GcdOp
    <3> QED
      BY <3>1, <3>2
  <2> QED
    BY <1>2, <2>1, <2>2, ContractTeardown DEF Open
<1>8. ASSUME NEW s \in Slots, (\E n \in 1 .. Len : GcdMoves(s, n)) \/ GcdFails(s)
      PROVE  [Contract!ContractNext]_Contract!contractVars
  <2>1. /\ UNCHANGED <<pc, mine, gslots>>
        /\ Working(s) /\ workers[s].got < Len
        /\ \/ \E n \in 1 .. Len : workers' = [workers EXCEPT ![s].got = @ + n]
           \/ workers' = [workers EXCEPT ![s].err = TRUE]
    BY <1>8 DEF GcdMoves, GcdFails, LoopRuns
  <2>2. workers[s] \in [got : 0 .. Len, err : BOOLEAN]
    BY <1>1, <2>1 DEF GcdTyped, Working
  <2>3. workers'[s].got # -1
    <3>1. ASSUME NEW n \in 1 .. Len, workers' = [workers EXCEPT ![s].got = @ + n]
          PROVE  workers'[s].got # -1
      <4>1. workers'[s].got = workers[s].got + n
        BY <1>1, <2>2, <3>1 DEF GcdTyped
      <4> QED
        BY <2>2, <4>1, SlotsAre
    <3>2. ASSUME workers' = [workers EXCEPT ![s].err = TRUE] PROVE workers'[s].got # -1
      <4>1. workers'[s].got = workers[s].got
        BY <1>1, <2>2, <3>2 DEF GcdTyped
      <4> QED
        BY <2>2, <4>1, SlotsAre
    <3> QED
      BY <2>1, <3>1, <3>2
  <2>4. Op(s) = "pending" /\ Op(s)' = "pending"
    BY <1>1, <2>1, <2>3 DEF Op, GcdOp, Working, Gone
  <2>5. \A x \in Slots \ {s} : workers'[x] = workers[x]
    BY <1>1, <2>1 DEF GcdTyped
  <2>6. \A x \in Slots \ {s} : Op(x)' = Op(x)
    BY <1>1, <2>1, <2>5, GcdOpKept
  <2> QED
    BY <1>2, <2>1, <2>4, <2>6, ContractStep DEF Open
<1>9. ASSUME NEW s \in Slots, GcdPublishes(s)
      PROVE  [Contract!ContractNext]_Contract!contractVars
  <2>1. /\ UNCHANGED <<pc, mine>> /\ Working(s)
        /\ gslots' = [gslots EXCEPT ![s] = Result(s)]
        /\ workers' = [workers EXCEPT ![s] = Gone]
    BY <1>9 DEF GcdPublishes, LoopEnds, clientVars
  <2>2. workers'[s] = Gone /\ \A x \in Slots \ {s} : workers'[x] = workers[x] /\ gslots'[x] = gslots[x]
    BY <1>1, <2>1 DEF GcdTyped
  <2>3. Op(s) = "pending" /\ Op(s)' \in {"idle", "failed"}
    BY <1>1, <2>1, <2>2 DEF Op, GcdOp, Working
  <2>4. \A x \in Slots \ {s} : Op(x)' = Op(x)
    BY <1>1, <2>2, GcdOpKept
  <2> QED
    BY <1>2, <2>1, <2>3, <2>4, ContractStep DEF Open
<1> QED
  BY <1>3, <1>4, <1>5, <1>6, <1>7, <1>8, <1>9 DEF GcdNext, GcdThread, GcdWorker

LEMMA IocpKeepsContract ==
  ASSUME IInv, IocpStep, IocpNext
  PROVE  [Contract!ContractNext]_Contract!contractVars
<1>1. /\ ClientTyped /\ ClientInv /\ IocpTyped
      /\ \A s \in Slots : IocpInv(s)
      /\ Counted
      /\ portFailed => pc = "freed"
      /\ pc = "freed" /\ ~portFailed => flight = {} /\ port = {}
      /\ kind = "iocp" /\ kind' = kind
      /\ kind # "gcd" /\ kind' # "gcd"
  BY IocpFacts DEF IocpStep
<1>2. ASSUME NEW s \in Slots, IocpStart(s)
      PROVE  [Contract!ContractNext]_Contract!contractVars
  <2> DEFINE new == [slot |-> s, at |-> 0]
  <2>1. /\ pc = "idle" /\ pc' = pc /\ s \in mine /\ mine' = mine \ {s}
        /\ islots' = [islots EXCEPT ![s] = [filled |-> 0, ready |-> FALSE]]
        /\ flight' = flight \cup {new} \/ flight' = flight
        /\ UNCHANGED <<port, portFailed>>
    BY <1>2 DEF IocpStart, StartCall, SubmitRequest
  <2>2. ~islots'[s].ready /\ \A x \in Slots \ {s} : islots'[x] = islots[x]
    BY <1>1, <2>1 DEF IocpTyped
  <2>3. (\A r \in flight : r.slot # s) /\ (\A c \in port : c.slot # s)
    BY <1>1, <2>1 DEF IocpInv
  <2>4. new.slot = s
    OBVIOUS
  <2> HIDE DEF new
  <2>5. Op(s) = "idle"
    BY <1>1, <2>1, <2>3 DEF Op, IocpOp
  <2>6. Op(s)' \in {"pending", "failed"}
    BY <1>1, <2>1, <2>2, <2>3, <2>4 DEF Op, IocpOp
  <2>7. \A x \in Slots \ {s} : Op(x)' = Op(x)
    BY <1>1, <2>1, <2>2, <2>4, IocpOpKept
  <2> QED
    BY <2>1, <2>5, <2>6, <2>7, ContractStep DEF Open
<1>3. ASSUME NEW r \in flight, NEW n \in 0 .. Len, IocpServes(r, n)
      PROVE  [Contract!ContractNext]_Contract!contractVars
  <2> PICK t \in Slots : t = r.slot
    BY <1>1 DEF IocpTyped
  <2> DEFINE c == [slot |-> t, at |-> r.at, bytes |-> n]
  <2>1. /\ flight' = flight \ {r} /\ port' = port \cup {c}
        /\ UNCHANGED <<pc, mine, islots, portFailed>>
    BY <1>3 DEF IocpServes
  <2>2. c.slot = t /\ c.bytes = n
    OBVIOUS
  <2> HIDE DEF c
  <2>3. t \notin mine /\ ~islots[t].ready /\ \A d \in port : d.slot # t
    BY <1>1 DEF IocpInv
  <2>4. Op(t) = "pending"
    BY <1>1 DEF Op, IocpOp
  <2>5. \A q \in flight \ {r} : q.slot # t
    <3> SUFFICES ASSUME NEW q \in flight, q.slot = t PROVE q = r
      OBVIOUS
    <3>1. q.at = islots[t].filled /\ r.at = islots[t].filled
      BY <1>1 DEF IocpInv
    <3>2. q \in [slot : Slots, at : 0 .. Len - 1] /\ r \in [slot : Slots, at : 0 .. Len - 1]
      BY <1>1 DEF IocpTyped
    <3>3. q = [slot |-> q.slot, at |-> q.at] /\ r = [slot |-> r.slot, at |-> r.at]
      BY <3>2, Zenon
    <3> QED
      BY <3>1, <3>3
  <2>6. Op(t)' \in {"pending", "failed"}
    BY <1>1, <2>1, <2>2, <2>3, <2>5 DEF Op, IocpOp
  <2>7. \A x \in Slots \ {t} : Op(x)' = Op(x)
    BY <1>1, <2>1, <2>2, IocpOpKept
  <2> QED
    BY <2>1, <2>4, <2>6, <2>7, ContractStep DEF Open
<1>4. CASE IocpWaitReturns
  <2> PICK t \in Slots : t = target
    BY <1>1 DEF ClientTyped
  <2>1. /\ pc # "freed" /\ pc' # "freed" /\ mine' = mine \cup {t} /\ islots[t].ready
        /\ UNCHANGED <<islots, flight, port, portFailed>>
    BY <1>4 DEF IocpWaitReturns, SlotIdle, InWait, LeaveByException, iocpVars
  <2>2. \A r \in flight : r.slot # t
    BY <1>1, <2>1 DEF IocpInv
  <2>3. Op(t) = "idle" /\ Op(t)' = "idle"
    BY <1>1, <2>1, <2>2 DEF Op, IocpOp
  <2>4. \A x \in Slots \ {t} : Op(x)' = Op(x)
    BY <1>1, <2>1, IocpOpKept
  <2> QED
    BY <2>1, <2>3, <2>4, ContractStep DEF Open
<1>5. ASSUME NEW c \in port, IocpAbsorbs(c) \/ IocpContinues(c) \/ IocpWaitThrows(c) \/ IocpDrains(c)
      PROVE  [Contract!ContractNext]_Contract!contractVars
  <2> PICK t \in Slots : t = c.slot
    BY <1>1, CompletionIs
  <2> DEFINE new == [slot |-> t, at |-> FilledBy(c)]
  <2>1. /\ port' = port \ {c} /\ mine' = mine /\ pc # "freed" /\ pc' # "freed"
    BY <1>5 DEF IocpAbsorbs, IocpContinues, IocpWaitThrows, IocpDrains, Waiting, InWait,
                Thrown, LeaveByException, clientVars
  <2>2. /\ flight' = flight \/ (c.bytes > 0 /\ flight' = flight \cup {new})
        /\ \/ islots' = [islots EXCEPT ![t] = [filled |-> FilledBy(c), ready |-> TRUE]] /\ c.bytes > 0
           \/ islots' = [islots EXCEPT ![t].filled = FilledBy(c)]
           \/ islots' = islots
    BY <1>5 DEF IocpAbsorbs, IocpContinues, IocpWaitThrows, IocpDrains, SubmitRequest
  <2>3. /\ t \notin mine /\ ~islots[t].ready /\ c.bytes \in 0 .. Len
        /\ \A d \in port \ {c} : d.slot # t
        /\ \A r \in flight : r.slot # t
    BY <1>1, CompletionIs
  <2>4. /\ \A x \in Slots \ {t} : islots'[x].ready = islots[x].ready
        /\ islots'[t].ready => c.bytes > 0
    BY <1>1, <2>2, <2>3 DEF IocpTyped
  <2>5. new.slot = t
    OBVIOUS
  <2> HIDE DEF new
  <2>6. Op(t) = IF c.bytes > 0 THEN "pending" ELSE "failed"
    BY <1>1, <2>3 DEF Op, IocpOp
  <2>7. /\ Op(t)' \in {"pending", "idle", "failed"}
        /\ c.bytes > 0 \/ Op(t)' = "failed"
    BY <1>1, <2>1, <2>2, <2>3, <2>4, <2>5 DEF Op, IocpOp
  <2>8. \A x \in Slots \ {t} : Op(x)' = Op(x)
    BY <1>1, <2>1, <2>2, <2>4, <2>5, IocpOpKept
  <2>9. Open /\ Open'
    BY <2>1 DEF Open
  <2> QED
    BY <2>1, <2>6, <2>7, <2>8, <2>9, ContractStep
<1>6. CASE IocpPortThrows \/ IocpCancels \/ IocpGivesUp
  <2>1. /\ UNCHANGED <<mine, islots, flight, port>> /\ pc # "freed"
        /\ pc' # "freed" \/ portFailed'
    BY <1>6 DEF IocpPortThrows, IocpCancels, IocpGivesUp, Waiting, InWait, Thrown,
                LeaveByException, clientVars, iocpVars
  <2>2. \A x \in Slots : Op(x)' = Op(x)
    BY <1>1, <2>1, IocpOpKept
  <2> QED
    BY <2>1, <2>2, ContractStutter DEF Open
<1>7. CASE IocpDestroyed
  <2>1. /\ UNCHANGED <<mine, islots, flight, port, portFailed>> /\ pc = "drain" /\ pc' = "freed"
        /\ outstanding = 0
    BY <1>7 DEF IocpDestroyed, iocpVars
  <2>2. flight = {} /\ port = {}
    <3>1. Cardinality(flight) \in Nat /\ Cardinality(port) \in Nat
      BY <1>1, FS_CardinalityType DEF IocpTyped
    <3>2. Cardinality(flight) = 0 /\ Cardinality(port) = 0
      BY <1>1, <2>1, <3>1 DEF Counted
    <3> QED
      BY <1>1, <3>2, FS_EmptySet DEF IocpTyped
  <2>3. \A x \in Slots : Op(x) # "pending"
    BY <1>1, <2>2 DEF Op, IocpOp
  <2>4. \A x \in Slots : Op(x)' = Op(x)
    BY <1>1, <2>1, IocpOpKept
  <2> QED
    BY <1>1, <2>1, <2>3, <2>4, ContractTeardown DEF Open
<1> QED
  BY <1>2, <1>3, <1>4, <1>5, <1>6, <1>7 DEF IocpNext, IocpDevice, IocpThread, IocpTeardown

\* Both backends keep the contract the engines are written against: no slot
\* is given back under its transfer, a slot has one transfer at a time, and
\* no teardown under a transfer. (src/src/io/backend.hpp)
THEOREM BackendsImplementContract == Spec => ImplementsContract
<1>1. Init => Contract!ContractInit
  <2> SUFFICES ASSUME Init PROVE Contract!ContractInit
    OBVIOUS
  <2>1. \A s \in Slots : Op(s) = "idle"
    BY DEF Init, ClientInit, GcdInit, IocpInit, Op, GcdOp, IocpOp, Working
  <2>2. Ops = [s \in Slots |-> "idle"]
    BY <2>1 DEF Ops
  <2> QED
    BY <2>2 DEF Contract!ContractInit, Ops, Op, Init, ClientInit, IocpInit
<1>2. ASSUME IInv, [Next]_vars PROVE [Contract!ContractNext]_Contract!contractVars
  <2>1. CASE Calls /\ UNCHANGED <<gcdVars, iocpVars, kind, done>>
    <3>1. UNCHANGED mine /\ pc # "freed" /\ pc' # "freed"
      BY <2>1 DEF Calls, WaitCall, FinishCall, DestroyReader
    <3> QED
      BY <1>2, <2>1, <3>1, OwnStepsStutter
  <2>2. CASE (\E s \in Slots : SyncCall(s)) \/ (\E n \in 1 .. Len : SyncMoves(n))
             \/ SyncThrows \/ SyncReturns
    <3>1. UNCHANGED <<mine, gcdVars, iocpVars, kind>> /\ pc # "freed" /\ pc' # "freed"
      BY <2>2 DEF SyncCall, SyncMoves, SyncThrows, SyncReturns, Thrown, LeaveByException
    <3> QED
      BY <1>2, <3>1, OwnStepsStutter
  <2>3. CASE kind = "gcd" /\ GcdNext /\ UNCHANGED <<iocpVars, kind, done>>
    BY <1>2, <2>3, GcdKeepsContract DEF GcdStep
  <2>4. CASE kind = "iocp" /\ IocpNext /\ UNCHANGED <<gcdVars, kind, done>>
    BY <1>2, <2>4, IocpKeepsContract DEF IocpStep
  <2>5. CASE UNCHANGED vars
    <3>1. \A x \in Slots : Op(x)' = Op(x)
      BY <2>5 DEF Op, GcdOp, IocpOp, Working, vars, gcdVars, iocpVars, clientVars
    <3>2. (Open' <=> Open) /\ mine' = mine
      BY <2>5 DEF Open, vars, clientVars, iocpVars
    <3> QED
      BY <3>1, <3>2, ContractStutter
  <2> QED
    BY <1>2, <2>1, <2>2, <2>3, <2>4, <2>5 DEF Next
<1> QED
  BY <1>1, <1>2, Invariance, PTL DEF Spec, ImplementsContract, Contract!ContractSpec

-----------------------------------------------------------------------------
(* THE HANDLES.  A system has few handles and flags and a call picks one of *)
(* them; what there is to prove is that any refusals leave them agreeing,   *)
(* for any number of transfers.                                             *)

Building == {"queue", "named", "attach", "ready"}

HandlesTyped ==
  /\ host \in Hosts
  /\ asked \in [writer : BOOLEAN, direct : BOOLEAN, async : BOOLEAN, prealloc : BOOLEAN]
  /\ direct \in BOOLEAN /\ queued \in BOOLEAN
  /\ stage \in {"open", "size", "reserve", "engage", "failed", "gone"} \cup Building

\* Before the flags are set there is the plain handle only.
OnlyPlain ==
  /\ DOMAIN handles = {"plain"} /\ handles["plain"] = {}
  /\ ~direct /\ ~queued

\* A flag is set with the handle that it is about.
FlagsFit ==
  /\ queued <=> Opened("queue")
  /\ Opened("fast") => /\ direct <=> "aligned" \in handles["fast"]
                       /\ "overlapped" \in handles["fast"] <=> (host = "windows" /\ queued)
  /\ host = "windows" /\ queued => Opened("fast")
  /\ host \in {"darwin", "other"} => ~Opened("fast")

\* Which constructor reaches which stage.
StageFits ==
  /\ stage = "queue" => host \in {"linux", "unix", "darwin"} /\ ~queued
  /\ stage = "named" => host # "windows"
  /\ stage = "attach" =>
       /\ host = "windows" /\ ~queued /\ ~direct /\ ~Opened("queue") /\ Opened("fast")
       /\ "aligned" \in handles["fast"] <=> asked.direct
       /\ "overlapped" \in handles["fast"] <=> asked.async

CallFits ==
  /\ Opened(call.on)
  /\ "aligned" \in handles[call.on] => call.aligned
  /\ call.how = "async" => Opened("queue")
  /\ host = "windows" => (call.how = "async" <=> "overlapped" \in handles[call.on])

HandlesInv ==
  /\ HandlesTyped
  /\ stage = "open" => handles = << >> /\ ~direct /\ ~queued
  /\ stage \in {"size", "reserve", "engage"} => OnlyPlain
  /\ stage \in Building => Opened("plain") /\ handles["plain"] = {}
  /\ stage \in {"queue", "named", "ready"} => FlagsFit
  /\ StageFits
  /\ call # NoCall => stage = "ready" /\ CallFits
  /\ stage \in {"failed", "gone"} /\ host # "other" => handles = << >>

\* A handle that is opened joins the others.
LEMMA Joins ==
  ASSUME NEW name, NEW demands
  PROVE  /\ DOMAIN With(name, demands) = DOMAIN handles \cup {name}
         /\ With(name, demands)[name] = demands
         /\ \A h \in DOMAIN handles : h # name => With(name, demands)[h] = handles[h]
BY DEF With

LEMMA ThrowsKeeps ==
  ASSUME HandlesInv, Throws, UNCHANGED <<host, asked, direct, queued, call>>, call = NoCall
  PROVE  HandlesInv'
BY DEF HandlesInv, Throws, HandlesTyped, StageFits, Building

LEMMA NextKeepsHandles ==
  ASSUME HandlesInv, [HandlesNext]_handleVars
  PROVE  HandlesInv'
<1>1. CASE OpenPlain
  <2>0. call = NoCall /\ stage = "open" /\ ~direct /\ ~queued
    BY <1>1 DEF OpenPlain, HandlesInv
  <2>1. CASE Throws
    BY <1>1, <2>0, <2>1, ThrowsKeeps DEF OpenPlain
  <2>2. CASE handles' = With("plain", {}) /\ stage' = IF asked.writer THEN "reserve" ELSE "size"
    <3>1. OnlyPlain'
      <4>1. DOMAIN handles = {}
        BY <1>1 DEF OpenPlain, HandlesInv
      <4>2. DOMAIN handles' = {"plain"} /\ handles'["plain"] = {}
        <5>1. handles' = With("plain", {})
          BY <2>2
        <5>2. DOMAIN With("plain", {}) = DOMAIN handles \cup {"plain"} /\ With("plain", {})["plain"] = {}
          BY Joins
        <5> QED
          BY <4>1, <5>1, <5>2
      <4> QED
        BY <1>1, <2>0, <4>2 DEF OpenPlain, OnlyPlain
    <3>2. stage' \in {"size", "reserve"}
      BY <2>2
    <3> QED
      BY <1>1, <2>0, <3>1, <3>2 DEF OpenPlain, HandlesInv, HandlesTyped, StageFits, Building
  <2> QED
    BY <1>1, <2>1, <2>2 DEF OpenPlain
<1>2. CASE QuerySize
  <2>0. call = NoCall /\ stage = "size" /\ OnlyPlain
    BY <1>2 DEF QuerySize, HandlesInv
  <2>1. CASE Throws
    BY <1>2, <2>0, <2>1, ThrowsKeeps DEF QuerySize
  <2>2. CASE stage' = "engage" /\ UNCHANGED handles
    BY <1>2, <2>0, <2>2 DEF QuerySize, HandlesInv, HandlesTyped, StageFits, Building, OnlyPlain
  <2> QED
    BY <1>2, <2>1, <2>2 DEF QuerySize
<1>3. CASE Reserve
  BY <1>3 DEF Reserve, HandlesInv, HandlesTyped, StageFits, Building, OnlyPlain
<1>4. CASE ReopenDirect
  <2>0. /\ call = NoCall /\ stage = "engage" /\ OnlyPlain /\ host \in {"linux", "unix"}
        /\ stage' = "queue" /\ UNCHANGED <<host, asked, queued, call>>
    BY <1>4 DEF ReopenDirect, HandlesInv
  <2>1. CASE handles' = With("fast", {"aligned"}) /\ direct' = TRUE
    <3>1. /\ DOMAIN handles' = {"plain", "fast"} /\ handles'["plain"] = {}
          /\ handles'["fast"] = {"aligned"}
      BY <2>0, <2>1, Joins DEF OnlyPlain
    <3>2. FlagsFit'
      BY <2>0, <2>1, <3>1 DEF FlagsFit, Opened, OnlyPlain
    <3> QED
      BY <2>0, <2>1, <3>1, <3>2 DEF HandlesInv, HandlesTyped, StageFits, Building, OnlyPlain, Opened
  <2>2. CASE UNCHANGED <<handles, direct>>
    <3>1. FlagsFit'
      BY <2>0, <2>2 DEF FlagsFit, Opened, OnlyPlain
    <3> QED
      BY <2>0, <2>2, <3>1 DEF HandlesInv, HandlesTyped, StageFits, Building, OnlyPlain, Opened
  <2> QED
    BY <1>4, <2>1, <2>2 DEF ReopenDirect
<1>5. CASE CacheOff
  <2>0. /\ call = NoCall /\ stage = "engage" /\ OnlyPlain /\ host = "darwin"
        /\ stage' = "queue" /\ UNCHANGED <<host, asked, handles, queued, call>>
        /\ direct' \in BOOLEAN
    BY <1>5 DEF CacheOff, HandlesInv, HandlesTyped
  <2>1. FlagsFit'
    BY <2>0 DEF FlagsFit, Opened, OnlyPlain
  <2> QED
    BY <2>0, <2>1 DEF HandlesInv, HandlesTyped, StageFits, Building, OnlyPlain, Opened
<1>6. CASE MakeQueue
  <2>0. /\ call = NoCall /\ stage = "queue" /\ FlagsFit /\ ~queued /\ host # "windows"
        /\ Opened("plain") /\ handles["plain"] = {}
        /\ stage' = IF host = "unix" THEN "ready" ELSE "named"
        /\ UNCHANGED <<host, asked, direct, call>>
    BY <1>6 DEF MakeQueue, HandlesInv, StageFits, Building
  <2>1. CASE handles' = With("queue", {}) /\ queued' = TRUE
    <3>1. /\ DOMAIN handles' = DOMAIN handles \cup {"queue"}
          /\ \A n \in DOMAIN handles : n # "queue" => handles'[n] = handles[n]
      BY <2>1, Joins
    <3>2. FlagsFit' /\ Opened("plain")' /\ handles'["plain"] = {}
      BY <2>0, <2>1, <3>1 DEF FlagsFit, Opened
    <3> QED
      BY <2>0, <2>1, <3>2 DEF HandlesInv, HandlesTyped, StageFits, Building
  <2>2. CASE UNCHANGED <<handles, queued>>
    <3>1. FlagsFit' /\ Opened("plain")' /\ handles'["plain"] = {}
      BY <2>0, <2>2 DEF FlagsFit, Opened
    <3> QED
      BY <2>0, <2>2, <3>1 DEF HandlesInv, HandlesTyped, StageFits, Building
  <2> QED
    BY <1>6, <2>1, <2>2 DEF MakeQueue
<1>7. CASE Complete
  <2>0. call = NoCall /\ stage = "named"
    BY <1>7 DEF Complete, HandlesInv
  <2>1. CASE Throws
    BY <1>7, <2>0, <2>1, ThrowsKeeps DEF Complete
  <2>2. CASE stage' = "ready" /\ UNCHANGED handles
    BY <1>7, <2>0, <2>2
       DEF Complete, HandlesInv, HandlesTyped, StageFits, Building, FlagsFit, Opened
  <2> QED
    BY <1>7, <2>1, <2>2 DEF Complete
<1>8. CASE ReopenFast
  <2>0. /\ call = NoCall /\ stage = "engage" /\ OnlyPlain /\ host = "windows"
        /\ UNCHANGED <<host, asked, direct, queued, call>>
    BY <1>8 DEF ReopenFast, HandlesInv
  <2> DEFINE demands == (IF asked.direct THEN {"aligned"} ELSE {})
                          \cup (IF asked.async THEN {"overlapped"} ELSE {})
  <2>1. CASE handles' = With("fast", demands) /\ stage' = "attach"
    <3>1. /\ DOMAIN handles' = {"plain", "fast"} /\ handles'["plain"] = {}
          /\ handles'["fast"] = demands
      BY <2>0, <2>1, Joins DEF OnlyPlain
    <3>2. /\ "aligned" \in demands <=> asked.direct
          /\ "overlapped" \in demands <=> asked.async
      OBVIOUS
    <3> HIDE DEF demands
    <3> QED
      BY <2>0, <2>1, <3>1, <3>2
         DEF HandlesInv, HandlesTyped, StageFits, Building, OnlyPlain, Opened
  <2>2. CASE stage' = "ready" /\ UNCHANGED handles
    <3>1. FlagsFit'
      BY <2>0, <2>2 DEF FlagsFit, Opened, OnlyPlain
    <3> QED
      BY <2>0, <2>2, <3>1 DEF HandlesInv, HandlesTyped, StageFits, Building, OnlyPlain, Opened
  <2> QED
    BY <1>8, <2>1, <2>2 DEF ReopenFast
<1>9. CASE AttachPort
  <2>0. /\ call = NoCall /\ stage = "attach" /\ host = "windows" /\ ~queued /\ ~direct
        /\ ~Opened("queue") /\ Opened("fast") /\ Opened("plain") /\ handles["plain"] = {}
        /\ "aligned" \in handles["fast"] <=> asked.direct
        /\ "overlapped" \in handles["fast"] <=> asked.async
        /\ stage' = "ready" /\ UNCHANGED <<host, asked, call>>
        /\ asked.direct \in BOOLEAN /\ asked.async \in BOOLEAN
    BY <1>9 DEF AttachPort, HandlesInv, StageFits, Building, HandlesTyped
  <2>1. CASE /\ handles' = IF asked.async THEN With("queue", {}) ELSE handles
             /\ direct' = asked.direct /\ queued' = asked.async
    <3>1. CASE asked.async
      <4>1. /\ DOMAIN handles' = DOMAIN handles \cup {"queue"}
            /\ \A n \in DOMAIN handles : n # "queue" => handles'[n] = handles[n]
        <5>1. handles' = With("queue", {})
          BY <2>1, <3>1
        <5>2. /\ DOMAIN With("queue", {}) = DOMAIN handles \cup {"queue"}
              /\ \A n \in DOMAIN handles : n # "queue" => With("queue", {})[n] = handles[n]
          BY DEF With
        <5> QED
          BY <5>1, <5>2
      <4>2. FlagsFit' /\ Opened("plain")' /\ handles'["plain"] = {}
        BY <2>0, <2>1, <3>1, <4>1 DEF FlagsFit, Opened
      <4> QED
        BY <2>0, <2>1, <4>2 DEF HandlesInv, HandlesTyped, StageFits, Building
    <3>2. CASE ~asked.async
      <4>1. /\ DOMAIN handles' = DOMAIN handles
            /\ \A n \in DOMAIN handles : n # "queue" => handles'[n] = handles[n]
        BY <2>1, <3>2
      <4>2. FlagsFit' /\ Opened("plain")' /\ handles'["plain"] = {}
        BY <2>0, <2>1, <3>2, <4>1 DEF FlagsFit, Opened
      <4> QED
        BY <2>0, <2>1, <4>2 DEF HandlesInv, HandlesTyped, StageFits, Building
    <3> QED
      BY <3>1, <3>2
  <2>2. CASE PortRefused /\ UNCHANGED queued
    <3>1. /\ DOMAIN handles' = DOMAIN handles \ {"fast"}
          /\ \A n \in DOMAIN handles' : handles'[n] = handles[n]
      BY <2>2 DEF PortRefused, Without, Restrict
    <3>2. FlagsFit' /\ Opened("plain")' /\ handles'["plain"] = {}
      BY <2>0, <2>2, <3>1 DEF FlagsFit, Opened, PortRefused
    <3> QED
      BY <2>0, <2>2, <3>2 DEF HandlesInv, HandlesTyped, StageFits, Building, PortRefused
  <2> QED
    BY <1>9, <2>1, <2>2 DEF AttachPort
<1>10. CASE StdioReady
  <2>1. FlagsFit'
    BY <1>10 DEF StdioReady, HandlesInv, FlagsFit, Opened, OnlyPlain
  <2> QED
    BY <1>10, <2>1
       DEF StdioReady, HandlesInv, HandlesTyped, StageFits, Building, OnlyPlain, Opened
<1>11. ASSUME NEW aligned \in BOOLEAN, Transfer(aligned) PROVE HandlesInv'
  <2>0. /\ stage = "ready" /\ FlagsFit /\ Opened("plain") /\ handles["plain"] = {}
        /\ UNCHANGED <<host, asked, stage, handles, direct, queued>>
        /\ host \in Hosts
    BY <1>11 DEF Transfer, HandlesInv, Building, HandlesTyped
  <2>1. CallFits'
    <3>1. CASE WantsAsync(aligned)
      <4>1. /\ call' = [how |-> "async", on |-> Fast, aligned |-> aligned]
            /\ queued /\ (aligned \/ host = "darwin")
        BY <1>11, <3>1 DEF Transfer, WantsAsync
      <4> QED
        BY <2>0, <4>1 DEF CallFits, FlagsFit, Fast, Opened
    <3>2. CASE ~WantsAsync(aligned)
      <4>1. call' = [how |-> "sync", on |-> SyncHandle(aligned), aligned |-> aligned]
        BY <1>11, <3>2 DEF Transfer
      <4>2. CASE SyncHandle(aligned) = "plain"
        BY <2>0, <4>1, <4>2 DEF CallFits, Opened
      <4>3. CASE SyncHandle(aligned) # "plain"
        <5>1. aligned /\ ~(host = "windows" /\ queued) /\ Opened("fast") /\ SyncHandle(aligned) = "fast"
          BY <4>3 DEF SyncHandle, Fast
        <5> QED
          BY <2>0, <4>1, <5>1 DEF CallFits, FlagsFit, Opened
      <4> QED
        BY <4>2, <4>3
    <3> QED
      BY <3>1, <3>2
  <2> QED
    BY <2>0, <2>1 DEF HandlesInv, HandlesTyped, StageFits, Building, FlagsFit, Opened
<1>12. CASE Trim
  <2>0. /\ stage = "ready" /\ FlagsFit /\ Opened("plain") /\ handles["plain"] = {}
        /\ UNCHANGED <<host, asked, stage, handles, direct, queued>>
        /\ call' = [how |-> "trim", on |-> "plain", aligned |-> FALSE]
    BY <1>12 DEF Trim, HandlesInv, Building
  <2>1. CallFits'
    BY <2>0 DEF CallFits, Opened
  <2> QED
    BY <2>0, <2>1 DEF HandlesInv, HandlesTyped, StageFits, Building, FlagsFit, Opened
<1>13. CASE Close
  BY <1>13 DEF Close, HandlesInv, HandlesTyped, StageFits, Building
<1>14. CASE UNCHANGED handleVars
  BY <1>14 DEF handleVars, HandlesInv, HandlesTyped, StageFits, Building, FlagsFit, OnlyPlain,
       CallFits, Opened
<1> QED
  BY <1>1, <1>2, <1>3, <1>4, <1>5, <1>6, <1>7, <1>8, <1>9, <1>10, <1>11, <1>12, <1>13, <1>14
     DEF HandlesNext

\* Whatever the system grants or refuses, every call of any history goes to a
\* handle that admits it, and what a constructor opened is closed again.
\* (sync_fd, wants_async, engage, read_sync, and the constructors)
THEOREM CallsHaveTheirHandles == HandlesSpec => []HandlesFit
<1>1. HandlesInit => HandlesInv
  BY DEF HandlesInit, HandlesInv, HandlesTyped, StageFits, Building, NoCall
<1>2. HandlesInv /\ [HandlesNext]_handleVars => HandlesInv'
  BY NextKeepsHandles
<1>3. HandlesInv => HandlesFit
  BY DEF HandlesInv, HandlesFit, FlagsFit, CallFits
<1> QED
  BY <1>1, <1>2, <1>3, PTL DEF HandlesSpec

(***************************************************************************)
(* A backend's two lives side by side implement each of them, with the     *)
(* other's steps as stuttering; so the run's specification has all four    *)
(* invariants, and keeps the contract.                                     *)
(***************************************************************************)
THEOREM LivesImplementEach == IoSpec => Spec /\ HandlesSpec
<1>1. IoInit => Init /\ HandlesInit
  BY DEF IoInit
<1>2. [IoNext]_ioVars => [Next]_vars
  BY DEF IoNext, ioVars
<1>3. [IoNext]_ioVars => [HandlesNext]_handleVars
  BY DEF IoNext, ioVars
<1> QED
  BY <1>1, <1>2, <1>3, PTL DEF IoSpec, Spec, HandlesSpec

\* What the run checks of the backends' safety, for every size and history.
THEOREM BackendsAreSafe ==
  IoSpec => /\ [](TransfersExact /\ FailuresSurface /\ NoneOutlives /\ HandlesFit)
            /\ ImplementsContract
<1> QED
  BY LivesImplementEach, TransfersAreExact, FailuresAreTold, NothingOutlives,
     CallsHaveTheirHandles, BackendsImplementContract, PTL
=============================================================================
