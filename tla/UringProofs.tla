---------------------------- MODULE UringProofs ----------------------------
(***************************************************************************)
(* What the operations of a ring preserve, for any number of requests of   *)
(* any shape.  The reader and the writer cite these lemmas.                *)
(***************************************************************************)
EXTENDS Uring, FiniteSetTheorems, TLAPS

\* The ring's own invariant: it is the process's count and the identity of
\* the requests, over finite queues.
RingInv ==
  /\ IsFiniteSet(sq) /\ IsFiniteSet(flight) /\ IsFiniteSet(cq)
  /\ OutstandingExact
  /\ OneRequestPerSlot

\* Every request between its publication and the reaping of its completion.
PendingOps == sq \cup flight \cup Completed

\* The requests that remain once the completions in "found" are reaped.
Remaining(found) == sq \cup flight \cup {c.op : c \in cq \ found}

\* An empty ring satisfies its invariant.
LEMMA RingInitial == RingInit => RingInv /\ PendingOps = {}
BY FS_EmptySet DEF RingInit, RingInv, OutstandingExact, OneRequestPerSlot,
                   Completed, PendingOps

\* Reaping takes exactly the completions found off the count.
LEMMA ReapedExact ==
  ASSUME RingInv, NEW found \in SUBSET cq
  PROVE  /\ IsFiniteSet(cq \ found)
         /\ Reaped(found) = Cardinality(flight) + Cardinality(cq \ found)
         /\ Reaped(found) \in Nat
<1>1. IsFiniteSet(found) /\ Cardinality(found) \in Nat
  BY FS_Subset, FS_CardinalityType DEF RingInv
<1>2. cq \cap found = found
  OBVIOUS
<1>3. IsFiniteSet(cq \ found) /\ Cardinality(cq \ found) = Cardinality(cq) - Cardinality(found)
  BY <1>2, FS_Difference DEF RingInv
<1>4. /\ Cardinality(flight) \in Nat /\ Cardinality(cq) \in Nat
      /\ Cardinality(cq \ found) \in Nat
  BY <1>3, FS_CardinalityType DEF RingInv
<1> QED
  BY <1>1, <1>3, <1>4 DEF Reaped, Monus, RingInv, OutstandingExact

\* Taking completions out leaves the identity of the others alone.
LEMMA ReapIdentity ==
  ASSUME RingInv, NEW found \in SUBSET cq, cq' = cq \ found,
         sq' = sq, flight' = flight, outstanding' = Reaped(found)
  PROVE  RingInv' /\ PendingOps' = Remaining(found)
<1>1. OutstandingExact' /\ IsFiniteSet(cq')
  BY ReapedExact DEF OutstandingExact
<1>2. OneRequestPerSlot'
  BY DEF RingInv, OneRequestPerSlot, Completed
<1> QED
  BY <1>1, <1>2 DEF RingInv, PendingOps, Completed, Remaining

\* Reaping one completion removes its request and no other.
LEMMA ReapSound ==
  ASSUME RingInv, NEW c \in cq, Reap(c)
  PROVE  RingInv' /\ PendingOps' = Remaining({c})
BY ReapIdentity DEF Reap

\* Once c is reaped nothing is pending on its slot.
LEMMA ReapFreesSlot ==
  ASSUME RingInv, NEW c \in cq
  PROVE  /\ \A q \in Remaining({c}) : q.slot # c.op.slot
         /\ Remaining({c}) \subseteq PendingOps
         /\ PendingOps = Remaining({c}) \cup {c.op}
BY DEF RingInv, OneRequestPerSlot, Completed, Remaining, PendingOps

\* A round of drain() only takes completions off the queue and the count.
LEMMA DrainSound ==
  ASSUME RingInv, DrainRound
  PROVE  RingInv' /\ PendingOps' = sq \cup flight
<1>1. cq' = cq \ cq
  BY DEF DrainRound
<1>2. RingInv' /\ PendingOps' = Remaining(cq)
  BY <1>1, ReapIdentity DEF DrainRound
<1> QED
  BY <1>2 DEF Remaining

\* The kernel's completion moves a request along and keeps it unique.
LEMMA CompleteSound ==
  ASSUME RingInv, NEW op \in flight, NEW res, Complete(op, res)
  PROVE  RingInv' /\ PendingOps' = PendingOps
<1> DEFINE c == [op |-> op, res |-> res]
<1>1. c.op = op /\ c \notin cq /\ cq' = cq \cup {c} /\ flight' = flight \ {op}
  BY DEF Complete, RingInv, OneRequestPerSlot, Completed
<1>2. /\ IsFiniteSet(cq') /\ Cardinality(cq') = Cardinality(cq) + 1
      /\ IsFiniteSet(flight') /\ Cardinality(flight') = Cardinality(flight) - 1
      /\ Cardinality(cq) \in Nat /\ Cardinality(flight) \in Nat
  BY <1>1, FS_AddElement, FS_RemoveElement, FS_CardinalityType DEF RingInv
<1>3. Completed' = Completed \cup {op}
  BY <1>1 DEF Completed
<1>4. OneRequestPerSlot'
  <2> HIDE DEF c
  <2>1. \A d \in cq : d.op # op
    BY DEF RingInv, OneRequestPerSlot, Completed
  <2> QED
    BY <1>1, <1>3, <2>1 DEF RingInv, OneRequestPerSlot, Complete
<1> QED
  BY <1>1, <1>2, <1>3, <1>4 DEF RingInv, OutstandingExact, PendingOps, Complete

\* A submission adds its own request, whether or not the kernel takes it,
\* provided nothing else is pending on its slot.
LEMMA SubmitSound ==
  ASSUME RingInv, NEW op, NEW found \in SUBSET cq,
         \A q \in Remaining(found) : q.slot # op.slot,
         Submit(op, found) \/ SubmitFails(op, found)
  PROVE  RingInv' /\ PendingOps' = Remaining(found) \cup {op} /\ cq' = cq \ found
<1>1. op \notin Remaining(found) /\ Completed \cap (sq \cup flight) = {}
  BY DEF RingInv, OneRequestPerSlot
<1>2. PICK accepted \in SUBSET (sq \cup {op}) :
        /\ sq' = (sq \cup {op}) \ accepted
        /\ flight' = flight \cup accepted
        /\ cq' = cq \ found
        /\ outstanding' = Reaped(found) + Cardinality(accepted)
  <2>1. CASE Submit(op, found)
    BY <2>1 DEF Submit
  <2>2. CASE SubmitFails(op, found)
    <3>1. Reaped(found) \in Nat /\ Cardinality({}) = 0
      BY ReapedExact, FS_EmptySet
    <3>2. Reaped(found) = Reaped(found) + Cardinality({})
      BY <3>1
    <3> QED
      BY <2>2, <3>2 DEF SubmitFails
  <2> QED
    BY <2>1, <2>2
<1>3. IsFiniteSet(sq \cup {op}) /\ IsFiniteSet(accepted) /\ Cardinality(accepted) \in Nat
  BY FS_AddElement, FS_Subset, FS_CardinalityType DEF RingInv
<1>4. flight \cap accepted = {}
  BY <1>1 DEF RingInv, OneRequestPerSlot, Remaining
<1>5. IsFiniteSet(flight') /\ Cardinality(flight') = Cardinality(flight) + Cardinality(accepted)
  <2>1. IsFiniteSet(flight \cup accepted)
        /\ Cardinality(flight \cup accepted)
             = Cardinality(flight) + Cardinality(accepted) - Cardinality(flight \cap accepted)
    BY <1>3, FS_Union DEF RingInv
  <2>2. Cardinality(flight \cap accepted) = 0
    BY <1>4, FS_EmptySet
  <2>3. Cardinality(flight) \in Nat
    BY FS_CardinalityType DEF RingInv
  <2> QED
    BY <1>2, <1>3, <2>1, <2>2, <2>3
<1>6. IsFiniteSet(sq')
  BY <1>2, <1>3, FS_Subset
<1>7. IsFiniteSet(cq') /\ OutstandingExact'
  <2>1. /\ Cardinality(flight) \in Nat
        /\ IsFiniteSet(cq \ found) /\ Cardinality(cq \ found) \in Nat
    BY ReapedExact, FS_CardinalityType DEF RingInv
  <2>2. Reaped(found) = Cardinality(flight) + Cardinality(cq \ found)
    BY ReapedExact
  <2> QED
    BY <1>2, <1>3, <1>5, <2>1, <2>2 DEF OutstandingExact
<1>8. (sq \cup flight)' = sq \cup flight \cup {op} /\ sq' \cap flight' = {}
  BY <1>1, <1>2, <1>4 DEF RingInv, OneRequestPerSlot, Remaining
<1>9. Completed' = {c.op : c \in cq \ found} /\ Completed' \subseteq Completed
  BY <1>2 DEF Completed
<1>10. OneRequestPerSlot'
  <2>1. PendingOps' = Remaining(found) \cup {op}
    BY <1>8, <1>9 DEF PendingOps, Remaining
  <2>2. \A p, q \in Remaining(found) \cup {op} : p.slot = q.slot => p = q
    BY <1>1 DEF RingInv, OneRequestPerSlot, Remaining, Completed
  <2>3. \A c, d \in cq' : c.op = d.op => c = d
    BY <1>2 DEF RingInv, OneRequestPerSlot
  <2>4. (sq \cup flight)' \cap Completed' = {}
    BY <1>1, <1>8, <1>9 DEF Remaining
  <2> QED
    BY <1>8, <2>1, <2>2, <2>3, <2>4 DEF OneRequestPerSlot, PendingOps
<1> QED
  BY <1>2, <1>5, <1>6, <1>7, <1>8, <1>9, <1>10 DEF RingInv, PendingOps, Remaining

\* With nothing stale in the queue a successful submission is accepted.
LEMMA SubmitAccepted ==
  ASSUME NEW op, NEW found, Submit(op, found), sq = {}
  PROVE  sq' = {} /\ flight' = flight \cup {op}
BY DEF Submit

\* A count of zero means the kernel owes nothing.
LEMMA DrainedIsQuiet ==
  ASSUME RingInv, outstanding = 0
  PROVE  flight = {} /\ cq = {}
<1>1. Cardinality(flight) \in Nat /\ Cardinality(cq) \in Nat
  BY FS_CardinalityType DEF RingInv
<1>2. Cardinality(flight) = 0 /\ Cardinality(cq) = 0
  BY <1>1 DEF RingInv, OutstandingExact
<1> QED
  BY <1>2, FS_EmptySet DEF RingInv

\* The exact count of a sound ring is a natural number.
LEMMA RingCount == (RingInv => outstanding \in Nat) /\ (RingInv' => outstanding' \in Nat)
<1>1. ASSUME RingInv PROVE outstanding \in Nat
  <2>1. Cardinality(flight) \in Nat /\ Cardinality(cq) \in Nat
    BY <1>1, FS_CardinalityType DEF RingInv
  <2> QED
    BY <1>1, <2>1 DEF RingInv, OutstandingExact
<1>2. ASSUME RingInv' PROVE outstanding' \in Nat
  <2>1. Cardinality(flight') \in Nat /\ Cardinality(cq') \in Nat
    BY <1>2, FS_CardinalityType DEF RingInv
  <2> QED
    BY <1>2, <2>1 DEF RingInv, OutstandingExact
<1> QED
  BY <1>1, <1>2

\* The ring's soundness depends on the ring's variables alone.
LEMMA RingUnchanged ==
  ASSUME UNCHANGED ringVars
  PROVE  (RingInv => RingInv') /\ PendingOps' = PendingOps /\ cq' = cq
BY DEF ringVars, RingInv, OutstandingExact, OneRequestPerSlot, Completed, PendingOps
=============================================================================
