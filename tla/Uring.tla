------------------------------- MODULE Uring -------------------------------
(***************************************************************************)
(* One io_uring instance, as src/src/io/uring_backend.hpp drives it: the   *)
(* process is the only submitter and the only consumer, the kernel works   *)
(* concurrently.  A request is a record with at least a field "slot" (the  *)
(* sqe.user_data); a completion is the record [op, res], where res is the  *)
(* number of units transferred, 0 at end of file, or -1 for an errno.      *)
(*                                                                         *)
(* The queues are sets.  The device completes requests in any order, so    *)
(* the order in which the process finds completions is arbitrary whether   *)
(* or not they wait in a FIFO.  Requests carry their buffer and offset, so *)
(* the order of the submission queue shows only when the kernel consumes   *)
(* part of it: it takes entries from the head, so the newest stays behind. *)
(***************************************************************************)
EXTENDS Integers, FiniteSets

VARIABLES
  sq,          \* requests published in the submission queue, not yet accepted
  flight,      \* requests the kernel accepted and has not completed
  cq,          \* completions the process has not reaped
  outstanding  \* uring::outstanding, the process's own count

ringVars == <<sq, flight, cq, outstanding>>

RingInit ==
  /\ sq = {}
  /\ flight = {}
  /\ cq = {}
  /\ outstanding = 0

\* a -= min(b, a) on unsigned values
Monus(a, b) == IF a > b THEN a - b ELSE 0

(***************************************************************************)
(* wait_one() finds the completions of "reaped" (one, or none when the     *)
(* caller did not wait), then submit_rw() publishes op and enters the      *)
(* kernel with every entry between the kernel's head and the new tail.     *)
(* EINTR repeats the call and changes nothing.                             *)
(***************************************************************************)
\* mutant: completions are consumed and not counted
ReapedUncounted(found) == outstanding

Reaped(found) == Monus(outstanding, Cardinality(found))

\* mutant: every successful enter counts one request, whatever it returned
SubmitCountsOne(op, found) ==
  \E accepted \in SUBSET (sq \cup {op}) :
    /\ accepted # {}
    /\ op \in accepted => accepted = sq \cup {op}
    /\ sq' = (sq \cup {op}) \ accepted
    /\ flight' = flight \cup accepted
    /\ cq' = cq \ found
    /\ outstanding' = Reaped(found) + 1

\* The kernel accepts everything published, or stops short of the newest.
Submit(op, found) ==
  \E accepted \in SUBSET (sq \cup {op}) :
    /\ accepted # {}
    /\ op \in accepted => accepted = sq \cup {op}
    /\ sq' = (sq \cup {op}) \ accepted
    /\ flight' = flight \cup accepted
    /\ cq' = cq \ found
    /\ outstanding' = Reaped(found) + Cardinality(accepted)

\* io_uring_enter fails: the entry stays published and submit_rw throws.
SubmitFails(op, found) ==
  /\ sq' = sq \cup {op}
  /\ cq' = cq \ found
  /\ outstanding' = Reaped(found)
  /\ UNCHANGED flight

\* wait_one() alone.
Reap(c) ==
  /\ cq' = cq \ {c}
  /\ outstanding' = Reaped({c})
  /\ UNCHANGED <<sq, flight>>

\* One round of drain(): every completion visible is dropped at once.
DrainRound ==
  /\ outstanding > 0
  /\ cq # {}
  /\ cq' = {}
  /\ outstanding' = Reaped(cq)
  /\ UNCHANGED <<sq, flight>>

\* The kernel finishes a request it accepted.
Complete(op, res) ==
  /\ op \in flight
  /\ flight' = flight \ {op}
  /\ cq' = cq \cup {[op |-> op, res |-> res]}
  /\ UNCHANGED <<sq, outstanding>>

\* The slots with a request anywhere between publication and reaping.
SlotsOf(ops) == {op.slot : op \in ops}
Completed == {c.op : c \in cq}
BusySlots == SlotsOf(sq) \cup SlotsOf(flight) \cup SlotsOf(Completed)

(***************************************************************************)
(* drain() loops on "outstanding", so the count has to equal what the      *)
(* kernel still owes: lower and the buffers are freed under a transfer,    *)
(* higher and the destructor waits forever.                                *)
(***************************************************************************)
OutstandingExact == outstanding = Cardinality(flight) + Cardinality(cq)

(***************************************************************************)
(* backend.hpp's slot exclusivity, at the ring: two requests never carry   *)
(* the same user_data, so a completion identifies its request.             *)
(***************************************************************************)
OneRequestPerSlot ==
  /\ \A p, q \in sq \cup flight \cup Completed : p.slot = q.slot => p = q
  /\ \A c, d \in cq : c.op = d.op => c = d
  /\ sq \cap flight = {} /\ sq \cap Completed = {} /\ flight \cap Completed = {}
=============================================================================
