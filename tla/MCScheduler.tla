---------------------------- MODULE MCScheduler ----------------------------
(***************************************************************************)
(* Two workers, two operations.  With two workers a chunked bulk of fewer  *)
(* than three indices has chunks of one, like an unchunked one, and a bulk *)
(* of none goes to schedule(), so six plans are enough; exchanging the     *)
(* operations gives nothing new.  In a start-up, two threads make up to    *)
(* two calls each, with two sizes of which neither is the machine's.       *)
(***************************************************************************)
EXTENDS ParallelScheduler

CONSTANTS opA, opB  \* the operations

Plan ==
  << [kind |-> "schedule", shape |-> 0], [kind |-> "unchunked", shape |-> 0],
     [kind |-> "unchunked", shape |-> 1], [kind |-> "unchunked", shape |-> 2],
     [kind |-> "unchunked", shape |-> 3], [kind |-> "chunked", shape |-> 3] >>

MCPlans ==
  {[o \in {opA, opB} |-> Plan[IF o = opA THEN ij[1] ELSE ij[2]]] :
     ij \in {p \in (DOMAIN Plan) \X (DOMAIN Plan) : p[1] <= p[2]}}
=============================================================================
