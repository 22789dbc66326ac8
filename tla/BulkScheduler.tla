--------------------------- MODULE BulkScheduler ---------------------------
(***************************************************************************)
(* What the hashing engine relies on in a scheduler                        *)
(* (src/include/blake3pp/parallel.hpp, for_each_part and fill): a bulk     *)
(* operation runs every index exactly once and completes with a value      *)
(* after the last of them, or completes with an error having run none.     *)
(***************************************************************************)
EXTENDS Integers

CONSTANT Operations  \* bulk (or plain schedule) operations, each started once

VARIABLES
  shape,   \* operation -> number of indices
  ran,     \* operation -> the indices that have run
  signal   \* operation -> "idle", "running", "value" or "error"

bulkVars == <<shape, ran, signal>>

BulkInit ==
  /\ shape \in [Operations -> Nat]
  /\ ran = [o \in Operations |-> {}]
  /\ signal = [o \in Operations |-> "idle"]

Start(o) ==
  /\ signal[o] = "idle"
  /\ signal' = [signal EXCEPT ![o] = "running"]
  /\ UNCHANGED <<shape, ran>>

\* Refused: nothing of it will run.
Refuse(o) ==
  /\ signal[o] \in {"idle", "running"}
  /\ ran[o] = {}
  /\ signal' = [signal EXCEPT ![o] = "error"]
  /\ UNCHANGED <<shape, ran>>

\* One agent runs a range of indices that nobody ran before.
Run(o) ==
  /\ signal[o] = "running"
  /\ \E lo, hi \in 0 .. shape[o] - 1 :
       /\ lo <= hi
       /\ lo .. hi \cap ran[o] = {}
       /\ ran' = [ran EXCEPT ![o] = @ \cup (lo .. hi)]
  /\ UNCHANGED <<shape, signal>>

Complete(o) ==
  /\ signal[o] = "running"
  /\ ran[o] = 0 .. shape[o] - 1
  /\ signal' = [signal EXCEPT ![o] = "value"]
  /\ UNCHANGED <<shape, ran>>

BulkNext == \E o \in Operations : Start(o) \/ Refuse(o) \/ Run(o) \/ Complete(o)

BulkSpec == BulkInit /\ [][BulkNext]_bulkVars
=============================================================================
