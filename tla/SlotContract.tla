---------------------------- MODULE SlotContract ----------------------------
(***************************************************************************)
(* What every I/O backend promises the two engines                         *)
(* (src/src/io/backend.hpp): a transfer belongs to a slot, the slot is not *)
(* given back before the transfer is over, a failure is thrown, and the    *)
(* backend does not go away under a transfer.                              *)
(***************************************************************************)
EXTENDS FiniteSets

CONSTANT Slots

VARIABLES
  op,    \* slot -> "idle", "pending" or "failed"
  mine,  \* the slots whose buffers the engine may use
  open   \* the backend exists

contractVars == <<op, mine, open>>

ContractInit ==
  /\ op = [s \in Slots |-> "idle"]
  /\ mine = Slots
  /\ open = TRUE

\* start(), start_write(): "only while nothing else is outstanding on that
\* slot"; it may fail at once.
Begin(s) ==
  /\ open /\ s \in mine /\ op[s] = "idle"
  /\ \E o \in {"pending", "failed"} : op' = [op EXCEPT ![s] = o]
  /\ mine' = mine \ {s}
  /\ UNCHANGED open

\* The device is done with the transfer.
Settle(s) ==
  /\ op[s] = "pending"
  /\ \E o \in {"idle", "failed"} : op' = [op EXCEPT ![s] = o]
  /\ UNCHANGED <<mine, open>>

\* wait(), wait_slot() return.
GiveBack(s) ==
  /\ open /\ op[s] = "idle"
  /\ mine' = mine \cup {s}
  /\ UNCHANGED <<op, open>>

\* A failure is thrown and may be cleared by that.
Throw(s) ==
  /\ open /\ op[s] = "failed"
  /\ op' = [op EXCEPT ![s] = "idle"]
  /\ UNCHANGED <<mine, open>>

\* "a backend's destructor drains every in-flight operation"
Teardown ==
  /\ open
  /\ \A s \in Slots : op[s] # "pending"
  /\ open' = FALSE
  /\ UNCHANGED <<op, mine>>

ContractNext ==
  \/ \E s \in Slots : Begin(s) \/ Settle(s) \/ GiveBack(s) \/ Throw(s)
  \/ Teardown

ContractSpec == ContractInit /\ [][ContractNext]_contractVars
=============================================================================
