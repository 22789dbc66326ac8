----------------------------- MODULE IoBackends -----------------------------
(***************************************************************************)
(* A backend's two lives: what it opens and chooses between, and how its   *)
(* queue moves the slots' bytes.  A behaviour is one of the two: the queue *)
(* sees the handle its requests go to, and nothing of how it came about.   *)
(***************************************************************************)
EXTENDS Backends, FileHandles

VARIABLE life  \* "handles" or "slots"

ioVars == <<vars, handleVars, life>>

\* The life that is not led keeps one of its initial states.
IoInit ==
  /\ life \in {"handles", "slots"}
  /\ Init /\ HandlesInit
  /\ life = "handles" => kind = "gcd" /\ role = "reader" /\ ~stalls
  /\ life = "slots" =>
       /\ host = IF kind = "gcd" THEN "darwin" ELSE "windows"
       /\ asked = [writer |-> role = "writer", direct |-> TRUE, async |-> TRUE,
                   prealloc |-> FALSE]

IoNext ==
  /\ UNCHANGED life
  /\ \/ life = "handles" /\ HandlesNext /\ UNCHANGED vars
     \/ life = "slots" /\ Next /\ UNCHANGED handleVars

IoSpec == IoInit /\ [][IoNext]_ioVars /\ Fairness
=============================================================================
