------------------------- MODULE ParallelScheduler -------------------------
(***************************************************************************)
(* The process-wide scheduler: how it gets its size, and the pool at that  *)
(* size.  A behaviour is either a start-up or the life of a pool of        *)
(* Workers; the pool's code knows nothing of the start-up but its size.    *)
(***************************************************************************)
EXTENDS SizedPool, SchedulerStartup

VARIABLE scene  \* which of the two this behaviour is

schedulerVars == <<scene, vars, startupVars>>

SchedulerInit ==
  /\ scene \in {"startup", "pool"}
  /\ Init /\ StartupInit
  /\ scene = "startup" => \A o \in Operations : kind[o] = "schedule"
  /\ scene = "pool" => provider = "beman"  \* whose pool this is

SchedulerNext ==
  /\ UNCHANGED scene
  /\ \/ scene = "startup" /\ StartupNext /\ UNCHANGED vars
     \/ scene = "pool" /\ Next /\ UNCHANGED startupVars

SchedulerSpec == SchedulerInit /\ [][SchedulerNext]_schedulerVars /\ Fairness
=============================================================================
