----------------------------- MODULE GcdBackend -----------------------------
(***************************************************************************)
(* gcd_reader and gcd_writer (src/src/io/gcd_backend.hpp): every transfer  *)
(* is a task on a concurrent queue.  A worker moves the data in a loop of  *)
(* preads or pwrites, publishes the result under the lock, and notifies    *)
(* after it has let go of the lock; the thread waits on the condition      *)
(* variable.  A section under the lock is one step.                        *)
(***************************************************************************)
EXTENDS SlotClient

VARIABLES
  gslots,     \* slot -> [error, ready]; a writer's busy is ~ready
  workers,    \* slot -> its worker's loop [got, err], or Gone
  notifying,  \* workers that have published and not yet notified
  asleep      \* the thread is blocked in cv.wait

gcdVars == <<gslots, workers, notifying, asleep>>

Gone == [got |-> -1, err |-> FALSE]
Working(s) == workers[s] # Gone

GcdInit ==
  /\ gslots = [s \in Slots |-> [error |-> FALSE, ready |-> role = "writer"]]
  /\ workers = [s \in Slots |-> Gone]
  /\ notifying = 0
  /\ asleep = FALSE

\* mutant: the slot keeps the "ready" of its previous transfer
StartedSlotReady(s) ==
  [error |-> role = "writer" /\ gslots[s].error, ready |-> gslots[s].ready]

\* The reader clears an old error here, the writer in wait_slot().
StartedSlot(s) ==
  [error |-> role = "writer" /\ gslots[s].error, ready |-> FALSE]

GcdStart(s) ==
  /\ StartCall(s)
  /\ fate' = [fate EXCEPT ![s] = Afresh(s)]
  /\ gslots' = [gslots EXCEPT ![s] = StartedSlot(s)]
  /\ workers' = [workers EXCEPT ![s] = [got |-> 0, err |-> FALSE]]
  /\ UNCHANGED <<latched, notifying, asleep>>

\* The predicate is checked under the lock, where the thread also falls
\* asleep; the errno a worker left is thrown, once by a writer.
GcdWaitBlocks ==
  /\ InWait /\ ~asleep
  /\ ~gslots[target].ready
  /\ asleep' = TRUE
  /\ UNCHANGED <<clientVars, gslots, workers, notifying>>

GcdWaitReturns ==
  /\ InWait /\ ~asleep
  /\ gslots[target].ready /\ ~gslots[target].error
  /\ SlotIdle
  /\ UNCHANGED gcdVars

\* st.error = 0
ErrorCleared ==
  IF role = "writer" THEN [gslots EXCEPT ![target].error = FALSE] ELSE gslots

GcdWaitThrows ==
  /\ InWait /\ ~asleep
  /\ gslots[target].ready /\ gslots[target].error
  /\ gslots' = ErrorCleared
  /\ Thrown({target})
  /\ UNCHANGED <<workers, notifying, asleep>>

-----------------------------------------------------------------------------
(* run_read, run_write *)

LoopRuns(s) == Working(s) /\ ~workers[s].err /\ workers[s].got < Len

GcdMoves(s, n) ==
  /\ LoopRuns(s)
  /\ workers[s].got + n <= Len
  /\ Pass(s, workers[s].got, workers[s].got, n)
  /\ workers' = [workers EXCEPT ![s].got = @ + n]
  /\ UNCHANGED <<role, stalls, pc, target, mine, latched, starts, fate,
                 finished, gslots, notifying, asleep>>

\* An errno, or the end of the file while reading.
GcdFails(s) ==
  /\ LoopRuns(s)
  /\ workers' = [workers EXCEPT ![s].err = TRUE]
  /\ Fails(s)
  /\ UNCHANGED <<role, stalls, pc, target, mine, latched, starts, moved, finished,
                 gslots, notifying, asleep>>

\* mutant: a short transfer ends the loop
LoopEndsShort(s) == Working(s) /\ workers[s].got > 0

\* The loop is over.
LoopEnds(s) == Working(s) /\ ~LoopRuns(s)

\* mutant: the errno is not handed over
ResultAlone(s) == [error |-> FALSE, ready |-> TRUE]

Result(s) == [error |-> workers[s].err, ready |-> TRUE]

GcdPublishes(s) ==
  /\ LoopEnds(s)
  /\ gslots' = [gslots EXCEPT ![s] = Result(s)]
  /\ workers' = [workers EXCEPT ![s] = Gone]
  /\ notifying' = notifying + 1
  /\ UNCHANGED <<clientVars, asleep>>

\* mutant: the thread is not woken
AsleepStill == asleep

\* notify_all
Awake == FALSE

GcdNotifies ==
  /\ notifying > 0
  /\ notifying' = notifying - 1
  /\ asleep' = Awake
  /\ UNCHANGED <<clientVars, gslots, workers>>

\* gcd_pump::destroy() waits for the whole group, notifications included.
GcdDestroyed ==
  /\ pc = "drain"
  /\ \A s \in Slots : ~Working(s)
  /\ notifying = 0
  /\ pc' = "freed"
  /\ UNCHANGED <<role, stalls, target, mine, latched, starts, moved, fate,
                 finished, gcdVars>>

GcdThread ==
  \/ GcdWaitBlocks \/ GcdWaitReturns \/ GcdWaitThrows
GcdWorker(s) == (\E n \in 1 .. Len : GcdMoves(s, n)) \/ GcdFails(s) \/ GcdPublishes(s)

GcdNext ==
  \/ \E s \in Slots : GcdStart(s) \/ GcdWorker(s)
  \/ GcdThread \/ GcdNotifies \/ GcdDestroyed

\* The slot as backend.hpp's contract sees it.
GcdOp(s) ==
  IF Working(s) THEN "pending"
  ELSE IF gslots[s].error THEN "failed" ELSE "idle"
=============================================================================
