-------------------------- MODULE SchedulerStartup --------------------------
(***************************************************************************)
(* How the process-wide scheduler gets its size                            *)
(* (size_parallel_scheduler() and the function-local static behind         *)
(* get_parallel_scheduler(), src/src/execution/parallel_backend.cpp and    *)
(* src/include/blake3pp/parallel.hpp): the size is written under a mutex   *)
(* and read without it, the flag that forbids it later is stored by the    *)
(* first use.  Threads of the program call either, in any order.           *)
(***************************************************************************)
EXTENDS Integers, FiniteSets

CONSTANTS
  Threads,   \* of the program
  Sizes,     \* the sizes asked for
  Cores,     \* hardware_concurrency()
  MaxCalls   \* bound on a thread's calls

ASSUME StartupAssumption ==
  /\ Sizes \subseteq Nat \ {0} /\ Cores \in Nat \ {0} /\ MaxCalls \in Nat

VARIABLES
  provider,   \* "stdexec" or "beman"
  at,         \* thread -> where it is
  calls,      \* thread -> calls made
  locked,     \* g_mutex
  gThreads,   \* g_threads
  poolSize,   \* process_pool_threads(): stdexec's copy
  started,    \* the flag of either provider
  readSize,   \* the size the constructing thread has read
  pool,       \* the static: "none", "constructing" or "built"
  built,      \* the pool's threads
  early,      \* sizes whose call returned before the first use began
  honoured,   \* sizes whose call returned
  late        \* a call that began after the pool was built returned

startupVars == <<provider, at, calls, locked, gThreads, poolSize, started, readSize,
                 pool, built, early, honoured, late>>

Out == [pc |-> "out"]

StartupInit ==
  /\ provider \in {"stdexec", "beman"}
  /\ at = [t \in Threads |-> Out]
  /\ calls = [t \in Threads |-> 0]
  /\ locked = FALSE
  /\ gThreads = 0 /\ poolSize = 0 /\ readSize = 0 /\ built = 0
  /\ started = FALSE
  /\ pool = "none"
  /\ early = {} /\ honoured = {}
  /\ late = FALSE

Moves(t, where) == at' = [at EXCEPT ![t] = where]
In(t, pc) == at[t].pc = pc
Enter(t, where) ==
  /\ In(t, "out") /\ calls[t] < MaxCalls
  /\ calls' = [calls EXCEPT ![t] = @ + 1]
  /\ Moves(t, where)

-----------------------------------------------------------------------------
(* size_parallel_scheduler(n) *)

CallSize(t, n) ==
  /\ Enter(t, [pc |-> "lock", size |-> n, late |-> pool = "built"])
  /\ UNCHANGED <<provider, locked, gThreads, poolSize, started, readSize, pool, built,
                 early, honoured, late>>

\* mutant: nobody waits for the lock
LockFree == TRUE

MutexFree == ~locked

Lock(t) ==
  /\ In(t, "lock") /\ MutexFree
  /\ locked' = TRUE
  /\ Moves(t, [at[t] EXCEPT !.pc = "check"])
  /\ UNCHANGED <<provider, calls, gThreads, poolSize, started, readSize, pool, built,
                 early, honoured, late>>

Running == started
SizedOtherwise(t) == gThreads \notin {0, at[t].size}

\* Each check may throw, which unlocks.
CheckRunning(t) ==
  /\ In(t, "check")
  /\ IF Running THEN Moves(t, Out) /\ locked' = FALSE
     ELSE Moves(t, [at[t] EXCEPT !.pc = "compare"]) /\ UNCHANGED locked
  /\ UNCHANGED <<provider, calls, gThreads, poolSize, started, readSize, pool, built,
                 early, honoured, late>>

CheckSize(t) ==
  /\ In(t, "compare")
  /\ IF SizedOtherwise(t) THEN Moves(t, Out) /\ locked' = FALSE
     ELSE Moves(t, [at[t] EXCEPT !.pc = "store"]) /\ UNCHANGED locked
  /\ UNCHANGED <<provider, calls, gThreads, poolSize, started, readSize, pool, built,
                 early, honoured, late>>

StoreSize(t) ==
  /\ In(t, "store")
  /\ gThreads' = at[t].size
  /\ Moves(t, [at[t] EXCEPT !.pc = "copy"])
  /\ UNCHANGED <<provider, calls, locked, poolSize, started, readSize, pool, built,
                 early, honoured, late>>

\* stdexec's copy, the unlock, the return
SizeReturns(t) ==
  /\ In(t, "copy")
  /\ poolSize' = IF provider = "stdexec" THEN at[t].size ELSE poolSize
  /\ locked' = FALSE
  /\ honoured' = honoured \cup {at[t].size}
  /\ early' = IF pool = "none" /\ ~started THEN early \cup {at[t].size} ELSE early
  /\ late' = (late \/ at[t].late)
  /\ Moves(t, Out)
  /\ UNCHANGED <<provider, calls, gThreads, started, readSize, pool, built>>

-----------------------------------------------------------------------------
(* get_parallel_scheduler(): the first thread constructs, others wait.     *)

CallUse(t) ==
  /\ Enter(t, [pc |-> "use"])
  /\ UNCHANGED <<provider, locked, gThreads, poolSize, started, readSize, pool, built,
                 early, honoured, late>>

Construct(t) ==
  /\ In(t, "use") /\ pool = "none"
  /\ pool' = "constructing"
  /\ Moves(t, [pc |-> IF provider = "beman" THEN "read" ELSE "flag"])
  /\ UNCHANGED <<provider, calls, locked, gThreads, poolSize, started, readSize, built,
                 early, honoured, late>>

\* beman: the size, then the flag; stdexec: the flag, then the size.
ReadSize(t) ==
  /\ In(t, "read")
  /\ readSize' = IF provider = "beman" THEN gThreads ELSE poolSize
  /\ Moves(t, [pc |-> IF provider = "beman" THEN "flag" ELSE "build"])
  /\ UNCHANGED <<provider, calls, locked, gThreads, poolSize, started, pool, built,
                 early, honoured, late>>

\* mutant: the flag is not stored
FlagForgotten == UNCHANGED started

SetsFlag == started' = TRUE

StoreFlag(t) ==
  /\ In(t, "flag")
  /\ SetsFlag
  /\ Moves(t, [pc |-> IF provider = "beman" THEN "build" ELSE "read"])
  /\ UNCHANGED <<provider, calls, locked, gThreads, poolSize, readSize, pool, built,
                 early, honoured, late>>

\* The threads start, or one does not: the exception leaves the static
\* unconstructed, and the flag as it is.
Build(t) ==
  /\ In(t, "build")
  /\ \/ /\ pool' = "built"
        /\ built' = IF readSize = 0 THEN Cores ELSE readSize
     \/ pool' = "none" /\ UNCHANGED built
  /\ Moves(t, Out)
  /\ UNCHANGED <<provider, calls, locked, gThreads, poolSize, started, readSize,
                 early, honoured, late>>

UseBuilt(t) ==
  /\ In(t, "use") /\ pool = "built"
  /\ Moves(t, Out)
  /\ UNCHANGED <<provider, calls, locked, gThreads, poolSize, started, readSize, pool,
                 built, early, honoured, late>>

-----------------------------------------------------------------------------
StartupNext ==
  \E t \in Threads :
    \/ \E n \in Sizes : CallSize(t, n)
    \/ Lock(t) \/ CheckRunning(t) \/ CheckSize(t) \/ StoreSize(t) \/ SizeReturns(t)
    \/ CallUse(t) \/ Construct(t) \/ ReadSize(t) \/ StoreFlag(t) \/ Build(t)
    \/ UseBuilt(t)

StartupSpec == StartupInit /\ [][StartupNext]_startupVars

-----------------------------------------------------------------------------
(***************************************************************************)
(* A size that was granted before the first use is the size the pool has;  *)
(* two calls are never granted different sizes, and none is granted once   *)
(* the pool is there ("if the scheduler has already been created, or if a  *)
(* different size was already fixed", size_parallel_scheduler()), although *)
(* other threads use the scheduler or fail to create it meanwhile.  A call *)
(* during the first use is not claimed: "before the first use".            *)
(***************************************************************************)
SizeHonoured ==
  /\ pool = "built" /\ early # {} => early = {built}
  /\ Cardinality(honoured) <= 1
  /\ ~late
=============================================================================
