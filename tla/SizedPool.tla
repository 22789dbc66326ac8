----------------------------- MODULE SizedPool -----------------------------
(***************************************************************************)
(* The sized parallel scheduler (src/src/execution/parallel_backend.cpp):  *)
(* a fixed pool of worker threads over one queue of job pointers, jobs     *)
(* that are deleted by whoever brings their guard to zero, and the         *)
(* callers that submit them, each from a thread of its own.                *)
(***************************************************************************)
EXTENDS Integers, Sequences, FiniteSets

CONSTANTS
  Workers,     \* the pool's threads
  Operations,  \* operations started in the process's life
  MaxShape,    \* bound on a bulk operation's number of indices
  Plans        \* the workloads considered: operation -> [kind, shape]

ASSUME WorkersAssumption == IsFiniteSet(Workers) /\ Workers # {}
ASSUME ShapeAssumption == MaxShape \in Nat

Shapes == 0 .. MaxShape
Kinds == {"schedule", "chunked", "unchunked"}

ASSUME PlansAssumption ==
  /\ Plans \subseteq [Operations -> [kind : Kinds, shape : Shapes]]
  /\ \A p \in Plans, o \in Operations : p[o].kind = "schedule" => p[o].shape = 0

VARIABLES
  kind,      \* operation -> which backend entry point it uses
  shape,     \* operation -> number of indices, 0 for a plain schedule
  caller,    \* operation -> where its submitting thread is
  queued,    \* operation -> how many pointers submit() managed to queue
  job,       \* operation -> its heap object
  queue,     \* pool::queue_, of pointers
  worker,    \* worker -> what it is doing
  executed,  \* operation -> index -> times execute() ran it
  signals,   \* operation -> completion signals sent to its proxy
  stopping   \* the stop source has been triggered (~jthread)

vars == <<kind, shape, caller, queued, job, queue, worker, executed, signals,
          stopping>>

Idle == [pc |-> "wait"]

Smaller(a, b) == IF a < b THEN a ELSE b

\* A bulk of no indices is sent to schedule().
IsBulk(o) == kind[o] # "schedule" /\ shape[o] > 0

ChunkLength(o) ==
  IF kind[o] = "chunked"
  THEN (shape[o] + Cardinality(Workers) - 1) \div Cardinality(Workers) ELSE 1

Chunks(o) ==
  IF IsBulk(o) THEN (shape[o] + ChunkLength(o) - 1) \div ChunkLength(o) ELSE 0

Wanted(o) == IF IsBulk(o) THEN Smaller(Chunks(o), Cardinality(Workers)) ELSE 1

\* mutant: the last chunk is not cut to the shape
ChunkRangeUncut(o, i) == i * ChunkLength(o) .. (i + 1) * ChunkLength(o) - 1

\* proxy.execute(begin, end) of chunk i.
ChunkRange(o, i) ==
  i * ChunkLength(o) .. Smaller((i + 1) * ChunkLength(o), shape[o]) - 1

Init ==
  /\ \E p \in Plans : /\ kind = [o \in Operations |-> p[o].kind]
                     /\ shape = [o \in Operations |-> p[o].shape]
  /\ caller = [o \in Operations |-> "idle"]
  /\ queued = [o \in Operations |-> 0]
  /\ job = [o \in Operations |-> [alive |-> FALSE, running |-> 0, next |-> 0]]
  /\ queue = << >>
  /\ worker = [w \in Workers |-> Idle]
  /\ executed = [o \in Operations |-> [i \in Shapes |-> 0]]
  /\ signals = [o \in Operations |-> << >>]
  /\ stopping = FALSE

-----------------------------------------------------------------------------
(* The submitting thread *)

Signal(o, s) == signals' = [signals EXCEPT ![o] = Append(@, s)]

\* "new" fails: the error goes to the proxy and nothing was queued.
AllocationFails(o) ==
  /\ caller[o] = "idle" /\ ~stopping
  /\ caller' = [caller EXCEPT ![o] = "done"]
  /\ Signal(o, "error")
  /\ UNCHANGED <<kind, shape, queued, job, queue, worker, executed, stopping>>

\* mutant: the job counts its workers only, not the submitter
NewJobUnguarded(o) == [alive |-> TRUE, running |-> Wanted(o), next |-> 0]

\* The guard counts the workers wanted and the submitter.
NewJob(o) == [alive |-> TRUE, running |-> Wanted(o) + 1, next |-> 0]

\* submit(), under the mutex: up to "wanted" pointers go in; the queue's
\* growth may fail before any of them.
Submit(o) ==
  /\ caller[o] = "idle" /\ ~stopping
  /\ \E n \in 0 .. Wanted(o) :
       /\ queued' = [queued EXCEPT ![o] = n]
       /\ queue' = queue \o [i \in 1 .. n |-> o]
       /\ IF n = 0
          THEN /\ caller' = [caller EXCEPT ![o] = "done"]
               /\ Signal(o, "error")
               /\ UNCHANGED job
          ELSE /\ caller' = [caller EXCEPT ![o] = "settle"]
               /\ job' = [job EXCEPT ![o] = NewJob(o)]
               /\ UNCHANGED signals
  /\ UNCHANGED <<kind, shape, worker, executed, stopping>>

\* mutant: the pointers that were not queued stay counted
SettleKeepsShort(o) == 1

\* What settle() releases: its own guard and the pointers never queued.
SettleShare(o) == Wanted(o) - queued[o] + 1

\* release(n): true for whoever brings the count to zero.
Released(o, n) == [job EXCEPT ![o].running = @ - n]
LastOut(o, n) == job[o].running = n

Settle(o) ==
  /\ caller[o] = "settle"
  /\ job' = Released(o, SettleShare(o))
  /\ caller' = [caller EXCEPT ![o] =
                  IF LastOut(o, SettleShare(o)) THEN "complete" ELSE "done"]
  /\ UNCHANGED <<kind, shape, queued, queue, worker, executed, signals, stopping>>

\* complete() sends set_value, then the job is deleted.
Finished(o) ==
  /\ Signal(o, "value")
  /\ job' = [job EXCEPT ![o].alive = FALSE]

CallerCompletes(o) ==
  /\ caller[o] = "complete"
  /\ Finished(o)
  /\ caller' = [caller EXCEPT ![o] = "done"]
  /\ UNCHANGED <<kind, shape, queued, queue, worker, executed, stopping>>

-----------------------------------------------------------------------------
(* run() *)

Goto(w, at) == worker' = [worker EXCEPT ![w] = at]

\* mutant: a worker that sees the stop request leaves the queue as it is
TakeUnlessStopped(w) ==
  /\ worker[w].pc = "wait" /\ ~stopping
  /\ queue # << >>
  /\ Goto(w, [pc |-> IF IsBulk(Head(queue)) THEN "pull" ELSE "release",
              job |-> Head(queue)])
  /\ queue' = Tail(queue)
  /\ UNCHANGED <<kind, shape, caller, queued, job, executed, signals, stopping>>

\* A signal_job's work() is empty.
Take(w) ==
  /\ worker[w].pc = "wait"
  /\ queue # << >>
  /\ Goto(w, [pc |-> IF IsBulk(Head(queue)) THEN "pull" ELSE "release",
              job |-> Head(queue)])
  /\ queue' = Tail(queue)
  /\ UNCHANGED <<kind, shape, caller, queued, job, executed, signals, stopping>>

Exit(w) ==
  /\ worker[w].pc = "wait"
  /\ stopping /\ queue = << >>
  /\ Goto(w, [pc |-> "exited"])
  /\ UNCHANGED <<kind, shape, caller, queued, job, queue, executed, signals,
                 stopping>>

\* bulk_job::work(): next.fetch_add(1), then the chunk if there is one.
Pull(w) ==
  /\ worker[w].pc = "pull"
  /\ LET o == worker[w].job
     IN /\ job' = [job EXCEPT ![o].next = @ + 1]
        /\ IF job[o].next < Chunks(o)
           THEN Goto(w, [pc |-> "execute", job |-> o, chunk |-> job[o].next])
           ELSE Goto(w, [pc |-> "release", job |-> o])
  /\ UNCHANGED <<kind, shape, caller, queued, queue, executed, signals, stopping>>

Execute(w) ==
  /\ worker[w].pc = "execute"
  /\ LET o == worker[w].job
     IN /\ executed' = [executed EXCEPT ![o] = [i \in Shapes |->
                          IF i \in ChunkRange(o, worker[w].chunk) THEN @[i] + 1 ELSE @[i]]]
        /\ Goto(w, [pc |-> "pull", job |-> o])
  /\ UNCHANGED <<kind, shape, caller, queued, job, queue, signals, stopping>>

Release(w) ==
  /\ worker[w].pc = "release"
  /\ LET o == worker[w].job
     IN /\ job' = Released(o, 1)
        /\ Goto(w, IF LastOut(o, 1) THEN [pc |-> "complete", job |-> o] ELSE Idle)
  /\ UNCHANGED <<kind, shape, caller, queued, queue, executed, signals, stopping>>

WorkerCompletes(w) ==
  /\ worker[w].pc = "complete"
  /\ Finished(worker[w].job)
  /\ Goto(w, Idle)
  /\ UNCHANGED <<kind, shape, caller, queued, queue, executed, stopping>>

-----------------------------------------------------------------------------
\* The pool's destructor requests the stop; nobody submits any more.
Stop ==
  /\ ~stopping
  /\ stopping' = TRUE
  /\ UNCHANGED <<kind, shape, caller, queued, job, queue, worker, executed, signals>>

Caller(o) == AllocationFails(o) \/ Submit(o) \/ Settle(o) \/ CallerCompletes(o)
Worker(w) ==
  Take(w) \/ Exit(w) \/ Pull(w) \/ Execute(w) \/ Release(w) \/ WorkerCompletes(w)

Next ==
  \/ \E o \in Operations : Caller(o)
  \/ \E w \in Workers : Worker(w)
  \/ Stop

Spec == Init /\ [][Next]_vars

\* Every thread runs; nobody has to submit or to stop.
Fairness ==
  /\ \A o \in Operations : WF_vars(Settle(o) \/ CallerCompletes(o))
  /\ \A w \in Workers : WF_vars(Worker(w))

FairSpec == Spec /\ Fairness

-----------------------------------------------------------------------------
(* Properties *)

Holders(o) == {w \in Workers : worker[w].pc \notin {"wait", "exited"} /\ worker[w].job = o}
Entries(o) == {i \in DOMAIN queue : queue[i] = o}

\* Every variable has its type; a guard never goes below zero.
TypeOK ==
  /\ queue \in Seq(Operations)
  /\ stopping \in BOOLEAN
  /\ caller \in [Operations -> {"idle", "settle", "complete", "done"}]
  /\ job \in [Operations -> [alive : BOOLEAN, running : 0 .. Cardinality(Workers) + 1,
                             next : Nat]]
  /\ \A w \in Workers :
       worker[w].pc \in {"wait", "pull", "execute", "release", "complete", "exited"}

(***************************************************************************)
(* The guard of a job counts exactly those who may still touch it: its     *)
(* entries in the queue, the workers inside it and the submitter, whose    *)
(* share includes the pointers that were never queued ("the caller adjusts *)
(* the job's guard rather than losing the completion", submit()).          *)
(***************************************************************************)
Completing(o) ==
  caller[o] = "complete" \/ \E w \in Holders(o) : worker[w].pc = "complete"

GuardExact ==
  \A o \in Operations :
    job[o].alive /\ ~Completing(o) =>
      job[o].running = Cardinality(Entries(o)) + Cardinality(Holders(o))
                         + (IF caller[o] = "settle" THEN SettleShare(o) ELSE 0)

(***************************************************************************)
(* The guard is exact, and no worker, queue entry or caller refers to a    *)
(* deleted job, although the first worker may finish before the last       *)
(* pointer is accounted for ("so a worker cannot finish and delete the job *)
(* while more are queued", settle()).                                      *)
(***************************************************************************)
HoldersLive ==
  /\ GuardExact
  /\ \A o \in Operations :
       Holders(o) # {} \/ Entries(o) # {} \/ caller[o] \in {"settle", "complete"}
         => job[o].alive

(***************************************************************************)
(* The pool is a BulkScheduler: every index exactly once, whichever worker *)
(* runs it and however few pointers were queued, nothing after set_value,  *)
(* one signal per operation.                                               *)
(***************************************************************************)
SignalOf(o) ==
  IF Len(signals[o]) > 1 THEN "twice"
  ELSE IF signals[o] # << >> THEN signals[o][1]
  ELSE IF job[o].alive THEN "running" ELSE "idle"

Bulk == INSTANCE BulkScheduler WITH
  ran <- [o \in Operations |-> {i \in Shapes : executed[o][i] = 1}],
  signal <- [o \in Operations |-> SignalOf(o)]

ImplementsBulk == Bulk!BulkSpec

\* "a submitted job always reaches its completion" (run()), stopped or not.
OperationsComplete ==
  \A o \in Operations : job[o].alive ~> signals[o] # << >>

\* The destructor's join ends: every worker leaves after a stop request.
PoolStops == stopping ~> \A w \in Workers : worker[w].pc = "exited"
=============================================================================
