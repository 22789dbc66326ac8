---------------------------- MODULE ParallelHash ----------------------------
(***************************************************************************)
(* Hashing as a caller sees it.  "hasher" is the plain object with the     *)
(* calls a user may make on it in any order, "file" the update_file() of   *)
(* io_hash.cpp into it.  The scheduler-taking front ends of parallel.hpp   *)
(* and parallel_io.hpp -- the one-shot hash_into(), the incremental        *)
(* parallel_hasher and update_file() -- cut whole subtrees of the message  *)
(* into parts, let the scheduler's agents reduce them concurrently, and    *)
(* push the chaining values into a hasher in order.  One caller uses one   *)
(* of the five; the message is the units 0, 1, 2, ... of Blake3.           *)
(***************************************************************************)
EXTENDS HasherOps, FiniteSets

CONSTANTS
  Agents,    \* the scheduler's execution agents
  Window,    \* chunks per window, of parallel_hasher and of the file reader
  MinPart,   \* min_part_chunks
  Budgets,   \* the values of stack_budget::parts() considered
  Inputs,    \* the lengths of the inputs considered
  MaxUnits,  \* bound on the length of the message
  MaxPlain   \* the same for the plain hasher, whose inputs have any length

ASSUME AgentsAssumption == IsFiniteSet(Agents) /\ Agents # {}
ASSUME PartsAssumption ==
  /\ IsPow2(Window) /\ IsPow2(MinPart)
  /\ 2 * MinPart <= Window  \* 64 chunks against 16
  /\ Budgets \subseteq Nat \ {0, 1}
  /\ MaxUnits \in Nat /\ MaxPlain \in Nat /\ Inputs \subseteq 0 .. MaxUnits
\* No message is taller than the trees that IsPow2() and TrailingZeros() know.
ASSUME HeightAssumption ==
  MaxUnits <= 2^MaxHeight * ChunkLen /\ MaxPlain <= 2^MaxHeight * ChunkLen

VARIABLES
  kind,     \* the interface in use
  budget,   \* stack_budget::parts()
  hasher,   \* h_, or the caller's hasher
  filled,   \* filled_, in units
  counter,  \* chunk_counter_
  pc,       \* where the calling thread is
  left,     \* the units of the call's input still to be absorbed
  base,     \* update_file(): h.count() when the call began
  job,      \* for_each_part() in progress
  next,     \* its shared counter
  calls,    \* bulk calls the scheduler has not made yet
  agent,    \* what each agent is doing
  cvs,      \* the table of part chaining values
  absorbed, \* the length of the message so far
  owing     \* nothing has followed a subtree the caller pushed, or a file
            \* that an exception gave up

callerVars == <<kind, budget>>
jobVars == <<job, next, calls, agent, cvs>>
vars == <<callerVars, hasher, filled, counter, pc, left, base, jobVars, absorbed,
          owing>>

Interfaces == {"hasher", "file", "hash_into", "parallel_hasher", "update_file"}
Files == {"file", "update_file"}
WindowUnits == Window * ChunkLen
NoJob == [from |-> 0, part |-> 1, parts |-> 0, counter |-> 0]
Idle == [pc |-> "idle"]
Unset == [unset |-> "slot"]

-----------------------------------------------------------------------------
(* The split *)

BitCeil(n) == CHOOSE p \in 1 .. 2 * n : IsPow2(p) /\ p >= n /\ p < 2 * n

\* part_chunks()
PartChunks(n) == BitCeil(Greater((n + budget - 1) \div budget, MinPart))

\* mutant: parts are numbered from the start of the window
PartCVLocal(i) ==
  SubtreeCV(job.from + i * job.part * ChunkLen, job.part, i * job.part)

\* compress_subtree_cv() of part i
PartCV(i) ==
  SubtreeCV(job.from + i * job.part * ChunkLen, job.part, job.counter + i * job.part)

\* The parts of "chunks" chunks at the unit "from" go to the scheduler.
FanOut(from, chunks, first) ==
  LET part == PartChunks(chunks)
  IN /\ job' = [from |-> from, part |-> part, parts |-> chunks \div part,
                counter |-> first]
     /\ next' = 0
     /\ calls' = chunks \div part
     /\ agent' = [a \in Agents |-> Idle]
     /\ cvs' = [i \in 0 .. chunks \div part - 1 |-> Unset]
     /\ pc' = "parts"

-----------------------------------------------------------------------------
Init ==
  /\ kind \in Interfaces
  /\ budget \in Budgets
  /\ hasher = NewHasher
  /\ filled = 0
  /\ counter = 0
  /\ pc = "idle"
  /\ left = 0
  /\ base = 0
  /\ job = NoJob
  /\ next = 0
  /\ calls = 0
  /\ agent = [a \in Agents |-> Idle]
  /\ cvs = << >>
  /\ absorbed = 0
  /\ owing = FALSE

-----------------------------------------------------------------------------
(* parallel_hasher *)

CallUpdate(n) ==
  /\ kind \in Files \cup {"parallel_hasher"} /\ pc = "idle"
  /\ absorbed + n <= MaxUnits
  /\ left' = n
  /\ base' = Count(hasher)
  /\ pc' = IF kind \in Files THEN "file" ELSE "update"
  /\ UNCHANGED <<callerVars, hasher, filled, counter, jobVars, absorbed, owing>>

\* mutant: a full window goes at once, though it may be the last
FlushDueEagerly == filled = WindowUnits

\* The buffered window is full and more input exists.
FlushDue == left > 0 /\ filled = WindowUnits

\* flush_window() up to the scheduler.
Flush ==
  /\ pc = "update" /\ FlushDue
  /\ FanOut(absorbed - filled, Window, counter)
  /\ UNCHANGED <<callerVars, hasher, filled, counter, left, base, absorbed, owing>>

CopyIn ==
  /\ pc = "update" /\ left > 0 /\ ~FlushDue
  /\ LET take == Lesser(WindowUnits - filled, left)
     IN /\ filled' = filled + take
        /\ absorbed' = absorbed + take
        /\ left' = left - take
  /\ UNCHANGED <<callerVars, hasher, counter, pc, base, jobVars, owing>>

UpdateReturns ==
  /\ pc \in {"update", "file"} /\ left = 0 /\ ~FlushDue
  /\ pc' = "idle"
  /\ UNCHANGED <<callerVars, hasher, filled, counter, left, base, jobVars, absorbed,
                 owing>>

\* mutant: the window buffer is not emptied
ResetKeepsWindow ==
  /\ hasher' = Reset(hasher)
  /\ counter' = 0
  /\ UNCHANGED filled

\* reset()
ResetAll ==
  /\ hasher' = Reset(hasher)
  /\ counter' = 0
  /\ filled' = 0

\* For hash_into() this is the next hash, with a hasher of its own.
CallReset ==
  /\ pc = "idle"
  /\ ResetAll
  /\ absorbed' = 0
  /\ owing' = FALSE
  /\ UNCHANGED <<callerVars, pc, left, base, jobVars>>

\* drained(): a copy of the hasher with the buffered tail absorbed.
Drained == Update(hasher, absorbed - filled, filled)

-----------------------------------------------------------------------------
(* hash_into() *)

\* Chunks with at least one unit after them.
SafeChunks(n) == IF n > ChunkLen THEN (n - 1) \div ChunkLen ELSE 0

CallHash(n) ==
  /\ kind = "hash_into" /\ pc = "idle" /\ absorbed = 0
  /\ n <= MaxUnits
  /\ IF SafeChunks(n) >= 2 * MinPart
     THEN /\ FanOut(0, SafeChunks(n), 0)
          /\ left' = n
          /\ UNCHANGED <<hasher, absorbed>>
     ELSE /\ hasher' = Update(hasher, 0, n)
          /\ absorbed' = n
          /\ UNCHANGED <<pc, left, jobVars>>
  /\ UNCHANGED <<callerVars, filled, counter, base, owing>>

-----------------------------------------------------------------------------
(* The hasher itself *)

InputsOf(k) == IF k = "hasher" THEN 0 .. MaxPlain ELSE Inputs
BoundOf(k) == IF k = "hasher" THEN MaxPlain ELSE MaxUnits

\* update(), also between two files streamed into the same hasher.
CallHasherUpdate(n) ==
  /\ kind \in Files \cup {"hasher"} /\ pc = "idle"
  /\ absorbed + n <= BoundOf(kind)
  /\ hasher' = Update(hasher, absorbed, n)
  /\ absorbed' = absorbed + n
  /\ owing' = (owing /\ n = 0)
  /\ UNCHANGED <<callerVars, filled, counter, pc, left, base, jobVars>>

(***************************************************************************)
(* push_subtree_cv() within its documented preconditions: on a chunk       *)
(* boundary, a power of two of chunks at an aligned position, with more of *)
(* the message to follow.                                                  *)
(***************************************************************************)
CallPushSubtree(n) ==
  /\ kind = "hasher"
  /\ IsPow2(n)
  /\ Count(hasher) % ChunkLen = 0
  /\ (Count(hasher) \div ChunkLen) % n = 0
  /\ absorbed + n * ChunkLen < MaxPlain
  /\ hasher' = PushSubtreeCV(hasher, SubtreeCV(absorbed, n, absorbed \div ChunkLen), n)
  /\ absorbed' = absorbed + n * ChunkLen
  /\ owing' = TRUE
  /\ UNCHANGED <<callerVars, filled, counter, pc, left, base, jobVars>>

-----------------------------------------------------------------------------
(* update_file(): the reader hands out the file's windows in order, and    *)
(* without a scheduler every one of them goes through update().            *)

Offset == absorbed - base
FileCounter == (base \div ChunkLen) + (Offset \div ChunkLen)

\* mutant: the last window is offloaded as well
OffloadsLast ==
  /\ kind = "update_file"
  /\ left >= WindowUnits /\ base % ChunkLen = 0 /\ FileCounter % Window = 0

\* A window that is not the last of its file and lies aligned in the message.
Offloads ==
  /\ kind = "update_file"
  /\ left > WindowUnits /\ base % ChunkLen = 0 /\ FileCounter % Window = 0

OffloadWindow ==
  /\ pc = "file" /\ left > 0
  /\ Offloads
  /\ FanOut(absorbed, Window, FileCounter)
  /\ UNCHANGED <<callerVars, hasher, filled, counter, left, base, absorbed, owing>>

UpdateWindow ==
  /\ pc = "file" /\ left > 0
  /\ ~Offloads
  /\ LET take == Lesser(WindowUnits, left)
     IN /\ hasher' = Update(hasher, absorbed, take)
        /\ absorbed' = absorbed + take
        /\ left' = left - take
  /\ owing' = FALSE
  /\ UNCHANGED <<callerVars, filled, counter, pc, base, jobVars>>

\* reader.next() throws: the windows absorbed so far stay.
ReadFails ==
  /\ pc = "file" /\ left > 0
  /\ pc' = "idle"
  /\ left' = 0
  /\ owing' = (kind = "update_file")
  /\ UNCHANGED <<callerVars, hasher, filled, counter, base, jobVars, absorbed>>

-----------------------------------------------------------------------------
(* for_each_part(): the scheduler makes job.parts calls on its agents, and *)
(* each call pulls indices until none are left.                            *)

Quiet == \A a \in Agents : agent[a] = Idle

BeginCall(a) ==
  /\ pc = "parts"
  /\ calls > 0 /\ agent[a] = Idle
  /\ calls' = calls - 1
  /\ agent' = [agent EXCEPT ![a] = [pc |-> "pull"]]
  /\ UNCHANGED <<callerVars, hasher, filled, counter, pc, left, base, job, next, cvs,
                 absorbed, owing>>

\* next.fetch_add(1)
Pull(a) ==
  /\ agent[a].pc = "pull"
  /\ next' = next + 1
  /\ agent' = [agent EXCEPT ![a] = IF next < job.parts
                                   THEN [pc |-> "body", index |-> next] ELSE Idle]
  /\ UNCHANGED <<callerVars, hasher, filled, counter, pc, left, base, job, calls, cvs,
                 absorbed, owing>>

Body(a) ==
  /\ agent[a].pc = "body"
  /\ cvs' = [cvs EXCEPT ![agent[a].index] = PartCV(agent[a].index)]
  /\ agent' = [agent EXCEPT ![a] = [pc |-> "pull"]]
  /\ UNCHANGED <<callerVars, hasher, filled, counter, pc, left, base, job, next, calls,
                 absorbed, owing>>

\* The chaining values enter the hasher in order.
Pushed ==
  LET after[i \in 0 .. job.parts] ==
        IF i = 0 THEN hasher ELSE PushSubtreeCV(after[i - 1], cvs[i - 1], job.part)
  IN after[job.parts]

JobUnits == job.parts * job.part * ChunkLen

\* mutant: chunk_counter_ stays where it was
AbsorbsUncounted ==
  /\ hasher' = Pushed
  /\ filled' = 0
  /\ pc' = "update"
  /\ UNCHANGED <<left, absorbed, counter>>

\* parallel_hasher::flush_window() after the join.
WindowFlushed ==
  /\ hasher' = Pushed
  /\ counter' = counter + Window
  /\ filled' = 0
  /\ pc' = "update"
  /\ UNCHANGED <<left, absorbed>>

\* hash_into() absorbs what is left of the input itself.
InputHashed ==
  /\ hasher' = Update(Pushed, JobUnits, left - JobUnits)
  /\ absorbed' = left
  /\ left' = 0
  /\ pc' = "idle"
  /\ UNCHANGED <<counter, filled>>

FileWindowAbsorbed ==
  /\ hasher' = Pushed
  /\ absorbed' = absorbed + JobUnits
  /\ left' = left - JobUnits
  /\ pc' = "file"
  /\ UNCHANGED <<counter, filled>>

Absorbs ==
  CASE kind = "parallel_hasher" -> WindowFlushed
    [] kind = "hash_into" -> InputHashed
    [] kind = "update_file" -> FileWindowAbsorbed

\* Every call returned: sync_wait() has a value.
Join ==
  /\ pc = "parts" /\ calls = 0 /\ Quiet
  /\ Absorbs
  /\ job' = NoJob /\ cvs' = << >> /\ next' = 0
  /\ owing' = FALSE
  /\ UNCHANGED <<callerVars, base, calls, agent>>

\* mutant: an empty result of sync_wait() goes unnoticed
StoppedUnnoticed ==
  /\ pc = "parts" /\ Quiet
  /\ Absorbs
  /\ job' = NoJob /\ cvs' = << >> /\ next' = 0 /\ calls' = 0
  /\ owing' = FALSE
  /\ UNCHANGED <<callerVars, base, agent>>

\* mutant: the window is given up with the exception
StoppedDropsWindow ==
  /\ pc = "parts" /\ Quiet
  /\ pc' = "idle"
  /\ left' = 0 /\ filled' = 0
  /\ owing' = (kind = "update_file")
  /\ job' = NoJob /\ cvs' = << >> /\ next' = 0 /\ calls' = 0
  /\ UNCHANGED <<callerVars, hasher, counter, base, agent, absorbed>>

\* The scheduler completes the work stopped, or with an error, whatever part
\* of it has run: the exception leaves the public call.
Stopped ==
  /\ pc = "parts" /\ Quiet
  /\ pc' = "idle"
  /\ left' = 0
  /\ owing' = (kind = "update_file")
  /\ job' = NoJob /\ cvs' = << >> /\ next' = 0 /\ calls' = 0
  /\ UNCHANGED <<callerVars, hasher, filled, counter, base, agent, absorbed>>

-----------------------------------------------------------------------------
InCall ==
  \/ Flush \/ CopyIn \/ UpdateReturns
  \/ OffloadWindow \/ UpdateWindow
  \/ Join

Scheduler == \E a \in Agents : BeginCall(a) \/ Pull(a) \/ Body(a)

Next ==
  \/ \E n \in Inputs : CallUpdate(n) \/ CallHash(n)
  \/ \E n \in InputsOf(kind) : CallHasherUpdate(n)
  \/ \E n \in 1 .. MaxPlain \div ChunkLen : CallPushSubtree(n)
  \/ CallReset
  \/ InCall \/ ReadFails
  \/ Scheduler \/ Stopped

Spec == Init /\ [][Next]_vars

-----------------------------------------------------------------------------
(* Properties *)

PopCount(n) ==
  LET ones[m \in 0 .. n] == IF m = 0 THEN 0 ELSE (m % 2) + ones[m \div 2] IN ones[n]

\* Every variable has its type; the tables have the job's size, which the
\* stack budget bounds.
TypeOK ==
  /\ kind \in Interfaces /\ budget \in Budgets
  /\ filled \in 0 .. WindowUnits /\ left \in 0 .. MaxUnits
  /\ pc \in {"idle", "update", "file", "parts"}
  /\ job.parts <= budget /\ DOMAIN cvs = 0 .. job.parts - 1
  /\ next <= job.parts + Cardinality(Agents) * (job.parts + 1)
  /\ absorbed \in 0 .. BoundOf(kind) /\ owing \in BOOLEAN

(***************************************************************************)
(* "The digest equals the sequential one": between calls, finalize() gives *)
(* the root node of all that was absorbed, however the agents interleaved  *)
(* and also after a call that was stopped half way: it kept a prefix of    *)
(* its input, and nothing of it twice.  A file given up by exception       *)
(* leaves the hasher unspecified until more is absorbed, and so does a     *)
(* subtree that the caller pushed.                                         *)
(***************************************************************************)
DigestIsReference ==
  pc = "idle" /\ ~owing => FinalizeXof(Drained) = RootNode(absorbed)

(***************************************************************************)
(* count() names the absorbed prefix at every moment of a call, which is   *)
(* how a caller can go on after operation_canceled, and the private chunk  *)
(* counter that places the parts agrees with the hasher's.                 *)
(***************************************************************************)
CountersAgree ==
  /\ kind # "hash_into" => Count(hasher) + filled = absorbed
  /\ kind = "parallel_hasher" => counter * ChunkLen = Count(hasher)

(***************************************************************************)
(* push_subtree_cv()'s preconditions hold at every push: the assertions of *)
(* push_cv(), and the one byte in reserve: a hasher whose last input was a *)
(* pushed subtree is never finalized.  "The invariant afterwards is        *)
(* stack_len == popcount(total_chunks)" (push_cv), which is what bounds    *)
(* the stack by 54 entries.                                                *)
(***************************************************************************)
PushesSound ==
  /\ ~hasher.failed
  /\ Len(hasher.stack) = PopCount(hasher.chunk.counter)
  /\ pc = "idle" /\ ~owing /\ absorbed > 0 => ChunkFill(Drained.chunk) > 0
=============================================================================
