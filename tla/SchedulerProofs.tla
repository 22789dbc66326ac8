-------------------------- MODULE SchedulerProofs --------------------------
(***************************************************************************)
(* The process-wide scheduler.  The sized pool, for any number of workers, *)
(* of operations and of indices and any workload: a job is deleted by the  *)
(* last who holds it, every index runs once, and the pool is the bulk      *)
(* scheduler hashing relies on.  Its start-up, for any number of threads   *)
(* and of calls and any sizes: a size that was granted is the pool's.      *)
(***************************************************************************)
EXTENDS ParallelScheduler, FiniteSetTheorems, TLAPS

-----------------------------------------------------------------------------
(* THE POOL *)

Places ==
  [pc : {"wait", "exited"}]
    \cup [pc : {"pull", "release", "complete"}, job : Operations]
    \cup [pc : {"execute"}, job : Operations, chunk : Nat]

Jobs == [alive : BOOLEAN, running : Int, next : Nat]

Typed ==
  /\ kind \in [Operations -> Kinds] /\ shape \in [Operations -> Shapes]
  /\ \A o \in Operations : kind[o] = "schedule" => shape[o] = 0
  /\ caller \in [Operations -> {"idle", "settle", "complete", "done"}]
  /\ queued \in [Operations -> Nat]
  /\ job \in [Operations -> Jobs]
  /\ queue \in Seq(Operations)
  /\ worker \in [Workers -> Places]
  /\ executed \in [Operations -> [Shapes -> Nat]]
  /\ signals \in [Operations -> Seq({"value", "error"})]
  /\ stopping \in BOOLEAN

-----------------------------------------------------------------------------
(* Who holds a job *)

\* Worker w is at pc with job o.
At(w, o, pc) == worker[w].pc = pc /\ worker[w].job = o
Serves(w, o) == \E pc \in {"pull", "execute", "release", "complete"} : At(w, o, pc)

\* The workers the guard still counts.
Inside(o) ==
  {w \in Workers : \E pc \in {"pull", "execute", "release"} : At(w, o, pc)}

Pending(o) == Cardinality(Entries(o))
Share(o) == IF caller[o] = "settle" THEN SettleShare(o) ELSE 0

\* The guard counts the entries, the workers inside and the submitter.
Counted(o) ==
  /\ job[o].running =
       IF job[o].alive THEN Pending(o) + Cardinality(Inside(o)) + Share(o) ELSE 0
  /\ job[o].running \in 0 .. Wanted(o) + 1

\* A deleted job is nobody's.
Attached(o) ==
  /\ caller[o] = "settle" => queued[o] \in 1 .. Wanted(o)
  /\ ~job[o].alive => /\ Pending(o) = 0
                      /\ \A w \in Workers : ~Serves(w, o)
                      /\ caller[o] \in {"idle", "done"}

\* One thread brings the guard to zero, and it alone completes.
CompletesOnce(o) ==
  /\ caller[o] = "complete" \/ (\E w \in Workers : At(w, o, "complete"))
       => job[o].running = 0
  /\ \A v, w \in Workers : At(v, o, "complete") /\ At(w, o, "complete") => v = w
  /\ caller[o] = "complete" => \A w \in Workers : ~At(w, o, "complete")

\* The signal is the end of the job.
Signalled(o) ==
  /\ signals[o] \in {<< >>, <<"value">>, <<"error">>}
  /\ signals[o] = << >> <=> job[o].alive \/ caller[o] = "idle"
  /\ caller[o] = "idle" => ~job[o].alive /\ job[o].next = 0

-----------------------------------------------------------------------------
(* What has run *)

Executes(w, o, c) == At(w, o, "execute") /\ worker[w].chunk = c

\* Chunks in execution were handed out, each once.
HandedOut(o) ==
  /\ \A w \in Workers : At(w, o, "pull") \/ At(w, o, "execute") => IsBulk(o)
  /\ \A w \in Workers : At(w, o, "execute") =>
       worker[w].chunk < Chunks(o) /\ worker[w].chunk < job[o].next
  /\ \A v, w \in Workers :
       At(v, o, "execute") /\ At(w, o, "execute") /\ worker[v].chunk = worker[w].chunk
         => v = w

\* As long as chunks are left, somebody will come for them.
Attended(o) ==
  IsBulk(o) /\ job[o].alive =>
    \/ job[o].next >= Chunks(o)
    \/ Pending(o) > 0
    \/ \E w \in Workers : At(w, o, "pull") \/ At(w, o, "execute")

\* An index has run when its chunk was handed out and is not in execution.
Ran(o, i) ==
  \E c \in 0 .. Chunks(o) - 1 :
    /\ c < job[o].next
    /\ i \in ChunkRange(o, c)
    /\ \A w \in Workers : ~Executes(w, o, c)

RanOnce(o) ==
  \A i \in Shapes : executed[o][i] = IF Ran(o, i) THEN 1 ELSE 0

Sound(o) ==
  /\ Counted(o) /\ Attached(o) /\ CompletesOnce(o) /\ Signalled(o)
  /\ HandedOut(o) /\ Attended(o) /\ RanOnce(o)

IInv == Typed /\ \A o \in Operations : Sound(o)

-----------------------------------------------------------------------------
(* Chunks *)

Pool == Cardinality(Workers)

LEMMA PoolSize == Pool \in Nat \ {0}
BY WorkersAssumption, FS_CardinalityType, FS_EmptySet DEF Pool

\* Division rounds down.
LEMMA Quotient ==
  ASSUME NEW a \in Nat, NEW n \in Nat \ {0}
  PROVE  a \div n \in Nat /\ (a \div n) * n <= a /\ a < (a \div n) * n + n
OBVIOUS

LEMMA Monotone ==
  ASSUME NEW a \in Nat, NEW b \in Nat, NEW n \in Nat, a < b
  PROVE  a * n + n <= b * n
<1>1. (b - a - 1) * n >= 0
  OBVIOUS
<1>2. (b - a - 1) * n = b * n - a * n - n
  OBVIOUS
<1> QED
  BY <1>1, <1>2

\* A bulk has chunks of a positive length, and they cover its shape.
LEMMA ChunkCount ==
  ASSUME Typed, NEW o \in Operations, IsBulk(o)
  PROVE  /\ ChunkLength(o) \in Nat \ {0}
         /\ Chunks(o) \in Nat \ {0}
         /\ shape[o] \in Nat \ {0} /\ shape[o] <= MaxShape
         /\ shape[o] <= Chunks(o) * ChunkLength(o)
         /\ Chunks(o) * ChunkLength(o) < shape[o] + ChunkLength(o)
<1>1. shape[o] \in Nat \ {0} /\ shape[o] <= MaxShape
  BY ShapeAssumption DEF Typed, Shapes, IsBulk
<1>2. ChunkLength(o) \in Nat \ {0}
  <2>1. CASE kind[o] = "chunked"
    <3> DEFINE n == shape[o] + Pool - 1
    <3>1. n \in Nat /\ n >= Pool
      BY <1>1, PoolSize
    <3>2. n \div Pool \in Nat /\ n < (n \div Pool) * Pool + Pool
      BY <3>1, PoolSize, Quotient
    <3>3. n \div Pool # 0
      <4> SUFFICES ASSUME n \div Pool = 0 PROVE FALSE
        OBVIOUS
      <4>1. (n \div Pool) * Pool = 0
        BY PoolSize
      <4> HIDE DEF n
      <4> QED
        BY <3>1, <3>2, <4>1, PoolSize
    <3> QED
      BY <2>1, <3>2, <3>3 DEF ChunkLength, Pool
  <2>2. CASE kind[o] # "chunked"
    BY <2>2 DEF ChunkLength
  <2> QED
    BY <2>1, <2>2
<1> DEFINE m == shape[o] + ChunkLength(o) - 1
           q == m \div ChunkLength(o)
<1>3. m \in Nat /\ m >= ChunkLength(o) /\ m = shape[o] + ChunkLength(o) - 1
  BY <1>1, <1>2
<1>4. q \in Nat /\ q * ChunkLength(o) <= m /\ m < q * ChunkLength(o) + ChunkLength(o)
  BY <1>2, <1>3, Quotient
<1>5. q # 0
  <2> SUFFICES ASSUME q = 0 PROVE FALSE
    OBVIOUS
  <2>1. q * ChunkLength(o) = 0
    BY <1>2
  <2> HIDE DEF q, m
  <2> QED
    BY <1>2, <1>3, <1>4, <2>1
<1>6. Chunks(o) = q
  BY DEF Chunks
<1>7. q * ChunkLength(o) \in Int
  BY <1>2, <1>4
<1> HIDE DEF q, m
<1> QED
  BY <1>1, <1>2, <1>3, <1>4, <1>5, <1>6, <1>7

\* The pointers wanted are at least one and at most the workers.
LEMMA WantedBound ==
  ASSUME Typed, NEW o \in Operations
  PROVE  Wanted(o) \in Nat /\ 1 <= Wanted(o) /\ Wanted(o) <= Pool /\ Chunks(o) \in Nat
<1>1. CASE IsBulk(o)
  BY <1>1, ChunkCount, PoolSize DEF Wanted, Smaller, Pool
<1>2. CASE ~IsBulk(o)
  BY <1>2, PoolSize DEF Wanted, Chunks
<1> QED
  BY <1>1, <1>2

\* The bounds of a chunk's range are in the shape.
LEMMA ChunkInShape ==
  ASSUME Typed, NEW o \in Operations, IsBulk(o), NEW c \in Nat, c < Chunks(o)
  PROVE  \E lo, hi \in 0 .. shape[o] - 1 : lo <= hi /\ ChunkRange(o, c) = lo .. hi
<1> DEFINE L == ChunkLength(o)
           lo == c * L
           hi == Smaller((c + 1) * L, shape[o]) - 1
<1>1. /\ L \in Nat \ {0} /\ Chunks(o) \in Nat /\ shape[o] \in Nat
      /\ Chunks(o) * L < shape[o] + L
  BY ChunkCount
<1>2. c * L + L <= Chunks(o) * L
  BY <1>1, Monotone
<1>3. c * L \in Nat /\ (c + 1) * L = c * L + L /\ Chunks(o) * L \in Nat
  BY <1>1
<1>4. c * L < shape[o]
  BY <1>1, <1>2, <1>3
<1>5. lo \in 0 .. shape[o] - 1 /\ hi \in 0 .. shape[o] - 1 /\ lo <= hi
  BY <1>1, <1>3, <1>4 DEF Smaller
<1>6. ChunkRange(o, c) = lo .. hi
  BY DEF ChunkRange
<1> QED
  BY <1>5, <1>6

\* An index belongs to one chunk.
LEMMA ChunksDisjoint ==
  ASSUME Typed, NEW o \in Operations, IsBulk(o), NEW c \in Nat, NEW d \in Nat,
         NEW i \in ChunkRange(o, c), i \in ChunkRange(o, d)
  PROVE  c = d
<1> DEFINE L == ChunkLength(o)
<1>1. L \in Nat \ {0} /\ shape[o] \in Nat
  BY ChunkCount
<1>2. /\ c * L \in Nat /\ d * L \in Nat
      /\ (c + 1) * L = c * L + L /\ (d + 1) * L = d * L + L
  BY <1>1
<1>3. /\ i \in Int /\ c * L <= i /\ i < c * L + L
      /\ d * L <= i /\ i < d * L + L
  BY <1>1, <1>2 DEF ChunkRange, Smaller
<1>4. c < d => c * L + L <= d * L
  BY <1>1, Monotone
<1>5. d < c => d * L + L <= c * L
  BY <1>1, Monotone
<1> QED
  BY <1>1, <1>2, <1>3, <1>4, <1>5

\* Every index of the shape belongs to a chunk.
LEMMA ChunksCover ==
  ASSUME Typed, NEW o \in Operations, IsBulk(o), NEW i \in 0 .. shape[o] - 1
  PROVE  \E c \in 0 .. Chunks(o) - 1 : i \in ChunkRange(o, c)
<1> DEFINE L == ChunkLength(o)
           c == i \div L
<1>1. /\ L \in Nat \ {0} /\ Chunks(o) \in Nat /\ shape[o] \in Nat
      /\ shape[o] <= Chunks(o) * L
  BY ChunkCount
<1>2. i \in Nat /\ i < shape[o]
  BY <1>1
<1>3. c \in Nat /\ c * L <= i /\ i < c * L + L
  BY <1>1, <1>2, Quotient
<1>4. c < Chunks(o)
  <2> SUFFICES ASSUME c >= Chunks(o) PROVE FALSE
    BY <1>1, <1>3
  <2>1. Chunks(o) * L <= c * L
    <3>1. CASE c = Chunks(o)
      BY <3>1, <1>1
    <3>2. CASE Chunks(o) < c
      <4>1. Chunks(o) * L + L <= c * L
        BY <3>2, <1>1, <1>3, Monotone
      <4>2. Chunks(o) * L \in Nat /\ c * L \in Nat
        BY <1>1, <1>3
      <4> HIDE DEF c
      <4> QED
        BY <4>1, <4>2, <1>1
    <3> QED
      BY <3>1, <3>2, <1>1, <1>3
  <2>2. Chunks(o) * L \in Nat /\ c * L \in Nat
    BY <1>1, <1>3
  <2> HIDE DEF c, L
  <2> QED
    BY <1>1, <1>2, <1>3, <2>1, <2>2
<1>5. (c + 1) * L = c * L + L /\ c * L \in Nat
  BY <1>1, <1>3
<1>6. i \in ChunkRange(o, c)
  <2> HIDE DEF c
  <2> QED
    BY <1>1, <1>2, <1>3, <1>5 DEF ChunkRange, Smaller
<1> QED
  BY <1>1, <1>3, <1>4, <1>6

-----------------------------------------------------------------------------
(* The queue's entries *)

LEMMA EntriesFinite ==
  ASSUME Typed, NEW o \in Operations
  PROVE  /\ IsFiniteSet(Entries(o)) /\ Pending(o) \in Nat
         /\ Pending(o) = 0 <=> Entries(o) = {}
<1>1. Len(queue) \in Nat /\ DOMAIN queue = 1 .. Len(queue)
  BY DEF Typed
<1>2. IsFiniteSet(1 .. Len(queue))
  BY <1>1, FS_Interval
<1>3. IsFiniteSet(Entries(o))
  BY <1>1, <1>2, FS_Subset DEF Entries
<1> QED
  BY <1>3, FS_CardinalityType, FS_EmptySet DEF Pending

\* submit() appends n entries of one operation that had none.
LEMMA EntriesSubmitted ==
  ASSUME Typed, NEW o \in Operations, NEW n \in Nat, Pending(o) = 0,
         queue' = queue \o [i \in 1 .. n |-> o]
  PROVE  /\ queue' \in Seq(Operations)
         /\ Pending(o)' = n
         /\ \A x \in Operations \ {o} : Pending(x)' = Pending(x)
<1> DEFINE more == [i \in 1 .. n |-> o]
           k == Len(queue)
<1>1. k \in Nat /\ DOMAIN queue = 1 .. k /\ queue \in Seq(Operations)
  BY DEF Typed
<1>2. more \in Seq(Operations) /\ Len(more) = n
  OBVIOUS
<1>3. queue' \in Seq(Operations) /\ Len(queue') = k + n
  BY <1>1, <1>2
<1>4. /\ DOMAIN queue' = 1 .. k + n
      /\ \A i \in 1 .. k + n : queue'[i] = IF i <= k THEN queue[i] ELSE o
  <2>1. \A i \in 1 .. k + n : queue'[i] = IF i <= k THEN queue[i] ELSE more[i - k]
    BY <1>1, <1>2
  <2>2. \A i \in 1 .. k + n : i > k => i - k \in 1 .. n
    BY <1>1
  <2> QED
    BY <1>1, <1>3, <2>1, <2>2
<1>5. Entries(o)' = k + 1 .. k + n
  <2>1. \A i \in 1 .. k : queue[i] # o
    BY <1>1, EntriesFinite DEF Entries
  <2>2. Entries(o)' = {i \in 1 .. k + n : queue'[i] = o}
    BY <1>4 DEF Entries
  <2> HIDE DEF k
  <2> QED
    BY <1>1, <1>4, <2>1, <2>2
<1>6. Pending(o)' = n
  <2>1. Cardinality(k + 1 .. k + n) = n
    BY <1>1, FS_Interval
  <2>2. Pending(o)' = Cardinality(Entries(o)')
    BY DEF Pending
  <2> QED
    BY <1>5, <2>1, <2>2
<1>7. ASSUME NEW x \in Operations \ {o} PROVE Pending(x)' = Pending(x)
  <2>1. Entries(x)' = {i \in 1 .. k + n : queue'[i] = x}
    BY <1>4 DEF Entries
  <2>2. Entries(x) = {i \in 1 .. k : queue[i] = x}
    BY <1>1 DEF Entries
  <2>3. Entries(x)' = Entries(x)
    <3> HIDE DEF k
    <3> QED
      BY <1>1, <1>4, <2>1, <2>2
  <2> QED
    BY <2>3 DEF Pending
<1> QED
  BY <1>3, <1>6, <1>7

\* A worker takes one entry, the first.
LEMMA EntriesTaken ==
  ASSUME Typed, NEW h, queue # << >>, h = Head(queue), queue' = Tail(queue)
  PROVE  /\ queue' \in Seq(Operations) /\ h \in Operations
         /\ Pending(h) = Pending(h)' + 1 /\ Pending(h)' \in Nat
         /\ \A x \in Operations \ {h} : Pending(x)' = Pending(x)
<1> PICK k \in Nat : k = Len(queue)
  BY DEF Typed
<1>1. /\ k >= 1 /\ DOMAIN queue = 1 .. k /\ h = queue[1]
      /\ h \in Operations /\ queue' \in Seq(Operations)
  BY DEF Typed
<1>2. /\ DOMAIN queue' = 1 .. k - 1
      /\ \A i \in 1 .. k - 1 : queue'[i] = queue[i + 1]
  BY <1>1 DEF Typed
<1>3. ASSUME NEW x \in Operations
      PROVE  Cardinality(Entries(x) \ {1}) = Pending(x)'
  <2>1. PICK new : new = Entries(x)'
    OBVIOUS
  <2>2. new = {i \in 1 .. k - 1 : queue[i + 1] = x}
    BY <1>2, <2>1 DEF Entries
  <2>3. Entries(x) \ {1} = {i \in 2 .. k : queue[i] = x}
    BY <1>1 DEF Entries
  <2> DEFINE f == [i \in Entries(x) \ {1} |-> i - 1]
  <2>4. f \in Bijection(Entries(x) \ {1}, new)
    <3>1. \A i \in Entries(x) \ {1} : f[i] \in new
      BY <2>2, <2>3
    <3>2. \A i, j \in Entries(x) \ {1} : f[i] = f[j] => i = j
      BY <2>3
    <3>3. \A j \in new : j + 1 \in Entries(x) \ {1} /\ f[j + 1] = j
      BY <2>2, <2>3
    <3> QED
      BY <3>1, <3>2, <3>3 DEF Bijection, Injection, Surjection, IsInjective
  <2>5. ExistsBijection(Entries(x) \ {1}, new)
    BY <2>4 DEF ExistsBijection
  <2>6. IsFiniteSet(Entries(x) \ {1})
    BY EntriesFinite, FS_RemoveElement
  <2>7. Cardinality(new) = Cardinality(Entries(x) \ {1})
    BY <2>5, <2>6, FS_Bijection
  <2> QED
    BY <2>1, <2>7 DEF Pending
<1>4. Pending(h) = Pending(h)' + 1 /\ Pending(h)' \in Nat
  <2>1. 1 \in Entries(h)
    BY <1>1 DEF Entries
  <2>2. Cardinality(Entries(h) \ {1}) = Pending(h) - 1
    BY <1>1, <2>1, EntriesFinite, FS_RemoveElement DEF Pending
  <2>3. Pending(h) \in Nat
    BY <1>1, EntriesFinite
  <2>4. Cardinality(Entries(h) \ {1}) = Pending(h)'
    BY <1>1, <1>3
  <2>5. Cardinality(Entries(h) \ {1}) \in Nat
    BY <1>1, EntriesFinite, FS_RemoveElement, FS_CardinalityType
  <2> QED
    BY <2>2, <2>3, <2>4, <2>5
<1>5. ASSUME NEW x \in Operations, x # h PROVE Pending(x)' = Pending(x)
  <2>1. Entries(x) \ {1} = Entries(x)
    BY <1>1, <1>5 DEF Entries
  <2> QED
    BY <1>3, <2>1 DEF Pending
<1> QED
  BY <1>1, <1>4, <1>5

-----------------------------------------------------------------------------
(* Types *)

LEMMA PlaceTyped ==
  ASSUME Typed, NEW w \in Workers
  PROVE  /\ worker[w].pc \in {"pull", "execute", "release", "complete"}
              => worker[w].job \in Operations
         /\ worker[w].pc = "execute" => worker[w].chunk \in Nat
BY DEF Typed, Places

\* Sending a worker to a place moves that worker only.
LEMMA PoolMoves ==
  ASSUME Typed, NEW w \in Workers, NEW place \in Places, Goto(w, place)
  PROVE  /\ worker' \in [Workers -> Places] /\ worker'[w] = place
         /\ \A v \in Workers \ {w} : worker'[v] = worker[v]
BY DEF Typed, Goto

\* What the steps of a job change of it, and of it alone.
LEMMA JobTyped ==
  ASSUME Typed, NEW o \in Operations
  PROVE  /\ job[o] \in Jobs /\ job[o].alive \in BOOLEAN /\ job[o].running \in Int
         /\ job[o].next \in Nat
         /\ DOMAIN job = Operations
BY DEF Typed, Jobs

LEMMA JobReplaced ==
  ASSUME Typed, NEW o \in Operations, NEW j \in Jobs, job' = [job EXCEPT ![o] = j]
  PROVE  /\ job' \in [Operations -> Jobs] /\ job'[o] = j
         /\ \A x \in Operations \ {o} : job'[x] = job[x]
BY DEF Typed

LEMMA GuardReleased ==
  ASSUME Typed, NEW o \in Operations, NEW n \in Int, job' = Released(o, n)
  PROVE  /\ job' \in [Operations -> Jobs]
         /\ job'[o].running = job[o].running - n
         /\ job'[o].alive = job[o].alive /\ job'[o].next = job[o].next
         /\ \A x \in Operations \ {o} : job'[x] = job[x]
<1> DEFINE j == [job[o] EXCEPT !.running = @ - n]
<1>1. j \in Jobs /\ j.running = job[o].running - n /\ j.alive = job[o].alive
        /\ j.next = job[o].next
  BY JobTyped DEF Jobs
<1>2. job' = [job EXCEPT ![o] = j]
  BY DEF Released
<1> HIDE DEF j
<1> QED
  BY <1>1, <1>2, JobReplaced

LEMMA ChunkPulled ==
  ASSUME Typed, NEW o \in Operations, job' = [job EXCEPT ![o].next = @ + 1]
  PROVE  /\ job' \in [Operations -> Jobs]
         /\ job'[o].running = job[o].running
         /\ job'[o].alive = job[o].alive /\ job'[o].next = job[o].next + 1
         /\ \A x \in Operations \ {o} : job'[x] = job[x]
<1> DEFINE j == [job[o] EXCEPT !.next = @ + 1]
<1>1. j \in Jobs /\ j.running = job[o].running /\ j.alive = job[o].alive
        /\ j.next = job[o].next + 1
  BY JobTyped DEF Jobs
<1>2. job' = [job EXCEPT ![o] = j]
  OBVIOUS
<1> HIDE DEF j
<1> QED
  BY <1>1, <1>2, JobReplaced

LEMMA JobFinished ==
  ASSUME Typed, NEW o \in Operations, Finished(o)
  PROVE  /\ job' \in [Operations -> Jobs]
         /\ job'[o].running = job[o].running
         /\ ~job'[o].alive /\ job'[o].next = job[o].next
         /\ \A x \in Operations \ {o} : job'[x] = job[x]
<1> DEFINE j == [job[o] EXCEPT !.alive = FALSE]
<1>1. j \in Jobs /\ j.running = job[o].running /\ j.alive = FALSE
        /\ j.next = job[o].next
  BY JobTyped DEF Jobs
<1>2. job' = [job EXCEPT ![o] = j]
  BY DEF Finished
<1> HIDE DEF j
<1> QED
  BY <1>1, <1>2, JobReplaced

LEMMA Signals ==
  ASSUME Typed, NEW o \in Operations, NEW s \in {"value", "error"}, Signal(o, s)
  PROVE  /\ signals' \in [Operations -> Seq({"value", "error"})]
         /\ signals'[o] = Append(signals[o], s)
         /\ \A x \in Operations \ {o} : signals'[x] = signals[x]
<1>1. signals[o] \in Seq({"value", "error"})
  BY DEF Typed
<1>2. Append(signals[o], s) \in Seq({"value", "error"})
  BY <1>1
<1> QED
  BY <1>2 DEF Typed, Signal

LEMMA InitTyped == Init => Typed
<1> SUFFICES ASSUME Init PROVE Typed
  OBVIOUS
<1>1. /\ kind \in [Operations -> Kinds] /\ shape \in [Operations -> Shapes]
      /\ \A o \in Operations : kind[o] = "schedule" => shape[o] = 0
  BY PlansAssumption DEF Init
<1>2. job \in [Operations -> Jobs]
  BY DEF Init, Jobs
<1>3. worker \in [Workers -> Places]
  BY DEF Init, Places, Idle
<1>4. executed \in [Operations -> [Shapes -> Nat]]
  BY DEF Init
<1>5. /\ caller \in [Operations -> {"idle", "settle", "complete", "done"}]
      /\ queued \in [Operations -> Nat] /\ stopping \in BOOLEAN
  BY DEF Init
<1>6. queue \in Seq(Operations)
  BY DEF Init
<1>7. signals \in [Operations -> Seq({"value", "error"})]
  <2>1. << >> \in Seq({"value", "error"})
    OBVIOUS
  <2> QED
    BY <2>1 DEF Init
<1> QED
  BY <1>1, <1>2, <1>3, <1>4, <1>5, <1>6, <1>7 DEF Typed

LEMMA TypedNext == Typed /\ [Next]_vars => Typed'
<1> SUFFICES ASSUME Typed, [Next]_vars PROVE Typed'
  OBVIOUS
<1>1. ASSUME NEW o \in Operations, AllocationFails(o) PROVE Typed'
  BY <1>1, Signals DEF Typed, AllocationFails
<1>2. ASSUME NEW o \in Operations, Submit(o) PROVE Typed'
  <2>1. PICK n \in 0 .. Wanted(o) :
          /\ queued' = [queued EXCEPT ![o] = n]
          /\ queue' = queue \o [i \in 1 .. n |-> o]
          /\ \/ /\ caller' = [caller EXCEPT ![o] = "done"]
                /\ Signal(o, "error") /\ UNCHANGED job
             \/ /\ caller' = [caller EXCEPT ![o] = "settle"]
                /\ job' = [job EXCEPT ![o] = NewJob(o)] /\ UNCHANGED signals
    BY <1>2 DEF Submit
  <2>2. Wanted(o) \in Nat /\ NewJob(o) \in Jobs /\ n \in Nat
    BY WantedBound DEF NewJob, Jobs
  <2>3. queue' \in Seq(Operations)
    <3>1. [i \in 1 .. n |-> o] \in Seq(Operations)
      BY <2>2
    <3> QED
      BY <2>1, <3>1 DEF Typed
  <2>4. job' \in [Operations -> Jobs] /\ queued' \in [Operations -> Nat]
    BY <2>1, <2>2 DEF Typed
  <2>5. /\ caller' \in [Operations -> {"idle", "settle", "complete", "done"}]
        /\ signals' \in [Operations -> Seq({"value", "error"})]
    BY <2>1, Signals DEF Typed
  <2> QED
    BY <1>2, <2>3, <2>4, <2>5 DEF Typed, Submit
<1>3. ASSUME NEW o \in Operations, Settle(o) PROVE Typed'
  <2>1. SettleShare(o) \in Int
    BY WantedBound DEF Typed, SettleShare
  <2>2. job' \in [Operations -> Jobs]
    BY <1>3, <2>1, GuardReleased DEF Settle
  <2>3. caller' \in [Operations -> {"idle", "settle", "complete", "done"}]
    BY <1>3 DEF Typed, Settle
  <2> QED
    BY <1>3, <2>2, <2>3 DEF Typed, Settle
<1>4. ASSUME NEW o \in Operations, CallerCompletes(o) PROVE Typed'
  <2>1. job' \in [Operations -> Jobs]
    BY <1>4, JobFinished DEF CallerCompletes
  <2>2. signals' \in [Operations -> Seq({"value", "error"})]
    BY <1>4, Signals DEF CallerCompletes, Finished
  <2> QED
    BY <1>4, <2>1, <2>2 DEF Typed, CallerCompletes
<1>5. ASSUME NEW w \in Workers, Take(w) PROVE Typed'
  <2>1. queue' \in Seq(Operations) /\ Head(queue) \in Operations
    BY <1>5 DEF Typed, Take
  <2>2. worker' \in [Workers -> Places]
    BY <1>5, <2>1, PoolMoves DEF Take, Places
  <2> QED
    BY <1>5, <2>1, <2>2 DEF Typed, Take
<1>6. ASSUME NEW w \in Workers, Exit(w) PROVE Typed'
  BY <1>6, PoolMoves DEF Typed, Exit, Places
<1>7. ASSUME NEW w \in Workers, Pull(w) PROVE Typed'
  <2>1. worker[w].job \in Operations
    BY <1>7, PlaceTyped DEF Pull
  <2>2. job' \in [Operations -> Jobs]
    BY <1>7, <2>1, ChunkPulled DEF Pull
  <2>3. job[worker[w].job].next \in Nat
    BY <2>1, JobTyped
  <2>4. worker' \in [Workers -> Places]
    BY <1>7, <2>1, <2>3, PoolMoves DEF Pull, Places
  <2> QED
    BY <1>7, <2>2, <2>4 DEF Typed, Pull
<1>8. ASSUME NEW w \in Workers, Execute(w) PROVE Typed'
  <2>1. worker[w].job \in Operations
    BY <1>8, PlaceTyped DEF Execute
  <2>2. executed' \in [Operations -> [Shapes -> Nat]]
    BY <1>8, <2>1 DEF Typed, Execute
  <2>3. worker' \in [Workers -> Places]
    BY <1>8, <2>1, PoolMoves DEF Execute, Places
  <2> QED
    BY <1>8, <2>2, <2>3 DEF Typed, Execute
<1>9. ASSUME NEW w \in Workers, Release(w) PROVE Typed'
  <2>1. worker[w].job \in Operations
    BY <1>9, PlaceTyped DEF Release
  <2>2. job' \in [Operations -> Jobs]
    BY <1>9, <2>1, GuardReleased DEF Release
  <2>3. worker' \in [Workers -> Places]
    BY <1>9, <2>1, PoolMoves DEF Release, Places, Idle
  <2> QED
    BY <1>9, <2>2, <2>3 DEF Typed, Release
<1>10. ASSUME NEW w \in Workers, WorkerCompletes(w) PROVE Typed'
  <2>1. worker[w].job \in Operations
    BY <1>10, PlaceTyped DEF WorkerCompletes
  <2>2. job' \in [Operations -> Jobs]
    BY <1>10, <2>1, JobFinished DEF WorkerCompletes
  <2>3. worker' \in [Workers -> Places]
    BY <1>10, PoolMoves DEF WorkerCompletes, Places, Idle
  <2>4. signals' \in [Operations -> Seq({"value", "error"})]
    BY <1>10, <2>1, Signals DEF WorkerCompletes, Finished
  <2> QED
    BY <1>10, <2>2, <2>3, <2>4 DEF Typed, WorkerCompletes
<1>11. CASE Stop
  BY <1>11 DEF Typed, Stop
<1>12. CASE UNCHANGED vars
  BY <1>12 DEF Typed, vars
<1> QED
  BY <1>1, <1>2, <1>3, <1>4, <1>5, <1>6, <1>7, <1>8, <1>9, <1>10, <1>11, <1>12
  DEF Next, Caller, Worker

-----------------------------------------------------------------------------
(* Steps leave the jobs they are not about alone *)

LEMMA InsideFinite ==
  ASSUME NEW o \in Operations
  PROVE  /\ IsFiniteSet(Inside(o)) /\ Cardinality(Inside(o)) \in Nat
         /\ Cardinality(Inside(o)) = 0 <=> Inside(o) = {}
BY WorkersAssumption, FS_Subset, FS_CardinalityType, FS_EmptySet DEF Inside

\* What an operation is stays what it was.
LEMMA WorkloadFixed ==
  ASSUME UNCHANGED <<kind, shape>>, NEW o \in Operations
  PROVE  /\ IsBulk(o)' <=> IsBulk(o)
         /\ Chunks(o)' = Chunks(o) /\ Wanted(o)' = Wanted(o)
         /\ \A c : ChunkRange(o, c)' = ChunkRange(o, c)
BY DEF IsBulk, Chunks, Wanted, ChunkLength, ChunkRange, Smaller

\* An operation nothing of which changes, and whose workers stay, is as
\* sound as before.
LEMMA Untouched ==
  ASSUME NEW x \in Operations, Sound(x), UNCHANGED <<kind, shape>>,
         caller'[x] = caller[x], queued'[x] = queued[x], job'[x] = job[x],
         executed'[x] = executed[x], signals'[x] = signals[x],
         Pending(x)' = Pending(x),
         \A w \in Workers :
           worker'[w] = worker[w] \/ (~Serves(w, x) /\ ~Serves(w, x)')
  PROVE  Sound(x)'
<1> USE WorkloadFixed
<1>1. \A w \in Workers :
        /\ At(w, x, "pull")' <=> At(w, x, "pull")
        /\ At(w, x, "execute")' <=> At(w, x, "execute")
        /\ At(w, x, "release")' <=> At(w, x, "release")
        /\ At(w, x, "complete")' <=> At(w, x, "complete")
        /\ At(w, x, "execute") => worker'[w].chunk = worker[w].chunk
        /\ Serves(w, x)' <=> Serves(w, x)
  BY DEF Serves, At
<1>2. Inside(x)' = Inside(x)
  BY <1>1 DEF Inside
<1>3. Counted(x)'
  BY <1>2 DEF Sound, Counted, Share, SettleShare
<1>4. Attached(x)' /\ CompletesOnce(x)' /\ Signalled(x)'
  BY <1>1 DEF Sound, Attached, CompletesOnce, Signalled
<1>5. HandedOut(x)' /\ Attended(x)'
  BY <1>1 DEF Sound, HandedOut, Attended
<1>6. \A w \in Workers, c \in 0 .. Chunks(x) - 1 : Executes(w, x, c)' <=> Executes(w, x, c)
  BY <1>1 DEF Executes
<1>7. \A i \in Shapes : Ran(x, i)' <=> Ran(x, i)
  BY <1>6 DEF Ran
<1>8. RanOnce(x)'
  BY <1>7 DEF Sound, RanOnce
<1> QED
  BY <1>3, <1>4, <1>5, <1>8 DEF Sound

\* A job that is nobody's but alive has brought its guard to zero.
LEMMA Released0 ==
  ASSUME Typed, NEW o \in Operations, Sound(o), job[o].alive, job[o].running = 0
  PROVE  Pending(o) = 0 /\ Inside(o) = {} /\ caller[o] # "settle"
<1>1. Pending(o) \in Nat /\ Cardinality(Inside(o)) \in Nat
  BY EntriesFinite, InsideFinite
<1>2. caller[o] = "settle" => Share(o) \in Nat /\ Share(o) >= 1
  BY WantedBound DEF Share, SettleShare, Sound, Attached, Typed
<1>3. caller[o] # "settle" => Share(o) = 0
  BY DEF Share
<1>4. Pending(o) + Cardinality(Inside(o)) + Share(o) = 0
  BY DEF Sound, Counted
<1> QED
  BY <1>1, <1>2, <1>3, <1>4, InsideFinite

-----------------------------------------------------------------------------
(* The submitting thread's steps *)

LEMMA RefusalSound ==
  ASSUME Typed, NEW o \in Operations, Sound(o), caller[o] = "idle",
         UNCHANGED <<kind, shape, job, worker, executed>>,
         caller' = [caller EXCEPT ![o] = "done"], Signal(o, "error"),
         Pending(o)' = Pending(o)
  PROVE  Sound(o)'
<1> USE WorkloadFixed
<1>1. caller'[o] = "done" /\ ~job[o].alive /\ Wanted(o) \in Nat
  BY WantedBound DEF Typed, Sound, Signalled
<1>2. signals'[o] = <<"error">>
  <2>1. signals[o] = << >>
    BY DEF Sound, Signalled
  <2> QED
    BY <2>1, Signals
<1>3. Counted(o)' /\ Attached(o)'
  BY <1>1 DEF Sound, Counted, Attached, Serves, At
<1>4. CompletesOnce(o)' /\ Signalled(o)'
  BY <1>1, <1>2 DEF Sound, CompletesOnce, Signalled, At
<1>5. HandedOut(o)' /\ Attended(o)'
  BY <1>1 DEF Sound, HandedOut, Attended, At
<1>6. RanOnce(o)'
  BY DEF Sound, RanOnce, Ran, Executes, At
<1> QED
  BY <1>3, <1>4, <1>5, <1>6 DEF Sound

LEMMA AllocationFailsSound ==
  ASSUME IInv, NEW o \in Operations, AllocationFails(o)
  PROVE  \A x \in Operations : Sound(x)'
<1>1. Typed /\ \A x \in Operations : Sound(x)
  BY DEF IInv
<1>2. \A x \in Operations : Pending(x)' = Pending(x)
  BY DEF AllocationFails, Pending, Entries
<1>3. Sound(o)'
  BY <1>1, <1>2, RefusalSound DEF AllocationFails
<1>4. ASSUME NEW x \in Operations, x # o PROVE Sound(x)'
  <2>1. caller'[x] = caller[x] /\ signals'[x] = signals[x]
    BY <1>1, <1>4, Signals DEF AllocationFails, Typed
  <2> QED
    BY <1>1, <1>2, <2>1, Untouched DEF AllocationFails
<1> QED
  BY <1>3, <1>4

\* A new job: its guard counts the n queued and what settle() will release.
LEMMA QueuedSound ==
  ASSUME Typed, NEW o \in Operations, Sound(o), caller[o] = "idle",
         NEW n \in 1 .. Wanted(o),
         UNCHANGED <<kind, shape, worker, executed, signals>>,
         queued' = [queued EXCEPT ![o] = n],
         caller' = [caller EXCEPT ![o] = "settle"],
         job' = [job EXCEPT ![o] = NewJob(o)],
         Pending(o)' = n
  PROVE  Sound(o)'
<1> USE WorkloadFixed
<1>1. /\ caller'[o] = "settle" /\ queued'[o] = n
      /\ job'[o].alive /\ job'[o].running = Wanted(o) + 1 /\ job'[o].next = 0
      /\ ~job[o].alive /\ job[o].next = 0
      /\ Wanted(o) \in Nat
  BY WantedBound DEF Typed, NewJob, Sound, Signalled
<1>2. \A w \in Workers : ~Serves(w, o)
  BY <1>1 DEF Sound, Attached
<1>3. \A w \in Workers : ~Serves(w, o)'
  BY <1>2 DEF Serves, At
<1>4. Counted(o)'
  <2>1. Inside(o)' = {}
    BY <1>3 DEF Inside, Serves
  <2>2. Cardinality(Inside(o)') = 0
    BY <2>1, FS_EmptySet
  <2>3. Share(o)' = Wanted(o) - n + 1
    BY <1>1 DEF Share, SettleShare
  <2> QED
    BY <1>1, <2>2, <2>3 DEF Counted
<1>5. Attached(o)'
  BY <1>1 DEF Attached
<1>6. CompletesOnce(o)'
  BY <1>1, <1>3 DEF CompletesOnce, Serves
<1>7. Signalled(o)'
  BY <1>1 DEF Sound, Signalled
<1>8. HandedOut(o)' /\ Attended(o)'
  BY <1>1, <1>3 DEF HandedOut, Attended, Serves
<1>9. RanOnce(o)'
  BY <1>1 DEF Sound, RanOnce, Ran
<1> QED
  BY <1>4, <1>5, <1>6, <1>7, <1>8, <1>9 DEF Sound

LEMMA SubmitSound ==
  ASSUME IInv, NEW o \in Operations, Submit(o)
  PROVE  \A x \in Operations : Sound(x)'
<1>1. Typed /\ \A x \in Operations : Sound(x)
  BY DEF IInv
<1>2. caller[o] = "idle" /\ ~job[o].alive /\ Pending(o) = 0
  BY <1>1 DEF Submit, Sound, Signalled, Attached
<1>3. PICK n \in 0 .. Wanted(o) :
        /\ queued' = [queued EXCEPT ![o] = n]
        /\ queue' = queue \o [i \in 1 .. n |-> o]
        /\ IF n = 0
           THEN /\ caller' = [caller EXCEPT ![o] = "done"]
                /\ Signal(o, "error")
                /\ UNCHANGED job
           ELSE /\ caller' = [caller EXCEPT ![o] = "settle"]
                /\ job' = [job EXCEPT ![o] = NewJob(o)]
                /\ UNCHANGED signals
  BY DEF Submit
<1>4. n \in Nat /\ Wanted(o) \in Nat
  BY <1>1, WantedBound
<1>5. Pending(o)' = n /\ \A x \in Operations \ {o} : Pending(x)' = Pending(x)
  BY <1>1, <1>2, <1>3, <1>4, EntriesSubmitted
<1>6. Sound(o)'
  <2>1. CASE n = 0
    BY <1>1, <1>2, <1>3, <1>5, <2>1, RefusalSound DEF Submit
  <2>2. CASE n # 0
    <3>1. n \in 1 .. Wanted(o)
      BY <1>4, <2>2
    <3> QED
      BY <1>1, <1>2, <1>3, <1>5, <2>2, <3>1, QueuedSound DEF Submit
  <2> QED
    BY <2>1, <2>2
<1>7. ASSUME NEW x \in Operations, x # o PROVE Sound(x)'
  <2>1. caller'[x] = caller[x] /\ queued'[x] = queued[x]
    BY <1>1, <1>3, <1>7 DEF Typed
  <2>2. signals'[x] = signals[x] /\ job'[x] = job[x]
    BY <1>1, <1>3, <1>7 DEF Typed, Signal
  <2> QED
    BY <1>1, <1>5, <1>7, <2>1, <2>2, Untouched DEF Submit
<1> QED
  BY <1>6, <1>7

LEMMA SettleSound ==
  ASSUME IInv, NEW o \in Operations, Settle(o)
  PROVE  \A x \in Operations : Sound(x)'
<1> USE WorkloadFixed
<1>1. Typed /\ \A x \in Operations : Sound(x)
  BY DEF IInv
<1>2. caller[o] = "settle" /\ job[o].alive
  BY <1>1 DEF Settle, Sound, Attached
<1>3. PICK n : n = SettleShare(o)
  OBVIOUS
<1>4. /\ n \in Nat /\ n >= 1 /\ n = Share(o)
      /\ Wanted(o) \in Nat
  BY <1>1, <1>2, <1>3, WantedBound DEF Settle, SettleShare, Share, Sound, Attached, Typed
<1>5. /\ job'[o].running = job[o].running - n /\ job'[o].alive
      /\ job'[o].next = job[o].next
      /\ \A x \in Operations \ {o} : job'[x] = job[x]
  BY <1>1, <1>2, <1>3, <1>4, GuardReleased DEF Settle
<1>6. /\ caller'[o] = IF job[o].running = n THEN "complete" ELSE "done"
      /\ \A x \in Operations \ {o} : caller'[x] = caller[x]
  BY <1>1, <1>3 DEF Settle, LastOut, Typed
<1>7. \A x \in Operations : Pending(x)' = Pending(x) /\ Pending(x) \in Nat
  BY <1>1, EntriesFinite DEF Settle, Pending, Entries
<1>8. job[o].running = Pending(o) + Cardinality(Inside(o)) + n
  BY <1>1, <1>2, <1>4 DEF Sound, Counted
<1>9. /\ Cardinality(Inside(o)) \in Nat /\ Inside(o)' = Inside(o)
      /\ job[o].running \in Nat /\ job[o].running <= Wanted(o) + 1
  <2>1. Inside(o)' = Inside(o)
    BY DEF Settle, Inside, At
  <2>2. job[o].running \in Nat /\ job[o].running <= Wanted(o) + 1
    BY <1>1, <1>4 DEF Sound, Counted
  <2> QED
    BY <2>1, <2>2, InsideFinite
<1>10. Counted(o)'
  <2>1. Share(o)' = 0
    BY <1>6 DEF Share
  <2>2. job'[o].running = Pending(o) + Cardinality(Inside(o))
    BY <1>4, <1>5, <1>7, <1>8, <1>9
  <2>3. job'[o].running \in 0 .. Wanted(o) + 1
    BY <1>4, <1>5, <1>7, <1>8, <1>9
  <2> QED
    BY <1>2, <1>4, <1>5, <1>7, <1>9, <2>1, <2>2, <2>3 DEF Counted, Settle
<1>11. Attached(o)'
  BY <1>5, <1>6 DEF Attached
<1>12. CompletesOnce(o)'
  <2>1. \A w \in Workers : ~At(w, o, "complete")
    BY <1>1, <1>4, <1>7, <1>8, <1>9 DEF Sound, CompletesOnce
  <2> QED
    BY <1>4, <1>5, <1>6, <1>9, <2>1 DEF CompletesOnce, At, Settle
<1>13. Signalled(o)'
  BY <1>1, <1>2, <1>5, <1>6 DEF Sound, Signalled, Settle
<1>14. HandedOut(o)' /\ Attended(o)'
  BY <1>1, <1>2, <1>5, <1>7 DEF Sound, HandedOut, Attended, At, Settle
<1>15. RanOnce(o)'
  BY <1>1, <1>5 DEF Sound, RanOnce, Ran, Executes, At, Settle
<1>16. Sound(o)'
  BY <1>10, <1>11, <1>12, <1>13, <1>14, <1>15 DEF Sound
<1>17. ASSUME NEW x \in Operations, x # o PROVE Sound(x)'
  BY <1>1, <1>5, <1>6, <1>7, <1>17, Untouched DEF Settle
<1> QED
  BY <1>16, <1>17

-----------------------------------------------------------------------------
(* complete(), by whichever thread *)

\* The completer lets go of the job, deletes it and sends the signal.
LEMMA FinishedSound ==
  ASSUME Typed, NEW o \in Operations, Sound(o), job[o].alive, job[o].running = 0,
         UNCHANGED <<kind, shape, executed>>, Finished(o),
         Pending(o)' = Pending(o), caller'[o] = "done",
         \A w \in Workers : ~Serves(w, o)'
  PROVE  Sound(o)'
<1> USE WorkloadFixed
<1>1. /\ job'[o].running = 0 /\ ~job'[o].alive /\ job'[o].next = job[o].next
  BY JobFinished
<1>2. Pending(o) = 0 /\ Inside(o) = {}
  BY Released0
<1>3. signals'[o] = <<"value">>
  BY Signals DEF Sound, Signalled, Finished
<1>4. Counted(o)'
  BY <1>1, WantedBound DEF Counted
<1>5. Attached(o)' /\ CompletesOnce(o)' /\ Signalled(o)'
  BY <1>1, <1>2, <1>3 DEF Attached, CompletesOnce, Signalled, Serves
<1>6. HandedOut(o)' /\ Attended(o)'
  BY <1>1 DEF HandedOut, Attended, Serves
<1>7. \A w \in Workers : \A c : ~Executes(w, o, c) /\ ~Executes(w, o, c)'
  BY <1>2 DEF Executes, Serves, Inside, At
<1>8. RanOnce(o)'
  BY <1>1, <1>7 DEF Sound, RanOnce, Ran
<1> QED
  BY <1>4, <1>5, <1>6, <1>8 DEF Sound

LEMMA CallerCompletesSound ==
  ASSUME IInv, NEW o \in Operations, CallerCompletes(o)
  PROVE  \A x \in Operations : Sound(x)'
<1>1. Typed /\ \A x \in Operations : Sound(x)
  BY DEF IInv
<1>2. caller[o] = "complete" /\ job[o].alive /\ job[o].running = 0
  BY <1>1 DEF CallerCompletes, Sound, Attached, CompletesOnce
<1>3. \A x \in Operations : Pending(x)' = Pending(x)
  BY DEF CallerCompletes, Pending, Entries
<1>4. caller'[o] = "done" /\ \A x \in Operations \ {o} : caller'[x] = caller[x]
  BY <1>1 DEF CallerCompletes, Typed
<1>5. \A w \in Workers : ~Serves(w, o)'
  BY <1>1, <1>2, Released0 DEF Serves, Sound, CompletesOnce, Inside, At, CallerCompletes
<1>6. Sound(o)'
  BY <1>1, <1>2, <1>3, <1>4, <1>5, FinishedSound DEF CallerCompletes
<1>7. ASSUME NEW x \in Operations, x # o PROVE Sound(x)'
  <2>1. job'[x] = job[x] /\ signals'[x] = signals[x]
    BY <1>1, <1>7, JobFinished, Signals DEF CallerCompletes, Finished
  <2> QED
    BY <1>1, <1>3, <1>4, <1>7, <2>1, Untouched DEF CallerCompletes
<1> QED
  BY <1>6, <1>7

LEMMA WorkerCompletesSound ==
  ASSUME IInv, NEW w \in Workers, WorkerCompletes(w)
  PROVE  \A x \in Operations : Sound(x)'
<1>1. Typed /\ \A x \in Operations : Sound(x)
  BY DEF IInv
<1>2. PICK o \in Operations : o = worker[w].job
  BY <1>1, PlaceTyped DEF WorkerCompletes
<1>3. At(w, o, "complete")
  BY <1>2 DEF At, WorkerCompletes
<1>4. job[o].alive /\ job[o].running = 0 /\ caller[o] # "complete"
  BY <1>1, <1>3 DEF Sound, Attached, CompletesOnce, Serves
<1>5. \A x \in Operations : Pending(x)' = Pending(x)
  BY DEF WorkerCompletes, Pending, Entries
<1>6. worker'[w] = Idle /\ \A v \in Workers \ {w} : worker'[v] = worker[v]
  BY <1>1, PoolMoves DEF WorkerCompletes, Places, Idle
<1>7. \A x : ~Serves(w, x)'
  BY <1>6 DEF Serves, At, Idle
<1>8. ASSUME NEW v \in Workers, v # w PROVE ~Serves(v, o)'
  <2>1. ~At(v, o, "complete")
    BY <1>1, <1>3, <1>8 DEF Sound, CompletesOnce
  <2>2. v \notin Inside(o)
    BY <1>1, <1>4, Released0
  <2> QED
    BY <1>6, <1>8, <2>1, <2>2 DEF Serves, Inside, At
<1>9. caller'[o] = "done"
  <2>1. caller[o] # "idle"
    BY <1>1, <1>4 DEF Sound, Signalled
  <2>2. caller[o] # "settle"
    BY <1>1, <1>4, Released0
  <2> QED
    BY <1>1, <1>4, <2>1, <2>2 DEF WorkerCompletes, Typed
<1>10. Sound(o)'
  BY <1>1, <1>2, <1>4, <1>5, <1>7, <1>8, <1>9, FinishedSound DEF WorkerCompletes
<1>11. ASSUME NEW x \in Operations, x # o PROVE Sound(x)'
  <2>1. job'[x] = job[x] /\ signals'[x] = signals[x]
    BY <1>1, <1>2, <1>11, JobFinished, Signals DEF WorkerCompletes, Finished
  <2>2. ~Serves(w, x)
    BY <1>3, <1>11 DEF Serves, At
  <2> QED
    BY <1>1, <1>5, <1>6, <1>7, <1>11, <2>1, <2>2, Untouched DEF WorkerCompletes
<1> QED
  BY <1>10, <1>11

-----------------------------------------------------------------------------
(* A worker's steps *)

LEMMA TakeSound ==
  ASSUME IInv, NEW w \in Workers, Take(w)
  PROVE  \A x \in Operations : Sound(x)'
<1> USE WorkloadFixed
<1>1. Typed /\ \A x \in Operations : Sound(x)
  BY DEF IInv
<1>2. PICK o : o = Head(queue)
  OBVIOUS
<1>3. /\ o \in Operations /\ Pending(o) = Pending(o)' + 1 /\ Pending(o)' \in Nat
      /\ \A x \in Operations \ {o} : Pending(x)' = Pending(x)
  BY <1>1, <1>2, EntriesTaken DEF Take
<1>4. /\ worker[w].pc = "wait"
      /\ worker'[w] = [pc |-> IF IsBulk(o) THEN "pull" ELSE "release", job |-> o]
      /\ \A v \in Workers \ {w} : worker'[v] = worker[v]
  BY <1>1, <1>2, <1>3, PoolMoves DEF Take, Places
<1>5. /\ \A x : ~Serves(w, x)
      /\ \A x \in Operations \ {o} : ~Serves(w, x)'
  BY <1>4 DEF Serves, At
<1>6. Pending(o) \in Nat /\ job[o].alive
  BY <1>1, <1>3 DEF Sound, Attached
<1>7. Inside(o)' = Inside(o) \cup {w} /\ w \notin Inside(o)
  BY <1>4, <1>5 DEF Inside, At, Serves
<1>8. Cardinality(Inside(o)') = Cardinality(Inside(o)) + 1
  BY <1>3, <1>7, InsideFinite, FS_AddElement
<1>9. Counted(o)'
  <2>1. Share(o)' = Share(o) /\ job' = job
    BY <1>3 DEF Take, Share, SettleShare
  <2>2. PICK a, b, c, d, s : /\ a = Pending(o) /\ b = Pending(o)' /\ s = Share(o)
                             /\ c = Cardinality(Inside(o)) /\ d = Cardinality(Inside(o)')
    OBVIOUS
  <2>3. a \in Nat /\ b \in Nat /\ c \in Nat /\ a = b + 1 /\ d = c + 1 /\ s \in Int
    <3>1. s \in Int
      BY <1>1, <1>3, <2>2, WantedBound DEF Share, SettleShare, Typed
    <3> QED
      BY <1>3, <1>6, <1>8, <2>2, <3>1, InsideFinite
  <2>4. job[o].running = a + c + s
    BY <1>1, <1>3, <1>6, <2>2 DEF Sound, Counted
  <2>5. job[o].running = b + d + s
    BY <2>3, <2>4
  <2> QED
    BY <1>1, <1>3, <1>6, <2>1, <2>2, <2>5 DEF Sound, Counted, Take
<1>10. \A v \in Workers : At(v, o, "complete")' <=> At(v, o, "complete")
  BY <1>4 DEF At
<1>11. Attached(o)' /\ CompletesOnce(o)' /\ Signalled(o)'
  BY <1>1, <1>3, <1>6, <1>10 DEF Sound, Attached, CompletesOnce, Signalled, Take
<1>12. \A v \in Workers :
         /\ At(v, o, "execute")' <=> At(v, o, "execute")
         /\ At(v, o, "execute") => worker'[v].chunk = worker[v].chunk
         /\ At(v, o, "pull")' <=> At(v, o, "pull") \/ (v = w /\ IsBulk(o))
  BY <1>4 DEF At
<1>13. HandedOut(o)' /\ Attended(o)'
  BY <1>1, <1>3, <1>12 DEF Sound, HandedOut, Attended, Take
<1>14. RanOnce(o)'
  BY <1>1, <1>3, <1>12 DEF Sound, RanOnce, Ran, Executes, Take
<1>15. Sound(o)'
  BY <1>9, <1>11, <1>13, <1>14 DEF Sound
<1>16. ASSUME NEW x \in Operations, x # o PROVE Sound(x)'
  BY <1>1, <1>3, <1>4, <1>5, <1>16, Untouched DEF Take
<1> QED
  BY <1>15, <1>16

\* A step that lets one worker go on inside its job.
LEMMA StaysInside ==
  ASSUME Typed, NEW o \in Operations, NEW w \in Workers,
         At(w, o, "pull") \/ At(w, o, "execute"),
         \A v \in Workers \ {w} : worker'[v] = worker[v],
         At(w, o, "pull")' \/ At(w, o, "execute")' \/ At(w, o, "release")'
  PROVE  /\ Inside(o)' = Inside(o)
         /\ \A v \in Workers : At(v, o, "complete")' <=> At(v, o, "complete")
         /\ \A v \in Workers \ {w} :
              /\ At(v, o, "pull")' <=> At(v, o, "pull")
              /\ At(v, o, "execute")' <=> At(v, o, "execute")
              /\ worker'[v].chunk = worker[v].chunk
         /\ \A x : x # o => ~Serves(w, x) /\ ~Serves(w, x)'
BY DEF Inside, At, Serves

LEMMA PullSound ==
  ASSUME IInv, NEW w \in Workers, Pull(w)
  PROVE  \A x \in Operations : Sound(x)'
<1> USE WorkloadFixed
<1>1. Typed /\ \A x \in Operations : Sound(x)
  BY DEF IInv
<1>2. PICK o \in Operations : o = worker[w].job
  BY <1>1, PlaceTyped DEF Pull
<1>3. PICK c \in Nat : c = job[o].next
  BY <1>1, JobTyped
<1>4. At(w, o, "pull")
  BY <1>2 DEF At, Pull
<1>5. /\ job'[o].running = job[o].running /\ job'[o].alive = job[o].alive
      /\ job'[o].next = c + 1
      /\ \A x \in Operations \ {o} : job'[x] = job[x]
  BY <1>1, <1>2, <1>3, ChunkPulled DEF Pull
<1>6. /\ worker'[w] = IF c < Chunks(o) THEN [pc |-> "execute", job |-> o, chunk |-> c]
                      ELSE [pc |-> "release", job |-> o]
      /\ \A v \in Workers \ {w} : worker'[v] = worker[v]
  <2>1. CASE c < Chunks(o)
    BY <1>1, <1>2, <1>3, <2>1, PoolMoves DEF Pull, Places
  <2>2. CASE ~(c < Chunks(o))
    BY <1>1, <1>2, <1>3, <2>2, PoolMoves DEF Pull, Places
  <2> QED
    BY <2>1, <2>2
<1>7. /\ At(w, o, "execute")' <=> c < Chunks(o)
      /\ c < Chunks(o) => worker'[w].chunk = c
      /\ ~At(w, o, "pull")' /\ ~At(w, o, "execute")
      /\ At(w, o, "execute")' \/ At(w, o, "release")'
  BY <1>4, <1>6 DEF At
<1>8. /\ Inside(o)' = Inside(o)
      /\ \A v \in Workers : At(v, o, "complete")' <=> At(v, o, "complete")
      /\ \A v \in Workers \ {w} :
           /\ At(v, o, "pull")' <=> At(v, o, "pull")
           /\ At(v, o, "execute")' <=> At(v, o, "execute")
           /\ worker'[v].chunk = worker[v].chunk
      /\ \A x : x # o => ~Serves(w, x) /\ ~Serves(w, x)'
  BY <1>1, <1>4, <1>6, <1>7, StaysInside
<1>9. \A x \in Operations : Pending(x)' = Pending(x)
  BY DEF Pull, Pending, Entries
<1>10. IsBulk(o) /\ job[o].alive /\ Chunks(o) \in Nat
  BY <1>1, <1>4, WantedBound DEF Sound, HandedOut, Attached, Serves
<1>11. Counted(o)' /\ Attached(o)' /\ CompletesOnce(o)'
  BY <1>1, <1>5, <1>8, <1>9, <1>10
  DEF Sound, Counted, Attached, CompletesOnce, Share, SettleShare, Pull
<1>12. Signalled(o)'
  BY <1>1, <1>5, <1>10 DEF Sound, Signalled, Pull
<1>13. HandedOut(o)'
  <2>1. \A v \in Workers : At(v, o, "execute") => worker[v].chunk \in Nat /\ worker[v].chunk < c
    BY <1>1, <1>3, PlaceTyped DEF Sound, HandedOut, At
  <2>2. \A v \in Workers : At(v, o, "pull")' \/ At(v, o, "execute")' => IsBulk(o)'
    BY <1>10 DEF Pull
  <2>3. \A v \in Workers : At(v, o, "execute")' =>
          worker'[v].chunk < Chunks(o)' /\ worker'[v].chunk < job'[o].next
    <3>1. Chunks(o)' = Chunks(o)
      BY DEF Pull
    <3> QED
      BY <1>1, <1>5, <1>7, <1>8, <2>1, <3>1 DEF Sound, HandedOut
  <2>4. ASSUME NEW v \in Workers, v # w, At(v, o, "execute")', At(w, o, "execute")'
        PROVE  worker'[v].chunk # worker'[w].chunk
    BY <1>7, <1>8, <2>1, <2>4
  <2>5. ASSUME NEW u \in Workers, NEW v \in Workers, At(u, o, "execute")',
               At(v, o, "execute")', worker'[u].chunk = worker'[v].chunk
        PROVE  u = v
    BY <1>1, <1>8, <2>4, <2>5 DEF Sound, HandedOut
  <2> QED
    BY <2>2, <2>3, <2>5 DEF HandedOut
<1>14. Attended(o)'
  <2>1. Chunks(o)' = Chunks(o)
    BY DEF Pull
  <2> QED
    BY <1>3, <1>5, <1>7, <1>10, <2>1 DEF Attended
<1>15. RanOnce(o)'
  <2>1. \A v \in Workers : \A d : v # w => (Executes(v, o, d)' <=> Executes(v, o, d))
    BY <1>8 DEF Executes
  <2>2. \A d : ~Executes(w, o, d)
    BY <1>7 DEF Executes
  <2>3. \A d : Executes(w, o, d)' <=> c < Chunks(o) /\ d = c
    BY <1>7 DEF Executes
  <2>4. \A d \in 0 .. Chunks(o) - 1 :
          (d < job'[o].next /\ \A v \in Workers : ~Executes(v, o, d)')
            <=> (d < job[o].next /\ \A v \in Workers : ~Executes(v, o, d))
    <3> TAKE d \in 0 .. Chunks(o) - 1
    <3>1. CASE d < c
      BY <1>3, <1>5, <1>10, <2>1, <2>2, <2>3, <3>1
    <3>2. CASE d = c
      BY <1>3, <1>10, <2>3, <3>2
    <3>3. CASE d > c
      BY <1>3, <1>5, <1>10, <3>3
    <3> QED
      BY <1>3, <1>10, <3>1, <3>2, <3>3
  <2>5. \A i \in Shapes : Ran(o, i)' <=> Ran(o, i)
    BY <2>4 DEF Ran, Pull
  <2> QED
    BY <1>1, <2>5 DEF Sound, RanOnce, Pull
<1>16. Sound(o)'
  BY <1>11, <1>12, <1>13, <1>14, <1>15 DEF Sound
<1>17. ASSUME NEW x \in Operations, x # o PROVE Sound(x)'
  BY <1>1, <1>5, <1>6, <1>8, <1>9, <1>17, Untouched DEF Pull
<1> QED
  BY <1>16, <1>17

\* The indices that were run, and the chunk that is over.
LEMMA ExecuteRan ==
  ASSUME Typed, NEW w \in Workers, NEW o \in Operations, Sound(o), Execute(w),
         worker[w].job = o, NEW i \in Shapes
  PROVE  /\ Ran(o, i)' <=> Ran(o, i) \/ i \in ChunkRange(o, worker[w].chunk)
         /\ i \in ChunkRange(o, worker[w].chunk) => ~Ran(o, i)
<1> USE WorkloadFixed
<1>1. PICK c \in Nat : c = worker[w].chunk
  BY PlaceTyped DEF Execute
<1>2. At(w, o, "execute") /\ Executes(w, o, c)
  BY <1>1 DEF At, Executes, Execute
<1>3. IsBulk(o) /\ c < Chunks(o) /\ c < job[o].next /\ Chunks(o) \in Nat
  BY <1>1, <1>2, WantedBound DEF Sound, HandedOut
<1>4. worker'[w] = [pc |-> "pull", job |-> o] /\ \A v \in Workers \ {w} : worker'[v] = worker[v]
  BY PoolMoves DEF Execute, Places
<1>5. \A d : ~Executes(w, o, d)'
  BY <1>4 DEF Executes, At
<1>6. \A v \in Workers : \A d : v # w => (Executes(v, o, d)' <=> Executes(v, o, d))
  BY <1>4 DEF Executes, At
<1>7. \A v \in Workers : Executes(v, o, c) => v = w
  BY <1>1, <1>2 DEF Executes, Sound, HandedOut
<1>8. \A d : Executes(w, o, d) => d = c
  BY <1>1 DEF Executes
<1>9. ASSUME NEW d \in 0 .. Chunks(o) - 1
      PROVE  (\A v \in Workers : ~Executes(v, o, d)')
               <=> (\A v \in Workers : ~Executes(v, o, d)) \/ d = c
  BY <1>2, <1>5, <1>6, <1>7, <1>8
<1>10. c \in 0 .. Chunks(o) - 1
  BY <1>3
<1>11. Ran(o, i)' <=> Ran(o, i) \/ i \in ChunkRange(o, c)
  <2>1. Ran(o, i)' <=> \E d \in 0 .. Chunks(o) - 1 :
          /\ d < job[o].next /\ i \in ChunkRange(o, d)
          /\ \A v \in Workers : ~Executes(v, o, d)'
    BY DEF Ran, Execute
  <2>2. Ran(o, i) <=> \E d \in 0 .. Chunks(o) - 1 :
          /\ d < job[o].next /\ i \in ChunkRange(o, d)
          /\ \A v \in Workers : ~Executes(v, o, d)
    BY DEF Ran
  <2> QED
    BY <1>3, <1>9, <1>10, <2>1, <2>2
<1>12. i \in ChunkRange(o, c) => ~Ran(o, i)
  <2> SUFFICES ASSUME i \in ChunkRange(o, c), Ran(o, i) PROVE FALSE
    OBVIOUS
  <2>1. PICK d \in 0 .. Chunks(o) - 1 :
          i \in ChunkRange(o, d) /\ \A v \in Workers : ~Executes(v, o, d)
    BY DEF Ran
  <2>2. d = c
    BY <1>3, <2>1, ChunksDisjoint
  <2> QED
    BY <1>2, <2>1, <2>2
<1> QED
  BY <1>1, <1>11, <1>12

LEMMA ExecuteSound ==
  ASSUME IInv, NEW w \in Workers, Execute(w)
  PROVE  \A x \in Operations : Sound(x)'
<1> USE WorkloadFixed
<1>1. Typed /\ \A x \in Operations : Sound(x)
  BY DEF IInv
<1>2. PICK o \in Operations : o = worker[w].job
  BY <1>1, PlaceTyped DEF Execute
<1>3. At(w, o, "execute")
  BY <1>2 DEF At, Execute
<1>4. worker'[w] = [pc |-> "pull", job |-> o] /\ \A v \in Workers \ {w} : worker'[v] = worker[v]
  BY <1>1, <1>2, PoolMoves DEF Execute, Places
<1>5. At(w, o, "pull")' /\ ~At(w, o, "execute")'
  BY <1>4 DEF At
<1>6. /\ Inside(o)' = Inside(o)
      /\ \A v \in Workers : At(v, o, "complete")' <=> At(v, o, "complete")
      /\ \A v \in Workers \ {w} :
           /\ At(v, o, "pull")' <=> At(v, o, "pull")
           /\ At(v, o, "execute")' <=> At(v, o, "execute")
           /\ worker'[v].chunk = worker[v].chunk
      /\ \A x : x # o => ~Serves(w, x) /\ ~Serves(w, x)'
  BY <1>1, <1>3, <1>4, <1>5, StaysInside
<1>7. \A x \in Operations : Pending(x)' = Pending(x)
  BY DEF Execute, Pending, Entries
<1>8. IsBulk(o) /\ job[o].alive
  BY <1>1, <1>3 DEF Sound, HandedOut, Attached, Serves
<1>9. Counted(o)' /\ Attached(o)' /\ CompletesOnce(o)'
  BY <1>1, <1>6, <1>7, <1>8
  DEF Sound, Counted, Attached, CompletesOnce, Share, SettleShare, Execute
<1>10. Signalled(o)'
  BY <1>1 DEF Sound, Signalled, Execute
<1>11. HandedOut(o)'
  BY <1>1, <1>5, <1>6, <1>8 DEF Sound, HandedOut, Execute
<1>12. Attended(o)'
  BY <1>5 DEF Attended
<1>13. RanOnce(o)'
  <2> SUFFICES ASSUME NEW i \in Shapes
               PROVE  executed'[o][i] = IF Ran(o, i)' THEN 1 ELSE 0
    BY DEF RanOnce
  <2>1. executed'[o][i] = IF i \in ChunkRange(o, worker[w].chunk)
                          THEN executed[o][i] + 1 ELSE executed[o][i]
    BY <1>1, <1>2 DEF Execute, Typed
  <2>2. executed[o][i] = IF Ran(o, i) THEN 1 ELSE 0
    BY <1>1 DEF Sound, RanOnce
  <2>3. /\ Ran(o, i)' <=> Ran(o, i) \/ i \in ChunkRange(o, worker[w].chunk)
        /\ i \in ChunkRange(o, worker[w].chunk) => ~Ran(o, i)
    BY <1>1, <1>2, ExecuteRan
  <2> QED
    BY <2>1, <2>2, <2>3
<1>14. Sound(o)'
  BY <1>9, <1>10, <1>11, <1>12, <1>13 DEF Sound
<1>15. ASSUME NEW x \in Operations, x # o PROVE Sound(x)'
  <2>1. executed'[x] = executed[x]
    BY <1>1, <1>2, <1>15 DEF Execute, Typed
  <2> QED
    BY <1>1, <1>4, <1>6, <1>7, <1>15, <2>1, Untouched DEF Execute
<1> QED
  BY <1>14, <1>15

LEMMA ReleaseSound ==
  ASSUME IInv, NEW w \in Workers, Release(w)
  PROVE  \A x \in Operations : Sound(x)'
<1> USE WorkloadFixed
<1>1. Typed /\ \A x \in Operations : Sound(x)
  BY DEF IInv
<1>2. PICK o \in Operations : o = worker[w].job
  BY <1>1, PlaceTyped DEF Release
<1>3. At(w, o, "release")
  BY <1>2 DEF At, Release
<1>4. /\ job'[o].running = job[o].running - 1 /\ job'[o].alive = job[o].alive
      /\ job'[o].next = job[o].next
      /\ \A x \in Operations \ {o} : job'[x] = job[x]
  BY <1>1, <1>2, GuardReleased DEF Release
<1>5. /\ worker'[w] = IF job[o].running = 1 THEN [pc |-> "complete", job |-> o] ELSE Idle
      /\ \A v \in Workers \ {w} : worker'[v] = worker[v]
  <2>1. CASE job[o].running = 1
    BY <1>1, <1>2, <2>1, PoolMoves DEF Release, Places, LastOut
  <2>2. CASE job[o].running # 1
    BY <1>1, <1>2, <2>2, PoolMoves DEF Release, Places, LastOut, Idle
  <2> QED
    BY <2>1, <2>2
<1>6. \A x \in Operations : Pending(x)' = Pending(x) /\ Pending(x) \in Nat
  BY <1>1, EntriesFinite DEF Release, Pending, Entries
<1>7. \A x : x # o => ~Serves(w, x) /\ ~Serves(w, x)'
  BY <1>3, <1>5 DEF Serves, At, Idle
<1>8. Inside(o)' = Inside(o) \ {w} /\ w \in Inside(o) /\ job[o].alive
  BY <1>1, <1>3, <1>5 DEF Inside, At, Idle, Sound, Attached, Serves
<1>9. /\ Cardinality(Inside(o)) \in Nat /\ Cardinality(Inside(o)') \in Nat
      /\ Cardinality(Inside(o)) = Cardinality(Inside(o)') + 1
  <2>1. Cardinality(Inside(o) \ {w}) = Cardinality(Inside(o)) - 1
    BY <1>8, InsideFinite, FS_RemoveElement
  <2>2. Cardinality(Inside(o)) \in Nat /\ Cardinality(Inside(o) \ {w}) \in Nat
    BY InsideFinite, FS_RemoveElement, FS_CardinalityType
  <2> QED
    BY <1>8, <2>1, <2>2
<1>10. Share(o)' = Share(o) /\ Share(o) \in Nat
  <2>1. Share(o)' = Share(o)
    BY DEF Release, Share, SettleShare
  <2>2. Share(o) \in Nat
    BY <1>1, WantedBound DEF Sound, Attached, Share, SettleShare, Typed
  <2> QED
    BY <2>1, <2>2
<1>11. /\ job[o].running = Pending(o) + Cardinality(Inside(o)) + Share(o)
       /\ Wanted(o) \in Nat /\ job[o].running \in 0 .. Wanted(o) + 1
  BY <1>1, <1>8, WantedBound DEF Sound, Counted
<1>12. job[o].running >= 1
  BY <1>6, <1>9, <1>10, <1>11
<1>13. Counted(o)'
  <2>1. PICK a, c, d, t : /\ a = Pending(o) /\ t = Share(o)
                          /\ c = Cardinality(Inside(o)) /\ d = Cardinality(Inside(o)')
    OBVIOUS
  <2>2. a \in Nat /\ c \in Nat /\ d \in Nat /\ t \in Nat /\ c = d + 1
    BY <1>6, <1>9, <1>10, <2>1
  <2>3. job'[o].running = a + d + t
    BY <1>4, <1>11, <2>1, <2>2
  <2>4. job'[o].running \in 0 .. Wanted(o) + 1
    BY <1>4, <1>11, <1>12
  <2> QED
    BY <1>4, <1>6, <1>8, <1>10, <2>1, <2>3, <2>4 DEF Counted, Release
<1>14. Attached(o)'
  BY <1>1, <1>4, <1>8 DEF Sound, Attached, Release
<1>15. CompletesOnce(o)'
  <2>1. (\A v \in Workers : ~At(v, o, "complete")) /\ caller[o] # "complete"
    BY <1>1, <1>11, <1>12 DEF Sound, CompletesOnce
  <2>2. \A v \in Workers : At(v, o, "complete")' => v = w /\ job[o].running = 1
    BY <1>5, <2>1 DEF At, Idle
  <2> QED
    BY <1>4, <2>1, <2>2 DEF CompletesOnce, Release
<1>16. Signalled(o)'
  BY <1>1, <1>4, <1>8 DEF Sound, Signalled, Release
<1>17. \A v \in Workers :
         /\ At(v, o, "pull")' <=> At(v, o, "pull")
         /\ At(v, o, "execute")' <=> At(v, o, "execute")
         /\ At(v, o, "execute") => worker'[v].chunk = worker[v].chunk
  BY <1>3, <1>5 DEF At, Idle
<1>18. HandedOut(o)' /\ Attended(o)'
  BY <1>1, <1>4, <1>6, <1>17 DEF Sound, HandedOut, Attended, Release
<1>19. RanOnce(o)'
  BY <1>1, <1>4, <1>17 DEF Sound, RanOnce, Ran, Executes, Release
<1>20. Sound(o)'
  BY <1>13, <1>14, <1>15, <1>16, <1>18, <1>19 DEF Sound
<1>21. ASSUME NEW x \in Operations, x # o PROVE Sound(x)'
  BY <1>1, <1>4, <1>5, <1>6, <1>7, <1>21, Untouched DEF Release
<1> QED
  BY <1>20, <1>21

-----------------------------------------------------------------------------
(* The theorems *)

LEMMA InitSound == Init => IInv
<1> SUFFICES ASSUME Init, NEW o \in Operations PROVE Sound(o)
  BY InitTyped DEF IInv
<1>1. Typed
  BY InitTyped
<1>2. /\ caller[o] = "idle" /\ signals[o] = << >> /\ queue = << >>
      /\ ~job[o].alive /\ job[o].running = 0 /\ job[o].next = 0
      /\ \A w \in Workers : worker[w].pc = "wait"
      /\ \A i \in Shapes : executed[o][i] = 0
  BY DEF Init, Idle
<1>3. Pending(o) = 0
  <2>1. Entries(o) = {}
    BY <1>2 DEF Entries
  <2> QED
    BY <2>1, FS_EmptySet DEF Pending
<1>4. \A w \in Workers : ~Serves(w, o)
  BY <1>2 DEF Serves, At
<1>5. Counted(o) /\ Attached(o) /\ CompletesOnce(o) /\ Signalled(o)
  BY <1>1, <1>2, <1>3, <1>4, WantedBound
  DEF Counted, Attached, CompletesOnce, Signalled, Serves
<1>6. HandedOut(o) /\ Attended(o)
  BY <1>2, <1>4 DEF HandedOut, Attended, Serves
<1>7. RanOnce(o)
  BY <1>2 DEF RanOnce, Ran
<1> QED
  BY <1>5, <1>6, <1>7 DEF Sound

LEMMA NextSound == IInv /\ [Next]_vars => IInv'
<1> SUFFICES ASSUME IInv, [Next]_vars PROVE \A x \in Operations : Sound(x)'
  BY TypedNext DEF IInv
<1>1. CASE Stop
  BY <1>1, Untouched DEF Stop, IInv, Pending, Entries
<1>2. CASE UNCHANGED vars
  BY <1>2, Untouched DEF vars, IInv, Pending, Entries
<1>3. ASSUME NEW w \in Workers, Exit(w) PROVE \A x \in Operations : Sound(x)'
  <2>1. worker'[w] = [pc |-> "exited"] /\ \A v \in Workers \ {w} : worker'[v] = worker[v]
    BY <1>3, PoolMoves DEF IInv, Exit, Places
  <2>2. \A x : ~Serves(w, x) /\ ~Serves(w, x)'
    BY <1>3, <2>1 DEF Serves, At, Exit
  <2> QED
    BY <1>3, <2>1, <2>2, Untouched DEF IInv, Exit, Pending, Entries
<1> QED
  BY <1>1, <1>2, <1>3, AllocationFailsSound, SubmitSound, SettleSound,
     CallerCompletesSound, TakeSound, PullSound, ExecuteSound, ReleaseSound,
     WorkerCompletesSound
  DEF Next, Caller, Worker

\* The pool keeps its guards, its signals and its count of what has run.
THEOREM Invariance == Spec => []IInv
BY InitSound, NextSound, PTL DEF Spec

\* Every variable keeps its type, and a guard is never released below zero
\* nor counts more than every worker and the submitter.
THEOREM TypeCorrect == Spec => []TypeOK
<1>1. ASSUME IInv PROVE TypeOK
  <2>1. \A o \in Operations : Wanted(o) \in Nat /\ Wanted(o) <= Pool
    BY <1>1, WantedBound DEF IInv
  <2>2. \A o \in Operations : job[o].running \in 0 .. Wanted(o) + 1
    BY <1>1 DEF IInv, Sound, Counted
  <2>3. \A o \in Operations : job[o].running \in 0 .. Cardinality(Workers) + 1
    BY <2>1, <2>2, PoolSize DEF Pool
  <2>4. job \in [Operations -> [alive : BOOLEAN, running : 0 .. Cardinality(Workers) + 1,
                                next : Nat]]
    BY <1>1, <2>3 DEF IInv, Typed, Jobs
  <2> QED
    BY <1>1, <2>4 DEF IInv, Typed, Places, TypeOK
<1> QED
  BY <1>1, Invariance, PTL

\* "a worker cannot finish and delete the job while more are queued"
\* (settle()): the guard is exact and no worker, queue entry or caller
\* refers to a deleted job.
THEOREM HoldersStayLive == Spec => []HoldersLive
<1>1. ASSUME IInv, NEW o \in Operations, job[o].alive, ~Completing(o)
      PROVE  job[o].running = Cardinality(Entries(o)) + Cardinality(Holders(o))
                                + (IF caller[o] = "settle" THEN SettleShare(o) ELSE 0)
  <2>1. Holders(o) = Inside(o)
    <3>1. Holders(o) \subseteq Inside(o)
      BY <1>1 DEF IInv, Typed, Places, Completing, Holders, Inside, At
    <3>2. Inside(o) \subseteq Holders(o)
      BY DEF Holders, Inside, At
    <3> QED
      BY <3>1, <3>2
  <2> QED
    BY <1>1, <2>1 DEF IInv, Sound, Counted, Pending, Share
<1>2. ASSUME IInv, NEW o \in Operations, ~job[o].alive
      PROVE  Holders(o) = {} /\ Entries(o) = {} /\ caller[o] \notin {"settle", "complete"}
  <2>1. Pending(o) = 0 /\ (\A w \in Workers : ~Serves(w, o)) /\ caller[o] \in {"idle", "done"}
    BY <1>2 DEF IInv, Sound, Attached
  <2>2. Entries(o) = {}
    BY <1>2, <2>1, EntriesFinite DEF IInv
  <2>3. Holders(o) = {}
    BY <1>2, <2>1 DEF IInv, Typed, Places, Holders, Serves, At
  <2> QED
    BY <2>1, <2>2, <2>3
<1>3. ASSUME IInv PROVE HoldersLive
  BY <1>1, <1>2, <1>3 DEF HoldersLive, GuardExact
<1> QED
  BY <1>3, Invariance, PTL

-----------------------------------------------------------------------------
(* The pool implements the bulk scheduler *)

Done(o) == {i \in Shapes : executed[o][i] = 1}

LEMMA OneSignal ==
  ASSUME NEW t \in {<< >>, <<"value">>, <<"error">>}
  PROVE  ~(Len(t) > 1)
<1>1. CASE t = << >>
  BY <1>1
<1>2. CASE t = <<"value">>
  BY <1>2
<1>3. CASE t = <<"error">>
  BY <1>3
<1> QED
  BY <1>1, <1>2, <1>3

LEMMA Shown ==
  ASSUME NEW o \in Operations, Sound(o)
  PROVE  SignalOf(o) = IF signals[o] # << >> THEN signals[o][1]
                       ELSE IF job[o].alive THEN "running" ELSE "idle"
<1>1. signals[o] \in {<< >>, <<"value">>, <<"error">>}
  BY DEF Sound, Signalled
<1> QED
  BY <1>1, OneSignal DEF SignalOf

LEMMA ShownAfter ==
  ASSUME NEW o \in Operations, Sound(o)'
  PROVE  SignalOf(o)' = IF signals'[o] # << >> THEN signals'[o][1]
                        ELSE IF job'[o].alive THEN "running" ELSE "idle"
<1>1. signals'[o] \in {<< >>, <<"value">>, <<"error">>}
  BY DEF Sound, Signalled
<1> QED
  BY <1>1, OneSignal DEF SignalOf

LEMMA DoneIsRan ==
  ASSUME NEW o \in Operations, Sound(o)
  PROVE  \A i \in Shapes : i \in Done(o) <=> Ran(o, i)
BY DEF Sound, RanOnce, Done

\* Nothing of an operation that was not submitted has run.
LEMMA NoneDone ==
  ASSUME Typed, NEW o \in Operations, Sound(o), caller[o] = "idle"
  PROVE  Done(o) = {}
<1>1. job[o].next = 0
  BY DEF Sound, Signalled
<1>2. \A i \in Shapes : ~Ran(o, i)
  BY <1>1 DEF Ran
<1> QED
  BY <1>2, DoneIsRan DEF Done

\* When the guard is down every index has run.
LEMMA AllDone ==
  ASSUME Typed, NEW o \in Operations, Sound(o), job[o].alive, job[o].running = 0
  PROVE  Done(o) = 0 .. shape[o] - 1
<1>1. shape[o] \in Nat /\ shape[o] <= MaxShape /\ MaxShape \in Nat
  BY ShapeAssumption DEF Typed, Shapes
<1>2. CASE IsBulk(o)
  <2>1. Pending(o) = 0 /\ \A w \in Workers : ~At(w, o, "pull") /\ ~At(w, o, "execute")
    BY Released0 DEF Inside
  <2>2. job[o].next >= Chunks(o) /\ job[o].next \in Nat /\ Chunks(o) \in Nat
    BY <1>2, <2>1, JobTyped, WantedBound DEF Sound, Attended
  <2>3. ASSUME NEW i \in 0 .. shape[o] - 1 PROVE i \in Done(o)
    <3>1. PICK c \in 0 .. Chunks(o) - 1 : i \in ChunkRange(o, c)
      BY <1>2, ChunksCover
    <3>2. Ran(o, i)
      BY <2>1, <2>2, <3>1 DEF Ran, Executes
    <3>3. i \in Shapes
      BY <1>1 DEF Shapes
    <3> QED
      BY <3>2, <3>3, DoneIsRan
  <2>4. ASSUME NEW i \in Done(o) PROVE i \in 0 .. shape[o] - 1
    <3>1. i \in Shapes /\ Ran(o, i)
      BY <2>4, DoneIsRan DEF Done
    <3>2. PICK c \in 0 .. Chunks(o) - 1 : i \in ChunkRange(o, c)
      BY <3>1 DEF Ran
    <3>3. c \in Nat /\ c < Chunks(o)
      BY <2>2
    <3>4. PICK lo, hi \in 0 .. shape[o] - 1 : ChunkRange(o, c) = lo .. hi
      BY <1>2, <3>3, ChunkInShape
    <3> QED
      BY <1>1, <3>2, <3>4
  <2> QED
    BY <2>3, <2>4
<1>3. CASE ~IsBulk(o)
  <2>1. Chunks(o) = 0
    BY <1>3 DEF Chunks
  <2>2. Done(o) = {}
    BY <2>1, DoneIsRan DEF Ran, Done
  <2>3. shape[o] = 0
    BY <1>1, <1>3 DEF IsBulk, Typed
  <2> QED
    BY <2>2, <2>3
<1> QED
  BY <1>2, <1>3

\* A step that is about one operation only.
Only(o) ==
  /\ shape' = shape
  /\ \A x \in Operations \ {o} :
       executed'[x] = executed[x] /\ signals'[x] = signals[x]
         /\ job'[x].alive = job[x].alive

LEMMA OthersShown ==
  ASSUME NEW o, Only(o)
  PROVE  \A x \in Operations \ {o} : SignalOf(x)' = SignalOf(x) /\ Done(x)' = Done(x)
BY DEF Only, SignalOf, Done

LEMMA RefusalImplements ==
  ASSUME Typed, NEW o \in Operations, Sound(o), Only(o), caller[o] = "idle", Sound(o)',
         Signal(o, "error"), job' = job, executed' = executed
  PROVE  Bulk!Refuse(o)
<1>1. SignalOf(o) = "idle" /\ SignalOf(o)' = "error"
  <2>1. signals[o] = << >> /\ ~job[o].alive
    BY DEF Sound, Signalled
  <2>2. signals'[o] = <<"error">>
    BY <2>1, Signals
  <2> QED
    BY <2>1, <2>2, Shown, ShownAfter
<1>2. Done(o) = {} /\ Done(o)' = Done(o)
  BY NoneDone DEF Done
<1> QED
  BY <1>1, <1>2, OthersShown DEF Bulk!Refuse, Done, Only

LEMMA CompletionImplements ==
  ASSUME Typed, NEW o \in Operations, Sound(o), Only(o), Sound(o)',
         job[o].alive, job[o].running = 0, Finished(o), executed' = executed
  PROVE  Bulk!Complete(o)
<1>1. SignalOf(o) = "running" /\ SignalOf(o)' = "value"
  <2>1. signals[o] = << >>
    BY DEF Sound, Signalled
  <2>2. signals'[o] = <<"value">>
    BY <2>1, Signals DEF Finished
  <2> QED
    BY <2>1, <2>2, Shown, ShownAfter
<1>2. Done(o) = 0 .. shape[o] - 1 /\ Done(o)' = Done(o)
  BY AllDone DEF Done
<1> QED
  BY <1>1, <1>2, OthersShown DEF Bulk!Complete, Done, Only

LEMMA ExecuteImplements ==
  ASSUME IInv, NEW w \in Workers, Execute(w)
  PROVE  \E o \in Operations : Bulk!Run(o)
<1>1. Typed /\ \A x \in Operations : Sound(x)
  BY DEF IInv
<1>2. PICK o \in Operations : o = worker[w].job
  BY <1>1, PlaceTyped DEF Execute
<1>3. PICK c \in Nat : c = worker[w].chunk
  BY <1>1, PlaceTyped DEF Execute
<1>4. IsBulk(o) /\ c < Chunks(o) /\ job[o].alive
  BY <1>1, <1>2, <1>3 DEF Sound, HandedOut, Attached, Serves, At, Execute
<1>5. PICK lo, hi \in 0 .. shape[o] - 1 : lo <= hi /\ ChunkRange(o, c) = lo .. hi
  BY <1>1, <1>3, <1>4, ChunkInShape
<1>6. lo .. hi \subseteq Shapes
  BY <1>1, ShapeAssumption DEF Typed, Shapes
<1>7. \A i \in lo .. hi : executed[o][i] = 0
  BY <1>1, <1>2, <1>3, <1>5, <1>6, ExecuteRan DEF Sound, RanOnce
<1>8. \A i \in Shapes : executed'[o][i] = IF i \in lo .. hi THEN executed[o][i] + 1
                                          ELSE executed[o][i]
  BY <1>1, <1>2, <1>3, <1>5 DEF Execute, Typed
<1>9. lo .. hi \cap Done(o) = {} /\ Done(o)' = Done(o) \cup (lo .. hi)
  BY <1>6, <1>7, <1>8 DEF Done
<1>10. SignalOf(o) = "running" /\ \A x : SignalOf(x)' = SignalOf(x)
  BY <1>1, <1>4, Shown DEF Sound, Signalled, SignalOf, Execute
<1>11. Only(o)
  BY <1>1, <1>2 DEF Only, Execute, Typed
<1>12. Bulk!Run(o)
  <2>1. \A x \in Operations \ {o} : Done(x)' = Done(x)
    BY <1>11, OthersShown
  <2>2. [x \in Operations |-> Done(x)'] =
          [[x \in Operations |-> Done(x)] EXCEPT ![o] = @ \cup (lo .. hi)]
    BY <1>9, <2>1
  <2>3. [x \in Operations |-> SignalOf(x)'] = [x \in Operations |-> SignalOf(x)]
    BY <1>10
  <2>4. shape' = shape
    BY <1>11 DEF Only
  <2>5. \E l, h \in 0 .. shape[o] - 1 :
          /\ l <= h
          /\ l .. h \cap Done(o) = {}
          /\ [x \in Operations |-> Done(x)'] =
               [[x \in Operations |-> Done(x)] EXCEPT ![o] = @ \cup (l .. h)]
    BY <1>5, <1>9, <2>2
  <2> QED
    BY <1>10, <2>3, <2>4, <2>5 DEF Bulk!Run, Done
<1> QED
  BY <1>12

LEMMA StepImplements == IInv /\ [Next]_vars => [Bulk!BulkNext]_(Bulk!bulkVars)
<1> SUFFICES ASSUME IInv, [Next]_vars PROVE [Bulk!BulkNext]_(Bulk!bulkVars)
  OBVIOUS
<1>1. /\ Typed /\ \A x \in Operations : Sound(x)
      /\ Typed' /\ \A x \in Operations : Sound(x)'
  BY NextSound DEF IInv
\* Nothing the scheduler's user sees happens.
<1>2. ASSUME UNCHANGED <<shape, executed, signals>>,
             \A x \in Operations : job'[x].alive = job[x].alive
      PROVE  UNCHANGED Bulk!bulkVars
  BY <1>2 DEF Bulk!bulkVars, SignalOf
<1>3. ASSUME NEW o \in Operations, AllocationFails(o) PROVE Bulk!Refuse(o)
  <2>1. Only(o)
    BY <1>1, <1>3, Signals DEF Only, AllocationFails
  <2> QED
    BY <1>1, <1>3, <2>1, RefusalImplements DEF AllocationFails
<1>4. ASSUME NEW o \in Operations, Submit(o) PROVE Bulk!Refuse(o) \/ Bulk!Start(o)
  <2>1. CASE caller'[o] = "done"
    <3>1. Signal(o, "error") /\ UNCHANGED job
      BY <1>1, <1>4, <2>1 DEF Submit, Typed
    <3>2. Only(o)
      BY <1>1, <1>4, <3>1, Signals DEF Only, Submit
    <3> QED
      BY <1>1, <1>4, <3>1, <3>2, RefusalImplements DEF Submit
  <2>2. CASE caller'[o] # "done"
    <3>1. job' = [job EXCEPT ![o] = NewJob(o)] /\ signals' = signals
      BY <1>1, <1>4, <2>2 DEF Submit, Typed
    <3>2. Only(o)
      BY <1>1, <1>4, <3>1 DEF Only, Submit, Typed
    <3>3. SignalOf(o) = "idle" /\ SignalOf(o)' = "running"
      <4>1. signals[o] = << >> /\ ~job[o].alive
        BY <1>1, <1>4 DEF Sound, Signalled, Submit
      <4>2. job'[o].alive
        BY <1>1, <3>1 DEF Typed, NewJob
      <4> QED
        BY <1>1, <3>1, <4>1, <4>2, Shown, ShownAfter
    <3>4. executed' = executed
      BY <1>4 DEF Submit
    <3> QED
      BY <3>2, <3>3, <3>4, OthersShown DEF Bulk!Start, Only
  <2> QED
    BY <2>1, <2>2
<1>5. ASSUME NEW o \in Operations, Settle(o) PROVE UNCHANGED Bulk!bulkVars
  BY <1>1, <1>2, <1>5 DEF Settle, Released, Typed, Jobs
<1>6. ASSUME NEW o \in Operations, CallerCompletes(o) PROVE Bulk!Complete(o)
  <2>1. job[o].alive /\ job[o].running = 0
    BY <1>1, <1>6 DEF CallerCompletes, Sound, Attached, CompletesOnce
  <2>2. Only(o)
    BY <1>1, <1>6, JobFinished, Signals DEF Only, CallerCompletes, Finished
  <2> QED
    BY <1>1, <1>6, <2>1, <2>2, CompletionImplements DEF CallerCompletes
<1>7. ASSUME NEW w \in Workers, WorkerCompletes(w)
      PROVE  \E o \in Operations : Bulk!Complete(o)
  <2>1. PICK o \in Operations : o = worker[w].job
    BY <1>1, <1>7, PlaceTyped DEF WorkerCompletes
  <2>2. job[o].alive /\ job[o].running = 0
    BY <1>1, <1>7, <2>1 DEF WorkerCompletes, Sound, Attached, CompletesOnce, Serves, At
  <2>3. Only(o)
    BY <1>1, <1>7, <2>1, JobFinished, Signals DEF Only, WorkerCompletes, Finished
  <2> QED
    BY <1>1, <1>7, <2>1, <2>2, <2>3, CompletionImplements DEF WorkerCompletes
<1>8. ASSUME NEW w \in Workers, Take(w) \/ Exit(w) PROVE UNCHANGED Bulk!bulkVars
  BY <1>2, <1>8 DEF Take, Exit
<1>9. ASSUME NEW w \in Workers, Pull(w) PROVE UNCHANGED Bulk!bulkVars
  <2>1. \A x \in Operations : job'[x].alive = job[x].alive
    BY <1>1, <1>9, PlaceTyped, ChunkPulled DEF Pull
  <2> QED
    BY <1>2, <1>9, <2>1 DEF Pull
<1>10. ASSUME NEW w \in Workers, Release(w) PROVE UNCHANGED Bulk!bulkVars
  <2>1. \A x \in Operations : job'[x].alive = job[x].alive
    BY <1>1, <1>10, PlaceTyped, GuardReleased DEF Release
  <2> QED
    BY <1>2, <1>10, <2>1 DEF Release
<1>11. CASE Stop \/ UNCHANGED vars
  BY <1>2, <1>11 DEF Stop, vars
<1> QED
  BY <1>3, <1>4, <1>5, <1>6, <1>7, <1>8, <1>9, <1>10, <1>11, ExecuteImplements
  DEF Next, Caller, Worker, Bulk!BulkNext

\* A bulk operation runs every index exactly once and completes with a value
\* after the last of them, or with an error having run none, however few
\* pointers were queued and whichever worker comes (bulk_job, submit()).
THEOREM PoolImplementsBulk == Spec => ImplementsBulk
<1>1. Init => Bulk!BulkInit
  <2> SUFFICES ASSUME Init PROVE Bulk!BulkInit
    OBVIOUS
  <2>1. shape \in [Operations -> Nat]
    BY InitTyped, ShapeAssumption DEF Typed, Shapes
  <2>2. \A o \in Operations : Done(o) = {} /\ SignalOf(o) = "idle"
    BY InitSound, NoneDone, Shown DEF Init, IInv
  <2> QED
    BY <2>1, <2>2 DEF Bulk!BulkInit, Done
<1> QED
  BY <1>1, StepImplements, Invariance, PTL DEF Spec, ImplementsBulk, Bulk!BulkSpec

-----------------------------------------------------------------------------
(* THE START-UP *)

Sizing == {"lock", "check", "compare", "store", "copy"}
Using == {"use", "read", "flag", "build"}

\* Between the lock and its release; from the static's guard to its result.
Locks(t) == at[t].pc \in {"check", "compare", "store", "copy"}
Constructs(t) == at[t].pc \in {"read", "flag", "build"}
HasRead(t) == In(t, "build") \/ (provider = "beman" /\ In(t, "flag"))

StartupPlaces == [pc : {"out"} \cup Using] \cup [pc : Sizing, size : Sizes, late : BOOLEAN]

StartupTypes ==
  /\ provider \in {"stdexec", "beman"}
  /\ at \in [Threads -> StartupPlaces]
  /\ pool \in {"none", "constructing", "built"}
  /\ locked \in BOOLEAN /\ started \in BOOLEAN /\ late \in BOOLEAN
  /\ early \subseteq honoured /\ honoured \subseteq Sizes

\* The mutex admits one thread, and so does the static's guard.
Exclusion ==
  /\ \A t \in Threads : Locks(t) => locked
  /\ \A t, u \in Threads : Locks(t) /\ Locks(u) => t = u
  /\ \A t \in Threads : Constructs(t) => pool = "constructing"
  /\ \A t, u \in Threads : Constructs(t) /\ Constructs(u) => t = u

\* What a caller that passed the checks may still rely on.
Checked ==
  \A t \in Threads :
    /\ In(t, "store") => gThreads \in {0, at[t].size}
    /\ In(t, "copy") => gThreads = at[t].size

\* A granted size is the one in force, in stdexec's copy too.
Granted ==
  \A n \in honoured : gThreads = n /\ (provider = "stdexec" => poolSize = n)

\* The flag is up before the pool is, so a call that finds the pool built
\* does not pass the first check.
Flagged ==
  /\ pool = "built" => started
  /\ \A t \in Threads :
       /\ In(t, "build") \/ (provider = "stdexec" /\ In(t, "read")) => started
       /\ at[t].pc \in {"lock", "check"} /\ at[t].late => started
       /\ at[t].pc \in {"compare", "store", "copy"} => ~at[t].late
  /\ ~late

\* A size granted before the first use is the one the constructor reads.
Observed ==
  /\ \A t \in Threads : HasRead(t) => early \subseteq {readSize}
  /\ pool = "built" => early \subseteq {built}

StartupInv == StartupTypes /\ Exclusion /\ Checked /\ Granted /\ Flagged /\ Observed

-----------------------------------------------------------------------------
(* Where a step puts a thread *)

LEMMA MoveTypes ==
  ASSUME StartupTypes, NEW t \in Threads, NEW w \in StartupPlaces, Moves(t, w)
  PROVE  /\ at' \in [Threads -> StartupPlaces]
         /\ at'[t] = w
         /\ \A u \in Threads \ {t} : at'[u] = at[u]
BY DEF StartupTypes, Moves

\* Its next step inside size_parallel_scheduler() keeps the call's argument.
LEMMA NextPlace ==
  ASSUME StartupTypes, NEW t \in Threads, at[t].pc \in Sizing, NEW p \in Sizing,
         NEW w, w = [at[t] EXCEPT !.pc = p]
  PROVE  /\ at[t].size \in Sizes /\ at[t].late \in BOOLEAN
         /\ w \in StartupPlaces /\ w.pc = p /\ w.size = at[t].size /\ w.late = at[t].late
<1>1. at[t] \in [pc : Sizing, size : Sizes, late : BOOLEAN]
  BY DEF StartupTypes, StartupPlaces, Sizing, Using
<1> QED
  BY <1>1 DEF StartupPlaces

LEMMA OutPlace == Out \in StartupPlaces /\ Out.pc = "out"
BY DEF Out, StartupPlaces

LEMMA UsePlace == \A p \in Using : [pc |-> p] \in StartupPlaces
BY DEF StartupPlaces

\* The thread that holds the mutex is the only one past it.
LEMMA OnlyHolder ==
  ASSUME Exclusion, NEW t \in Threads, Locks(t)
  PROVE  \A u \in Threads \ {t} : at[u].pc \notin {"check", "compare", "store", "copy"}
BY DEF Exclusion, Locks

-----------------------------------------------------------------------------
(* The invariant holds at the start and is kept by each action. *)

LEMMA StartupInitSound == StartupInit => StartupInv
<1> SUFFICES ASSUME StartupInit PROVE StartupInv
  OBVIOUS
<1>1. StartupTypes
  BY OutPlace DEF StartupInit, StartupTypes
<1>2. \A t \in Threads : at[t].pc = "out"
  BY OutPlace DEF StartupInit
<1>3. Exclusion /\ Checked /\ Granted /\ Flagged /\ Observed
  BY <1>2 DEF StartupInit, Exclusion, Checked, Granted, Flagged, Observed, Locks, Constructs,
              HasRead, In
<1> QED
  BY <1>1, <1>3 DEF StartupInv

LEMMA StartupNextSound == StartupInv /\ [StartupNext]_startupVars => StartupInv'
<1> SUFFICES ASSUME StartupInv, [StartupNext]_startupVars PROVE StartupInv'
  OBVIOUS
<1>a. StartupTypes /\ Exclusion /\ Checked /\ Granted /\ Flagged /\ Observed
  BY DEF StartupInv
<1> USE DEF In, Locks, Constructs, HasRead
<1>0. CASE UNCHANGED startupVars
  BY <1>0, <1>a DEF startupVars, StartupInv, StartupTypes, Exclusion, Checked, Granted, Flagged, Observed
<1>1. ASSUME NEW t \in Threads, NEW n \in Sizes, CallSize(t, n) PROVE StartupInv'
  <2>1. PICK w : w = [pc |-> "lock", size |-> n, late |-> pool = "built"]
    OBVIOUS
  <2>2. w \in StartupPlaces /\ w.pc = "lock" /\ (w.late <=> pool = "built")
    BY <2>1 DEF StartupPlaces, Sizing
  <2>3. /\ at' \in [Threads -> StartupPlaces] /\ \A u \in Threads \ {t} : at'[u] = at[u]
        /\ at'[t] = w /\ at[t].pc = "out"
    BY <1>1, <1>a, <2>1, <2>2, MoveTypes DEF CallSize, Enter
  <2>4. UNCHANGED <<provider, locked, gThreads, poolSize, started, readSize, pool,
       built, early, honoured, late>>
    BY <1>1 DEF CallSize
  <2>5. StartupTypes'
    BY <1>a, <2>1, <2>2, <2>3, <2>4 DEF StartupTypes
  <2>6. Exclusion' /\ Checked'
    BY <1>a, <2>1, <2>2, <2>3, <2>4 DEF StartupTypes, Exclusion, Checked
  <2>7. Granted' /\ Flagged'
    BY <1>a, <2>1, <2>2, <2>3, <2>4 DEF StartupTypes, Exclusion, Checked, Granted, Flagged
  <2>8. Observed'
    BY <1>a, <2>1, <2>2, <2>3, <2>4 DEF StartupTypes, Exclusion, Checked, Granted, Flagged,
         Observed
  <2> QED
    BY <2>5, <2>6, <2>7, <2>8 DEF StartupInv
<1>2. ASSUME NEW t \in Threads, Lock(t) PROVE StartupInv'
  <2>1. PICK w : w = [at[t] EXCEPT !.pc = "check"]
    OBVIOUS
  <2>2. at[t].pc = "lock" /\ Moves(t, w) /\ ~locked /\ locked' = TRUE
    BY <1>2, <2>1 DEF Lock, MutexFree
  <2>3. w \in StartupPlaces /\ w.pc = "check" /\ w.late = at[t].late
    BY <1>a, <2>1, <2>2, NextPlace DEF Sizing
  <2>4. /\ at' \in [Threads -> StartupPlaces] /\ \A u \in Threads \ {t} : at'[u] = at[u]
        /\ at'[t] = w
    BY <1>a, <2>2, <2>3, MoveTypes
  <2>5. UNCHANGED <<provider, gThreads, poolSize, started, readSize, pool, built,
       early, honoured, late>>
    BY <1>2 DEF Lock
  <2>6. StartupTypes'
    BY <1>a, <2>1, <2>2, <2>3, <2>4, <2>5 DEF StartupTypes
  <2>7. Exclusion' /\ Checked'
    BY <1>a, <2>1, <2>2, <2>3, <2>4, <2>5 DEF StartupTypes, Exclusion, Checked
  <2>8. Granted' /\ Flagged'
    BY <1>a, <2>1, <2>2, <2>3, <2>4, <2>5 DEF StartupTypes, Exclusion, Checked, Granted,
         Flagged
  <2>9. Observed'
    BY <1>a, <2>1, <2>2, <2>3, <2>4, <2>5 DEF StartupTypes, Exclusion, Checked, Granted,
         Flagged, Observed
  <2> QED
    BY <2>6, <2>7, <2>8, <2>9 DEF StartupInv
<1>3. ASSUME NEW t \in Threads, CheckRunning(t) PROVE StartupInv'
  <2>1. PICK w : w = [at[t] EXCEPT !.pc = "compare"]
    OBVIOUS
  <2>2. /\ at[t].pc = "check"
        /\ \/ started /\ Moves(t, Out) /\ locked' = FALSE
           \/ ~started /\ Moves(t, w) /\ UNCHANGED locked
    BY <1>3, <2>1 DEF CheckRunning, Running
  <2>3. w \in StartupPlaces /\ w.pc = "compare" /\ w.size = at[t].size /\ w.late = at[t].late
    BY <1>a, <2>1, <2>2, NextPlace DEF Sizing
  <2>4. /\ at' \in [Threads -> StartupPlaces] /\ \A u \in Threads \ {t} : at'[u] = at[u]
        /\ \/ started /\ at'[t].pc = "out" /\ locked' = FALSE
           \/ ~started /\ at'[t] = w /\ locked' = locked
    <3>1. PICK v \in {Out, w} :
            /\ Moves(t, v)
            /\ \/ started /\ v = Out /\ locked' = FALSE
               \/ ~started /\ v = w /\ locked' = locked
      BY <2>2
    <3>2. v \in StartupPlaces
      BY <2>3, <3>1, OutPlace
    <3> QED
      BY <1>a, <3>1, <3>2, MoveTypes, OutPlace
  <2>5. UNCHANGED <<provider, gThreads, poolSize, started, readSize, pool, built,
       early, honoured, late>>
    BY <1>3 DEF CheckRunning
  <2>6. \A u \in Threads \ {t} : at[u].pc \notin {"check", "compare", "store", "copy"}
    BY <1>a, <2>2, OnlyHolder
  <2>7. StartupTypes'
    BY <1>a, <2>1, <2>2, <2>3, <2>4, <2>5 DEF StartupTypes
  <2>8. Exclusion'
    BY <1>a, <2>2, <2>3, <2>4, <2>5, <2>6 DEF Exclusion
  <2>9. Checked'
    BY <1>a, <2>2, <2>3, <2>4, <2>5, <2>6 DEF Checked, StartupTypes
  <2>10. Granted' /\ Flagged'
    BY <1>a, <2>1, <2>2, <2>3, <2>4, <2>5 DEF StartupTypes, Exclusion, Checked, Granted,
         Flagged
  <2>11. Observed'
    BY <1>a, <2>1, <2>2, <2>3, <2>4, <2>5 DEF StartupTypes, Exclusion, Checked, Granted,
         Flagged, Observed
  <2> QED
    BY <2>7, <2>8, <2>9, <2>10, <2>11 DEF StartupInv
<1>4. ASSUME NEW t \in Threads, CheckSize(t) PROVE StartupInv'
  <2>1. PICK w : w = [at[t] EXCEPT !.pc = "store"]
    OBVIOUS
  <2>2. /\ at[t].pc = "compare"
        /\ \/ SizedOtherwise(t) /\ Moves(t, Out) /\ locked' = FALSE
           \/ ~SizedOtherwise(t) /\ Moves(t, w) /\ UNCHANGED locked
    BY <1>4, <2>1 DEF CheckSize
  <2>3. w \in StartupPlaces /\ w.pc = "store" /\ w.size = at[t].size /\ w.late = at[t].late
    BY <1>a, <2>1, <2>2, NextPlace DEF Sizing
  <2>4. /\ at' \in [Threads -> StartupPlaces] /\ \A u \in Threads \ {t} : at'[u] = at[u]
        /\ \/ SizedOtherwise(t) /\ at'[t].pc = "out" /\ locked' = FALSE
           \/ ~SizedOtherwise(t) /\ at'[t] = w /\ locked' = locked
    <3>1. PICK v \in {Out, w} :
            /\ Moves(t, v)
            /\ \/ SizedOtherwise(t) /\ v = Out /\ locked' = FALSE
               \/ ~SizedOtherwise(t) /\ v = w /\ locked' = locked
      BY <2>2
    <3>2. v \in StartupPlaces
      BY <2>3, <3>1, OutPlace
    <3> QED
      BY <1>a, <3>1, <3>2, MoveTypes, OutPlace
  <2>5. UNCHANGED <<provider, gThreads, poolSize, started, readSize, pool, built,
       early, honoured, late>>
    BY <1>4 DEF CheckSize
  <2>6. \A u \in Threads \ {t} : at[u].pc \notin {"check", "compare", "store", "copy"}
    BY <1>a, <2>2, OnlyHolder
  <2>7. StartupTypes'
    BY <1>a, <2>1, <2>2, <2>3, <2>4, <2>5 DEF StartupTypes
  <2>8. Exclusion'
    BY <1>a, <2>2, <2>3, <2>4, <2>5, <2>6 DEF Exclusion
  <2>9. Checked'
    BY <1>a, <2>2, <2>3, <2>4, <2>5, <2>6 DEF Checked, StartupTypes, SizedOtherwise
  <2>10. Granted' /\ Flagged'
    BY <1>a, <2>1, <2>2, <2>3, <2>4, <2>5 DEF StartupTypes, Exclusion, Checked, Granted,
         Flagged
  <2>11. Observed'
    BY <1>a, <2>1, <2>2, <2>3, <2>4, <2>5 DEF StartupTypes, Exclusion, Checked, Granted,
         Flagged, Observed
  <2> QED
    BY <2>7, <2>8, <2>9, <2>10, <2>11 DEF StartupInv
<1>5. ASSUME NEW t \in Threads, StoreSize(t) PROVE StartupInv'
  <2>1. PICK w : w = [at[t] EXCEPT !.pc = "copy"]
    OBVIOUS
  <2>2. at[t].pc = "store" /\ Moves(t, w) /\ gThreads' = at[t].size
    BY <1>5, <2>1 DEF StoreSize
  <2>3. w \in StartupPlaces /\ w.pc = "copy" /\ w.size = at[t].size /\ w.late = at[t].late
    BY <1>a, <2>1, <2>2, NextPlace DEF Sizing
  <2>4. /\ at' \in [Threads -> StartupPlaces] /\ \A u \in Threads \ {t} : at'[u] = at[u]
        /\ at'[t] = w
    BY <1>a, <2>2, <2>3, MoveTypes
  <2>5. UNCHANGED <<provider, locked, poolSize, started, readSize, pool, built,
       early, honoured, late>>
    BY <1>5 DEF StoreSize
  <2>6. 0 \notin Sizes /\ gThreads \in {0, at[t].size}
    BY <1>a, <2>2, StartupAssumption DEF Checked
  <2>7. \A u \in Threads \ {t} : at[u].pc \notin {"check", "compare", "store", "copy"}
    BY <1>a, <2>2, OnlyHolder
  <2>8. StartupTypes'
    BY <1>a, <2>1, <2>2, <2>3, <2>4, <2>5 DEF StartupTypes
  <2>9. Exclusion'
    BY <1>a, <2>2, <2>3, <2>4, <2>5, <2>7 DEF Exclusion
  <2>10. Checked'
    BY <1>a, <2>2, <2>3, <2>4, <2>5, <2>7, <2>6 DEF Checked, StartupTypes
  <2>11. Granted' /\ Flagged'
    BY <1>a, <2>1, <2>2, <2>3, <2>4, <2>5, <2>6 DEF StartupTypes, Exclusion, Checked, Granted,
         Flagged
  <2>12. Observed'
    BY <1>a, <2>1, <2>2, <2>3, <2>4, <2>5, <2>6 DEF StartupTypes, Exclusion, Checked, Granted,
         Flagged, Observed
  <2> QED
    BY <2>8, <2>9, <2>10, <2>11, <2>12 DEF StartupInv
<1>6. ASSUME NEW t \in Threads, SizeReturns(t) PROVE StartupInv'
  <2>1. PICK n : n = at[t].size
    OBVIOUS
  <2>2. PICK w : w = [at[t] EXCEPT !.pc = "copy"]
    OBVIOUS
  <2>3. at[t].pc = "copy" /\ Moves(t, Out)
    BY <1>6 DEF SizeReturns
  <2>4. n \in Sizes /\ at[t].late \in BOOLEAN
    BY <1>a, <2>1, <2>2, <2>3, NextPlace DEF Sizing
  <2>5. /\ at' \in [Threads -> StartupPlaces] /\ \A u \in Threads \ {t} : at'[u] = at[u]
        /\ at'[t].pc = "out"
    BY <1>a, <2>3, MoveTypes, OutPlace
  <2>6. /\ poolSize' = (IF provider = "stdexec" THEN n ELSE poolSize)
        /\ locked' = FALSE /\ honoured' = honoured \cup {n}
        /\ early' = (IF pool = "none" /\ ~started THEN early \cup {n} ELSE early)
        /\ late' = (late \/ at[t].late)
    BY <1>6, <2>1 DEF SizeReturns
  <2>7. UNCHANGED <<provider, gThreads, started, readSize, pool, built>>
    BY <1>6 DEF SizeReturns
  <2>8. StartupTypes'
    BY <1>a, <2>1, <2>2, <2>3, <2>4, <2>5, <2>6, <2>7 DEF StartupTypes
  <2>9. Exclusion' /\ Checked'
    BY <1>a, <2>1, <2>2, <2>3, <2>4, <2>5, <2>6, <2>7 DEF StartupTypes, Exclusion, Checked
  <2>10. Granted' /\ Flagged'
    BY <1>a, <2>1, <2>2, <2>3, <2>4, <2>5, <2>6, <2>7 DEF StartupTypes, Exclusion, Checked,
         Granted, Flagged
  <2>11. Observed'
    BY <1>a, <2>1, <2>2, <2>3, <2>4, <2>5, <2>6, <2>7 DEF StartupTypes, Exclusion, Checked,
         Granted, Flagged, Observed
  <2> QED
    BY <2>8, <2>9, <2>10, <2>11 DEF StartupInv
<1>7. ASSUME NEW t \in Threads, CallUse(t) PROVE StartupInv'
  <2>1. PICK w : w = [pc |-> "use"]
    OBVIOUS
  <2>2. w \in StartupPlaces /\ w.pc = "use"
    BY <2>1, UsePlace DEF Using
  <2>3. /\ at' \in [Threads -> StartupPlaces] /\ \A u \in Threads \ {t} : at'[u] = at[u]
        /\ at'[t] = w /\ at[t].pc = "out"
    BY <1>7, <1>a, <2>1, <2>2, MoveTypes DEF CallUse, Enter
  <2>4. UNCHANGED <<provider, locked, gThreads, poolSize, started, readSize, pool,
       built, early, honoured, late>>
    BY <1>7 DEF CallUse
  <2>5. StartupTypes'
    BY <1>a, <2>1, <2>2, <2>3, <2>4 DEF StartupTypes
  <2>6. Exclusion' /\ Checked'
    BY <1>a, <2>1, <2>2, <2>3, <2>4 DEF StartupTypes, Exclusion, Checked
  <2>7. Granted' /\ Flagged'
    BY <1>a, <2>1, <2>2, <2>3, <2>4 DEF StartupTypes, Exclusion, Checked, Granted, Flagged
  <2>8. Observed'
    BY <1>a, <2>1, <2>2, <2>3, <2>4 DEF StartupTypes, Exclusion, Checked, Granted, Flagged,
         Observed
  <2> QED
    BY <2>5, <2>6, <2>7, <2>8 DEF StartupInv
<1>8. ASSUME NEW t \in Threads, Construct(t) PROVE StartupInv'
  <2>1. PICK p \in {"read", "flag"} :
        /\ provider = "beman" <=> p = "read"
        /\ Moves(t, [pc |-> p])
    BY <1>8, <1>a DEF Construct
  <2>2. PICK w : w = [pc |-> p]
    OBVIOUS
  <2>3. w \in StartupPlaces /\ w.pc = p
    BY <2>2, UsePlace DEF Using
  <2>4. /\ at' \in [Threads -> StartupPlaces] /\ \A u \in Threads \ {t} : at'[u] = at[u]
        /\ at'[t] = w /\ at[t].pc = "use"
    BY <1>8, <1>a, <2>1, <2>2, <2>3, MoveTypes DEF Construct
  <2>5. pool = "none" /\ pool' = "constructing" /\ UNCHANGED <<provider, locked,
       gThreads, poolSize, started, readSize, built, early, honoured, late>>
    BY <1>8 DEF Construct
  <2>6. StartupTypes'
    BY <1>a, <2>1, <2>2, <2>3, <2>4, <2>5 DEF StartupTypes
  <2>7. Exclusion' /\ Checked'
    BY <1>a, <2>1, <2>2, <2>3, <2>4, <2>5 DEF StartupTypes, Exclusion, Checked
  <2>8. Granted' /\ Flagged'
    BY <1>a, <2>1, <2>2, <2>3, <2>4, <2>5 DEF StartupTypes, Exclusion, Checked, Granted,
         Flagged
  <2>9. Observed'
    BY <1>a, <2>1, <2>2, <2>3, <2>4, <2>5 DEF StartupTypes, Exclusion, Checked, Granted,
         Flagged, Observed
  <2> QED
    BY <2>6, <2>7, <2>8, <2>9 DEF StartupInv
<1>9. ASSUME NEW t \in Threads, ReadSize(t) PROVE StartupInv'
  <2>1. PICK p \in {"build", "flag"} :
        /\ provider = "beman" <=> p = "flag"
        /\ Moves(t, [pc |-> p])
    BY <1>9, <1>a DEF ReadSize
  <2>2. PICK w : w = [pc |-> p]
    OBVIOUS
  <2>3. w \in StartupPlaces /\ w.pc = p
    BY <2>2, UsePlace DEF Using
  <2>4. /\ at' \in [Threads -> StartupPlaces] /\ \A u \in Threads \ {t} : at'[u] = at[u]
        /\ at'[t] = w /\ at[t].pc = "read"
    BY <1>9, <1>a, <2>1, <2>2, <2>3, MoveTypes DEF ReadSize
  <2>5. /\ readSize' = (IF provider = "beman" THEN gThreads ELSE poolSize)
        /\ UNCHANGED <<provider, locked, gThreads, poolSize, started, pool, built,
             early, honoured, late>>
    BY <1>9 DEF ReadSize
  <2>6. StartupTypes'
    BY <1>a, <2>1, <2>2, <2>3, <2>4, <2>5 DEF StartupTypes
  <2>7. Exclusion' /\ Checked'
    BY <1>a, <2>1, <2>2, <2>3, <2>4, <2>5 DEF StartupTypes, Exclusion, Checked
  <2>8. Granted' /\ Flagged'
    BY <1>a, <2>1, <2>2, <2>3, <2>4, <2>5 DEF StartupTypes, Exclusion, Checked, Granted,
         Flagged
  <2>9. Observed'
    BY <1>a, <2>1, <2>2, <2>3, <2>4, <2>5 DEF StartupTypes, Exclusion, Checked, Granted,
         Flagged, Observed
  <2> QED
    BY <2>6, <2>7, <2>8, <2>9 DEF StartupInv
<1>10. ASSUME NEW t \in Threads, StoreFlag(t) PROVE StartupInv'
  <2>1. PICK p \in {"build", "read"} :
        /\ provider = "beman" <=> p = "build"
        /\ Moves(t, [pc |-> p])
    BY <1>10, <1>a DEF StoreFlag
  <2>2. PICK w : w = [pc |-> p]
    OBVIOUS
  <2>3. w \in StartupPlaces /\ w.pc = p
    BY <2>2, UsePlace DEF Using
  <2>4. /\ at' \in [Threads -> StartupPlaces] /\ \A u \in Threads \ {t} : at'[u] = at[u]
        /\ at'[t] = w /\ at[t].pc = "flag"
    BY <1>10, <1>a, <2>1, <2>2, <2>3, MoveTypes DEF StoreFlag
  <2>5. started' = TRUE /\ UNCHANGED <<provider, locked, gThreads, poolSize,
       readSize, pool, built, early, honoured, late>>
    BY <1>10 DEF StoreFlag, SetsFlag
  <2>6. StartupTypes'
    BY <1>a, <2>1, <2>2, <2>3, <2>4, <2>5 DEF StartupTypes
  <2>7. Exclusion' /\ Checked'
    BY <1>a, <2>1, <2>2, <2>3, <2>4, <2>5 DEF StartupTypes, Exclusion, Checked
  <2>8. Granted' /\ Flagged'
    BY <1>a, <2>1, <2>2, <2>3, <2>4, <2>5 DEF StartupTypes, Exclusion, Checked, Granted,
         Flagged
  <2>9. Observed'
    BY <1>a, <2>1, <2>2, <2>3, <2>4, <2>5 DEF StartupTypes, Exclusion, Checked, Granted,
         Flagged, Observed
  <2> QED
    BY <2>6, <2>7, <2>8, <2>9 DEF StartupInv
<1>11. ASSUME NEW t \in Threads, Build(t) PROVE StartupInv'
  <2>1. /\ at' \in [Threads -> StartupPlaces] /\ \A u \in Threads \ {t} : at'[u] = at[u]
        /\ at'[t].pc = "out" /\ at[t].pc = "build"
    BY <1>11, <1>a, MoveTypes, OutPlace DEF Build
  <2>2. /\ \/ pool' = "built" /\ built' = (IF readSize = 0 THEN Cores ELSE readSize)
           \/ pool' = "none" /\ built' = built
        /\ UNCHANGED <<provider, locked, gThreads, poolSize, started, readSize,
             early, honoured, late>>
    BY <1>11 DEF Build
  <2>3. 0 \notin Sizes
    BY StartupAssumption
  <2>4. StartupTypes'
    BY <1>a, <2>1, <2>2, <2>3 DEF StartupTypes
  <2>5. Exclusion' /\ Checked'
    BY <1>a, <2>1, <2>2, <2>3 DEF StartupTypes, Exclusion, Checked
  <2>6. Granted' /\ Flagged'
    BY <1>a, <2>1, <2>2, <2>3 DEF StartupTypes, Exclusion, Checked, Granted, Flagged
  <2>7. Observed'
    BY <1>a, <2>1, <2>2, <2>3 DEF StartupTypes, Exclusion, Checked, Granted, Flagged,
         Observed
  <2> QED
    BY <2>4, <2>5, <2>6, <2>7 DEF StartupInv
<1>12. ASSUME NEW t \in Threads, UseBuilt(t) PROVE StartupInv'
  <2>1. /\ at' \in [Threads -> StartupPlaces] /\ \A u \in Threads \ {t} : at'[u] = at[u]
        /\ at'[t].pc = "out" /\ at[t].pc = "use"
    BY <1>12, <1>a, MoveTypes, OutPlace DEF UseBuilt
  <2>2. UNCHANGED <<provider, locked, gThreads, poolSize, started, readSize, pool,
       built, early, honoured, late>>
    BY <1>12 DEF UseBuilt
  <2>3. StartupTypes'
    BY <1>a, <2>1, <2>2 DEF StartupTypes
  <2>4. Exclusion' /\ Checked'
    BY <1>a, <2>1, <2>2 DEF StartupTypes, Exclusion, Checked
  <2>5. Granted' /\ Flagged'
    BY <1>a, <2>1, <2>2 DEF StartupTypes, Exclusion, Checked, Granted, Flagged
  <2>6. Observed'
    BY <1>a, <2>1, <2>2 DEF StartupTypes, Exclusion, Checked, Granted, Flagged, Observed
  <2> QED
    BY <2>3, <2>4, <2>5, <2>6 DEF StartupInv
<1> QED
  BY <1>0, <1>1, <1>2, <1>3, <1>4, <1>5, <1>6, <1>7, <1>8, <1>9, <1>10, <1>11, <1>12
  DEF StartupNext

\* The inductive invariant holds of every history of calls.
THEOREM StartupInvariance == StartupSpec => []StartupInv
BY StartupInitSound, StartupNextSound, PTL DEF StartupSpec

\* The pool has the size that was granted before its first use, however many
\* threads size and use the scheduler, and however often creating it failed.
THEOREM GrantedSizeHonoured == StartupSpec => []SizeHonoured
<1>1. StartupInv => SizeHonoured
  <2> SUFFICES ASSUME StartupInv PROVE SizeHonoured
    OBVIOUS
  <2>1. pool = "built" /\ early # {} => early = {built}
    BY DEF StartupInv, Observed
  <2>2. honoured \subseteq {gThreads}
    BY DEF StartupInv, Granted
  <2>3. Cardinality(honoured) <= 1
    <3>1. IsFiniteSet({gThreads}) /\ Cardinality({gThreads}) = 1
      BY FS_Singleton
    <3> QED
      BY <2>2, <3>1, FS_Subset
  <2> QED
    BY <2>1, <2>3 DEF StartupInv, Flagged, SizeHonoured
<1> QED
  BY <1>1, StartupInvariance, PTL

-----------------------------------------------------------------------------
(* BOTH *)

\* A behaviour of the process-wide scheduler is one of each part.
LEMMA SchedulerIsBoth == SchedulerSpec => Spec /\ StartupSpec
<1>1. SchedulerInit => Init /\ StartupInit
  BY DEF SchedulerInit
<1>2. [SchedulerNext]_schedulerVars => [Next]_vars /\ [StartupNext]_startupVars
  BY DEF SchedulerNext, schedulerVars
<1> QED
  BY <1>1, <1>2, PTL DEF SchedulerSpec, Spec, StartupSpec

\* Whatever the process does with its scheduler: nobody touches a deleted
\* job, the pool is a bulk scheduler, and its size is the one granted.
THEOREM SchedulerIsCorrect ==
  SchedulerSpec => []HoldersLive /\ []SizeHonoured /\ ImplementsBulk
BY SchedulerIsBoth, HoldersStayLive, GrantedSizeHonoured, PoolImplementsBulk
=============================================================================
