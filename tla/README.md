# Verification of blake3pp

TLA+ models of [blake3pp](../src/README.md), checked with TLC, and theorems
about them, checked with TLAPS. Paths below are relative to the repository; the
bare header names (`parallel.hpp`, `parallel_io.hpp`, `detail/...`) are under
`include/blake3pp/`.

blake3pp is a C++ implementation of BLAKE3. Most of what can go wrong in it is
not the compression function, which test vectors pin down, but what is around
it: a tree hasher whose fast paths must agree with the slow one, a parallel
layer that fans subtrees out over a scheduler, an asynchronous file reader and
writer over four operating-system interfaces, a worker pool, a dispatcher that
reads feature bits and runs probing instructions at run time, and two command
line tools over all of it. This project models those.

## 1. The system

### Components

| Component | Code | State it keeps | Operations | What makes it correct |
|---|---|---|---|---|
| window reader | `src/io/engine.hpp` (`reader_engine`), `detail/file_reader.hpp` | pool of window buffers, one `slot` each (window index, length, assigned, started, held), the cursors `next_deliver_` and `next_submit_`, a latch for misuse | constructor, `next()`, `release()`, destructor | windows come in file order with the file's bytes, stay unchanged until released, and calls return |
| buffer writer | `src/io/engine.hpp` (`writer_engine`), `detail/file_writer.hpp` | pool of buffers, `next_slot_`, the owned buffer, `written_` | constructor, `acquire()`, `submit()`, `finish()`, destructor | the file is exactly the bytes submitted, no buffer is refilled under a write |
| io_uring backend | `src/io/uring_backend.hpp` | submission and completion ring, `outstanding_`, per-slot `filled`/`done`, `ready`/`busy` | `start`, `wait`/`wait_slot`, `reap_one`, `drain`, `finish` | the count of requests is exact, no two requests on one slot, buffers outlive requests |
| Grand Central Dispatch backend | `src/io/gcd_backend.hpp` | slots under a lock, condition variable, dispatch group | `start`, worker task, `wait`, destructor | as above, and no lost wake-up |
| completion port backend | `src/io/iocp_backend.hpp` | one `OVERLAPPED` per slot, `outstanding_`, three handles | `engage`, `start`, `reap_one`, `wait`, cancel and drain | as above, and teardown does not depend on the device |
| synchronous backends | `src/io/pread_backend.hpp`, `stdio_backend.hpp`, `posix_file.hpp`, `backend_select.hpp` | one or two handles | constructor, one loop of transfers | whole range or an exception, on a handle that admits the call |
| tree hasher | `src/core/core.hpp`, `src/blake3pp.cpp` | open chunk, stack of chaining values, total | `update`, `push_subtree_cv`, `finalize_xof`, `reset` | the root is that of the BLAKE3 tree however the input was cut |
| subtree reduction | `src/core/subtree.hpp` | a staging buffer, the fold's stack | recursive and folded reduction | both give the reference node within the stated stack |
| kernels | `src/kernel/*` | none (and the process-wide transpose dial) | `hash_many` batches, `xof_many`, round | every lane hashes its own input with its own counter |
| output reader | `src/blake3pp.cpp`, `parallel.hpp` (`fill`) | position, cached block | `seek`, `fill`, scheduler-taking `fill` | the bytes are the stream's at the position; a stopped fill does not move |
| parallel hashing, file hashing | `parallel.hpp`, `parallel_io.hpp`, `src/io_hash.cpp` | window buffer, private chunk counter, table of part chaining values, shared part counter | `hash_into`, `parallel_hasher::update/flush/reset/finalize`, both `update_file` | the digest is the sequential one; a stop leaves a usable prefix |
| sized scheduler | `src/execution/parallel_backend.cpp`, `parallel.hpp` | the size, its mutex and the started flag; queue of job pointers, workers, a reference count per job | `size_parallel_scheduler`, first use, `submit`, `settle`, `run`, completion, destructor | the granted size is the pool's; each index once, one completion each, no use after free |
| dispatch, CPU detection | `src/dispatch/*` | function-local statics, published verdict and table, SIGILL disposition, transpose dial | `resolve`, `run_trap_probes`, `tune_transpose16`, `platform_cpu_supports` per architecture | never a kernel the CPU lacks; the upgrade is seen |
| command line tools | `cli/gen.cpp`, `cli/sum.cpp` | the budget left; operands and lists left, failure count | the pipeline, `run_check`, exit status | the file or pipe is the slice asked for; status 0 is the whole truth |
| helpers | hex and digest helpers, web module, benches, examples, build | - | - | not modelled (section 7) |

### How they interact

`update_file` and `parallel_hasher` call the **reader** for windows (`next`,
`release`) and the **hasher** for everything they do not fan out. Parts of a
window go to a **scheduler** as one bulk operation; each call of the bulk body
pulls part indices from a shared counter, runs the **subtree reduction** on the
kernel that **dispatch** resolved, and writes a chaining value into a table;
the caller then pushes the table into the hasher in order
(`push_subtree_cv`). The **sized scheduler** is one such scheduler. The
generator runs the other direction: a parallel `fill` of an **output reader**
into a buffer from the **writer**'s `acquire()`, then `submit()`. The checksum
tool calls the file front ends, once per operand or per line of a list.

Reader and writer engines own the buffers; the **backends** own the requests
and hold raw pointers into the buffers, which is what teardown must respect. The
engines are single-threaded, the kernel (or the dispatch queue) is the
concurrent party. The scheduler's workers share job objects by raw pointer. The
scheduler's size and the dispatcher's state are process-wide and any thread may
call for them.

### What is hard

* completions out of order, short, failed, or for another slot than the awaited
  one; submissions refused after they were published, or taken in part;
* exceptions in the middle of these and calls repeated after them; teardown with
  requests in flight;
* handles that are refused one after the other while flags, names and later
  calls must follow;
* agents interleaving on the part counter, stops and errors half way;
* two counters that must stay in step (`parallel_hasher`'s and the hasher's),
  a cached block next to a position, a guard that counts queue entries,
  workers and a submitter;
* alignment and "keep one byte in reserve" rules that hold only for particular
  histories;
* publishing a verdict and a table in two stores while others read them, a size
  that is written under a lock and read without it, and a process-wide signal
  handler around single instructions;
* an exit status that is made of failures caught at several places.

`PROJECT.json` lists these as `hazards`, each at its line with the properties
that would catch it. Three have no property, with the reason in their notes.

## 2. The modules

```
WindowStream        what file_reader promises
  UringReader  <- Uring            reader_engine over uring_reader
    UringReaderProofs <- UringProofs
ByteSink            what file_writer promises
  UringWriter  <- Uring            writer_engine over uring_writer
    UringWriterProofs <- UringProofs
SlotContract        what backend.hpp asks of a backend
  Backends <- GcdBackend, IocpBackend <- SlotClient
  IoBackends <- Backends, FileHandles
    BackendsProofs
Blake3              the reference tree and core.hpp, symbolically
  HasherOps -> ParallelHash        the hasher's calls and every front end
  Subtree <- Kernel                subtree.hpp on the kernels
    SubtreeFold
  Hashing <- ParallelHash, SubtreeFold
    HashingProofs
OutputReader        output_reader and the parallel fill
  Generator <- OutputReader, ByteSink   gen.cpp
  Checksum                              sum.cpp
  Tools <- Generator, Checksum
    ToolsProofs
BulkScheduler       what the parallel layer asks of a scheduler
  SizedPool         parallel_backend.cpp: the pool
  ParallelScheduler <- SizedPool, SchedulerStartup
    SchedulerProofs
Detect, Platforms -> Dispatch      cpu_detect_*.cpp, dispatch.cpp, transpose16.cpp
    DispatchProofs
```

`MC*` modules and the `.cfg` files give the constants values. Definitions keep
the names of the code (`RunRead`, `PushSubtreeCV`, `outstanding`). A definition
introduced by a comment "mutant: ..." is a deliberately broken variant; it
is used by no specification. `PROJECT.json` pairs each with the definition it
replaces and the property that then fails, and `map` gives the source lines of
every definition that models code.

Four modules put two models side by side (`IoBackends`, `Hashing`,
`ParallelScheduler`, `Tools`): a behaviour is one of the two, chosen in the
initial state, and the module says what the one takes from the other. The
first three have a variable for the choice (`life`, `layer`, `scene`).

### Abstractions used throughout

* **Data is symbolic.** Compression is an injective function: a chaining value
  is the record of its inputs, so equal digests mean equal trees. A message is
  the units 0, 1, 2, ...; a unit stands for a fixed number of bytes.
  Files hold the number of each unit (`file[i] = i`), so a misplaced transfer
  shows as a wrong number. A byte of an output stream is its block's number and
  its place there.
* **Lengths are scaled.** Blocks, chunks, windows and parts have a few units;
  where alignment matters (direct I/O, subtree placement) the rule is kept and
  the size is a constant. So is the length at which 64 bits wrap (`StreamLen`).
* **A section between two points where another party can act is one step.** For
  the engines that is a whole call up to the point where it waits. For the pool
  and GCD it is a section under the lock, or one atomic operation. For
  dispatch and the scheduler's start-up it is one load or store of shared state.
* **Failures are choices** of the kernel, device, scheduler or allocator, at
  the points where the code handles them.

### Reader (`Uring`, `UringReader`, `WindowStream`)

`Uring` is one ring: `sq` (published, not yet accepted), `flight` (accepted),
`cq` (completed, not reaped) and `outstanding`, the code's count. `Submit`
models `submit_rw`: publish the entry, `io_uring_enter`, count what it says it
took, or throw while the stale entry stays behind and is accepted by a later
call. The kernel completes any request in flight with any number of units up
to its length, end of file, or an error.

`UringReader` adds the engine. `pc` is the call in progress: `ctor`, `idle`,
`wait` (inside `next()`), `drain` (the destructor's), `freed`. The actions are
the constructor's assignments of windows to slots, `next()` in its variants
(latched error, end of file, `EINVAL` with all slots held, synchronous
read of an unaligned tail, wait, deliver), the absorption of one completion
while waiting (short ones resubmitted, those of other slots kept, a failed one
thrown), `release()` with its eager reassignment and its latch, and the
destructor. `got` is what the caller holds. It is the caller's, not the code's.
`broken` records that a read failed, `abandoned` that `drain()` gave up on a
failing wait, as the code allows it to; both serve properties only.

`WindowStream` is the promise: windows delivered one by one, in order, with the
file's bytes, unchanged until released. `ImplementsStream` maps `pool` and `got`
to its `view`.

### Writer (`UringWriter`, `ByteSink`)

The same ring under `writer_engine`. `acquire()` waits for the next slot in
turn; `submit()` starts an asynchronous write, or writes an unaligned tail
synchronously, which ends the stream; `finish()` waits for every slot and trims
the preallocation; the destructor runs `finish()` with the errors swallowed,
then `drain()`. After a `submit()` that threw, the producer goes on with another
`acquire()`; with `Resubmits` it may also repeat the `submit()`.

`ByteSink` is the promise: buffers lent one at a time, a stream that a partial
submit closes, units that reach the file in any order and stay, and a
`finish()` that returns only over a file of exactly the accepted units.
`ImplementsSink` is the refinement. It holds after refused submissions too: units
they left behind may reach the file later, always in their place, and may keep
the file longer than what was accepted, which is all the promise gives up.

### Platform backends (`SlotContract`, `SlotClient`, `GcdBackend`, `IocpBackend`, `Backends`)

`SlotClient` is the most general engine: start on slots it owns, wait for any,
finish, destroy, also after exceptions. `GcdBackend` models tasks that transfer
piecewise, publish under the lock and notify after it, with the mutex and
condition variable atomic per critical section; spurious wake-ups are included
since the waiter merely re-tests. `IocpBackend` models per-slot `OVERLAPPED`s,
completions of any slot absorbed while waiting for one, continuation after a
short transfer, `CancelIoEx` and the drain. `Backends` runs one or the other and
adds the synchronous loop. `stalls` makes the device stop serving (a dead
network file system) and is what separates a drain that cancels (IOCP) from one
that waits (GCD). `fate[s]` records what happened to a slot's latest transfer
and whether a failure was reported.

### File handles (`FileHandles`, `IoBackends`)

The constructors of all five backends, system call by system call, each of
which may be refused: the plain open, the size, the preallocation, the reopen
for direct I/O (a second descriptor on POSIX, a flag of the only one on Darwin,
a handle that may be overlapped as well on Windows), the ring, group or port,
and last the allocation of slots and name. `handles` maps an open handle to what
it demands of its calls; `direct` and `queued` are the flags of the code. Then
any transfers, aligned or not, through `wants_async` and `sync_fd`, the trim and
the destructor.

### Hashing (`Blake3`, `HasherOps`, `Kernel`, `Subtree`, `SubtreeFold`)

`Blake3` holds the chunk state of `core.hpp` and, as reference, the tree of the
BLAKE3 specification (`RootNode`, `SubtreeCV`). `HasherOps` gives an operator
per member function of `hasher`. `update`'s fast path, its one-byte reserve and
its alignment test are modelled as they stand. `SubtreeFold` steps through
`compress_subtree_to_cv_folded` a group at a time, while the transpose dial may
turn between batches; the recursion is evaluated in the initial states. `Kernel`
models what the shuffle networks do to word positions, how batches are cut into
vectors and scalar leftovers, the two-word counters with their carry, and the
two spellings of the round (`round_fn`, `round_fn_staged`) over symbolic words.

### Front ends (`ParallelHash`, `Hashing`)

`ParallelHash` has one caller that uses one of five interfaces: the plain hasher
with `update`, `push_subtree_cv` and `reset` in any order, the sequential
`update_file`, `hash_into`, `parallel_hasher` and the parallel `update_file`.
Agents are the scheduler's calls of the bulk body: each begins, pulls an index,
reduces a part and pulls again. The scheduler may run the calls on any number of
agents, in any order, and complete stopped or with an error at any quiet moment
(`Stopped`); a file read may fail (`ReadFails`). `Hashing` puts it next to
`SubtreeFold`: what the one shows of every subtree is what the other assumes,
and `KernelsReduceParts` states it of the parts themselves.

### Output reader and tools (`OutputReader`, `Generator`, `Checksum`, `Tools`)

`OutputReader` has a caller that seeks and fills, sequentially or in segments
that agents run in any order and a stop cuts short. Requests may cross the end
of the stream, where the position wraps. `Generator` is `gen.cpp` from its two
sizes (`parse_size`, modulo the wrap) to its exit status: seek, then buffers
filled by the output reader and handed to the sink's actions of `ByteSink`, or
to a standard output that may take less. A fill may throw; inside the `try`
block the writer is unwound over what is still in flight. When the writer itself
throws it may leave a slot busy (`stuck`), and then `~file_writer` returns only
if it meets another error before that slot: nothing makes `Unwind` happen, and
`ToolsEnd` claims no end there. `Checksum` is `sum.cpp`: the guard on the key,
the key, operands or lists, and standard input as the one stream that the key, a
list and the name "-" all take from; a key is one unit of it, and `load_key()`
reads at most the unit after it. A digest is the pair of key and content.
`Tools` runs one of the two, or the output reader's other client, any user of the
library.

### Scheduler (`BulkScheduler`, `SizedPool`, `SchedulerStartup`, `ParallelScheduler`)

`SizedPool` models one pool with `schedule`, unchunked and chunked bulk
operations; the guard, the entries and the heap object are explicit, a failed
queue growth is a choice of `submit`, and the stop request may arrive at any
time. `BulkScheduler` is the promise `ParallelHash` relies on (for its value
completions) and `SizedPool` implements. `SchedulerStartup` has the program's
threads call `size_parallel_scheduler()` or use the scheduler: the size and
stdexec's copy of it, the mutex, the flag, and the function-local static that
one thread constructs while others wait and that a failed construction leaves
unconstructed. The two providers read the size and store the flag in opposite
orders; both are modelled.

### Dispatch (`Detect`, `Platforms`, `Dispatch`)

`Detect` is the RISC-V detection ladder as pure operators over a *machine*: its
vector unit (none, RVV 1.0, T-Head 0.7.1), whether it is enabled, its width,
and everything the kernel says or hides. `Plausible` states what the ladder's
comments presuppose of kernels and boards, one line per presupposition; a
machine outside it (a kernel that announces a unit it does not have, a user who
sets the override wrongly) is excluded because the code says it cannot be
caught. `Platforms` has the other architectures: x86 with cpuid's leaves and
what XCR0 says the system saves, AArch64 with SVE's vector length, POWER,
z/Architecture and MIPS with their capability bits, WebAssembly with what the
build has; for each what the code concludes and, next to it, what the silicon
runs. `Dispatch` adds threads that resolve, run the trap probes and tune,
with the statics, the two published pointers and the signal disposition, over
the kernels each build registers in `arch.def`'s order. The guard of a probe may
be refused (`GuardRefused`), which the code takes for a trap. From a trap of the
instruction that reads `vlenb` it concludes something, so that refusal
(`Misread`) is finding 1 and the properties except it by name; from the traps of
the others it concludes nothing. The tuner may get no memory (`FindsKernel`) and
then leaves the dial alone.

## 3. The runs

| Run | Module | States | Asks |
|---|---|---|---|
| `reader` | `MCUringReader` | 158,647 | The reader implements the stream, its bookkeeping is exact, its buffers exclusive, its calls return |
| `writer` | `MCUringWriter` | 218,527 | The writer implements the sink, buffers are not reused early, calls return |
| `backends` | `IoBackends` | 104,298 | GCD, IOCP and synchronous transfers are exact, failures surface, nothing outlives, waits and drains end; every call has a handle that admits it |
| `hashing` | `MCHashing` | 93,859 | Fold = recursion = reference on every width and network; every front end = the reference root, a prefix after a stop |
| `tools` | `MCTools` | 67,269 | The slice asked for, verdicts that are true, the stream's bytes, and an end (but over a slot left busy) |
| `pool` | `MCScheduler` | 114,798 | The granted size; jobs complete once, nothing touches a freed job, the pool stops |
| `dispatch` | `MCDispatch` | 2,331,927 | Never a missing instruction (but after a refused `vlenb` probe), the upgrade is seen, signals and tuners scoped |
| `dispatch_refused` | `MCDispatch` | violation | After a refused guard no call gets a kernel the CPU lacks (one does) |
| `reader_retry` | `MCUringReader` | violation | `next()` returns also after it threw a read error (it does not) |
| `writer_teardown` | `MCUringWriter` | violation | The destructor returns also after a failed write (it does not) |
| `writer_resubmit` | `MCUringWriter` | violation | A repeated `submit()` puts the bytes in place (it does not) |
| `tools_unread_list` | `MCTools` | violation | A list that could not be read is not reported as verified (it is) |

### Bounds, and why they are enough

* **reader, writer**: three slots, so that while one is awaited or held another
  may complete first and a third be recycled. Windows of two units: a transfer
  may be short once. Files of 0, 1, 7 and 8 units: empty, one unaligned
  window, an unaligned tail after full windows, and exact; four windows over
  three slots recycle one. Streams up to seven units for the writer; a
  preallocation of 0 or 4 that is undercut, met and exceeded. The runs that end
  in a violation use two or three slots.
* **backends**: two slots, two units each, three transfers in all, so one slot
  is used again after the other's transfer overtook it, and after failure. The
  handles' half is finite: every platform, every combination of options, every
  refusal.
* **hashing**: chunks of four units in two blocks. The plain hasher takes
  messages up to 100 units = 25 chunks, cut at the lengths of `Inputs`: stacks
  of up to four entries, every residue of a chunk, aligned subtrees of up to 16
  chunks. The parallel front ends have three agents, windows of four chunks,
  stack budgets of two and three (fewer than the smallest parts would need) and
  eight (more), inputs just below, at and above one, two and three windows, 50
  units in all. Subtrees of up to 64 chunks, so that the group of 16 lanes is
  carried twice, with a stack of six values, the fewest its comment allows;
  counters with 16 values per word, so that batches of every
  width cross the carry; every dial position at every batch.
* **tools**: blocks of four bytes, requests up to eleven: partial head, whole
  blocks and partial tail; segments that are and are not aligned; a stream of
  24 bytes, so that fills and sizes cross its end. The generator's buffers hold
  eight, its lengths are nothing, less than a buffer, several, a suffix that
  wraps, one that does not exist, and endless. Two files, six lists (true, wrong, naming a missing
  file, malformed, naming "-", made with a key), and operands in orders in which
  "-" comes first, last and twice, also through a list that names it. Where the
  key is read from standard input, that is a key, a key and a line ending, or
  these and more.
* **pool**: two workers, two operations, up to three indices: the worker that
  finishes first, the one that finishes last, and work left for neither. In a
  start-up two threads with two calls each and two sizes, of which neither is
  the machine's.
* **dispatch**: two threads with two calls each, one SIGILL of another origin,
  all 204 plausible RISC-V machines, every x86, AArch64, POWER, z/Architecture
  and MIPS machine the operators tell apart; a build per architecture with one
  kernel left out on RISC-V and on AArch64, and requests for kernels that are
  and are not compiled in; any guard may be refused. `dispatch_refused` needs one
  thread and no foreign SIGILL. `rvv256` is left out: the ladder treats widths
  alike. Threads are interchangeable, so symmetry is used; the run has no
  liveness property.

### Fairness

* The kernel serves every accepted request (weak fairness per slot), completing
  with data, end of file or an error. It owes nothing to an entry that was
  published but not accepted.
* A thread inside a call that can take a step takes it: `Wait` for the reader,
  `InCall` for the writer, the caller's and the workers' steps in the pool.
  These are ordinary threads of a preemptive system; weak fairness suffices,
  since each has its own thread and needs no repeated luck.
* `Drain \/ FreePool`: the destructor runs to its end once entered. Nothing
  forces a caller to enter it, call `next()` or release anything.
* GCD gives every task a thread of its pool; a device that does not stall
  completes transfers; one that does completes only what was cancelled.
* A tool is a running process: its own thread, the pool's threads it waits for
  and the device under its writer go on. Of an endless stream no end is claimed,
  and no step out of a destructor that waits for a slot left busy.
* No fairness is assumed of the scheduler in `ParallelHash`, of callers
  anywhere, of the scheduler's start-up, of the handles, or of dispatch.

`CHECK_DEADLOCK FALSE` stands where the program may stop: a destroyed
object, a finished set of operations, threads that used their calls, a tool
that has exited, and the blocked waits of section 5.

## 4. What is proved

Every safety property that a run checks is a theorem, for every value of the
constants; so are the four refinements. What is left to TLC alone is liveness.
The run shows it on a small instance, and that the property can be broken; the
proof shows that no bound hid anything. TLC found each inductive invariant true
in the instance of its run before it was proved (unbounded quantifiers bounded).

| Module | Theorems | For every |
|---|---|---|
| `UringReaderProofs` | `TypeCorrect`, `RingIsSound`, `ExclusiveBuffers`, `WantedWindowHasSlot`, `AwaitedReadIsPending`, `PoolOutlives`, `BuffersAreTrue`, `ReaderImplementsStream` | queue depth, window size, alignment, set of file sizes |
| `UringWriterProofs` | `TypeCorrect`, `BufferStaysExclusive`, `PoolOutlives`, `PlacedWithoutResubmits`, `WriterImplementsSink` | queue depth, window size, alignment, length, preallocation; no repeated `submit()` |
| `BackendsProofs` | `TransfersAreExact`, `FailuresAreTold`, `NothingOutlives`, `BackendsImplementContract`, `CallsHaveTheirHandles`, `BackendsAreSafe` | number of slots and transfers, length, and history of refusals |
| `SchedulerProofs` | `TypeCorrect`, `HoldersStayLive`, `PoolImplementsBulk`, `GrantedSizeHonoured`, `SchedulerIsCorrect` | number of workers, operations, indices, threads, calls; sizes |
| `DispatchProofs` | `ResolvesToRunnable`, `UpgradeReachesCalls`, `HandlerIsScoped`, `TunersDoNotMix` | number of threads and calls, build, request |
| `ToolsProofs` | `StreamIsServed`, `SliceIsEmitted`, `StatusIsTrue` | block, stream, segment and buffer size, argument, set of files, lists and commands |
| `HashingProofs` | `DigestStaysReference`, `CountersStayInAgreement`, `PushesStaySound`, `FoldStackBounded`, `FoldedStaysReference`, `RecursionStaysReference`, `KernelsStayInAgreement`, `PartsStayReduced`, `HashingIsSound` | block, chunk, window, part, budget, input, number of agents; kernel, dial, subtree, stack, counter word |

Where a run's specification puts two models side by side, a theorem of its
module says that the composition implements both (`LayersImplementEach`,
`LivesImplementEach`, `SchedulerIsCorrect`), and the results carry over.

### From which assumptions

Those of the modules, each justified by the code: `QD >= 2` and positive sizes
(the engines raise smaller options); finite,
non-empty sets of workers and agents; natural lengths; a registry with the
portable kernel in every build; a stream length that is a multiple of the block;
windows and parts that are powers of two, a window of at least two parts (64
chunks against 16) and a budget of two parts or more; a fold's stack with the
levels of the largest subtree, whose chunks a counter of two words can number
(`CounterAssumption`: the code's counters are 64-bit, split in two 32-bit words
for the lanes), and so it can the chunks of a message (`MessageAssumption`). `HeightAssumption` keeps messages below 2^20
chunks, because `TrailingZeros` and `IsPow2` are defined up to that height: the
one bound of the model that its theorems share.

The writer's theorems assume `~Resubmits`, a producer that does not `submit()` a
buffer again for which an asynchronous `submit()` threw. The assumption is
needed, not convenient: with the repetition a slot has two requests,
`OneRequestPerSlot` is lost, and run `writer_resubmit` shows what follows
(finding 4). Every other history of refusals and failures is included.

### Along which argument

None of the properties is inductive as it stands. Each module names the parts of
its invariant; a step is one lemma per action, and under it one step per part
that the action can disturb.

* **Reader.** `BufferExclusive` needs that a request's slot is not held, which
  needs that a slot is reassigned only by `release()`, which needs that slots
  and windows correspond one to one. `IInv` has `RingInv` (counts exact, one
  request per slot; preserved by every operation of `Uring` whatever the
  requests look like, the lemmas of `UringProofs`), `Requests` (a pending
  request asks for exactly what its slot's window misses), `Cursors` (windows
  `next_deliver .. next_submit - 1` are spread over the slots, one each),
  `Eager` (a slot is idle only when no window is left), `Calls`, `Live` and
  `Quiet`. The refinement adds `SInv`: what a buffer says it holds are the
  units of its window.
* **Writer.** The same ring; `Buffers` ties the units in each buffer, and in the
  one that is lent, to the write they stand for, and `Disk` says that an
  accepted unit is in its place or still awaited by a busy slot. A refused
  `submit()` may have written past what was accepted, by one buffer at most.
* **Backends.** A transfer is where its slot is filled to, in the worker, the
  request or the completion that carries it (`GcdInv`, `IocpInv`), and a failure
  is either to be told or was told (`fate`). `Counted` makes the port's count
  exact, which is why the drain ends on an empty set. The abstract contract sees
  only whether a slot's transfer is pending, failed, or given back.
* **Handles.** A flag is set together with the handle it is about (`FlagsFit`),
  through every refusal; then the choice of a handle per call is a case split.
* **Pool.** The guard counts the queue entries, the workers inside and the
  submitter's share (`Counted`); so the one who brings it to zero is alone
  (`CompletesOnce`), and while chunks are left somebody will come for them
  (`Attended`). An index has run when its chunk was handed out and is in nobody's
  hands (`Ran`), which is what refines `BulkScheduler`.
* **Start-up.** `Granted` and `Checked`: between a thread's comparison and its
  store nobody else holds the lock; `Flagged`: the flag is up before the pool
  is, in either provider's order; `Observed`: a size granted early is the one the
  constructor reads.
* **Dispatch.** `LadderInv` follows the probes' ladder on every plausible machine
  of every architecture, and what each answer may be where a guard was refused:
  a refusal ends the ladder with nothing learned (`RefusalEndsLadder`,
  `Unlearned`) unless it is that of `vlenb`, after which only the T-Head kernel
  may be wrong (`Admits`). `PublishInv` orders the two stores, `BaseInv` says the
  base table holds only what runs. The rest is the handler's and the tuner's
  windows.
* **Output reader and generator.** `Written` speaks of every byte of a buffer,
  `Parallel` of the segments that have not run; the generator adds that what was
  emitted and what is left make the length, and where the reader stands between
  two buffers.
* **Checksum.** What was printed, or found true, of the operands before `pending`
  (`Hashed`, `Listed`), with the part of a list that was looked at, and who took
  standard input (`Untouched`).
* **Hashing.** The counters agree because whatever is fanned out is a multiple of
  a part at a multiple of that part: `ParallelInv` keeps the hasher at multiples
  of the window and input in the buffer, `UpdateFileInv` the same of what was
  read, `JobFits` and `WholeWindow` of the job at hand, `OpenTail` that an open
  chunk is left where `finalize` may come. The stack has an entry per one bit of
  the chunk counter (`Sound`); that `push_cv()`'s merge loop finds its operands
  then is lemma `Merges`: `n` has one bit more than `n - 1`, less the zeros that
  `n` ends in. What `update()` does to a chunk is proved of the
  recursive functions of `HasherOps` by induction over a set of naturals: each
  is a function on `0 .. n`, and its values keep `Sound`.
* **Digest.** `DigestInv`: the open chunk holds the units that follow the last
  chunk boundary, chained block by block (`ChunkTrue`); the stack holds the
  message's complete subtrees, each ending where the next begins and its start a
  multiple of twice its size, as the greedy decomposition of the counter has it
  (`Standing`, `Entry`, `StackTrue`); and while a job runs (`TableInv`), it lies
  where the hasher stands, every part that was taken is in the table with its
  subtree's value or with the agent that took it, and as long as parts are left
  there is somebody to take them. The merges of `push_cv()` are those of two
  halves of an aligned subtree (`MergeStep`, `CollapseMerges`); with every call
  returned the table is complete (`JoinedTable`), and the pushes of `Join`
  continue the message. At the end `finalize_xof()` folds the stack from its top
  onto the open chunk: each entry and what was folded so far are the two sides
  that `left_len()` gives a node of the reference (`RootStep`), because what is
  left of the message after an entry is shorter than that entry's lowest bit
  (`Slack`). So the root is the sequential one (`FinalIsRoot`), whatever the
  interleaving, the sizes and the places where a scheduler stopped.
* **Fold.** The stack has an entry per one bit of the number of groups
  (`FoldInv`), and a number with `k` one bits is at least `2^k - 1` (`FewOnes`),
  so it stays within `log2(num_chunks / group) + 1`.
* **Kernels.** A shuffle takes word `i` from one of two sources; composed, the
  stages exchange two bits of a place at a time (`InlaneAt`, `GroupAt`,
  `HalfAt`), so the networks transpose at every width (`NetTransposes`), vectors
  are loaded and blocks stored in place (`LoadsInPlace`, `StoresInPlace`), and
  `hash_many()` and `xof_many()` give every input and block its own counter, also
  past the carry of the low word (`LanesCount`, `HashManyIs`, `XofManyIs`). The
  staged rounds are the plain ones because four quartets share no word: both
  turn every quartet by the same quarter round (`RoundsAreAlike`). This holds of
  the seven schedules without looking at their entries.
* **Recursion and fold values.** A list of chaining values is a `Row` of
  neighbouring subtrees of one size; a generation of parents makes of it the row
  of twice the size (`ParentsOfRow`), so any number of them ends in the subtree
  (`ReduceIs`), and `compress_subtree_wide()` gives a row whatever the width of
  the kernel at the leaves (`WideIs`). The fold's stack satisfies the `StackTrue`
  of the hasher's stack, with the counter the subtree starts from as origin
  (`FoldTrueInv`); a group merged in is one step of the same argument
  (`StackGrows`), and when all is folded a power of two of groups leaves one
  entry (`OneEntry`).
* **The seam.** `ParallelHash` takes a part's value as `SubtreeCV`.
  `KernelsReduceParts` says that the recursion gives it, on every kernel and with
  the dial anywhere, from the part's data and counter as `for_each_part()` hands
  them out. A part's counter fits two words because the job lies within what
  is absorbed and left, and that within the message (`Bounded`, `JobCounters`).
  With it and the digest's invariant, no step between the words of a block and
  `finalize_xof()` is taken from a definition of what it should compute.
  `PartsStayReduced` is a theorem only: no run lists `KernelsReduceParts`.

### What the proofs changed

Two properties were not what they seemed. `BytesAreTheStreams` excepted whole
requests that cross the end of the stream; the generator's buffers may be cut
there by a short write, so the exception is now per byte, and `SliceExact`
follows it. `VerdictsRight` claimed every line of a list on standard input, also
of one whose lines a "-" named earlier had read as data; the run had no such
command, has them now, and the property makes no claim about those lines. Four
modules state assumptions they had relied on silently (`SlotsAssumption`,
`ThreadsAssumption`, `CommandsAssumption`, `StackAssumption`), and
`PartsAssumption` and `TextsAssumption` say more.

### What is only model-checked

* **Liveness** (`NextReturns`, `DrainEnds`, `CallsReturn`, `WaitsReturn`,
  `OperationsComplete`, `PoolStops`, `ToolsEnd`): the provers do not reason about
  fairness and ENABLED. `AwaitedReadPending` and `Attended` are the safety halves
  of the reader's and the pool's.
* **The word operations themselves** (addition, exclusive or, rotation) and the
  byte order are symbolic: `RoundsAgree` is about which word meets which.

## 5. Findings

1. **A probe that could not be guarded counts as one that trapped**
   (`dispatch_refused`). Where `sigaction()` fails `guarded()` returns false to
   "claim nothing" (`cpu_detect_riscv.cpp:200`), and `guarded_vlenb()` makes of it
   the 0 that line 395 takes for the draft 0.7.1 dialect: a board with RVV 1.0,
   under a kernel that says only V, gets the T-Head kernel, whose instructions it
   does not have. The refusal of any other guard is safe. `sigaction()` does not
   fail for SIGILL on a plain Linux kernel; a seccomp policy can make it.
2. **`next()` blocks after a failed read** (`reader_retry`). The backend's
   `wait()` throws and leaves the slot not ready with nothing in flight; the
   engine does not latch read failures, so a second `next()` waits for a
   completion that cannot come.
3. **The writer's destructor blocks after a failed write** (`writer_teardown`).
   `reap_one()` throws and leaves the slot busy with nothing in flight;
   `finish()` in the destructor waits for it for ever. The generator then never
   reaches its `return` at `gen.cpp:228-231`.
4. **A repeated `submit()` breaks slot exclusivity** (`writer_resubmit`).
   `submit()` throws when `io_uring_enter` fails, with the entry published and
   the buffer still the caller's. Submitting it again puts a second request on
   the slot. When the second completes the buffer is lent again, while the first
   has yet to be read from it: later bytes reach an earlier offset.
5. **A list that cannot be read is verified** (`tools_unread_list`). The loop of
   `run_check()` takes a failed `std::getline` for the end of the list. A list
   whose read fails half way, or a directory in its place, ends in status 0;
   `tool_common.hpp:100-102` says 1.

By reading, the completion-port backend has the shape of 2 and 3 as well
(`WaitsReturn` excludes it there); Grand Central Dispatch has not,
which `WaitsReturn` checks. Also by reading: `release()` tests only `held` of the
slot, so a window released again after its slot was recycled and delivered is
taken for the later window's release and nothing is latched, where the comment at
`engine.hpp:123-125` says one released twice is; 64 hex characters, four blanks
and anything more are a key on standard input, where the comment at
`sum.cpp:89-90` says that anything longer fails; `stdio_reader` loses its stream
when its constructor throws after the open (`stdio_backend.hpp:59`), the only
exception of `HandlesFit`; and a fill that throws while the generator writes to
standard output is caught by nobody (`gen.cpp:239`), which the model reaches as
an abnormal exit.

## 6. Assumptions about what is outside

The kernel's ring, dispatch queues, completion ports, mutexes, condition
variables, `std::jthread` and the scheduler's queue are modelled from how the
code uses them. Atomics of the dispatcher and of the scheduler's size are
sequentially consistent in the model; the dispatcher publishes with release and
reads with acquire, and each published object is immutable. The transpose dial
is relaxed, and every value of it is right at every time (`hashing`); tuners are
ordered by their lock. Allocation fails only where the code handles it. A
standard output that takes less than it was given is a closed pipe, which the
generator by intent does not report.

## 7. Not modelled, and why

* Rounding of reader and writer options, backend names, error texts, option
  parsing other than sizes: no effect on control.
* The branch of `hash_window_parallel` for windows too small to fan out:
  unreachable, since a window is at least 64 chunks, a part 16 and a budget two
  parts.
* The bytes an output reader gives beyond the wrap of its position, where the
  wide and the single-block path number blocks differently. A request across
  the wrap is in the model, its bytes before the wrap and the reader's state
  after it are checked and proved; nothing is said of the bytes after it.
* A byte of standard input that a "-" among the operands or in an earlier list
  took as data before a list was read from it: `VerdictsRight` makes no claim
  about such a line.
* What a size past 64 bits should mean: `parse_size` wraps, in the model as in
  the code, and `SliceExact` leaves such sizes out.
* The rest of a direct transfer that ended short: it stays on its descriptor,
  which refuses an unaligned rest. File systems end direct transfers at block
  boundaries.
* A call to `size_parallel_scheduler()` during the first use: whether it is in
  time is not promised either way.
* Another thread's SIGILL inside the probe's window is modelled, its
  consequence (the probe's own trap meets the application's handler) is reached
  as `lost` and excluded by `SignalScoped`: the header asks callers to run
  the probes where SIGILL is left alone.
* A caller that releases what it no longer holds, other than a slot nobody holds.
* `set_transpose16()` of other threads while a tuner runs: its measurement would
  be of another mode than it thinks. `tune_guard` does not claim to exclude it.
* What an entry that names "-" in a list should have for a digest: its content is
  whatever is left of standard input, and `VerdictsRight` accepts any. Nor does
  it claim anything of the lines that a list cut short does not have (finding 5).
* That an error of a queued transfer is not reported a second time, or to the
  wait for another slot: `FailuresSurface` and the contract ask that it is told.
* A thread whose SVE vector length differs from the one detection saw
  (`cpu_detect_arm.cpp`): machines have one length.
* SIMD wrappers, the words inside the compression function, hex helpers: pure
  code, which the repository's test vectors cover. The web module, benches,
  examples and build files call what is modelled and keep no state.

## 8. Plan

Done: the reader and the writer with their refinements, all backends from their
handles to their teardown, hashing from the kernels to every front end, the
output reader, both tools, the scheduler from its start-up to its end, dispatch
on every architecture; and the proofs of section 4.

Left:

1. the scheduler steps of `ParallelHash` as an instance of `BulkScheduler`, so
   that `PoolImplementsBulk` applies to them;
2. `parallel_hasher` over a composed reader and pool in place of the abstract
   scheduler, if its states stay within reach.
