----------------------------- MODULE Generator -----------------------------
(***************************************************************************)
(* blake3ppgen (src/cli/gen.cpp): the slice of an output stream that the   *)
(* options ask for, filled sequentially or over a pool of threads, into a  *)
(* file_writer or to standard output.  A second client of the output       *)
(* reader is any other user of the library, who calls it at will.          *)
(*                                                                         *)
(* The stream's bytes are OutputReader's; the file is ByteSink's, whose    *)
(* unit i is the i-th byte that was submitted.                             *)
(***************************************************************************)
EXTENDS OutputReader, ByteSink

CONSTANTS
  Texts,       \* the arguments of --length and --seek considered
  Multiplier,  \* the factor of each unit suffix
  SegmentBytes \* bytes per task of a parallel fill

ASSUME TextsAssumption ==
  /\ Texts \subseteq [base : 0 .. StreamLen - 1, unit : {"", "K", "X", "inf"}]
  /\ \A unit \in DOMAIN Multiplier : Multiplier[unit] \in Nat
  /\ SegmentBytes \in Nat /\ Capacity \in Nat \ {0}

VARIABLES
  client,    \* "library", "blake3ppgen", or "none" when another tool runs
  options,   \* the tool's arguments
  phase,     \* where the tool is
  left,      \* budget::left_
  emitted,   \* the bytes given to the sink
  torn,      \* standard output took less than it was given
  stuck,     \* the writer failed, and waits for a slot that is never free again
  status     \* the exit status

toolVars == <<client, options>>
generatorVars == <<vars, sinkVars, toolVars, phase, left, emitted, torn, stuck, status>>

Unbounded == -1
Running == -1
Terminated == 134

-----------------------------------------------------------------------------
(* parse_size() and budget *)

Malformed(text) == text.unit \notin DOMAIN Multiplier \cup {"inf"}

\* base * multiplier, in 64 bits
SizeOf(text) ==
  IF text.unit = "inf" THEN Unbounded
  ELSE (text.base * Multiplier[text.unit]) % StreamLen

Exhausted == left = 0

Take == IF left = Unbounded THEN Capacity ELSE Smaller(left, Capacity)

\* mutant: nothing is taken off the budget
ConsumeNothing == left

Consumed == IF left = Unbounded THEN left ELSE left - Take

-----------------------------------------------------------------------------
Options == [length : Texts, seek : Texts, parallel : BOOLEAN, sink : {"file", "stdout"}]

GeneratorInit ==
  /\ Init /\ SinkInit
  /\ options \in IF client = "blake3ppgen" THEN Options ELSE {CHOOSE o \in Options : TRUE}
  /\ phase = "options"
  /\ left = 0
  /\ emitted = << >>
  /\ torn = FALSE
  /\ stuck = FALSE
  /\ status = Running

Exit(code) == phase' = "exit" /\ status' = code

\* An exception reaches the handler around the writer, whose destructor runs.
Unwinds == phase' = "unwind" /\ UNCHANGED status

\* The writer's own may leave a slot busy whose write is no longer under way.
WriterThrows == Unwinds /\ stuck' \in BOOLEAN

ToFile == options.sink = "file"

-----------------------------------------------------------------------------
(* Before the first byte *)

Usable ==
  /\ ~Malformed(options.length) /\ ~Malformed(options.seek)
  /\ SizeOf(options.seek) # Unbounded

ReadOptions ==
  /\ phase = "options"
  /\ \/ /\ ~Usable
        /\ Exit(2)
        /\ UNCHANGED left
     \/ /\ Usable
        /\ phase' = "seed"
        /\ left' = SizeOf(options.length)
        /\ UNCHANGED status
  /\ UNCHANGED <<vars, sinkVars, toolVars, emitted, torn, stuck>>

\* The seed is hashed, and the stream positioned.
Seed ==
  /\ phase = "seed"
  /\ CallSeek(SizeOf(options.seek))
  /\ phase' = IF ToFile THEN "open" ELSE "loop"
  /\ UNCHANGED <<sinkVars, toolVars, left, emitted, torn, stuck, status>>

\* The seed file cannot be opened, or not be read to its end.
SeedFails ==
  /\ phase = "seed"
  /\ Exit(2)
  /\ UNCHANGED <<vars, sinkVars, toolVars, left, emitted, torn, stuck>>

\* Preallocation is asked for where the total is known, and may be refused.
OpenWriter ==
  /\ phase = "open"
  /\ length' \in {0} \cup (IF left = Unbounded THEN {} ELSE {left})
  /\ phase' = "loop"
  /\ UNCHANGED <<vars, accepted, lent, closed, disk, refused, finished, toolVars, left,
                 emitted, torn, stuck, status>>

OpenThrows ==
  /\ phase = "open"
  /\ Exit(1)
  /\ UNCHANGED <<vars, sinkVars, toolVars, left, emitted, torn, stuck>>

-----------------------------------------------------------------------------
(* The loop over buffers *)

\* acquire(), or the top of the loop over standard output
AcquireBuffer ==
  /\ phase = "loop" /\ ~Exhausted
  /\ IF ToFile THEN Lend /\ lent' = TRUE ELSE UNCHANGED sinkVars
  /\ phase' = "fill"
  /\ UNCHANGED <<vars, toolVars, left, emitted, torn, stuck, status>>

AcquireThrows ==
  /\ phase = "loop" /\ ~Exhausted /\ ToFile
  /\ WriterThrows
  /\ UNCHANGED <<vars, sinkVars, toolVars, left, emitted, torn>>

FillBuffer ==
  /\ phase = "fill"
  /\ Len(emitted) + Take <= MaxUnits
  /\ IF options.parallel THEN CallParallelFill(Take, SegmentBytes) ELSE CallFill(Take)
  /\ phase' = "filled"
  /\ UNCHANGED <<sinkVars, toolVars, left, emitted, torn, stuck, status>>

SegmentRuns ==
  /\ phase = "filled"
  /\ (\E i \in todo : FillSegment(i)) \/ Join
  /\ UNCHANGED <<sinkVars, toolVars, phase, left, emitted, torn, stuck, status>>

SchedulerStops ==
  /\ phase = "filled"
  /\ Stopped
  /\ UNCHANGED <<sinkVars, toolVars, phase, left, emitted, torn, stuck, status>>

\* fill() throws: nothing catches it around the loop over standard output.
FillThrows ==
  /\ phase = "filled" /\ pc = "idle" /\ stopped
  /\ IF ToFile THEN Unwinds ELSE Exit(Terminated)
  /\ UNCHANGED <<vars, sinkVars, toolVars, left, emitted, torn, stuck>>

Filled == phase = "filled" /\ pc = "idle" /\ ~stopped

\* The units of the buffer at "at": the device takes whole buffers here, in
\* any order, at once or later, because the tool never looks at the file.
BufferAt(at) == {u \in Offsets : u \in at .. at + Capacity - 1}

SubmitBuffer ==
  /\ Filled /\ ToFile
  /\ \E units \in {{}, BufferAt(accepted) \cap Below(accepted + Take)} : Accept(Take, units)
  /\ emitted' = emitted \o out
  /\ left' = Consumed
  /\ phase' = "loop"
  /\ UNCHANGED <<vars, toolVars, torn, stuck, status>>

SubmitThrows ==
  /\ Filled /\ ToFile
  /\ \E units \in {{}, BufferAt(accepted)} : Refuse(units)
  /\ WriterThrows
  /\ UNCHANGED <<vars, toolVars, left, emitted, torn>>

WriteBuffer ==
  /\ Filled /\ ~ToFile
  /\ emitted' = emitted \o out
  /\ left' = Consumed
  /\ phase' = "loop"
  /\ UNCHANGED <<vars, sinkVars, toolVars, torn, stuck, status>>

\* A short fwrite: "downstream closed (e.g. head); not an error".
WriteCutShort ==
  /\ Filled /\ ~ToFile
  /\ \E n \in 0 .. Take - 1 : emitted' = emitted \o SubSeq(out, 1, n)
  /\ torn' = TRUE
  /\ Exit(0)
  /\ UNCHANGED <<vars, sinkVars, toolVars, left, stuck>>

-----------------------------------------------------------------------------
(* After the last byte *)

EndsStdout ==
  /\ phase = "loop" /\ Exhausted /\ ~ToFile
  /\ Exit(0)
  /\ UNCHANGED <<vars, sinkVars, toolVars, left, emitted, torn, stuck>>

\* mutant: the tool leaves without finish()
LeavesUnfinished ==
  /\ phase = "loop" /\ Exhausted /\ ToFile
  /\ Exit(0)
  /\ UNCHANGED <<vars, sinkVars, toolVars, left, emitted, torn, stuck>>

Finishes ==
  /\ phase = "loop" /\ Exhausted /\ ToFile
  /\ FinishReturns
  /\ Exit(0)
  /\ UNCHANGED <<vars, toolVars, left, emitted, torn, stuck>>

FinishThrows ==
  /\ phase = "loop" /\ Exhausted /\ ToFile
  /\ WriterThrows
  /\ UNCHANGED <<vars, sinkVars, toolVars, left, emitted, torn>>

\* ~file_writer finishes if it can, then main() returns exit_failure.  With a
\* slot that stays busy its finish() blocks, unless another error is met first.
Unwind ==
  /\ phase = "unwind"
  /\ (~stuck /\ FinishReturns) \/ UNCHANGED sinkVars
  /\ Exit(1)
  /\ UNCHANGED <<vars, toolVars, left, emitted, torn, stuck>>

DeviceWrites ==
  /\ phase \in {"loop", "fill", "filled", "unwind"} /\ ToFile
  /\ \E at \in Below(accepted) :
       /\ at % Capacity = 0 /\ disk[at] = Unwritten
       /\ Transfer(BufferAt(at) \cap Below(accepted))
  /\ UNCHANGED <<vars, toolVars, phase, left, emitted, torn, stuck, status>>

-----------------------------------------------------------------------------
\* The tool while nothing fails.
Proceeds ==
  \/ ReadOptions \/ Seed \/ OpenWriter
  \/ AcquireBuffer \/ FillBuffer \/ SegmentRuns \/ SubmitBuffer \/ WriteBuffer
  \/ EndsStdout \/ Finishes

Fails ==
  \/ SeedFails \/ OpenThrows \/ AcquireThrows \/ SchedulerStops \/ FillThrows
  \/ SubmitThrows \/ WriteCutShort \/ FinishThrows \/ Unwind

Library ==
  Next /\ UNCHANGED <<sinkVars, toolVars, phase, left, emitted, torn, stuck, status>>

GeneratorNext ==
  \/ client = "library" /\ Library
  \/ client = "blake3ppgen" /\ (Proceeds \/ Fails \/ DeviceWrites)

-----------------------------------------------------------------------------
(* Properties *)

Asked == options.length.base * Multiplier[options.length.unit]
Slice(i) == Byte(SizeOf(options.seek) + i - 1)

(***************************************************************************)
(* What leaves the tool is the slice that was asked for: what is emitted   *)
(* follows the stream from the offset on without a gap or a repetition,    *)
(* across buffers, segments and both sinks; and a tool that returns 0      *)
(* leaves a file of exactly that many bytes, all of them in place, or gave *)
(* all of them to a standard output that took them.  Sizes that overflow   *)
(* 64 bits in parse_size(), and bytes past the stream's end, are not       *)
(* claimed.                                                                *)
(***************************************************************************)
SliceExact ==
  client = "blake3ppgen" /\ Usable =>
    /\ \A i \in DOMAIN emitted :
         SizeOf(options.seek) + i <= StreamLen => emitted[i] = Slice(i)
    /\ status = 0 /\ ~torn /\ Asked < StreamLen =>
         /\ Len(emitted) = Asked
         /\ ToFile => length = Asked /\ \A u \in Offsets : u < Asked => disk[u] = u
=============================================================================
