---------------------------- MODULE OutputReader ----------------------------
(***************************************************************************)
(* blake3pp::output_reader (src/src/blake3pp.cpp), the seekable extended   *)
(* output, and the parallel fill() of parallel.hpp that copies the reader  *)
(* into every segment.  A byte of the stream is the pair of its block's    *)
(* counter and its place in the block.                                     *)
(***************************************************************************)
EXTENDS Integers, Sequences, SequencesExt

CONSTANTS
  BlockLen,    \* bytes per output block
  StreamLen,   \* where position_ wraps (2^64)
  MaxRequest,  \* bound on the length of a request
  Segments     \* the segment_bytes considered

ASSUME StreamAssumption ==
  /\ BlockLen \in Nat \ {0} /\ MaxRequest \in Nat
  /\ StreamLen \in Nat /\ StreamLen % BlockLen = 0 /\ StreamLen > 0
  /\ Segments \subseteq Nat

VARIABLES
  reader,   \* the output_reader: its position and its one-block cache
  pc,       \* the caller: "idle", or "segments" inside a parallel fill
  out,      \* the buffer of the latest request, Junk where not written
  from,     \* the stream position the latest request or seek began at
  stopped,  \* the latest request was cancelled
  segment,  \* bytes per segment of the parallel fill
  todo      \* its segments that have not run

vars == <<reader, pc, out, from, stopped, segment, todo>>

Junk == <<>>
Byte(p) == <<p \div BlockLen, p % BlockLen>>

Smaller(a, b) == IF a < b THEN a ELSE b
Larger(a, b) == IF a > b THEN a ELSE b

-----------------------------------------------------------------------------
(* fill() *)

\* compress_xof(): the block with counter b.
XofBlock(b) == [i \in 1 .. BlockLen |-> <<b, i - 1>>]

\* xof_many(): n blocks from counter b on.
XofMany(b, n) == [i \in 1 .. n * BlockLen |-> Byte(b * BlockLen + i - 1)]

\* mutant: a valid cache is used whichever block it holds
CachedAnyBlock(r, b) ==
  IF r.valid THEN r ELSE [r EXCEPT !.valid = TRUE, !.cached = b, !.cache = XofBlock(b)]

\* The reader with block b in its cache.
Cached(r, b) ==
  IF r.valid /\ r.cached = b THEN r
  ELSE [r EXCEPT !.valid = TRUE, !.cached = b, !.cache = XofBlock(b)]

Advanced(r, n) == [r EXCEPT !.position = (@ + n) % StreamLen]

\* One turn of the loop: whole blocks at once where the request and the
\* position allow it, else what the current block still has.
FillTurn(st) ==
  LET block == st.r.position \div BlockLen
      inBlock == st.r.position % BlockLen
      whole == st.left \div BlockLen
      take == Smaller(st.left, BlockLen - inBlock)
      hit == Cached(st.r, block)
  IN IF st.left = 0 THEN st
     ELSE IF inBlock = 0 /\ whole > 0
     THEN [r |-> Advanced(st.r, whole * BlockLen),
           out |-> st.out \o XofMany(block, whole),
           left |-> st.left - whole * BlockLen]
     ELSE [r |-> Advanced(hit, take),
           out |-> st.out \o SubSeq(hit.cache, inBlock + 1, inBlock + take),
           left |-> st.left - take]

\* A block's rest, whole blocks, a block's start: three turns at most.
Fill(r, n) == FillTurn(FillTurn(FillTurn([r |-> r, out |-> <<>>, left |-> n])))

Seek(r, p) == [r EXCEPT !.position = p % StreamLen, !.valid = FALSE]

-----------------------------------------------------------------------------
Init ==
  /\ reader = [position |-> 0, valid |-> FALSE, cached |-> 0,
               cache |-> [i \in 1 .. BlockLen |-> Junk]]
  /\ pc = "idle"
  /\ out = <<>>
  /\ from = 0
  /\ stopped = FALSE
  /\ segment = BlockLen
  /\ todo = {}

CallSeek(p) ==
  /\ pc = "idle"
  /\ reader' = Seek(reader, p)
  /\ from' = p
  /\ out' = <<>>
  /\ stopped' = FALSE
  /\ UNCHANGED <<pc, segment, todo>>

FillsNow(n) ==
  /\ LET done == Fill(reader, n)
     IN reader' = done.r /\ out' = done.out
  /\ UNCHANGED <<pc, segment, todo>>

Request(n) ==
  /\ pc = "idle"
  /\ from' = reader.position
  /\ stopped' = FALSE

CallFill(n) == Request(n) /\ FillsNow(n)

-----------------------------------------------------------------------------
(* The parallel fill() *)

\* Rounded down to whole blocks, at least one.
SegmentLen(bytes) == Larger(bytes - (bytes % BlockLen), BlockLen)

CallParallelFill(n, bytes) ==
  /\ Request(n)
  /\ IF n <= SegmentLen(bytes)
     THEN FillsNow(n)
     ELSE /\ pc' = "segments"
          /\ out' = [i \in 1 .. n |-> Junk]
          /\ segment' = SegmentLen(bytes)
          /\ todo' = 0 .. (n + SegmentLen(bytes) - 1) \div SegmentLen(bytes) - 1
          /\ UNCHANGED reader

\* mutant: a segment is sought from the start of the stream
SegmentReaderAbsolute(i) == Seek(reader, i * segment)

\* The copy of the reader that fills segment i.
SegmentReader(i) == Seek(reader, reader.position + i * segment)

FillSegment(i) ==
  /\ pc = "segments"
  /\ i \in todo
  /\ LET off == i * segment
         len == Smaller(segment, Len(out) - off)
         bytes == Fill(SegmentReader(i), len).out
     IN out' = [k \in DOMAIN out |->
                  IF k \in off + 1 .. off + len THEN bytes[k - off] ELSE out[k]]
  /\ todo' = todo \ {i}
  /\ UNCHANGED <<reader, pc, from, stopped, segment>>

\* mutant: the reader stays behind the segments it was copied for
JoinStays == pc' = "idle" /\ UNCHANGED reader

\* r.seek(base + out.size())
JoinSeeks == pc' = "idle" /\ reader' = Seek(reader, reader.position + Len(out))

Join ==
  /\ pc = "segments" /\ todo = {}
  /\ JoinSeeks
  /\ UNCHANGED <<out, from, stopped, segment, todo>>

\* mutant: the reader moves although the work was stopped
StoppedAdvances ==
  /\ pc = "segments"
  /\ JoinSeeks
  /\ stopped' = TRUE
  /\ todo' = {}
  /\ UNCHANGED <<out, from, segment>>

\* The scheduler completes the work stopped, whatever part of it has run.
Stopped ==
  /\ pc = "segments"
  /\ pc' = "idle"
  /\ stopped' = TRUE
  /\ todo' = {}
  /\ UNCHANGED <<reader, out, from, segment>>

Next ==
  \/ \E p \in 0 .. StreamLen - 1 : CallSeek(p)
  \/ \E n \in 0 .. MaxRequest :
       CallFill(n) \/ \E bytes \in Segments : CallParallelFill(n, bytes)
  \/ \E i \in todo : FillSegment(i)
  \/ Join \/ Stopped

OutputSpec == Init /\ [][Next]_vars

-----------------------------------------------------------------------------
(* Properties *)

\* Every variable has its type, and a valid cache holds the block it names.
TypeOK ==
  /\ reader.position \in 0 .. StreamLen - 1
  /\ reader.valid => reader.cache = XofBlock(reader.cached)
  /\ pc \in {"idle", "segments"}
  /\ from \in 0 .. StreamLen - 1 /\ Len(out) <= MaxRequest
  /\ todo \subseteq 0 .. MaxRequest /\ segment > 0

(***************************************************************************)
(* Every byte a request has written is the stream's byte of that position, *)
(* whatever was requested and sought before and whichever path wrote it,   *)
(* and a request that returned has written all of them.  "r advances past  *)
(* out afterwards exactly as r.fill(out) would have", and after a          *)
(* cancellation "r is then left where it was" (fill()).  Only of the bytes *)
(* past the wrap of the position nothing is claimed: the wide path goes on *)
(* to blocks the position cannot name, the other begins the stream again.  *)
(***************************************************************************)
BytesAreTheStreams ==
  /\ \A i \in DOMAIN out :
       from + i <= StreamLen => out[i] \in {Byte(from + i - 1), Junk}
  /\ pc = "idle" /\ ~stopped => Junk \notin Range(out)
  /\ pc = "idle" =>
       reader.position = (IF stopped THEN from ELSE (from + Len(out)) % StreamLen)
=============================================================================
