----------------------------- MODULE HasherOps -----------------------------
(***************************************************************************)
(* blake3pp::hasher (src/src/blake3pp.cpp) as a value: the open chunk and  *)
(* the stack of chaining values of completed subtrees, with an operator    *)
(* per member function.  The parallel layer uses them as they are.         *)
(***************************************************************************)
EXTENDS Blake3

-----------------------------------------------------------------------------
(* The hasher as a value.  "failed" is set when an assertion of push_cv()  *)
(* does not hold: the release build would corrupt the stack instead.       *)

NewHasher == [chunk |-> ChunkInit(0), stack |-> << >>, failed |-> FALSE]

Count(h) == h.chunk.counter * ChunkLen + ChunkFill(h.chunk)

PushCV(h, cv, total, subtree) ==
  LET merges == TrailingZeros(total \div subtree)
      depth == Len(h.stack)
      merged[k \in 0 .. merges] ==
        IF k = 0 THEN cv ELSE Parent(h.stack[depth - k + 1], merged[k - 1])
  IN IF ~IsPow2(subtree) \/ total % subtree # 0 \/ merges > depth
     THEN [h EXCEPT !.failed = TRUE]
     ELSE [h EXCEPT !.stack = Append(SubSeq(@, 1, depth - merges), merged[merges])]

\* A full chunk is closed only when something follows it.
CloseFullChunk(h) ==
  IF ChunkFill(h.chunk) = ChunkLen
  THEN [PushCV(h, ChunkOutput(h.chunk), h.chunk.counter + 1, 1)
          EXCEPT !.chunk = ChunkInit(h.chunk.counter + 1)]
  ELSE h

PushSubtreeCV(h, cv, n) ==
  LET closed == CloseFullChunk(h)
  IN [PushCV(closed, cv, closed.chunk.counter + n, n) EXCEPT !.chunk.counter = @ + n]

\* mutant: the largest power of two of chunks, wherever the input stands
FastSubtreeUnaligned(h, left) ==
  LET safe == (left - 1) \div ChunkLen
      sizes == {p \in 1 .. safe : IsPow2(p)}
  IN CHOOSE p \in sizes : \A q \in sizes : q <= p

\* The largest position-aligned power of two of whole chunks that leaves at
\* least one unit of the input in reserve.
FastSubtree(h, left) ==
  LET safe == (left - 1) \div ChunkLen
      aligned == {p \in 1 .. safe : IsPow2(p) /\ h.chunk.counter % p = 0}
  IN CHOOSE p \in aligned : \A q \in aligned : q <= p

FastPath(h, left) ==
  ChunkFill(h.chunk) = 0 /\ left > ChunkLen /\ FastSubtree(h, left) >= 2

\* One turn of update()'s loop over the input from unit "at" on.
UpdateTurn(st) ==
  LET h == CloseFullChunk(st.h)
      n == FastSubtree(h, st.left)
      take == Lesser(st.left, ChunkLen - ChunkFill(h.chunk))
  IN IF st.left = 0 THEN st
     ELSE IF FastPath(h, st.left)
     THEN [h |-> [PushCV(h, SubtreeCV(st.at, n, h.chunk.counter), h.chunk.counter + n, n)
                    EXCEPT !.chunk.counter = @ + n],
           at |-> st.at + n * ChunkLen, left |-> st.left - n * ChunkLen]
     ELSE [h |-> [h EXCEPT !.chunk = ChunkUpdate(@, st.at, take)],
           at |-> st.at + take, left |-> st.left - take]

\* Every turn ends at a chunk's end or at the input's, so this many suffice.
Update(h, from, n) ==
  LET turns == Chunks(n) + 1
      turn[i \in 0 .. turns] ==
        IF i = 0 THEN [h |-> h, at |-> from, left |-> n] ELSE UpdateTurn(turn[i - 1])
  IN turn[turns].h

\* mutant: the stack is collapsed bottom first
FinalizeBottomFirst(h) ==
  LET depth == Len(h.stack)
      node[i \in 0 .. depth] ==
        IF i = 0 THEN ChunkOutput(h.chunk) ELSE Parent(h.stack[i], node[i - 1])
  IN Root(node[depth])

\* finalize_xof(): collapse the stack onto the open chunk, top first.
FinalizeXof(h) ==
  LET depth == Len(h.stack)
      node[i \in 0 .. depth] ==
        IF i = 0 THEN ChunkOutput(h.chunk)
        ELSE Parent(h.stack[depth - i + 1], node[i - 1])
  IN Root(node[depth])

\* mutant: the stack survives a reset
ResetKeepsStack(h) == [h EXCEPT !.chunk = ChunkInit(0)]

Reset(h) == [h EXCEPT !.chunk = ChunkInit(0), !.stack = << >>]
=============================================================================
