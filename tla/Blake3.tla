------------------------------- MODULE Blake3 -------------------------------
(***************************************************************************)
(* The BLAKE3 tree as src/src/core/core.hpp builds it, over a symbolic     *)
(* compression function, and the tree the specification of BLAKE3          *)
(* prescribes for a message, as the reference.                             *)
(*                                                                         *)
(* A message is the units 0, 1, 2, ... in order, so a block is the         *)
(* sequence of unit numbers it holds.  Compression is injective: its       *)
(* result, the chaining value, is the record of its inputs.  Blocks carry  *)
(* no length of their own, a block's length is its sequence's.             *)
(***************************************************************************)
EXTENDS Integers, Sequences

CONSTANTS
  BlockLen,       \* units per block
  BlocksPerChunk  \* blocks per chunk

ASSUME BlockAssumption == BlockLen \in Nat \ {0} /\ BlocksPerChunk \in Nat \ {0}

ChunkLen == BlockLen * BlocksPerChunk

\* The key words every chunk and parent starts from.
Key == [key |-> "words"]

\* core::output before compression, the chaining value after it.
Compress(cv, block, counter, flags) ==
  [cv |-> cv, block |-> block, counter |-> counter, flags |-> flags]

\* A block of message units, and the block of two chaining values.
Data(units) == [data |-> units]
Children(left, right) == [left |-> left, right |-> right]

Parent(left, right) == Compress(Key, Children(left, right), 0, {"parent"})

\* The last node's compression, with the ROOT flag.
Root(output) == [output EXCEPT !.flags = @ \cup {"root"}]

MaxHeight == 20  \* bound on the height of the trees considered

IsPow2(n) == \E k \in 0 .. MaxHeight : n = 2^k

\* std::countr_zero of a positive number
TrailingZeros(n) == CHOOSE k \in 0 .. MaxHeight : n % 2^k = 0 /\ n % 2^(k + 1) # 0

\* The largest power of two up to n (std::bit_floor).
BitFloor(n) == CHOOSE p \in 1 .. n : IsPow2(p) /\ 2 * p > n

-----------------------------------------------------------------------------
(* detail::chunk_state and its operations *)

ChunkInit(counter) == [cv |-> Key, counter |-> counter, block |-> << >>, compressed |-> 0]

ChunkFill(cs) == BlockLen * cs.compressed + Len(cs.block)

StartFlag(cs) == IF cs.compressed = 0 THEN {"start"} ELSE {}

\* chunk_update(), a unit at a time: a full block is compressed only when
\* another unit arrives.
ChunkAdd(cs, unit) ==
  IF Len(cs.block) = BlockLen
  THEN [cs EXCEPT !.cv = Compress(cs.cv, Data(cs.block), cs.counter, StartFlag(cs)),
                  !.compressed = @ + 1,
                  !.block = <<unit>>]
  ELSE [cs EXCEPT !.block = Append(@, unit)]

ChunkUpdate(cs, from, n) ==
  LET fed[i \in 0 .. n] == IF i = 0 THEN cs ELSE ChunkAdd(fed[i - 1], from + i - 1)
  IN fed[n]

ChunkOutput(cs) ==
  Compress(cs.cv, Data(cs.block), cs.counter, StartFlag(cs) \cup {"end"})

-----------------------------------------------------------------------------
(* The reference *)

Lesser(a, b) == IF a < b THEN a ELSE b
Greater(a, b) == IF a > b THEN a ELSE b

\* Block b of a chunk of len units that starts at unit "from".
ChunkBlock(from, len, b) ==
  [i \in 1 .. Lesser(BlockLen, len - b * BlockLen) |-> from + b * BlockLen + i - 1]

BlockCount(len) == IF len = 0 THEN 1 ELSE (len + BlockLen - 1) \div BlockLen

\* The chaining value of chunk number c over len units starting at "from".
ChunkCV(from, len, c) ==
  LET last == BlockCount(len) - 1
      after[b \in 0 .. last] ==
        Compress(IF b = 0 THEN Key ELSE after[b - 1], Data(ChunkBlock(from, len, b)), c,
                 (IF b = 0 THEN {"start"} ELSE {})
                   \cup (IF b = last THEN {"end"} ELSE {}))
  IN after[last]

\* n complete chunks from chunk c on, n a power of two: the data starts at
\* unit "from".
SubtreeCV(from, n, c) ==
  LET tree[size \in 1 .. n] ==
        [i \in 0 .. n - size |->
           IF size = 1 THEN ChunkCV(from + i * ChunkLen, ChunkLen, c + i)
           ELSE LET half == size \div 2 IN Parent(tree[half][i], tree[half][i + half])]
  IN tree[n][0]

Chunks(n) == IF n = 0 THEN 1 ELSE (n + ChunkLen - 1) \div ChunkLen

\* The root node of a message of n units: the left subtree of every node is
\* the largest power of two of chunks that leaves something to its right.
RootNode(n) ==
  LET total == Chunks(n)
      node[size \in 1 .. total] ==
        [lo \in 0 .. total - size |->
           IF size = 1
           THEN ChunkCV(lo * ChunkLen, Lesser(ChunkLen, n - lo * ChunkLen), lo)
           ELSE LET left == BitFloor(size - 1)
                IN Parent(node[left][lo], node[size - left][lo + left])]
  IN Root(node[total][0])
=============================================================================
