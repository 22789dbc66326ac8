------------------------------ MODULE Subtree ------------------------------
(***************************************************************************)
(* Reduction of a power-of-two subtree of chunks to one chaining value     *)
(* (src/src/core/subtree.hpp) on the running kernel: the recursion over    *)
(* wide batches, and the pieces of the fold that SubtreeFold steps         *)
(* through.  "modes" is what the kernel's batches find in the transpose    *)
(* dial.                                                                   *)
(***************************************************************************)
EXTENDS Kernel

\* The blocks of a complete chunk that starts at unit "from".
ChunkBlocks(from) ==
  [b \in 1 .. BlocksPerChunk |-> Data(ChunkBlock(from, ChunkLen, b - 1))]

\* hash_many over n chunks: chunk i starts at unit from + i * ChunkLen.
HashChunks(kernel, modes, from, n, counter) ==
  HashMany(kernel, modes, [i \in 1 .. n |-> ChunkBlocks(from + (i - 1) * ChunkLen)],
           counter, TRUE, {}, {"start"}, {"end"})

\* compress_parents_wide(): one generation, an odd trailing child unchanged.
ParentsWide(kernel, modes, cvs) ==
  LET pairs == [i \in 1 .. Len(cvs) \div 2 |-> <<Children(cvs[2 * i - 1], cvs[2 * i])>>]
      odd == IF Len(cvs) % 2 = 0 THEN << >> ELSE <<cvs[Len(cvs)]>>
  IN HashMany(kernel, modes, pairs, 0, FALSE, {"parent"}, {}, {}) \o odd

\* mutant: both halves are hashed with the left one's counter
SubtreeWideSameCounter(kernel, modes, from, num, counter) ==
  LET wide[n \in 1 .. num] ==
        [lo \in 0 .. num - n |->
           IF n <= 2 * kernel.width
           THEN HashChunks(kernel, modes, from + lo * ChunkLen, n, counter)
           ELSE LET half == n \div 2
                IN ParentsWide(kernel, modes, wide[half][lo] \o wide[half][lo + half])]
  IN wide[num][0]

\* compress_subtree_wide(): halves until two SIMD batches remain, then one
\* generation of parents per level on the way back.
SubtreeWide(kernel, modes, from, num, counter) ==
  LET wide[n \in 1 .. num] ==
        [lo \in 0 .. num - n |->
           IF n <= 2 * kernel.width
           THEN HashChunks(kernel, modes, from + lo * ChunkLen, n, counter + lo)
           ELSE LET half == n \div 2
                IN ParentsWide(kernel, modes, wide[half][lo] \o wide[half][lo + half])]
  IN wide[num][0]

\* Generations of parents until one value is left.
Reduce(kernel, modes, cvs) ==
  LET after[g \in 0 .. Len(cvs)] ==
        IF g = 0 THEN cvs
        ELSE LET previous == after[g - 1]
             IN IF Len(previous) = 1 THEN previous
                ELSE ParentsWide(kernel, modes, previous)
  IN after[Len(cvs)][1]

\* compress_subtree_to_cv_recursive()
SubtreeToCV(kernel, modes, from, num, counter) ==
  Reduce(kernel, modes, SubtreeWide(kernel, modes, from, num, counter))
=============================================================================
