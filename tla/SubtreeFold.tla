---------------------------- MODULE SubtreeFold ----------------------------
(***************************************************************************)
(* compress_subtree_to_cv_folded() (src/src/core/subtree.hpp), a group of  *)
(* chunks at a time, against the recursion and the reference tree, on      *)
(* every kernel and while another thread turns the transpose dial.         *)
(***************************************************************************)
EXTENDS Subtree

CONSTANTS
  MaxChunks,  \* bound on the size of the subtree
  MaxStack    \* the template's stack bound

\* The stack has the levels of the greatest subtree, the kernels' groups being
\* two chunks at least.
ASSUME StackAssumption ==
  /\ MaxChunks \in Nat /\ MaxStack \in Nat \ {0}
  /\ \E k \in 0 .. MaxHeight : k <= MaxStack /\ MaxChunks <= 2^k

\* The counters of the subtree's chunks fit a counter's two words, and so do
\* those of the blocks that KernelsAgree asks xof_many() for.
ASSUME CounterAssumption == 3 * MaxChunks <= Word * Word /\ Word > 8

VARIABLES
  running,       \* the running kernel
  numChunks,     \* num_chunks
  chunkCounter,  \* chunk_counter of the first chunk
  done,          \* chunks folded so far
  groups,        \* groups folded so far
  stack,         \* the stack of chaining values
  failed         \* an assertion of the function did not hold

foldVars == <<running, numChunks, chunkCounter, done, groups, stack, failed>>

Group == 2 * running.width

FoldInit ==
  /\ running \in Kernels
  /\ numChunks \in {n \in 1 .. MaxChunks : IsPow2(n)}
  /\ chunkCounter \in {k * numChunks : k \in 0 .. 2}
  /\ done = 0
  /\ groups = 0
  /\ stack = << >>
  /\ failed = FALSE

\* One carry of the binary counter: the two subtrees on top merge.
Carry(st) ==
  LET top == Len(st)
  IN Append(SubSeq(st, 1, top - 2), Parent(st[top - 1], st[top]))

\* mutant: one carry too few
CarriesButOne(n) == Greater(TrailingZeros(n) - 1, 0)

\* std::countr_zero(groups)
Carries(n) == TrailingZeros(n)

\* mutant: the group's number serves as its chunk counter
GroupCVIndexed(n, modes) ==
  Reduce(running, modes, HashChunks(running, modes, done * ChunkLen, n, chunkCounter + groups))

GroupCV(n, modes) ==
  Reduce(running, modes, HashChunks(running, modes, done * ChunkLen, n, chunkCounter + done))

\* ++groups
GroupCounted == groups + 1

\* What two batches in a row may find in the dial; other kernels do not look.
Dials == IF running.width = 16 THEN Modes \X Modes ELSE {<<"quartered", "quartered">>}

FoldGroup(modes) ==
  /\ done < numChunks
  /\ LET n == Lesser(Group, numChunks - done)
         carries == Carries(GroupCounted)
         after[c \in 0 .. carries] ==
           IF c = 0 THEN Append(stack, GroupCV(n, modes)) ELSE Carry(after[c - 1])
     IN IF Len(stack) >= MaxStack \/ carries > Len(stack)
        THEN failed' = TRUE /\ UNCHANGED stack
        ELSE stack' = after[carries] /\ UNCHANGED failed
  /\ done' = done + Group
  /\ groups' = GroupCounted
  /\ UNCHANGED <<running, numChunks, chunkCounter>>

FoldNext == \E modes \in Dials : FoldGroup(modes)

FoldSpec == FoldInit /\ [][FoldNext]_foldVars

-----------------------------------------------------------------------------
(* Properties.  The subtree's data starts at unit 0 wherever it stands in  *)
(* the message: only the counter tells its place.                          *)

\* Fold, recursion and reference tree agree (subtree_fold.cpp pins the first
\* two equal for its inputs), for every kernel and position, whatever the
\* batches find in the dial: "every value is correct, so racing a change
\* against running hashes is benign" (kernel.hpp).
FoldedIsReference ==
  done >= numChunks => stack = <<SubtreeCV(0, numChunks, chunkCounter)>>

RecursiveIsReference ==
  done = 0 =>
    \A modes \in Dials :
      SubtreeToCV(running, modes, 0, numChunks, chunkCounter) = SubtreeCV(0, numChunks, chunkCounter)

\* round_fn_staged() computes what round_fn() does, in every round.
RoundsAgree ==
  LET v == [i \in Words |-> <<"v", i>>]
  IN \A r \in 0 .. 6 : RoundFnStaged(r, v) = RoundFn(r, v)

(***************************************************************************)
(* The two spellings of the round compute the same words with the schedule *)
(* of every round, and each kernel's xof_many() writes the blocks of       *)
(* consecutive counters, over the carry between the counter's words, at    *)
(* every position of the dial (round_fn_staged, xof_many).                 *)
(***************************************************************************)
KernelsAgree ==
  /\ RoundsAgree
  /\ \A mode \in Modes, from \in 0 .. Word, n \in 0 .. running.width + 1 :
       XofMany(running, mode, from, n) = [i \in 1 .. n |-> from + i - 1]

\* "log2(num_chunks / group) + 1 entries are needed": the fold's assertions
\* hold with exactly that stack.
StackSuffices ==
  /\ ~failed
  /\ 2^Len(stack) <= Greater(2 * (numChunks \div Group), 2)
=============================================================================
