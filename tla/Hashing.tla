------------------------------ MODULE Hashing ------------------------------
(***************************************************************************)
(* Hashing in its two layers.  A kernel reduces one subtree to its         *)
(* chaining value (SubtreeFold); a front end cuts a message into subtrees  *)
(* and takes their values as given (ParallelHash).  A behaviour is one of  *)
(* the two, over the same tree: what the first shows of every subtree is   *)
(* what the second assumes of compress_subtree_cv().                       *)
(***************************************************************************)
EXTENDS ParallelHash, SubtreeFold

\* A chunk counter has two words, which the bound on the message respects.
ASSUME MessageAssumption == MaxUnits <= Word * Word * ChunkLen

VARIABLE layer  \* "subtree" or "message"

hashingVars == <<vars, foldVars, layer>>

\* The layer that does not run keeps one of its initial states.
HashingInit ==
  /\ layer \in {"subtree", "message"}
  /\ Init /\ FoldInit
  /\ layer = "subtree" => kind = "hasher" /\ \A b \in Budgets : budget <= b
  /\ layer = "message" =>
       running = (CHOOSE k \in Kernels : TRUE) /\ numChunks = 1 /\ chunkCounter = 0

\* A reduced subtree is its reader's to look at: the function has returned.
Reduced == layer = "subtree" /\ done >= numChunks /\ UNCHANGED hashingVars

HashingNext ==
  \/ layer = "subtree" /\ FoldNext /\ UNCHANGED <<vars, layer>>
  \/ Reduced
  \/ layer = "message" /\ Next /\ UNCHANGED <<foldVars, layer>>

HashingSpec == HashingInit /\ [][HashingNext]_hashingVars

-----------------------------------------------------------------------------
(* Properties *)

\* The value that the front ends take for a part is what every kernel's
\* recursion makes of the part's data with the part's counter, whatever its
\* batches find in the dial (compress_subtree_cv() on for_each_part()'s agents).
KernelsReduceParts ==
  pc = "parts" =>
    \A i \in 0 .. job.parts - 1, kernel \in Kernels, modes \in Modes \X Modes :
      SubtreeToCV(kernel, modes, job.from + i * job.part * ChunkLen, job.part,
                  job.counter + i * job.part) = PartCV(i)
=============================================================================
