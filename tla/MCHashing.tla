---------------------------- MODULE MCHashing ----------------------------
(* Kernels with and without a shuffle backend, every width.                *)
EXTENDS Hashing

MCKernels ==
  {[width |-> w, shuffles |-> TRUE] : w \in {1, 4, 8, 16}}
    \cup {XtheadKernel}
=============================================================================
