----------------------------- MODULE MCDispatch -----------------------------
(* A build per architecture; a kernel of RISC-V and one of AArch64 are     *)
(* left out of theirs.                                                     *)
EXTENDS Dispatch, TLC

MCRegistry ==
  [riscv |-> {"scalar", "xthead", "rvv128", "rvv512", "rvv512_zvbb"},
   x86 |-> {"scalar", "sse42", "avx2", "avx512"},
   arm |-> {"scalar", "neon", "sve128", "sve256", "sve512", "sve2_128", "sve2_256"},
   ppc |-> {"scalar", "vsx"}, s390 |-> {"scalar", "vxe"}, mips |-> {"scalar", "msa"},
   wasm |-> {"scalar", "simd128"}]

MCRequests ==
  [riscv |-> {"xthead", "rvv512", "rvv128_zvbb"}, x86 |-> {"avx2"},
   arm |-> {"sve256", "sve2_512"}, ppc |-> {"vsx"}, s390 |-> {"vxe"}, mips |-> {"msa"},
   wasm |-> {}]

MCSymmetry == Permutations(Threads)
=============================================================================
