----------------------------- MODULE Platforms -----------------------------
(***************************************************************************)
(* What the dispatcher asks of the platform (src/src/dispatch): the        *)
(* kernels a build registers, in arch.def's order of preference, and       *)
(* platform_cpu_supports() of every architecture.  A machine is its        *)
(* silicon, what its operating system keeps of a vector register across a  *)
(* switch, and what both report.                                           *)
(***************************************************************************)
EXTENDS Detect

CONSTANT Registry  \* isa -> the kernels of the build for it

\* The ranks of arch.def.
Rank ==
  [avx512 |-> 10, avx2 |-> 20, sse42 |-> 30, sve2_512 |-> 40, sve512 |-> 50,
   sve2_256 |-> 60, sve256 |-> 70, sve2_128 |-> 80, neon |-> 90, sve128 |-> 100,
   rvv512_zvbb |-> 110, rvv512 |-> 120, rvv128_zvbb |-> 150, rvv128 |-> 160,
   xthead |-> 170, vsx |-> 175, vxe |-> 176, msa |-> 177, simd128 |-> 180, scalar |-> 190]

Isas == {"riscv", "x86", "arm", "ppc", "s390", "mips", "wasm"}

ASSUME RegistryAssumption ==
  /\ Registry \in [Isas -> SUBSET DOMAIN Rank]
  /\ \A isa \in Isas : "scalar" \in Registry[isa]

\* The first of a table, which compiled_sorted keeps in this order.
Best(table) == CHOOSE k \in table : \A j \in table : Rank[k] <= Rank[j]

-----------------------------------------------------------------------------
(* x86: cpuid's feature bits, and XCR0, which the OS writes                *)

Avx512 == {"f", "cd", "vl", "bw", "dq"}

\* The last but one has some of AVX-512 only.
X86Machines ==
  {m \in [isa : {"x86"},
          features : {{}, {"sse42"}, {"sse42", "avx2"}, {"sse42", "avx2", "f", "cd"},
                      {"sse42", "avx2"} \cup Avx512},
          leaves : {4, 7}, osxsave : BOOLEAN,
          saved : {{"xmm"}, {"xmm", "ymm"}, {"xmm", "ymm", "zmm"}}] :
     /\ "avx2" \in m.features => m.leaves = 7
     /\ ~m.osxsave => m.saved = {"xmm"}}

\* mutant: a leaf that is not there is the highest leaf's data
HighestLeaf(m) == IF m.leaves < 7 THEN {"avx2"} \cup Avx512 ELSE m.features

\* cpuid(7, 0), zeros where the machine has no such leaf
Leaf7(m) == IF m.leaves < 7 THEN {} ELSE m.features

\* mutant: the silicon is enough
StateUnchecked(m, state) == TRUE

\* XCR0's bits
StateSaved(m, state) == state \subseteq m.saved

X86Supports(m, k) ==
  \/ k = "sse42" /\ k \in m.features
  \/ /\ m.osxsave
     /\ \/ k = "avx2" /\ StateSaved(m, {"xmm", "ymm"}) /\ k \in Leaf7(m)
        \/ k = "avx512" /\ StateSaved(m, {"xmm", "ymm", "zmm"}) /\ Avx512 \subseteq Leaf7(m)

X86Runs(m, k) ==
  \/ k = "sse42" /\ k \in m.features
  \/ k = "avx2" /\ k \in m.features /\ "ymm" \in m.saved
  \/ k = "avx512" /\ Avx512 \subseteq m.features /\ "zmm" \in m.saved

-----------------------------------------------------------------------------
(* AArch64: SVE kernels are compiled for one vector length each            *)

Sve2 == {"sve2_128", "sve2_256", "sve2_512"}
Sve == {"sve128", "sve256", "sve512"} \cup Sve2
SveBytes(k) ==
  CASE k \in {"sve128", "sve2_128"} -> 16
    [] k \in {"sve256", "sve2_256"} -> 32
    [] OTHER -> 64

\* "state": the kernel keeps SVE's registers; "asm": the compiler has rdvl.
ArmMachines ==
  {m \in [isa : {"arm"}, os : {"linux", "windows", "other"}, sve : BOOLEAN,
          sve2 : BOOLEAN, vl : {16, 32, 64, 128}, state : BOOLEAN, asm : BOOLEAN] :
     /\ ~m.sve => ~m.sve2 /\ m.vl = 16
     /\ m.os = "other" => ~m.sve
     /\ m.state \/ (m.os = "linux" /\ m.sve)
     /\ m.asm \/ (m.os = "windows" /\ m.sve)}

\* sve_probe(): the reported length, 0 where nothing tells it
SveFound(m) == m.sve /\ m.os # "other" /\ (m.os = "linux" => m.state)
SveLength(m) == IF m.os = "windows" /\ ~m.asm THEN 0 ELSE m.vl

\* mutant: a longer vector serves too
LengthFits(length, k) == length >= SveBytes(k)

\* "exact-match only"
LengthMatches(length, k) == length = SveBytes(k)

ArmSupports(m, k) ==
  \/ k = "neon"
  \/ k \in Sve /\ SveFound(m) /\ (k \in Sve2 => m.sve2) /\ LengthMatches(SveLength(m), k)

ArmRuns(m, k) ==
  \/ k = "neon"
  \/ k \in Sve /\ m.sve /\ m.state /\ (k \in Sve2 => m.sve2) /\ m.vl = SveBytes(k)

-----------------------------------------------------------------------------
(* POWER, z/Architecture and MIPS: bits of AT_HWCAP, which the kernel sets *)
(* for a unit that is there and whose registers it switches                *)

HwcapMachines ==
  {m \in [isa : {"ppc", "s390", "mips"}, linux : BOOLEAN,
          unit : {{}, {"base"}, {"base", "extension"}}, switched : BOOLEAN] :
     /\ m.isa # "s390" => "extension" \notin m.unit
     /\ m.switched => m.unit # {}
     /\ m.linux \/ m.switched}

Hwcap(m) == IF m.switched THEN m.unit ELSE {}

\* mutant: the base facility is enough
NeedsBase(k) == {"base"}

Needs(k) == IF k = "vxe" THEN {"base", "extension"} ELSE {"base"}

IsaOf == [vsx |-> "ppc", vxe |-> "s390", msa |-> "mips"]

HwcapSupports(m, k) == m.linux /\ k \in DOMAIN IsaOf /\ IsaOf[k] = m.isa /\ Needs(k) \subseteq Hwcap(m)

HwcapRuns(m, k) ==
  /\ m.switched /\ k \in DOMAIN IsaOf /\ IsaOf[k] = m.isa
  /\ k = "vxe" => "extension" \in m.unit

-----------------------------------------------------------------------------
(* All of them.  A WebAssembly module with SIMD opcodes does not load on a *)
(* machine without them.                                                   *)

Machines ==
  RiscvMachines \cup X86Machines \cup ArmMachines \cup HwcapMachines \cup {[isa |-> "wasm"]}

\* platform_cpu_supports() and cpu_supports_impl() under a verdict of the
\* RISC-V ladder, the only one that has any
Supports(m, verdict, k) ==
  \/ k = "scalar"
  \/ m.isa = "riscv" /\ RiscvSupports(m, verdict, k)
  \/ m.isa = "x86" /\ X86Supports(m, k)
  \/ m.isa = "arm" /\ ArmSupports(m, k)
  \/ m.isa \in {"ppc", "s390", "mips"} /\ HwcapSupports(m, k)
  \/ m.isa = "wasm" /\ k = "simd128"

\* A kernel's instructions execute, and mean what they were compiled to mean.
Runs(m, k) ==
  \/ k = "scalar"
  \/ m.isa = "riscv" /\ RiscvRuns(m, k)
  \/ m.isa = "x86" /\ X86Runs(m, k)
  \/ m.isa = "arm" /\ ArmRuns(m, k)
  \/ m.isa \in {"ppc", "s390", "mips"} /\ HwcapRuns(m, k)
  \/ m.isa = "wasm" /\ k = "simd128"

\* Somebody tells the program of the unit, and the user does not veto it.
Recognizable(m, k) ==
  CASE m.isa = "riscv" ->
         /\ m.hwprobe \/ m.hwcap
         /\ k \in Zvbb => m.hwprobe
         /\ k = "xthead" => m.assume # "no"
    [] m.isa = "x86" -> k # "sse42" => m.osxsave
    [] m.isa = "arm" -> k \in Sve => m.os = "linux" \/ m.asm
    [] m.isa = "wasm" -> TRUE
    [] OTHER -> m.linux

\* platform_run_trap_probes() has work on RISC-V only.
BaseVerdict(m) == IF m.isa = "riscv" THEN BaseProbe(m) ELSE NoVerdict

\* Kernels of width 16.
Wide(k) == k \in {"avx512", "sve512", "sve2_512", "rvv512", "rvv512_zvbb"}
=============================================================================
