--------------------------- MODULE DispatchProofs ---------------------------
(***************************************************************************)
(* Kernel dispatch for any number of threads, any build and any requests,  *)
(* on every machine of module Platforms: what resolve() returns runs here, *)
(* the probes' upgrade is seen, the guard's disposition does not outlive   *)
(* the probed instruction, and tuners do not disturb each other.           *)
(***************************************************************************)
EXTENDS Dispatch, WellFoundedInduction, TLAPS

-----------------------------------------------------------------------------
(* The order of preference *)

LEMMA Smallest ==
  ASSUME NEW S, S \subseteq Nat, S # {}
  PROVE  \E n \in S : \A m \in S : n <= m
<1> DEFINE R == OpToRel(<, Nat)
<1>1. IsWellFoundedOn(R, Nat)
  BY NatLessThanWellFounded
<1> HIDE DEF R
<1>2. PICK x \in S : \A y \in S : ~(<<y, x>> \in R)
  BY <1>1, WFMin
<1>3. ASSUME NEW y \in S, y < x PROVE <<y, x>> \in R
  <2>1. <<y, x>> \in Nat \X Nat /\ <<y, x>>[1] < <<y, x>>[2]
    BY <1>3
  <2> QED
    BY <2>1 DEF R, OpToRel
<1>4. ASSUME NEW m \in S PROVE x <= m
  <2>1. x \in Nat /\ m \in Nat
    OBVIOUS
  <2>2. ~(m < x)
    BY <1>2, <1>3
  <2> QED
    BY <2>1, <2>2
<1> QED
  BY <1>4

LEMMA RanksAre == \A k \in DOMAIN Rank : Rank[k] \in Nat
BY DEF Rank

\* A table that is not empty has a first entry.
LEMMA BestIsIn ==
  ASSUME NEW T, T \subseteq DOMAIN Rank, T # {}
  PROVE  Best(T) \in T
<1> DEFINE S == {Rank[k] : k \in T}
<1>1. S \subseteq Nat /\ S # {}
  BY RanksAre
<1>2. \E n \in S : \A m \in S : n <= m
  <2> HIDE DEF S
  <2> QED
    BY <1>1, Smallest
<1>3. \E k \in T : \A j \in T : Rank[k] <= Rank[j]
  BY <1>2
<1> QED
  BY <1>3 DEF Best

LEMMA RegistryIs ==
  ASSUME machine \in Machines
  PROVE  Kernels \subseteq DOMAIN Rank /\ "scalar" \in Kernels
<1>1. machine.isa \in Isas
  BY DEF Machines, RiscvMachines, Shapes, X86Machines, ArmMachines, HwcapMachines, Isas
<1> QED
  BY <1>1, RegistryAssumption DEF Kernels

-----------------------------------------------------------------------------
(* The ladder *)

\* Somebody tells the program of the vector unit.
Told(m) == m.hwprobe \/ m.hwcap

\* A verdict claims nothing the machine lacks.
Sound(m, v) ==
  /\ v.xthead => m.unit = "xthead" /\ m.enabled
  /\ v.rvv => m.unit = "rvv" /\ m.enabled /\ v.vlenb = m.vlenb
  /\ v.zvbb => m.zvbb

\* A verdict at the ladder's end: it claims all there is to be known, too.
Settled(m, v) ==
  /\ v.xthead <=> m.unit = "xthead" /\ m.enabled /\ Told(m)
  /\ v.rvv <=> m.unit = "rvv" /\ m.enabled /\ Told(m)
  /\ v.rvv => v.vlenb = m.vlenb
  /\ v.zvbb <=> v.rvv /\ m.zvbb /\ m.hwprobe

\* The instructions the ladder may have to run on a machine.
Pends(m, instruction) ==
  \/ instruction = "vsetvli" /\ BaseProbe(m).pending = "vendor_unit"
  \/ /\ BaseProbe(m).pending = "legacy"
     /\ \/ instruction = "csrr vlenb"
        \/ instruction = "vsetvli vtype" /\ ~Traps(m, "csrr vlenb")

LEMMA MachineIs ==
  ASSUME NEW m \in RiscvMachines
  PROVE  /\ Plausible(m) /\ m.isa = "riscv"
         /\ m.unit \in {"none", "rvv", "xthead"} /\ m.vlenb \in {16, 64}
         /\ m.enabled \in BOOLEAN /\ m.zvbb \in BOOLEAN /\ m.csr \in BOOLEAN
         /\ m.thead \in BOOLEAN /\ m.hwcap \in BOOLEAN /\ m.hwprobe \in BOOLEAN
         /\ m.vendorKey \in BOOLEAN /\ m.vendorBit \in BOOLEAN /\ m.imaV \in BOOLEAN
         /\ m.assume \in {"unset", "yes", "no"}
BY DEF RiscvMachines, Shapes, Vlenbs

\* base_probe(), rung by rung.
LEMMA BaseIs ==
  ASSUME NEW m \in RiscvMachines
  PROVE  LET b == BaseProbe(m)
             key == m.hwprobe /\ m.vendorKey /\ m.vendorBit
             ima == m.hwprobe /\ m.imaV
             dark == m.hwprobe /\ ~m.imaV /\ ~m.vendorBit /\ m.thead
             old == ~m.hwprobe /\ m.hwcap
         IN /\ b.xthead <=> key \/ (~ima /\ dark /\ m.hwcap)
            /\ b.rvv <=> ~key /\ ima
            /\ b.rvv => b.vlenb = m.vlenb
            /\ b.zvbb <=> b.rvv /\ m.zvbb
            /\ b.pending = "vendor_unit" <=> ~key /\ ~ima /\ dark /\ ~m.hwcap
            /\ b.pending = "legacy" <=> old
            /\ b.pending \in {"none", "vendor_unit", "legacy"}
<1>1. /\ m.enabled \in BOOLEAN /\ m.zvbb \in BOOLEAN /\ m.thead \in BOOLEAN
      /\ m.hwcap \in BOOLEAN /\ m.hwprobe \in BOOLEAN /\ m.vendorKey \in BOOLEAN
      /\ m.vendorBit \in BOOLEAN /\ m.imaV \in BOOLEAN
  BY MachineIs
<1>2. CASE m.hwprobe /\ m.vendorKey /\ m.vendorBit
  <2>1. ~(m.hwprobe /\ m.imaV)
    BY <1>2, MachineIs DEF Plausible
  <2>2. BaseProbe(m) = [NoVerdict EXCEPT !.xthead = TRUE]
    BY <1>2, <2>1 DEF BaseProbe
  <2> QED
    BY <1>1, <1>2, <2>1, <2>2 DEF NoVerdict
<1>3. CASE ~(m.hwprobe /\ m.vendorKey /\ m.vendorBit) /\ m.hwprobe /\ m.imaV
  <2>1. BaseProbe(m) = [NoVerdict EXCEPT !.rvv = TRUE, !.vlenb = m.vlenb, !.zvbb = m.zvbb]
    BY <1>1, <1>3 DEF BaseProbe
  <2> QED
    BY <1>1, <1>3, <2>1 DEF NoVerdict
<1>4. CASE m.hwprobe /\ ~m.imaV /\ ~m.vendorBit /\ m.thead
  <2>1. BaseProbe(m) = IF m.hwcap THEN [NoVerdict EXCEPT !.xthead = TRUE]
                       ELSE [NoVerdict EXCEPT !.pending = "vendor_unit"]
    BY <1>4 DEF BaseProbe
  <2> QED
    BY <1>1, <1>4, <2>1 DEF NoVerdict
<1>5. CASE ~m.hwprobe /\ m.hwcap
  <2>1. BaseProbe(m) = [NoVerdict EXCEPT !.pending = "legacy"]
    BY <1>5 DEF BaseProbe
  <2> QED
    BY <1>1, <1>5, <2>1 DEF NoVerdict
<1>6. CASE /\ ~(m.hwprobe /\ m.vendorKey /\ m.vendorBit) /\ ~(m.hwprobe /\ m.imaV)
           /\ ~(m.hwprobe /\ ~m.imaV /\ ~m.vendorBit /\ m.thead)
           /\ ~(~m.hwprobe /\ m.hwcap)
  <2>1. BaseProbe(m) = NoVerdict
    BY <1>6 DEF BaseProbe
  <2> QED
    BY <1>1, <1>6, <2>1 DEF NoVerdict
<1> QED
  BY <1>2, <1>3, <1>4, <1>5, <1>6

LEMMA BaseIsSound ==
  ASSUME NEW m \in RiscvMachines
  PROVE  Sound(m, BaseProbe(m))
BY MachineIs, BaseIs DEF Sound, Plausible

\* Without a pending rung the base verdict is the last one.
LEMMA LadderStarts ==
  ASSUME NEW m \in RiscvMachines
  PROVE  /\ BaseProbe(m).pending = "none" => Settled(m, BaseProbe(m))
         /\ BaseProbe(m).pending # "none" =>
              ~BaseProbe(m).rvv /\ ~BaseProbe(m).xthead /\ ~BaseProbe(m).zvbb
         /\ FirstProbe(BaseProbe(m)) = "none" <=> BaseProbe(m).pending = "none"
         /\ FirstProbe(BaseProbe(m)) # "none" => Pends(m, FirstProbe(BaseProbe(m)))
<1>1. BaseProbe(m).pending = "none" => Settled(m, BaseProbe(m))
  BY MachineIs, BaseIs DEF Settled, Told, Plausible
<1>2. BaseProbe(m).pending # "none" =>
        ~BaseProbe(m).rvv /\ ~BaseProbe(m).xthead /\ ~BaseProbe(m).zvbb
  BY MachineIs, BaseIs
<1>3. BaseProbe(m).pending \in {"none", "vendor_unit", "legacy"}
  BY BaseIs
<1>4. /\ FirstProbe(BaseProbe(m)) = "none" <=> BaseProbe(m).pending = "none"
      /\ FirstProbe(BaseProbe(m)) # "none" => Pends(m, FirstProbe(BaseProbe(m)))
  BY <1>3 DEF FirstProbe, Pends
<1> QED
  BY <1>1, <1>2, <1>4

Verdicts ==
  [rvv : BOOLEAN, xthead : BOOLEAN, zvbb : BOOLEAN, vlenb : {0} \cup Vlenbs,
   pending : {"none", "vendor_unit", "legacy"}]

\* A rung ends the ladder with a settled verdict or leads to the next.
LEMMA LadderGoesOn ==
  ASSUME NEW m \in RiscvMachines, NEW i, Pends(m, i), NEW up \in Verdicts,
         ~up.rvv, ~up.xthead, ~up.zvbb, NEW ok \in BOOLEAN, ok <=> ~Traps(m, i)
  PROVE  LET v == Learns(m, up, i, ok)
         IN /\ v \in Verdicts
            /\ NextProbe(i, ok) = "none" => Settled(m, v)
            /\ NextProbe(i, ok) # "none" =>
                 Pends(m, NextProbe(i, ok)) /\ ~v.rvv /\ ~v.xthead /\ ~v.zvbb
<1>1. /\ m.unit \in {"none", "rvv", "xthead"} /\ m.vlenb \in Vlenbs
      /\ m.enabled \in BOOLEAN /\ m.csr \in BOOLEAN /\ m.hwcap \in BOOLEAN
      /\ m.hwprobe \in BOOLEAN /\ Plausible(m)
  BY MachineIs DEF Vlenbs
<1>2. CASE i = "vsetvli"
  <2>1. Learns(m, up, i, ok) = [up EXCEPT !.xthead = ok] /\ NextProbe(i, ok) = "none"
    BY <1>2 DEF Learns, NextProbe
  <2>2. m.hwprobe /\ ~m.imaV
    BY <1>1, <1>2, BaseIs DEF Pends
  <2>3. ok <=> m.enabled
    BY <1>1, <1>2 DEF Traps
  <2>4. m.unit = "rvv" => ~m.enabled
    BY <1>1, <2>2 DEF Plausible
  <2>5. m.unit = "none" => ~m.enabled
    BY <1>1 DEF Plausible
  <2>6. LET v == [up EXCEPT !.xthead = ok]
        IN v \in Verdicts /\ v.xthead = ok /\ v.rvv = up.rvv /\ v.zvbb = up.zvbb
    BY DEF Verdicts
  <2> QED
    BY <1>1, <2>1, <2>2, <2>3, <2>4, <2>5, <2>6 DEF Settled, Told
<1>3. CASE i = "csrr vlenb"
  <2>1. /\ Learns(m, up, i, ok) = [up EXCEPT !.xthead = ~ok]
        /\ NextProbe(i, ok) = IF ok THEN "vsetvli vtype" ELSE "none"
    BY <1>3 DEF Learns, NextProbe
  <2>2. BaseProbe(m).pending = "legacy" /\ m.hwcap /\ ~m.hwprobe /\ m.enabled
    BY <1>1, <1>3, BaseIs DEF Pends, Plausible
  <2>3. ok <=> ~(m.unit = "xthead" /\ ~m.csr)
    BY <1>1, <1>3, <2>2 DEF Traps
  <2>4. LET v == [up EXCEPT !.xthead = ~ok]
        IN v \in Verdicts /\ v.xthead = ~ok /\ v.rvv = up.rvv /\ v.zvbb = up.zvbb
    BY DEF Verdicts
  <2>5. CASE ok
    <3>1. Pends(m, "vsetvli vtype")
      BY <1>3, <2>2, <2>5 DEF Pends
    <3> QED
      BY <2>1, <2>4, <2>5, <3>1
  <2>6. CASE ~ok
    BY <1>1, <2>1, <2>2, <2>3, <2>4, <2>6 DEF Settled, Told
  <2> QED
    BY <2>5, <2>6
<1>4. CASE i = "vsetvli vtype"
  <2>1. BaseProbe(m).pending = "legacy" /\ m.hwcap /\ ~m.hwprobe /\ m.enabled
    BY <1>1, <1>4, BaseIs DEF Pends, Plausible
  <2>2. ok /\ NextProbe(i, ok) = "none"
    BY <1>1, <1>4, <2>1 DEF Traps, NextProbe
  <2>3. CASE m.unit = "rvv"
    <3>1. Learns(m, up, i, ok) = [up EXCEPT !.rvv = TRUE, !.vlenb = m.vlenb]
      BY <1>4, <2>2, <2>3 DEF Learns
    <3>2. LET v == [up EXCEPT !.rvv = TRUE, !.vlenb = m.vlenb]
          IN v \in Verdicts /\ v.xthead = up.xthead /\ v.rvv /\ v.zvbb = up.zvbb /\ v.vlenb = m.vlenb
      BY <1>1 DEF Verdicts
    <3> QED
      BY <1>1, <2>1, <2>2, <2>3, <3>1, <3>2 DEF Settled, Told
  <2>4. CASE m.unit # "rvv"
    <3>1. Learns(m, up, i, ok) = [up EXCEPT !.xthead = ok]
      BY <1>4, <2>2, <2>4 DEF Learns
    <3>2. LET v == [up EXCEPT !.xthead = ok]
          IN v \in Verdicts /\ v.xthead = ok /\ v.rvv = up.rvv /\ v.zvbb = up.zvbb
      BY DEF Verdicts
    <3>3. m.unit = "xthead"
      BY <1>1, <2>1, <2>4 DEF Plausible
    <3> QED
      BY <1>1, <2>1, <2>2, <3>1, <3>2, <3>3 DEF Settled, Told
  <2> QED
    BY <2>3, <2>4
<1> QED
  BY <1>2, <1>3, <1>4 DEF Pends

\* A refused guard ends the ladder, and only a vlenb not read is taken for
\* a discovery.
LEMMA RefusalEndsLadder ==
  ASSUME NEW m \in RiscvMachines, NEW i, Pends(m, i), NEW up \in Verdicts,
         ~up.rvv, ~up.xthead, ~up.zvbb
  PROVE  LET v == Learns(m, up, i, FALSE)
         IN /\ v \in Verdicts /\ ~v.rvv /\ ~v.zvbb
            /\ v.xthead <=> i = "csrr vlenb"
            /\ NextProbe(i, FALSE) = "none" /\ BaseProbe(m).pending # "none"
<1>1. i \in {"vsetvli", "csrr vlenb", "vsetvli vtype"} /\ BaseProbe(m).pending # "none"
  BY DEF Pends
<1>2. Learns(m, up, i, FALSE) = [up EXCEPT !.xthead = (i = "csrr vlenb")]
  BY <1>1 DEF Learns
<1>3. LET v == [up EXCEPT !.xthead = (i = "csrr vlenb")]
      IN /\ v \in Verdicts /\ v.rvv = up.rvv /\ v.zvbb = up.zvbb
         /\ v.xthead = (i = "csrr vlenb")
  BY DEF Verdicts
<1> QED
  BY <1>1, <1>2, <1>3 DEF NextProbe

\* Without news the base verdict is as good as the ladder's.
LEMMA NoNews ==
  ASSUME NEW m \in RiscvMachines, NEW up, Settled(m, up),
         up.rvv <=> BaseProbe(m).rvv, up.xthead <=> BaseProbe(m).xthead
  PROVE  Settled(m, BaseProbe(m))
<1>1. CASE BaseProbe(m).pending = "none"
  BY <1>1, LadderStarts
<1>2. CASE BaseProbe(m).pending # "none"
  BY <1>2, LadderStarts DEF Settled
<1> QED
  BY <1>1, <1>2

-----------------------------------------------------------------------------
(* What the platform says against what the machine runs *)

Vouched(m, v) == m.isa = "riscv" => Sound(m, v)
Final(m, v) == m.isa = "riscv" => Settled(m, v)

LEMMA IsasAre ==
  ASSUME NEW m \in Machines
  PROVE  \/ m \in RiscvMachines /\ m.isa = "riscv"
         \/ m \in X86Machines /\ m.isa = "x86"
         \/ m \in ArmMachines /\ m.isa = "arm"
         \/ m \in HwcapMachines /\ m.isa \in {"ppc", "s390", "mips"}
         \/ m.isa = "wasm"
BY DEF Machines, RiscvMachines, Shapes, X86Machines, ArmMachines, HwcapMachines

LEMMA X86Agrees ==
  ASSUME NEW m \in X86Machines, NEW k, k # "scalar"
  PROVE  X86Supports(m, k) <=> X86Runs(m, k) /\ Recognizable(m, k)
<1>1. /\ m.isa = "x86" /\ m.osxsave \in BOOLEAN /\ m.leaves \in {4, 7}
      /\ m.features \in {{}, {"sse42"}, {"sse42", "avx2"}, {"sse42", "avx2", "f", "cd"},
                         {"sse42", "avx2"} \cup Avx512}
      /\ m.saved \in {{"xmm"}, {"xmm", "ymm"}, {"xmm", "ymm", "zmm"}}
      /\ "avx2" \in m.features => m.leaves = 7
  BY DEF X86Machines
<1>2. Recognizable(m, k) <=> (k # "sse42" => m.osxsave)
  BY <1>1 DEF Recognizable
<1>3. CASE k = "sse42"
  BY <1>2, <1>3 DEF X86Supports, X86Runs
<1>4. CASE k = "avx2"
  <2>1. StateSaved(m, {"xmm", "ymm"}) <=> "ymm" \in m.saved
    BY <1>1 DEF StateSaved
  <2>2. k \in Leaf7(m) <=> k \in m.features
    BY <1>1, <1>4 DEF Leaf7
  <2> QED
    BY <1>1, <1>2, <1>4, <2>1, <2>2 DEF X86Supports, X86Runs
<1>5. CASE k = "avx512"
  <2>1. StateSaved(m, {"xmm", "ymm", "zmm"}) <=> "zmm" \in m.saved
    BY <1>1 DEF StateSaved
  <2>2. Avx512 \subseteq m.features => "avx2" \in m.features
    BY <1>1 DEF Avx512
  <2>3. Avx512 \subseteq Leaf7(m) <=> Avx512 \subseteq m.features
    BY <1>1, <2>2 DEF Leaf7, Avx512
  <2> QED
    BY <1>1, <1>2, <1>5, <2>1, <2>3 DEF X86Supports, X86Runs
<1>6. CASE k \notin {"sse42", "avx2", "avx512"}
  BY <1>6 DEF X86Supports, X86Runs
<1> QED
  BY <1>3, <1>4, <1>5, <1>6

LEMMA ArmAgrees ==
  ASSUME NEW m \in ArmMachines, NEW k, k # "scalar"
  PROVE  ArmSupports(m, k) <=> ArmRuns(m, k) /\ Recognizable(m, k)
<1>1. /\ m.isa = "arm" /\ m.os \in {"linux", "windows", "other"} /\ m.sve \in BOOLEAN
      /\ m.sve2 \in BOOLEAN /\ m.vl \in {16, 32, 64, 128} /\ m.state \in BOOLEAN
      /\ m.asm \in BOOLEAN
      /\ m.os = "other" => ~m.sve
      /\ m.state \/ (m.os = "linux" /\ m.sve)
      /\ m.asm \/ (m.os = "windows" /\ m.sve)
  BY DEF ArmMachines
<1>2. Recognizable(m, k) <=> (k \in Sve => m.os = "linux" \/ m.asm)
  BY <1>1 DEF Recognizable
<1>3. SveBytes(k) \in {16, 32, 64}
  BY DEF SveBytes
<1>4. CASE k = "neon"
  BY <1>1, <1>2, <1>4 DEF ArmSupports, ArmRuns, Sve, Sve2
<1>5. CASE k # "neon" /\ k \in Sve
  <2>1. SveFound(m) <=> m.sve /\ m.state
    BY <1>1 DEF SveFound
  <2>2. m.sve /\ (m.os = "linux" \/ m.asm) => SveLength(m) = m.vl
    BY <1>1 DEF SveLength
  <2>3. m.sve /\ ~(m.os = "linux" \/ m.asm) => SveLength(m) = 0
    BY <1>1 DEF SveLength
  <2> QED
    BY <1>1, <1>2, <1>3, <1>5, <2>1, <2>2, <2>3 DEF ArmSupports, ArmRuns, LengthMatches
<1>6. CASE k # "neon" /\ k \notin Sve
  BY <1>6 DEF ArmSupports, ArmRuns
<1> QED
  BY <1>4, <1>5, <1>6

LEMMA HwcapAgrees ==
  ASSUME NEW m \in HwcapMachines, NEW k, k # "scalar"
  PROVE  HwcapSupports(m, k) <=> HwcapRuns(m, k) /\ Recognizable(m, k)
<1>1. /\ m.isa \in {"ppc", "s390", "mips"} /\ m.linux \in BOOLEAN /\ m.switched \in BOOLEAN
      /\ m.unit \in {{}, {"base"}, {"base", "extension"}}
      /\ m.switched => m.unit # {}
  BY DEF HwcapMachines
<1>2. Recognizable(m, k) <=> m.linux
  BY <1>1 DEF Recognizable
<1>3. "base" \in m.unit <=> m.unit # {}
  BY <1>1
<1>4. "extension" \in m.unit => "base" \in m.unit
  BY <1>1
<1>5. DOMAIN IsaOf = {"vsx", "vxe", "msa"}
  BY DEF IsaOf
<1>6. CASE k = "vxe"
  BY <1>1, <1>2, <1>3, <1>4, <1>5, <1>6 DEF HwcapSupports, HwcapRuns, Hwcap, Needs
<1>7. CASE k # "vxe"
  BY <1>1, <1>2, <1>3, <1>7 DEF HwcapSupports, HwcapRuns, Hwcap, Needs
<1> QED
  BY <1>6, <1>7

LEMMA RiscvAgrees ==
  ASSUME NEW m \in RiscvMachines, NEW k, k # "scalar", NEW v
  PROVE  /\ Sound(m, v) /\ RiscvSupports(m, v, k) => RiscvRuns(m, k)
         /\ Settled(m, v) /\ m.assume # "yes" =>
              (RiscvSupports(m, v, k) <=> RiscvRuns(m, k) /\ Recognizable(m, k))
<1>1. /\ Plausible(m) /\ m.isa = "riscv" /\ m.assume \in {"unset", "yes", "no"}
      /\ m.enabled \in BOOLEAN /\ m.zvbb \in BOOLEAN /\ m.hwcap \in BOOLEAN
      /\ m.hwprobe \in BOOLEAN
  BY MachineIs
<1>2. "xthead" \notin Rvv
  BY DEF Rvv
<1>3. Zvbb \subseteq Rvv
  BY DEF Zvbb, Rvv
<1>4. Sound(m, v) /\ RiscvSupports(m, v, k) => RiscvRuns(m, k)
  BY <1>1, <1>2 DEF Sound, RiscvSupports, RiscvRuns, Plausible
<1>5. ASSUME Settled(m, v), m.assume # "yes"
      PROVE  RiscvSupports(m, v, k) <=> RiscvRuns(m, k) /\ Recognizable(m, k)
  <2>1. Recognizable(m, k) <=> /\ Told(m)
                               /\ k \in Zvbb => m.hwprobe
                               /\ k = "xthead" => m.assume # "no"
    BY <1>1 DEF Recognizable, Told
  <2>2. CASE k = "xthead"
    BY <1>1, <1>2, <1>3, <1>5, <2>1, <2>2 DEF Settled, RiscvSupports, RiscvRuns
  <2>3. CASE k # "xthead"
    BY <1>1, <1>3, <1>5, <2>1, <2>3 DEF Settled, RiscvSupports, RiscvRuns
  <2> QED
    BY <2>2, <2>3
<1> QED
  BY <1>4, <1>5

\* The platform never says yes to what the machine lacks, and says it to
\* all of it at the ladder's end.
LEMMA PlatformAgrees ==
  ASSUME NEW m \in Machines, NEW v, NEW k
  PROVE  /\ Vouched(m, v) /\ Supports(m, v, k) => Runs(m, k)
         /\ Final(m, v) /\ ~(m.isa = "riscv" /\ m.assume = "yes") =>
              (Supports(m, v, k) <=> k = "scalar" \/ (Runs(m, k) /\ Recognizable(m, k)))
<1>1. CASE k = "scalar"
  BY <1>1 DEF Supports, Runs
<1>2. CASE k # "scalar" /\ m \in RiscvMachines /\ m.isa = "riscv"
  BY <1>2, RiscvAgrees DEF Supports, Runs, Vouched, Final
<1>3. CASE k # "scalar" /\ m \in X86Machines /\ m.isa = "x86"
  BY <1>3, X86Agrees DEF Supports, Runs
<1>4. CASE k # "scalar" /\ m \in ArmMachines /\ m.isa = "arm"
  BY <1>4, ArmAgrees DEF Supports, Runs
<1>5. CASE k # "scalar" /\ m \in HwcapMachines /\ m.isa \in {"ppc", "s390", "mips"}
  BY <1>5, HwcapAgrees DEF Supports, Runs
<1>6. CASE k # "scalar" /\ m.isa = "wasm"
  BY <1>6 DEF Supports, Runs, Recognizable
<1> QED
  BY <1>1, <1>2, <1>3, <1>4, <1>5, <1>6, IsasAre

\* A verdict that claims no ratified unit adds "xthead" at the most.
LEMMA UnclaimedAdds ==
  ASSUME NEW m \in Machines, m.isa = "riscv", NEW v, ~v.rvv, NEW k
  PROVE  /\ Supports(m, v, k) => k = "xthead" \/ Runs(m, k)
         /\ ~v.xthead /\ m.assume # "yes" => (Supports(m, v, k) <=> k = "scalar")
BY DEF Supports, Runs, RiscvSupports

-----------------------------------------------------------------------------
(* The inductive invariant *)

\* The kernels that calls after the upgrade choose from.
Served == {k \in Kernels :
             \/ k = "scalar"
             \/ probe.refused = None /\ Runs(machine, k) /\ Recognizable(machine, k)}

\* What a table may hold: a kernel that runs, and the one a vlenb not read
\* brings in.
Admits(k) == Runs(machine, k) \/ (Misread /\ k = "xthead")

Wants == {"auto"} \cup Requests[machine.isa]

Calls ==
  [at : {"idle", "probing", "tune", "find", "win"}]
    \cup [at : {"best"}, want : Wants, late : BOOLEAN]
    \cup [at : {"resolved"}, kernel : Kernels, want : Wants, late : BOOLEAN]
    \cup [at : {"set", "pass"}, mode : 1 .. 3]
    \cup [at : {"leave"}, winner : Range(Dials)]

TypeOK ==
  /\ machine \in Machines
  /\ base \in [by : Threads \cup {None}, left : SUBSET Kernels, table : SUBSET Kernels]
  /\ probe \in [by : Threads \cup {None},
                at : {"idle", "guard", "body", "restore", "verdict", "table", "done", "lost"},
                up : Verdicts,
                instruction : {"none", "vsetvli", "csrr vlenb", "vsetvli vtype"},
                ok : BOOLEAN,
                refused : {"none", "vsetvli", "csrr vlenb", "vsetvli vtype"}]
  /\ availActive \in SUBSET Kernels
  /\ call \in [Threads -> Calls]
  /\ faults \in Nat
  /\ upgraded \in BOOLEAN

\* The ladder ended at a refused guard: nothing is learned but the claim
\* made of a vlenb that was not read.
Unlearned ==
  /\ machine.isa = "riscv" /\ BaseProbe(machine).pending # "none"
  /\ ~probe.up.rvv /\ ~probe.up.zvbb /\ (probe.up.xthead <=> Misread)

\* The verdict under construction claims nothing while a rung is left, and
\* everything when none is, unless a guard was refused.
LadderInv ==
  /\ probe.by = None => probe.at = "idle" /\ probe.refused = None
  /\ probe.by # None /\ probe.instruction = "none" =>
       /\ probe.at \in {"guard", "verdict", "table", "done"}
       /\ IF probe.refused = None THEN Final(machine, probe.up) ELSE Unlearned
  /\ probe.by # None /\ probe.instruction # "none" =>
       /\ probe.at \in {"guard", "body", "restore", "lost"} /\ probe.refused = None
       /\ machine.isa = "riscv" /\ Pends(machine, probe.instruction)
       /\ ~probe.up.rvv /\ ~probe.up.xthead /\ ~probe.up.zvbb
  /\ probe.at = "restore" => (probe.ok <=> ~Traps(machine, probe.instruction))

\* What is published is the ladder's verdict, and the table made under it;
\* until then the base table is what the base verdict makes it.
PublishInv ==
  /\ trapActive = << >> \/ trapActive = <<probe.up>>
  /\ trapActive # << >> => News /\ probe.at \in {"table", "done"}
  /\ probe.at = "table" => trapActive # << >>
  /\ probe.at = "done" /\ News => trapActive # << >> /\ availActive = Table(probe.up)
  /\ availActive # {} => probe.at = "done" /\ News
  /\ trapActive = << >> => base.table = Table(BaseVerdict(machine)) \ base.left
  /\ upgraded => probe.at = "done"

\* The base table holds what the machine runs, a misread unit apart, and
\* the portable kernel at the least.
BaseInv ==
  /\ \A k \in base.table : Admits(k)
  /\ "scalar" \in base.left \cup base.table

Serves(kernel, want) == kernel = IF want \in Served THEN want ELSE Best(Served)

CallInv ==
  \A t \in Threads :
    /\ call[t].at = "resolved" => Admits(call[t].kernel)
    /\ call[t].at \in {"best", "resolved"} /\ call[t].late => upgraded
    /\ call[t].at = "best" /\ call[t].late /\ ~Asserted /\ ~Misread =>
         call[t].want \notin Served
    /\ call[t].at = "resolved" /\ call[t].late /\ ~Asserted /\ ~Misread =>
         Serves(call[t].kernel, call[t].want)

SignalInv ==
  /\ disposition = "guard" => probe.at \in {"body", "restore"}
  /\ probe.at = "body" /\ faults = 0 => disposition = "guard"
  /\ faults = 0 => probe.at # "lost"

TuneInv ==
  \A t \in Threads :
    /\ call[t].at \in {"find", "set", "pass", "win", "leave"} => tuning = t
    /\ call[t].at = "pass" => dial = Dials[call[t].mode]
    /\ call[t].at = "leave" => dial = call[t].winner

IInv == TypeOK /\ LadderInv /\ PublishInv /\ BaseInv /\ CallInv /\ SignalInv /\ TuneInv

-----------------------------------------------------------------------------
(* What the invariant says of a verdict and of a table *)

LEMMA SettledIsSound ==
  ASSUME NEW m, NEW v, Final(m, v)
  PROVE  Vouched(m, v)
BY DEF Final, Vouched, Settled, Sound

LEMMA BaseVerdictIs ==
  ASSUME machine \in Machines
  PROVE  /\ BaseVerdict(machine) \in Verdicts
         /\ Vouched(machine, BaseVerdict(machine))
         /\ machine.isa # "riscv" => BaseVerdict(machine) = NoVerdict
<1>1. NoVerdict \in Verdicts
  BY DEF NoVerdict, Verdicts
<1>2. ASSUME machine.isa = "riscv"
      PROVE  BaseProbe(machine) \in Verdicts /\ Sound(machine, BaseProbe(machine))
  <2>1. machine \in RiscvMachines
    BY <1>2, IsasAre
  <2>2. /\ machine.hwprobe \in BOOLEAN /\ machine.vlenb \in Vlenbs /\ machine.zvbb \in BOOLEAN
    BY <2>1, MachineIs DEF Vlenbs
  <2>3. /\ [NoVerdict EXCEPT !.xthead = TRUE] \in Verdicts
        /\ [NoVerdict EXCEPT !.rvv = TRUE, !.vlenb = machine.vlenb, !.zvbb = machine.zvbb]
             \in Verdicts
        /\ [NoVerdict EXCEPT !.pending = "vendor_unit"] \in Verdicts
        /\ [NoVerdict EXCEPT !.pending = "legacy"] \in Verdicts
    BY <2>2 DEF NoVerdict, Verdicts
  <2>4. BaseProbe(machine) \in Verdicts
    BY <1>1, <2>3 DEF BaseProbe
  <2> QED
    BY <2>1, <2>4, BaseIsSound
<1> QED
  BY <1>1, <1>2 DEF BaseVerdict, Vouched

LEMMA VerdictIs ==
  ASSUME IInv
  PROVE  /\ trapActive # << >> =>
              /\ Verdict = probe.up /\ News
              /\ IF probe.refused = None THEN Final(machine, probe.up) ELSE Unlearned
         /\ trapActive = << >> => Verdict = BaseVerdict(machine)
<1>1. trapActive = << >> => Verdict = BaseVerdict(machine)
  BY DEF Verdict
<1>2. ASSUME trapActive # << >>
      PROVE  /\ Verdict = probe.up /\ News
             /\ IF probe.refused = None THEN Final(machine, probe.up) ELSE Unlearned
  <2>1. trapActive = <<probe.up>> /\ probe.at \in {"table", "done"} /\ News
    BY <1>2 DEF IInv, PublishInv
  <2>2. Verdict = probe.up
    BY <1>2, <2>1 DEF Verdict
  <2>3. probe.by # None
    BY <2>1 DEF IInv, LadderInv
  <2>4. probe.instruction = "none"
    BY <2>1, <2>3 DEF IInv, LadderInv
  <2> QED
    BY <2>1, <2>2, <2>3, <2>4 DEF IInv, LadderInv
<1> QED
  BY <1>1, <1>2

\* What the platform says yes to under the verdict in force may be tabled.
LEMMA VerdictAdmits ==
  ASSUME IInv, NEW k, Supports(machine, Verdict, k)
  PROVE  Admits(k)
<1>1. machine \in Machines
  BY DEF IInv, TypeOK
<1>2. CASE trapActive = << >> \/ probe.refused = None
  <2>1. Vouched(machine, Verdict)
    BY <1>1, <1>2, VerdictIs, BaseVerdictIs, SettledIsSound
  <2> QED
    BY <1>1, <2>1, PlatformAgrees DEF Admits
<1>3. CASE trapActive # << >> /\ probe.refused # None
  <2>1. Verdict = probe.up /\ News /\ Unlearned
    BY <1>3, VerdictIs
  <2>2. machine \in RiscvMachines /\ BaseVerdict(machine) = BaseProbe(machine)
    BY <1>1, <2>1, IsasAre DEF Unlearned, BaseVerdict
  <2>3. ~BaseProbe(machine).rvv /\ ~BaseProbe(machine).xthead
    BY <2>1, <2>2, LadderStarts DEF Unlearned
  <2>4. /\ BaseProbe(machine) \in Verdicts /\ probe.up \in Verdicts
    BY <1>1, <2>2, BaseVerdictIs DEF IInv, TypeOK
  <2>5. Misread
    BY <2>1, <2>2, <2>3, <2>4 DEF News, Unlearned, Verdicts
  <2> QED
    BY <1>1, <2>1, <2>5, UnclaimedAdds DEF Unlearned, Admits
<1> QED
  BY <1>2, <1>3

LEMMA TableServes ==
  ASSUME machine \in Machines, NEW v, ~Asserted,
         \/ probe.refused = None /\ Final(machine, v)
         \/ probe.refused # None /\ machine.isa = "riscv" /\ ~v.rvv /\ ~v.xthead
  PROVE  Table(v) = Served
<1>1. CASE probe.refused = None /\ Final(machine, v)
  <2>1. ASSUME NEW k
        PROVE  Supports(machine, v, k) <=>
                 k = "scalar" \/ (Runs(machine, k) /\ Recognizable(machine, k))
    BY <1>1, PlatformAgrees DEF Asserted
  <2> QED
    BY <1>1, <2>1 DEF Table, Served
<1>2. CASE probe.refused # None /\ machine.isa = "riscv" /\ ~v.rvv /\ ~v.xthead
  <2>1. ASSUME NEW k
        PROVE  Supports(machine, v, k) <=> k = "scalar"
    BY <1>2, UnclaimedAdds DEF Asserted
  <2> QED
    BY <1>2, <2>1 DEF Table, Served
<1> QED
  BY <1>1, <1>2

\* The table in use holds what may be tabled, and is not empty.
LEMMA AvailableIs ==
  ASSUME IInv, BaseReady
  PROVE  /\ Available \in SUBSET Kernels /\ Available # {}
         /\ \A k \in Available : Admits(k)
<1>1. CASE availActive = {}
  BY <1>1 DEF IInv, TypeOK, BaseInv, BaseReady, Available
<1>2. CASE availActive # {}
  <2>1. availActive = Table(probe.up) /\ trapActive # << >>
    BY <1>2 DEF IInv, PublishInv
  <2>2. Verdict = probe.up
    BY <2>1, VerdictIs
  <2>3. \A k \in Table(Verdict) : Admits(k)
    BY VerdictAdmits DEF Table
  <2> QED
    BY <1>2, <2>1, <2>2, <2>3 DEF IInv, TypeOK, Available
<1> QED
  BY <1>1, <1>2

\* After the upgrade the verdict and the table in use are the last ones.
LEMMA UpgradeIs ==
  ASSUME IInv, upgraded, ~Asserted, ~Misread
  PROVE  /\ \A k \in Kernels : Supports(machine, Verdict, k) <=> k \in Served
         /\ BaseReady => Available = Served
<1>1. machine \in Machines /\ probe.at = "done"
  BY DEF IInv, TypeOK, PublishInv
<1>2. /\ probe.refused = None => Final(machine, probe.up)
      /\ probe.refused # None => Unlearned
  <2>1. probe.by # None
    BY <1>1 DEF IInv, LadderInv
  <2>2. probe.instruction = "none"
    BY <1>1, <2>1 DEF IInv, LadderInv
  <2> QED
    BY <2>1, <2>2 DEF IInv, LadderInv
<1>3. CASE News
  <2>1. trapActive # << >> /\ availActive = Table(probe.up)
    BY <1>1, <1>3 DEF IInv, PublishInv
  <2>2. Verdict = probe.up
    BY <2>1, VerdictIs
  <2>3. Table(probe.up) = Served
    BY <1>1, <1>2, TableServes DEF Unlearned
  <2>4. "scalar" \in Served
    BY <1>1, RegistryIs DEF Served
  <2> QED
    BY <2>1, <2>2, <2>3, <2>4 DEF Table, Available
<1>4. CASE ~News
  <2>1. trapActive = << >> /\ availActive = {}
    BY <1>4 DEF IInv, PublishInv
  <2>2. probe.refused = None => Final(machine, BaseVerdict(machine))
    <3>1. ASSUME machine.isa = "riscv", probe.refused = None
          PROVE  Settled(machine, BaseProbe(machine))
      <4>1. BaseVerdict(machine) = BaseProbe(machine) /\ machine \in RiscvMachines
        BY <1>1, <3>1, IsasAre DEF BaseVerdict
      <4>2. BaseVerdict(machine) \in Verdicts /\ probe.up \in Verdicts
        BY <1>1, BaseVerdictIs DEF IInv, TypeOK
      <4>3. /\ probe.up.rvv <=> BaseProbe(machine).rvv
            /\ probe.up.xthead <=> BaseProbe(machine).xthead
        BY <1>4, <4>1 DEF News
      <4>4. Settled(machine, probe.up)
        BY <1>2, <3>1 DEF Final
      <4> QED
        BY <4>1, <4>3, <4>4, NoNews
    <3> QED
      BY <3>1 DEF Final, BaseVerdict
  <2>3. ASSUME probe.refused # None
        PROVE  /\ machine.isa = "riscv"
               /\ ~BaseVerdict(machine).rvv /\ ~BaseVerdict(machine).xthead
    <3>1. machine \in RiscvMachines /\ machine.isa = "riscv"
      BY <1>1, <1>2, <2>3, IsasAre DEF Unlearned
    <3> QED
      BY <1>2, <2>3, <3>1, LadderStarts DEF Unlearned, BaseVerdict
  <2>4. Table(BaseVerdict(machine)) = Served
    BY <1>1, <2>2, <2>3, TableServes
  <2>5. Verdict = BaseVerdict(machine) /\ base.table = Table(BaseVerdict(machine)) \ base.left
    BY <2>1 DEF Verdict, IInv, PublishInv
  <2> QED
    BY <2>1, <2>4, <2>5 DEF Table, Available, BaseReady
<1> QED
  BY <1>3, <1>4

-----------------------------------------------------------------------------
(* It holds in the initial states *)

LEMMA InitInv == Init => IInv
<1> SUFFICES ASSUME Init PROVE IInv
  OBVIOUS
<1>1. machine \in Machines /\ Kernels \subseteq DOMAIN Rank /\ "scalar" \in Kernels
  BY RegistryIs DEF Init
<1>2. TypeOK
  <2>1. NoVerdict \in Verdicts
    BY DEF NoVerdict, Verdicts
  <2>2. base \in [by : Threads \cup {None}, left : SUBSET Kernels, table : SUBSET Kernels]
    BY DEF Init, Kernels
  <2>3. probe \in [by : Threads \cup {None},
                at : {"idle", "guard", "body", "restore", "verdict", "table", "done", "lost"},
                up : Verdicts,
                instruction : {"none", "vsetvli", "csrr vlenb", "vsetvli vtype"},
                ok : BOOLEAN,
                refused : {"none", "vsetvli", "csrr vlenb", "vsetvli vtype"}]
    BY <2>1 DEF Init, None
  <2>4. call \in [Threads -> Calls]
    BY DEF Init, Idle, Calls
  <2> QED
    BY <1>1, <2>2, <2>3, <2>4 DEF Init, TypeOK
<1>3. LadderInv
  BY DEF Init, LadderInv, None
<1>4. PublishInv
  BY DEF Init, PublishInv, Table, Kernels
<1>5. BaseInv
  BY <1>1 DEF Init, BaseInv, Kernels
<1>6. CallInv /\ SignalInv /\ TuneInv
  BY DEF Init, CallInv, SignalInv, TuneInv, Idle
<1> QED
  BY <1>2, <1>3, <1>4, <1>5, <1>6 DEF IInv

-----------------------------------------------------------------------------
(* Every step keeps it *)

\* The steps, sorted by what they touch.
LEMMA Steps ==
  ASSUME Next
  PROVE  \/ ForeignFault
         \/ \E t \in Threads :
              \/ \E want \in Wants : StartResolve(t, want)
              \/ ResolveBest(t) \/ Returns(t) \/ BuildsBase(t)
              \/ StartProbes(t) \/ ReturnsProbes(t)
              \/ EntersProbes(t) \/ Guards(t) \/ GuardRefused(t) \/ Body(t)
              \/ Restores(t) \/ PublishesVerdict(t) \/ PublishesTable(t)
              \/ Tunes(t)
BY DEF Next, Resolves, Probes, Wants

LEMMA MachineStays ==
  ASSUME [Next]_vars
  PROVE  machine' = machine /\ Kernels' = Kernels
<1>1. machine' = machine
  <2>1. CASE Next
    BY <2>1, Steps
       DEF ForeignFault, StartResolve, ResolveBest, Returns, BuildsBase, StartProbes,
           ReturnsProbes, EntersProbes, Guards, GuardRefused, Body, Restores, PublishesVerdict,
           PublishesTable, Tunes, StartTune, EntersTune, FindsKernel, SetsMode, TimesPass,
           AppliesWinner, LeavesTune, probeRest, tuneRest
  <2>2. CASE UNCHANGED vars
    BY <2>2 DEF vars
  <2> QED
    BY <2>1, <2>2
<1> QED
  BY <1>1 DEF Kernels

\* The steps of the tuners touch the dial, the guard and the calls only.
LEMMA TunesTouch ==
  ASSUME NEW t \in Threads, Tunes(t)
  PROVE  UNCHANGED <<dispatchVars, machine, faults>>
BY DEF Tunes, StartTune, EntersTune, FindsKernel, SetsMode, TimesPass, AppliesWinner,
       LeavesTune, tuneRest

Instructions == {"none", "vsetvli", "csrr vlenb", "vsetvli vtype"}

LEMMA ProbeTypeKept ==
  ASSUME IInv, [Next]_vars
  PROVE  probe' \in [by : Threads \cup {None},
                at : {"idle", "guard", "body", "restore", "verdict", "table", "done", "lost"},
                up : Verdicts, instruction : Instructions, ok : BOOLEAN,
                refused : Instructions]
<1> DEFINE P == [by : Threads \cup {None},
                at : {"idle", "guard", "body", "restore", "verdict", "table", "done", "lost"},
                up : Verdicts, instruction : Instructions, ok : BOOLEAN,
                refused : Instructions]
<1>1. probe \in P /\ machine \in Machines
  BY DEF IInv, TypeOK, Instructions
<1>2. ASSUME NEW t \in Threads, EntersProbes(t) PROVE probe' \in P
  <2>1. PICK b \in Verdicts : b = BaseVerdict(machine)
    BY <1>1, BaseVerdictIs
  <2>2. [b EXCEPT !.pending = None] \in Verdicts
    BY DEF Verdicts, None
  <2>3. FirstProbe(b) \in Instructions /\ None \in Instructions
    BY DEF FirstProbe, Instructions, None
  <2> QED
    BY <1>2, <2>1, <2>2, <2>3 DEF EntersProbes
<1>3. ASSUME NEW t \in Threads, Guards(t) PROVE probe' \in P
  BY <1>1, <1>3 DEF Guards
<1>4. ASSUME NEW t \in Threads, GuardRefused(t) PROVE probe' \in P
  <2>1. probe.at = "guard" /\ probe.by = t /\ probe.instruction # "none"
    BY <1>4 DEF GuardRefused, ProbeAt, None
  <2>2. probe.by # None
    BY <2>1, ThreadsAssumption
  <2>3. machine \in RiscvMachines
    BY <1>1, <2>1, <2>2, IsasAre DEF IInv, LadderInv
  <2>4. PICK v : v = Learns(machine, probe.up, probe.instruction, FALSE)
    OBVIOUS
  <2>5. v \in Verdicts /\ NextProbe(probe.instruction, FALSE) = "none"
    BY <1>1, <2>1, <2>2, <2>3, <2>4, RefusalEndsLadder DEF IInv, LadderInv
  <2>6. probe' = [probe EXCEPT !.refused = probe.instruction, !.instruction = "none", !.up = v]
    BY <1>4, <2>4, <2>5 DEF GuardRefused
  <2>7. probe.instruction \in Instructions /\ "none" \in Instructions
    BY <1>1 DEF Instructions
  <2> QED
    BY <1>1, <2>5, <2>6, <2>7
<1>5. ASSUME NEW t \in Threads, Body(t) PROVE probe' \in P
  <2>1. PICK tr : tr = Traps(machine, probe.instruction)
    OBVIOUS
  <2>2. PICK at \in {"lost", "restore"} :
          probe' = [probe EXCEPT !.at = at, !.ok = ~Traps(machine, probe.instruction)]
    BY <1>5 DEF Body
  <2>3. (~Traps(machine, probe.instruction)) \in BOOLEAN
    BY DEF Traps
  <2> QED
    BY <1>1, <2>2, <2>3
<1>6. ASSUME NEW t \in Threads, Restores(t) PROVE probe' \in P
  <2>1. probe.at = "restore" /\ probe.by = t
    BY <1>6 DEF Restores, ProbeAt
  <2>2. probe.by # None
    BY <2>1, ThreadsAssumption
  <2>3. probe.instruction # "none"
    BY <2>1, <2>2 DEF IInv, LadderInv
  <2>4. machine \in RiscvMachines
    BY <1>1, <2>2, <2>3, IsasAre DEF IInv, LadderInv
  <2>5. PICK v : v = Learns(machine, probe.up, probe.instruction, probe.ok)
    OBVIOUS
  <2>6. v \in Verdicts
    BY <1>1, <2>1, <2>2, <2>3, <2>4, <2>5, LadderGoesOn DEF IInv, LadderInv
  <2>7. NextProbe(probe.instruction, probe.ok) \in Instructions
    BY DEF NextProbe, Instructions
  <2>8. probe' = [probe EXCEPT !.at = "guard", !.ok = FALSE,
                    !.instruction = NextProbe(probe.instruction, probe.ok), !.up = v]
    BY <1>6, <2>5 DEF Restores
  <2> QED
    BY <1>1, <2>6, <2>7, <2>8
<1>7. ASSUME NEW t \in Threads, PublishesVerdict(t) \/ PublishesTable(t) PROVE probe' \in P
  BY <1>1, <1>7 DEF PublishesVerdict, PublishesTable
<1>8. ASSUME UNCHANGED probe PROVE probe' \in P
  BY <1>1, <1>8
<1>9. CASE Next
  <2>1. ASSUME NEW t \in Threads, Tunes(t) PROVE UNCHANGED probe
    BY <2>1, TunesTouch DEF dispatchVars
  <2> QED
    BY <1>2, <1>3, <1>4, <1>5, <1>6, <1>7, <1>8, <1>9, <2>1, Steps
       DEF ForeignFault, StartResolve, ResolveBest, Returns, BuildsBase, StartProbes,
           ReturnsProbes, probeRest, dispatchVars
<1>10. CASE UNCHANGED vars
  BY <1>8, <1>10 DEF vars
<1> QED
  BY <1>9, <1>10

LEMMA BaseTypeKept ==
  ASSUME IInv, [Next]_vars
  PROVE  base' \in [by : Threads \cup {None}, left : SUBSET Kernels, table : SUBSET Kernels]
<1> DEFINE B == [by : Threads \cup {None}, left : SUBSET Kernels, table : SUBSET Kernels]
<1>1. base \in B /\ Kernels \subseteq DOMAIN Rank
  BY RegistryIs DEF IInv, TypeOK
<1>2. ASSUME NEW t \in Threads, BuildsBase(t) PROVE base' \in B
  <2>1. base.left # {}
    BY <1>2 DEF BuildsBase, BaseReady
  <2>2. PICK k : k = Best(base.left)
    OBVIOUS
  <2>3. k \in base.left
    BY <1>1, <2>1, <2>2, BestIsIn
  <2>4. base' = [by |-> t, left |-> base.left \ {k},
                 table |-> base.table \cup {j \in {k} : Supports(machine, Verdict, j)}]
    BY <1>2, <2>2 DEF BuildsBase
  <2>5. base.table \cup {j \in {k} : Supports(machine, Verdict, j)} \subseteq Kernels
    BY <1>1, <2>3
  <2> QED
    BY <1>1, <2>4, <2>5
<1>3. ASSUME UNCHANGED base PROVE base' \in B
  BY <1>1, <1>3
<1>4. CASE Next
  <2>1. ASSUME NEW t \in Threads, Tunes(t) PROVE UNCHANGED base
    BY <2>1, TunesTouch DEF dispatchVars
  <2> QED
    BY <1>2, <1>3, <1>4, <2>1, Steps
       DEF ForeignFault, StartResolve, ResolveBest, Returns, StartProbes, ReturnsProbes,
           EntersProbes, Guards, GuardRefused, Body, Restores, PublishesVerdict, PublishesTable,
           probeRest, dispatchVars
<1>5. CASE UNCHANGED vars
  BY <1>3, <1>5 DEF vars
<1> QED
  BY <1>4, <1>5

\* A step puts one thread, or none, into another call.
LEMMA CallMoves ==
  ASSUME IInv, [Next]_vars, UNCHANGED call \/ \E t \in Threads, c \in Calls : call' = [call EXCEPT ![t] = c]
  PROVE  call' \in [Threads -> Calls]
BY DEF IInv, TypeOK

LEMMA TimesAreCalls ==
  ASSUME NEW c \in Calls, c.at \in {"set", "pass"}
  PROVE  /\ c.mode \in 1 .. 3
         /\ [c EXCEPT !.at = "pass"] \in Calls
         /\ [c EXCEPT !.at = "pass"].at = "pass" /\ [c EXCEPT !.at = "pass"].mode = c.mode
<1>1. c \in [at : {"set", "pass"}, mode : 1 .. 3]
  BY DEF Calls
<1>2. [c EXCEPT !.at = "pass"] \in [at : {"set", "pass"}, mode : 1 .. 3]
  BY <1>1
<1> QED
  BY <1>1, <1>2 DEF Calls

LEMMA BestsAreCalls ==
  ASSUME NEW c \in Calls, c.at = "best", NEW k \in Kernels
  PROVE  /\ Resolved(k, c.want, c.late) \in Calls
         /\ c.want \in Wants /\ c.late \in BOOLEAN
<1>1. c \in [at : {"best"}, want : Wants, late : BOOLEAN]
  BY DEF Calls
<1>2. c.want \in Wants /\ c.late \in BOOLEAN
  BY <1>1
<1>3. Resolved(k, c.want, c.late)
        \in [at : {"resolved"}, kernel : Kernels, want : Wants, late : BOOLEAN]
  BY <1>2 DEF Resolved
<1> QED
  BY <1>2, <1>3 DEF Calls

LEMMA PlainCalls ==
  /\ \A a \in {"idle", "probing", "tune", "find", "win"} : [at |-> a] \in Calls
  /\ \A a \in {"set", "pass"}, m \in 1 .. 3 : [at |-> a, mode |-> m] \in Calls
  /\ \A w \in Range(Dials) : [at |-> "leave", winner |-> w] \in Calls
  /\ \A w \in Wants, l \in BOOLEAN : [at |-> "best", want |-> w, late |-> l] \in Calls
  /\ \A k \in Kernels, w \in Wants, l \in BOOLEAN : Resolved(k, w, l) \in Calls
BY DEF Calls, Resolved

\* The tuners resolve nothing.
LEMMA TunesMove ==
  ASSUME IInv, NEW t \in Threads, Tunes(t)
  PROVE  \E c \in Calls : call' = [call EXCEPT ![t] = c] /\ c.at \notin {"best", "resolved"}
<1>1. call \in [Threads -> Calls] /\ Idle \in Calls
  BY PlainCalls DEF IInv, TypeOK, Idle
<1>2. CASE StartTune(t)
  BY <1>2, PlainCalls DEF StartTune, Starts
<1>3. CASE EntersTune(t)
  BY <1>3, PlainCalls DEF EntersTune
<1>4. CASE FindsKernel(t)
  BY <1>1, <1>4, PlainCalls DEF FindsKernel, Idle
<1>5. CASE SetsMode(t)
  <2>1. PICK c \in Calls : c = call[t]
    BY <1>1
  <2>2. [c EXCEPT !.at = "pass"] \in Calls /\ [c EXCEPT !.at = "pass"].at = "pass"
    BY <1>5, <2>1, TimesAreCalls DEF SetsMode
  <2>3. call' = [call EXCEPT ![t] = [c EXCEPT !.at = "pass"]]
    BY <1>5, <2>1 DEF SetsMode
  <2> QED
    BY <2>2, <2>3
<1>6. CASE TimesPass(t)
  <2>1. call[t] \in Calls /\ call[t].at = "pass"
    BY <1>1, <1>6 DEF TimesPass
  <2>2. call[t].mode \in 1 .. 3
    BY <2>1, TimesAreCalls
  <2>3. PICK c : /\ c = IF call[t].mode < Len(Dials)
                         THEN [at |-> "set", mode |-> call[t].mode + 1] ELSE [at |-> "win"]
                 /\ call' = [call EXCEPT ![t] = c]
    BY <1>1, <1>6 DEF TimesPass
  <2>4. Len(Dials) = 3
    BY DEF Dials
  <2>5. c \in Calls /\ c.at \notin {"best", "resolved"}
    BY <2>2, <2>3, <2>4, PlainCalls
  <2> QED
    BY <2>3, <2>5
<1>7. CASE AppliesWinner(t)
  BY <1>7, PlainCalls DEF AppliesWinner
<1>8. CASE LeavesTune(t)
  BY <1>1, <1>8 DEF LeavesTune, Idle
<1> QED
  BY <1>2, <1>3, <1>4, <1>5, <1>6, <1>7, <1>8 DEF Tunes

LEMMA CallTypeKept ==
  ASSUME IInv, [Next]_vars
  PROVE  call' \in [Threads -> Calls]
<1> DEFINE Moved == \E t \in Threads, c \in Calls : call' = [call EXCEPT ![t] = c]
<1>1. call \in [Threads -> Calls] /\ upgraded \in BOOLEAN /\ Idle \in Calls
  BY PlainCalls DEF IInv, TypeOK, Idle
<1>2. ASSUME NEW t \in Threads, NEW want \in Wants, StartResolve(t, want) PROVE Moved
  <2>1. [at |-> "best", want |-> want, late |-> upgraded] \in Calls
    BY <1>1, PlainCalls
  <2>2. Answers(want) => Resolved(want, want, upgraded) \in Calls
    BY <1>1, PlainCalls DEF Answers
  <2> QED
    BY <1>2, <2>1, <2>2 DEF StartResolve, Starts
<1>3. ASSUME NEW t \in Threads, ResolveBest(t) PROVE Moved
  <2>1. Available \in SUBSET Kernels /\ Available # {} /\ Kernels \subseteq DOMAIN Rank
    BY <1>3, AvailableIs, RegistryIs DEF ResolveBest, IInv, TypeOK
  <2>2. Best(Available) \in Kernels
    BY <2>1, BestIsIn
  <2>3. call[t] \in Calls /\ call[t].at = "best"
    BY <1>1, <1>3 DEF ResolveBest
  <2>4. Resolved(Best(Available), call[t].want, call[t].late) \in Calls
    BY <2>2, <2>3, BestsAreCalls
  <2> QED
    BY <1>1, <1>3, <2>4 DEF ResolveBest
<1>4. ASSUME NEW t \in Threads, Returns(t) \/ StartProbes(t) \/ ReturnsProbes(t) PROVE Moved
  BY <1>1, <1>4, PlainCalls DEF Returns, StartProbes, ReturnsProbes, Starts
<1>5. ASSUME NEW t \in Threads, Tunes(t) PROVE Moved
  BY <1>5, TunesMove
<1>6. CASE Next
  <2>1. UNCHANGED call \/ Moved
    BY <1>2, <1>3, <1>4, <1>5, <1>6, Steps
       DEF ForeignFault, BuildsBase, EntersProbes, Guards, GuardRefused, Body, Restores,
           PublishesVerdict, PublishesTable
  <2> QED
    BY <2>1, CallMoves
<1>7. CASE UNCHANGED vars
  BY <1>7, CallMoves DEF vars
<1> QED
  BY <1>6, <1>7

LEMMA TypeKept ==
  ASSUME IInv, [Next]_vars
  PROVE  TypeOK'
<1>1. machine' \in Machines /\ Kernels' = Kernels /\ Calls' = Calls
  BY MachineStays DEF IInv, TypeOK, Calls, Wants
<1>2. availActive' \in SUBSET Kernels
  <2>1. ASSUME NEW t \in Threads, PublishesTable(t) PROVE availActive' \in SUBSET Kernels
    BY <2>1 DEF PublishesTable, UpgradedTable, Table
  <2>2. ASSUME NEW t \in Threads, Tunes(t) PROVE UNCHANGED availActive
    BY <2>2, TunesTouch DEF dispatchVars
  <2>3. availActive \in SUBSET Kernels
    BY DEF IInv, TypeOK
  <2>4. CASE Next
    BY <2>1, <2>2, <2>3, <2>4, Steps
       DEF ForeignFault, StartResolve, ResolveBest, Returns, BuildsBase, StartProbes,
           ReturnsProbes, EntersProbes, Guards, GuardRefused, Body, Restores,
           PublishesVerdict, dispatchVars
  <2> QED
    BY <2>3, <2>4 DEF vars
<1>3. faults' \in {faults, faults + 1} /\ upgraded' \in {upgraded, TRUE}
  <2>1. ASSUME NEW t \in Threads, Tunes(t) PROVE UNCHANGED <<faults, upgraded>>
    BY <2>1, TunesTouch DEF dispatchVars
  <2>2. CASE Next
    BY <2>1, <2>2, Steps
       DEF ForeignFault, StartResolve, ResolveBest, Returns, BuildsBase, StartProbes,
           ReturnsProbes, EntersProbes, Guards, GuardRefused, Body, Restores, PublishesVerdict,
           PublishesTable, probeRest, dispatchVars
  <2>3. CASE UNCHANGED vars
    BY <2>3 DEF vars
  <2> QED
    BY <2>2, <2>3
<1>4. faults \in Nat /\ upgraded \in BOOLEAN
  BY DEF IInv, TypeOK
<1>5. faults' \in Nat
  BY <1>3, <1>4
<1>6. upgraded' \in BOOLEAN
  BY <1>3, <1>4
<1> QED
  BY <1>1, <1>2, <1>5, <1>6, ProbeTypeKept, BaseTypeKept, CallTypeKept DEF TypeOK, Instructions

\* The ladder's state moves in the ladder's steps only.
LadderSteps(t) ==
  \/ EntersProbes(t) \/ Guards(t) \/ GuardRefused(t) \/ Body(t)
  \/ Restores(t) \/ PublishesVerdict(t) \/ PublishesTable(t)

LEMMA LadderMoves ==
  ASSUME [Next]_vars
  PROVE  \/ UNCHANGED <<probe, trapActive, availActive>>
         \/ \E t \in Threads : LadderSteps(t)
<1>1. ASSUME NEW t \in Threads, Tunes(t) PROVE UNCHANGED <<probe, trapActive, availActive>>
  BY <1>1, TunesTouch DEF dispatchVars
<1>2. CASE Next
  BY <1>1, <1>2, Steps
     DEF ForeignFault, StartResolve, ResolveBest, Returns, BuildsBase, StartProbes,
         ReturnsProbes, probeRest, dispatchVars, LadderSteps
<1>3. CASE UNCHANGED vars
  BY <1>3 DEF vars
<1> QED
  BY <1>2, <1>3

LEMMA LadderKept ==
  ASSUME IInv, [Next]_vars
  PROVE  LadderInv'
<1>1. machine' = machine /\ machine \in Machines
  BY MachineStays DEF IInv, TypeOK
<1>2. probe \in [by : Threads \cup {None},
                at : {"idle", "guard", "body", "restore", "verdict", "table", "done", "lost"},
                up : Verdicts, instruction : Instructions, ok : BOOLEAN,
                refused : Instructions]
  BY DEF IInv, TypeOK, Instructions
<1>3. CASE UNCHANGED probe
  BY <1>1, <1>3 DEF IInv, LadderInv, Unlearned, Misread
<1>4. ASSUME NEW t \in Threads, EntersProbes(t) PROVE LadderInv'
  <2>1. PICK b \in Verdicts : b = BaseVerdict(machine)
    BY <1>1, BaseVerdictIs
  <2>2. PICK up \in Verdicts : up = [b EXCEPT !.pending = None]
    BY DEF Verdicts, None
  <2>3. up.rvv = b.rvv /\ up.xthead = b.xthead /\ up.zvbb = b.zvbb /\ up.vlenb = b.vlenb
    BY <2>2 DEF Verdicts
  <2>4. probe' = [by |-> t, at |-> "guard", up |-> up, instruction |-> FirstProbe(b),
                  ok |-> FALSE, refused |-> None]
    BY <1>4, <2>1, <2>2 DEF EntersProbes
  <2>5. t # None
    BY ThreadsAssumption
  <2>6. CASE machine.isa = "riscv"
    <3>1. machine \in RiscvMachines /\ b = BaseProbe(machine)
      BY <1>1, <2>1, <2>6, IsasAre DEF BaseVerdict
    <3>2. FirstProbe(b) = "none" => Settled(machine, b)
      BY <3>1, LadderStarts
    <3>3. Settled(machine, b) => Settled(machine, up)
      BY <2>3 DEF Settled
    <3>4. FirstProbe(b) # "none" =>
            Pends(machine, FirstProbe(b)) /\ ~up.rvv /\ ~up.xthead /\ ~up.zvbb
      BY <2>3, <3>1, LadderStarts
    <3> QED
      BY <1>1, <2>4, <2>5, <2>6, <3>2, <3>3, <3>4 DEF LadderInv, Final, None
  <2>7. CASE machine.isa # "riscv"
    <3>1. FirstProbe(b) = "none"
      BY <1>1, <2>1, <2>7, BaseVerdictIs DEF FirstProbe, NoVerdict
    <3> QED
      BY <1>1, <2>4, <2>5, <2>7, <3>1 DEF LadderInv, Final
  <2> QED
    BY <2>6, <2>7
<1>5. ASSUME NEW t \in Threads, Guards(t) PROVE LadderInv'
  <2>1. probe.by = t /\ t # None
    BY <1>5, ThreadsAssumption DEF Guards, ProbeAt
  <2>2. PICK at \in {"verdict", "body"} :
          /\ probe' = [probe EXCEPT !.at = at]
          /\ at = "verdict" <=> probe.instruction = "none"
    BY <1>5 DEF Guards, None
  <2>3. /\ probe'.at = at /\ probe'.by = t /\ probe'.up = probe.up
        /\ probe'.instruction = probe.instruction /\ probe'.refused = probe.refused
    BY <1>2, <2>1, <2>2
  <2> QED
    BY <1>1, <2>1, <2>2, <2>3 DEF IInv, LadderInv, Unlearned, Misread
<1>6. ASSUME NEW t \in Threads, GuardRefused(t) PROVE LadderInv'
  <2>1. probe.by = t /\ t # None /\ probe.at = "guard" /\ probe.instruction # "none"
    BY <1>6, ThreadsAssumption DEF GuardRefused, ProbeAt, None
  <2>2. /\ machine.isa = "riscv" /\ Pends(machine, probe.instruction)
        /\ ~probe.up.rvv /\ ~probe.up.xthead /\ ~probe.up.zvbb
    BY <2>1 DEF IInv, LadderInv
  <2>3. PICK v : v = Learns(machine, probe.up, probe.instruction, FALSE)
    OBVIOUS
  <2>4. machine \in RiscvMachines /\ probe.up \in Verdicts
    BY <1>1, <1>2, <2>2, IsasAre
  <2>5. /\ ~v.rvv /\ ~v.zvbb /\ (v.xthead <=> probe.instruction = "csrr vlenb")
        /\ NextProbe(probe.instruction, FALSE) = "none" /\ BaseProbe(machine).pending # "none"
    BY <2>2, <2>3, <2>4, RefusalEndsLadder
  <2>6. probe' = [probe EXCEPT !.refused = probe.instruction, !.instruction = "none", !.up = v]
    BY <1>6, <2>3, <2>5 DEF GuardRefused
  <2>7. /\ probe'.at = "guard" /\ probe'.by = t /\ probe'.up = v
        /\ probe'.instruction = "none" /\ probe'.refused = probe.instruction
    BY <1>2, <2>1, <2>6
  <2>8. Unlearned'
    BY <1>1, <2>2, <2>5, <2>7 DEF Unlearned, Misread
  <2> QED
    BY <2>1, <2>7, <2>8 DEF LadderInv, None
<1>7. ASSUME NEW t \in Threads, Body(t) PROVE LadderInv'
  <2>1. probe.by = t /\ t # None /\ probe.at = "body"
    BY <1>7, ThreadsAssumption DEF Body, ProbeAt
  <2>2. PICK tr : tr = ~Traps(machine, probe.instruction)
    OBVIOUS
  <2>3. PICK at \in {"lost", "restore"} : probe' = [probe EXCEPT !.at = at, !.ok = tr]
    BY <1>7, <2>2 DEF Body
  <2>4. /\ probe'.at = at /\ probe'.by = t /\ probe'.up = probe.up /\ probe'.ok = tr
        /\ probe'.instruction = probe.instruction /\ probe'.refused = probe.refused
    BY <1>2, <2>1, <2>3
  <2>5. probe.instruction # "none"
    BY <2>1 DEF IInv, LadderInv
  <2> QED
    BY <1>1, <2>1, <2>2, <2>4, <2>5 DEF IInv, LadderInv
<1>8. ASSUME NEW t \in Threads, Restores(t) PROVE LadderInv'
  <2>1. probe.by = t /\ t # None /\ probe.at = "restore"
    BY <1>8, ThreadsAssumption DEF Restores, ProbeAt
  <2>2. /\ probe.instruction # "none" /\ machine.isa = "riscv"
        /\ Pends(machine, probe.instruction) /\ probe.refused = None
        /\ ~probe.up.rvv /\ ~probe.up.xthead /\ ~probe.up.zvbb
        /\ probe.ok <=> ~Traps(machine, probe.instruction)
    BY <2>1 DEF IInv, LadderInv
  <2>3. PICK v : v = Learns(machine, probe.up, probe.instruction, probe.ok)
    OBVIOUS
  <2>4. PICK i : i = NextProbe(probe.instruction, probe.ok)
    OBVIOUS
  <2>5. machine \in RiscvMachines
    BY <1>1, <2>2, IsasAre
  <2>6. probe.up \in Verdicts /\ probe.ok \in BOOLEAN
    BY <1>2
  <2>7. /\ i = "none" => Settled(machine, v)
        /\ i # "none" => Pends(machine, i) /\ ~v.rvv /\ ~v.xthead /\ ~v.zvbb
    BY <2>2, <2>3, <2>4, <2>5, <2>6, LadderGoesOn
  <2>8. probe' = [probe EXCEPT !.at = "guard", !.ok = FALSE, !.instruction = i, !.up = v]
    BY <1>8, <2>3, <2>4 DEF Restores
  <2>9. probe'.at = "guard" /\ probe'.instruction = i /\ probe'.up = v
    BY <1>2, <2>8
  <2>10. probe'.by = t /\ probe'.refused = None
    BY <1>2, <2>1, <2>2, <2>8
  <2> QED
    BY <1>1, <2>1, <2>2, <2>7, <2>9, <2>10 DEF LadderInv, Final
<1>9. ASSUME NEW t \in Threads, PublishesVerdict(t) \/ PublishesTable(t) PROVE LadderInv'
  <2>1. probe.by = t /\ t # None /\ probe.at \in {"verdict", "table"}
    BY <1>9, ThreadsAssumption DEF PublishesVerdict, PublishesTable, ProbeAt
  <2>2. PICK at \in {"table", "done"} : probe' = [probe EXCEPT !.at = at]
    BY <1>9 DEF PublishesVerdict, PublishesTable
  <2>3. /\ probe'.at = at /\ probe'.by = t /\ probe'.up = probe.up
        /\ probe'.instruction = probe.instruction /\ probe'.refused = probe.refused
    BY <1>2, <2>1, <2>2
  <2>4. probe.instruction = "none"
    BY <2>1 DEF IInv, LadderInv
  <2> QED
    BY <1>1, <2>1, <2>3, <2>4 DEF IInv, LadderInv, Unlearned, Misread
<1> QED
  BY <1>3, <1>4, <1>5, <1>6, <1>7, <1>8, <1>9, LadderMoves DEF LadderSteps

\* The calls, and whether one of run_trap_probes() has returned, do not
\* matter for what is published.
LEMMA PublishKept ==
  ASSUME IInv, [Next]_vars
  PROVE  PublishInv'
<1>1. /\ machine' = machine /\ machine \in Machines /\ Kernels' = Kernels
      /\ Kernels \subseteq DOMAIN Rank
  BY MachineStays, RegistryIs DEF IInv, TypeOK
<1>2. probe \in [by : Threads \cup {None},
                at : {"idle", "guard", "body", "restore", "verdict", "table", "done", "lost"},
                up : Verdicts, instruction : Instructions, ok : BOOLEAN,
                refused : Instructions]
  BY DEF IInv, TypeOK, Instructions
<1>3. upgraded' => upgraded \/ (probe.at = "done" /\ UNCHANGED probe)
  <2>1. ASSUME NEW t \in Threads, Tunes(t) PROVE UNCHANGED upgraded
    BY <2>1, TunesTouch DEF dispatchVars
  <2>2. CASE Next
    BY <2>1, <2>2, Steps
       DEF ForeignFault, StartResolve, ResolveBest, Returns, BuildsBase, StartProbes,
           ReturnsProbes, EntersProbes, Guards, GuardRefused, Body, Restores, PublishesVerdict,
           PublishesTable, probeRest, dispatchVars
  <2>3. CASE UNCHANGED vars
    BY <2>3 DEF vars
  <2> QED
    BY <2>2, <2>3
<1>4. trapActive' = << >> => base'.table = Table(BaseVerdict(machine)) \ base'.left
  <2>1. trapActive' = << >> => trapActive = << >>
    <3>1. ASSUME NEW t \in Threads, LadderSteps(t) PROVE trapActive' = << >> => trapActive = << >>
      BY <3>1 DEF LadderSteps, EntersProbes, Guards, GuardRefused, Body, Restores,
                  PublishesVerdict, PublishesTable
    <3> QED
      BY <3>1, LadderMoves
  <2>2. ASSUME NEW t \in Threads, BuildsBase(t), trapActive = << >>
        PROVE  base'.table = Table(BaseVerdict(machine)) \ base'.left
    <3>1. PICK k : k = Best(base.left)
      OBVIOUS
    <3>2. base.left # {} /\ base.left \in SUBSET Kernels
      BY <2>2 DEF BuildsBase, BaseReady, IInv, TypeOK
    <3>3. k \in base.left
      BY <1>1, <3>1, <3>2, BestIsIn
    <3>4. /\ base'.left = base.left \ {k}
          /\ base'.table = base.table \cup {j \in {k} : Supports(machine, BaseVerdict(machine), j)}
      BY <2>2, <3>1 DEF BuildsBase, Verdict
    <3>5. base.table = Table(BaseVerdict(machine)) \ base.left
      BY <2>2 DEF IInv, PublishInv
    <3>6. k \in Table(BaseVerdict(machine)) <=> Supports(machine, BaseVerdict(machine), k)
      BY <3>2, <3>3 DEF Table
    <3> QED
      BY <3>3, <3>4, <3>5, <3>6
  <2>3. ASSUME NEW t \in Threads, Tunes(t) PROVE UNCHANGED base
    BY <2>3, TunesTouch DEF dispatchVars
  <2>4. UNCHANGED base \/ \E t \in Threads : BuildsBase(t)
    <3>1. CASE Next
      BY <2>3, <3>1, Steps
         DEF ForeignFault, StartResolve, ResolveBest, Returns, StartProbes, ReturnsProbes,
             EntersProbes, Guards, GuardRefused, Body, Restores, PublishesVerdict, PublishesTable,
             probeRest, dispatchVars
    <3>2. CASE UNCHANGED vars
      BY <3>2 DEF vars
    <3> QED
      BY <3>1, <3>2
  <2> QED
    BY <2>1, <2>2, <2>4 DEF IInv, PublishInv
<1>5. (trapActive = << >> => base.table = Table(BaseVerdict(machine)) \ base.left)'
  BY <1>1, <1>4 DEF Table
<1>6. CASE UNCHANGED <<probe, trapActive, availActive>>
  BY <1>1, <1>3, <1>5, <1>6 DEF IInv, PublishInv, News, Table
<1>7. ASSUME NEW t \in Threads,
             EntersProbes(t) \/ Guards(t) \/ GuardRefused(t) \/ Body(t) \/ Restores(t)
      PROVE  PublishInv'
  <2>1. probe.at \in {"idle", "guard", "body", "restore"}
    BY <1>7 DEF EntersProbes, Guards, GuardRefused, Body, Restores, ProbeAt, IInv, LadderInv
  <2>2. trapActive = << >> /\ availActive = {} /\ ~upgraded
    BY <2>1 DEF IInv, PublishInv
  <2>3. trapActive' = << >> /\ availActive' = {} /\ ~upgraded'
    BY <1>3, <1>7, <2>1, <2>2 DEF EntersProbes, Guards, GuardRefused, Body, Restores
  <2>4. probe'.at \in {"guard", "verdict", "body", "lost", "restore"}
    <3>1. CASE EntersProbes(t)
      BY <3>1 DEF EntersProbes
    <3>2. CASE Guards(t)
      BY <1>2, <3>2 DEF Guards
    <3>3. CASE Body(t)
      BY <1>2, <3>3 DEF Body
    <3>4. CASE Restores(t)
      BY <1>2, <3>4 DEF Restores
    <3>5. CASE GuardRefused(t)
      BY <1>2, <3>5 DEF GuardRefused, ProbeAt
    <3> QED
      BY <1>7, <3>1, <3>2, <3>3, <3>4, <3>5
  <2> QED
    BY <1>5, <2>3, <2>4 DEF PublishInv
<1>8. ASSUME NEW t \in Threads, PublishesVerdict(t) PROVE PublishInv'
  <2>1. probe.at = "verdict"
    BY <1>8 DEF PublishesVerdict, ProbeAt
  <2>2. trapActive = << >> /\ availActive = {} /\ ~upgraded
    BY <2>1 DEF IInv, PublishInv
  <2>3. availActive' = {} /\ ~upgraded'
    BY <1>3, <1>8, <2>1, <2>2 DEF PublishesVerdict
  <2>4. probe'.up = probe.up
    BY <1>2, <1>8 DEF PublishesVerdict
  <2>5. News' <=> News
    BY <1>1, <2>4 DEF News
  <2>6. CASE News
    <3>1. trapActive' = <<probe'.up>> /\ probe'.at = "table"
      BY <1>2, <1>8, <2>4, <2>6 DEF PublishesVerdict
    <3> QED
      BY <1>5, <2>3, <2>5, <2>6, <3>1 DEF PublishInv
  <2>7. CASE ~News
    <3>1. trapActive' = << >> /\ probe'.at = "done"
      BY <1>2, <1>8, <2>2, <2>7 DEF PublishesVerdict
    <3> QED
      BY <1>5, <2>3, <2>5, <2>7, <3>1 DEF PublishInv
  <2> QED
    BY <2>6, <2>7
<1>9. ASSUME NEW t \in Threads, PublishesTable(t) PROVE PublishInv'
  <2>1. probe.at = "table"
    BY <1>9 DEF PublishesTable, ProbeAt
  <2>2. trapActive # << >> /\ News /\ trapActive = <<probe.up>>
    BY <2>1 DEF IInv, PublishInv
  <2>3. probe'.up = probe.up /\ probe'.at = "done" /\ trapActive' = trapActive
    BY <1>2, <1>9 DEF PublishesTable
  <2>4. Verdict = probe.up
    BY <2>2, VerdictIs
  <2>5. PICK up : up = probe.up
    OBVIOUS
  <2>6. availActive' = Table(up)
    BY <1>9, <2>4, <2>5 DEF PublishesTable, UpgradedTable
  <2>7. availActive' = Table(probe.up)'
    BY <1>1, <2>3, <2>5, <2>6 DEF Table
  <2>8. News'
    BY <1>1, <2>2, <2>3 DEF News
  <2> QED
    BY <1>5, <2>2, <2>3, <2>7, <2>8 DEF PublishInv
<1> QED
  BY <1>6, <1>7, <1>8, <1>9, LadderMoves DEF LadderSteps

\* A refusal is remembered, and none comes once the probes are over.
LEMMA RefusedStays ==
  ASSUME IInv, [Next]_vars
  PROVE  /\ Misread => Misread'
         /\ upgraded => probe'.refused = probe.refused /\ Served' = Served
         /\ \A k : Admits(k) => Admits(k)'
<1>1. probe \in [by : Threads \cup {None},
                at : {"idle", "guard", "body", "restore", "verdict", "table", "done", "lost"},
                up : Verdicts, instruction : Instructions, ok : BOOLEAN,
                refused : Instructions]
  BY DEF IInv, TypeOK, Instructions
<1>2. ASSUME NEW t \in Threads, EntersProbes(t)
      PROVE  probe.refused = None /\ probe.at = "idle"
  BY <1>2 DEF EntersProbes, IInv, LadderInv
<1>3. ASSUME NEW t \in Threads, GuardRefused(t)
      PROVE  probe.refused = None /\ probe.at = "guard"
  <2>1. probe.by = t /\ t # None /\ probe.at = "guard" /\ probe.instruction # "none"
    BY <1>3, ThreadsAssumption DEF GuardRefused, ProbeAt, None
  <2> QED
    BY <2>1 DEF IInv, LadderInv
<1>4. ASSUME NEW t \in Threads,
             \/ Guards(t) \/ Body(t) \/ Restores(t) \/ PublishesVerdict(t) \/ PublishesTable(t)
      PROVE  probe'.refused = probe.refused
  BY <1>1, <1>4 DEF Guards, Body, Restores, PublishesVerdict, PublishesTable
<1>5. \/ probe'.refused = probe.refused
      \/ probe.refused = None /\ probe.at \in {"idle", "guard"}
  BY <1>2, <1>3, <1>4, LadderMoves DEF LadderSteps
<1>6. upgraded => probe'.refused = probe.refused
  BY <1>5 DEF IInv, PublishInv
<1>7. machine' = machine /\ Kernels' = Kernels
  BY MachineStays
<1>8. Misread => Misread'
  BY <1>5 DEF Misread, None
<1> QED
  BY <1>6, <1>7, <1>8 DEF Served, Admits

LEMMA BaseKept ==
  ASSUME IInv, [Next]_vars
  PROVE  BaseInv'
<1>1. machine' = machine /\ machine \in Machines /\ Kernels \subseteq DOMAIN Rank
  BY MachineStays, RegistryIs DEF IInv, TypeOK
<1>2. CASE UNCHANGED base
  BY <1>2, RefusedStays DEF IInv, BaseInv
<1>3. ASSUME NEW t \in Threads, BuildsBase(t) PROVE BaseInv'
  <2>1. PICK k : k = Best(base.left)
    OBVIOUS
  <2>2. PICK v : v = Verdict
    OBVIOUS
  <2>3. base.left # {} /\ base.left \in SUBSET Kernels
    BY <1>3 DEF BuildsBase, BaseReady, IInv, TypeOK
  <2>4. k \in base.left
    BY <1>1, <2>1, <2>3, BestIsIn
  <2>5. /\ base'.left = base.left \ {k}
        /\ base'.table = base.table \cup {j \in {k} : Supports(machine, v, j)}
    BY <1>3, <2>1, <2>2 DEF BuildsBase
  <2>6. \A j : Supports(machine, v, j) => Admits(j)
    BY <2>2, VerdictAdmits
  <2>7. k = "scalar" => Supports(machine, v, k)
    BY DEF Supports
  <2>8. \A j \in base'.table : Admits(j)
    BY <2>5, <2>6 DEF IInv, BaseInv
  <2>9. "scalar" \in base'.left \cup base'.table
    BY <2>4, <2>5, <2>7 DEF IInv, BaseInv
  <2> QED
    BY <2>8, <2>9, RefusedStays DEF BaseInv
<1>4. ASSUME NEW t \in Threads, Tunes(t) PROVE UNCHANGED base
  BY <1>4, TunesTouch DEF dispatchVars
<1>5. CASE Next
  BY <1>2, <1>3, <1>4, <1>5, Steps
     DEF ForeignFault, StartResolve, ResolveBest, Returns, StartProbes, ReturnsProbes,
         EntersProbes, Guards, GuardRefused, Body, Restores, PublishesVerdict, PublishesTable,
         probeRest, dispatchVars
<1>6. CASE UNCHANGED vars
  BY <1>2, <1>6 DEF vars
<1> QED
  BY <1>5, <1>6

\* What the invariants say of one call.
CallSound(c) ==
  /\ c.at = "resolved" => Admits(c.kernel)
  /\ c.at \in {"best", "resolved"} /\ c.late => upgraded
  /\ c.at = "best" /\ c.late /\ ~Asserted /\ ~Misread => c.want \notin Served
  /\ c.at = "resolved" /\ c.late /\ ~Asserted /\ ~Misread => Serves(c.kernel, c.want)

LEMMA StartsSound ==
  ASSUME IInv, NEW t \in Threads, NEW want \in Wants, StartResolve(t, want)
  PROVE  CallSound(call'[t])
<1>1. machine \in Machines /\ call \in [Threads -> Calls] /\ Kernels \subseteq DOMAIN Rank
  BY RegistryIs DEF IInv, TypeOK
<1>2. CASE Answers(want)
  <2>1. call'[t] = Resolved(want, want, upgraded)
    BY <1>1, <1>2 DEF StartResolve, Starts
  <2>2. Admits(want)
    BY <1>2, VerdictAdmits DEF Answers
  <2>3. upgraded /\ ~Asserted /\ ~Misread => want \in Served
    BY <1>2, UpgradeIs DEF Answers
  <2> QED
    BY <2>1, <2>2, <2>3 DEF CallSound, Resolved, Serves
<1>3. CASE ~Answers(want)
  <2>1. call'[t] = [at |-> "best", want |-> want, late |-> upgraded]
    BY <1>1, <1>3 DEF StartResolve, Starts
  <2>2. "auto" \notin DOMAIN Rank
    BY DEF Rank
  <2>3. upgraded /\ ~Asserted /\ ~Misread => want \notin Served
    BY <1>1, <1>3, <2>2, UpgradeIs DEF Answers, Served
  <2> QED
    BY <2>1, <2>3 DEF CallSound
<1> QED
  BY <1>2, <1>3

LEMMA BestSound ==
  ASSUME IInv, NEW t \in Threads, ResolveBest(t)
  PROVE  CallSound(call'[t])
<1>1. call \in [Threads -> Calls] /\ Kernels \subseteq DOMAIN Rank
  BY RegistryIs DEF IInv, TypeOK
<1>2. call[t].at = "best" /\ BaseReady
  BY <1>1 DEF ResolveBest
<1>3. call'[t] = Resolved(Best(Available), call[t].want, call[t].late)
  BY <1>1 DEF ResolveBest
<1>4. Admits(Best(Available))
  BY <1>1, <1>2, AvailableIs, BestIsIn
<1>5. call[t].late => upgraded
  BY <1>2 DEF IInv, CallInv
<1>6. call[t].late /\ ~Asserted /\ ~Misread =>
        Available = Served /\ call[t].want \notin Served
  BY <1>2, UpgradeIs DEF IInv, CallInv
<1> QED
  BY <1>3, <1>4, <1>5, <1>6 DEF CallSound, Resolved, Serves

LEMMA CallKept ==
  ASSUME IInv, [Next]_vars
  PROVE  CallInv'
<1>1. machine' = machine
  BY MachineStays
<1>2. call \in [Threads -> Calls]
  BY DEF IInv, TypeOK
<1>3. upgraded => upgraded'
  <2>1. ASSUME NEW t \in Threads, Tunes(t) PROVE UNCHANGED upgraded
    BY <2>1, TunesTouch DEF dispatchVars
  <2>2. CASE Next
    BY <2>1, <2>2, Steps
       DEF ForeignFault, StartResolve, ResolveBest, Returns, BuildsBase, StartProbes,
           ReturnsProbes, EntersProbes, Guards, GuardRefused, Body, Restores, PublishesVerdict,
           PublishesTable, probeRest, dispatchVars
  <2>3. CASE UNCHANGED vars
    BY <2>3 DEF vars
  <2> QED
    BY <2>2, <2>3
<1>4. ASSUME NEW t \in Threads, CallSound(call'[t]) \/ call'[t] = call[t]
                               \/ call'[t].at \notin {"best", "resolved"}
      PROVE  CallSound(call'[t])
  BY <1>4 DEF IInv, CallInv, CallSound
<1>5. ASSUME \A t \in Threads : \/ CallSound(call'[t]) \/ call'[t] = call[t]
                                \/ call'[t].at \notin {"best", "resolved"}
      PROVE  CallInv'
  <2>1. ASSUME NEW t \in Threads, NEW c, c = call'[t]
        PROVE  CallSound(c)
    BY <1>4, <1>5, <2>1
  <2>2. Asserted' = Asserted
    BY <1>1 DEF Asserted
  <2>3. upgraded => (Misread' <=> Misread) /\ Served' = Served
    BY RefusedStays DEF Misread
  <2>4. ASSUME NEW t \in Threads, NEW c, c = call'[t]
        PROVE  /\ c.at = "resolved" => Admits(c.kernel)'
               /\ c.at \in {"best", "resolved"} /\ c.late => upgraded'
               /\ c.at = "best" /\ c.late /\ ~Asserted' /\ ~Misread' => c.want \notin Served'
               /\ c.at = "resolved" /\ c.late /\ ~Asserted' /\ ~Misread' =>
                    c.kernel = IF c.want \in Served' THEN c.want ELSE Best(Served')
    BY <1>3, <2>1, <2>2, <2>3, <2>4, RefusedStays DEF CallSound, Serves
  <2> QED
    BY <2>4 DEF CallInv, Serves
<1>6. ASSUME NEW t \in Threads, \A u \in Threads \ {t} : call'[u] = call[u],
             CallSound(call'[t]) \/ call'[t].at \notin {"best", "resolved"}
      PROVE  CallInv'
  BY <1>5, <1>6
<1>7. CASE UNCHANGED call
  BY <1>5, <1>7
<1>8. ASSUME NEW t \in Threads, NEW want \in Wants, StartResolve(t, want) PROVE CallInv'
  <2>1. \A u \in Threads \ {t} : call'[u] = call[u]
    BY <1>2, <1>8 DEF StartResolve, Starts
  <2> QED
    BY <1>6, <1>8, <2>1, StartsSound
<1>9. ASSUME NEW t \in Threads, ResolveBest(t) PROVE CallInv'
  <2>1. \A u \in Threads \ {t} : call'[u] = call[u]
    BY <1>2, <1>9 DEF ResolveBest
  <2> QED
    BY <1>6, <1>9, <2>1, BestSound
<1>10. ASSUME NEW t \in Threads, Returns(t) \/ StartProbes(t) \/ ReturnsProbes(t) PROVE CallInv'
  <2>1. PICK c : call' = [call EXCEPT ![t] = c] /\ c.at \in {"idle", "probing"}
    BY <1>10 DEF Returns, StartProbes, ReturnsProbes, Starts, Idle
  <2> QED
    BY <1>2, <1>6, <2>1
<1>11. ASSUME NEW t \in Threads, Tunes(t) PROVE CallInv'
  <2>1. PICK c \in Calls : call' = [call EXCEPT ![t] = c] /\ c.at \notin {"best", "resolved"}
    BY <1>11, TunesMove
  <2> QED
    BY <1>2, <1>6, <2>1
<1>12. CASE Next
  BY <1>7, <1>8, <1>9, <1>10, <1>11, <1>12, Steps
     DEF ForeignFault, BuildsBase, EntersProbes, Guards, GuardRefused, Body, Restores,
         PublishesVerdict, PublishesTable
<1>13. CASE UNCHANGED vars
  BY <1>7, <1>13 DEF vars
<1> QED
  BY <1>12, <1>13

LEMMA SignalKept ==
  ASSUME IInv, [Next]_vars
  PROVE  SignalInv'
<1>1. probe \in [by : Threads \cup {None},
                at : {"idle", "guard", "body", "restore", "verdict", "table", "done", "lost"},
                up : Verdicts, instruction : Instructions, ok : BOOLEAN,
                refused : Instructions]
  BY DEF IInv, TypeOK, Instructions
<1>2. faults \in Nat
  BY DEF IInv, TypeOK
<1>3. CASE UNCHANGED <<probe, disposition, faults>>
  BY <1>3 DEF IInv, SignalInv
<1>4. CASE ForeignFault
  BY <1>2, <1>4 DEF ForeignFault, SignalInv
<1>5. ASSUME NEW t \in Threads, EntersProbes(t) PROVE SignalInv'
  <2>1. probe'.at = "guard" /\ disposition' = disposition
    BY <1>5 DEF EntersProbes
  <2>2. disposition # "guard"
    BY <1>5 DEF EntersProbes, IInv, LadderInv, SignalInv
  <2> QED
    BY <2>1, <2>2 DEF SignalInv
<1>6. ASSUME NEW t \in Threads, Guards(t) PROVE SignalInv'
  <2>1. disposition # "guard"
    BY <1>6 DEF Guards, ProbeAt, IInv, SignalInv
  <2>2. \/ probe'.at = "verdict" /\ disposition' = disposition
        \/ probe'.at = "body" /\ disposition' = "guard"
    BY <1>1, <1>6 DEF Guards
  <2> QED
    BY <2>1, <2>2 DEF SignalInv
<1>7. ASSUME NEW t \in Threads, GuardRefused(t) PROVE SignalInv'
  <2>1. disposition # "guard" /\ disposition' = disposition /\ probe.at = "guard"
    BY <1>7 DEF GuardRefused, ProbeAt, IInv, SignalInv
  <2>2. probe'.at = "guard"
    BY <1>1, <1>7, <2>1 DEF GuardRefused
  <2> QED
    BY <2>1, <2>2 DEF SignalInv
<1>8. ASSUME NEW t \in Threads, Body(t) PROVE SignalInv'
  <2>1. probe.at = "body" /\ disposition' = disposition /\ faults' = faults
    BY <1>8 DEF Body, ProbeAt, probeRest
  <2>2. \/ probe'.at = "restore"
        \/ probe'.at = "lost" /\ disposition # "guard"
    BY <1>1, <1>8 DEF Body
  <2> QED
    BY <2>1, <2>2 DEF SignalInv, IInv
<1>9. ASSUME NEW t \in Threads, Restores(t) PROVE SignalInv'
  <2>1. probe'.at = "guard" /\ disposition' = "application"
    BY <1>1, <1>9 DEF Restores, Restored
  <2> QED
    BY <2>1 DEF SignalInv
<1>10. ASSUME NEW t \in Threads, PublishesVerdict(t) \/ PublishesTable(t) PROVE SignalInv'
  <2>1. disposition # "guard" /\ disposition' = disposition
    BY <1>10 DEF PublishesVerdict, PublishesTable, ProbeAt, IInv, SignalInv
  <2>2. probe'.at \in {"table", "done"}
    BY <1>1, <1>10 DEF PublishesVerdict, PublishesTable
  <2> QED
    BY <2>1, <2>2 DEF SignalInv
<1>11. ASSUME NEW t \in Threads, Tunes(t) PROVE UNCHANGED <<probe, disposition, faults>>
  BY <1>11, TunesTouch DEF dispatchVars
<1>12. CASE Next
  BY <1>3, <1>4, <1>5, <1>6, <1>7, <1>8, <1>9, <1>10, <1>11, <1>12, Steps
     DEF StartResolve, ResolveBest, Returns, BuildsBase, StartProbes, ReturnsProbes,
         probeRest, dispatchVars
<1>13. CASE UNCHANGED vars
  BY <1>3, <1>13 DEF vars
<1> QED
  BY <1>12, <1>13

Tuning == {"find", "set", "pass", "win", "leave"}

\* What the invariant says of one thread: a tuner holds the guard, and the
\* dial is what it set.
TuneSound(t) ==
  /\ call[t].at \in Tuning => tuning = t
  /\ call[t].at = "pass" => dial = Dials[call[t].mode]
  /\ call[t].at = "leave" => dial = call[t].winner

\* The others are not tuning while a thread holds the guard.
LEMMA TunesAlone ==
  ASSUME IInv, NEW t \in Threads, tuning \in {t, None}, NEW u \in Threads \ {t}
  PROVE  call[u].at \notin Tuning
BY ThreadsAssumption DEF IInv, TuneInv, Tuning

LEMMA TuneStepKept ==
  ASSUME IInv, NEW t \in Threads, Tunes(t)
  PROVE  TuneInv'
<1>1. call \in [Threads -> Calls]
  BY DEF IInv, TypeOK
<1>2. \A u \in Threads \ {t} : call'[u] = call[u]
  BY <1>1, TunesMove
<1>3. \A u \in Threads : TuneSound(u)
  BY DEF IInv, TuneInv, TuneSound, Tuning
<1>4. ASSUME TuneSound(t)', tuning \in {t, None}
      PROVE  TuneInv'
  <2>1. \A u \in Threads \ {t} : call'[u].at \notin Tuning
    BY <1>2, <1>4, TunesAlone
  <2> QED
    BY <1>4, <2>1 DEF TuneInv, TuneSound, Tuning
<1>5. CASE StartTune(t)
  <2>1. call'[t].at = "tune" /\ UNCHANGED <<dial, tuning>>
    BY <1>1, <1>5 DEF StartTune, Starts
  <2> QED
    BY <1>2, <1>3, <2>1 DEF TuneInv, TuneSound, Tuning
<1>6. CASE EntersTune(t)
  <2>1. tuning = None /\ tuning' = t /\ call'[t].at = "find"
    BY <1>1, <1>6 DEF EntersTune, Enters
  <2> QED
    BY <1>4, <2>1 DEF TuneSound
<1>7. CASE FindsKernel(t)
  <2>1. tuning = t
    BY <1>3, <1>7 DEF FindsKernel, TuneSound, Tuning
  <2>2. \/ call'[t].at = "set" /\ tuning' = t
        \/ call'[t].at = "idle"
    BY <1>1, <1>7, <2>1 DEF FindsKernel, Idle
  <2> QED
    BY <1>4, <2>1, <2>2 DEF TuneSound, Tuning
<1>8. CASE SetsMode(t)
  <2>1. PICK c \in Calls : c = call[t] /\ c.at = "set"
    BY <1>1, <1>8 DEF SetsMode
  <2>2. tuning = t /\ tuning' = t
    BY <1>3, <1>8 DEF SetsMode, TuneSound, Tuning
  <2>3. call'[t] = [c EXCEPT !.at = "pass"] /\ dial' = Dials[c.mode]
    BY <1>1, <1>8, <2>1 DEF SetsMode
  <2>4. call'[t].at = "pass" /\ call'[t].mode = c.mode
    BY <2>1, <2>3, TimesAreCalls
  <2> QED
    BY <1>4, <2>2, <2>3, <2>4 DEF TuneSound, Tuning
<1>9. CASE TimesPass(t)
  <2>1. tuning = t /\ tuning' = t
    BY <1>3, <1>9 DEF TimesPass, TuneSound, Tuning
  <2>2. call'[t].at \in {"set", "win"}
    BY <1>1, <1>9 DEF TimesPass
  <2> QED
    BY <1>4, <2>1, <2>2 DEF TuneSound, Tuning
<1>10. CASE AppliesWinner(t)
  <2>1. tuning = t /\ tuning' = t
    BY <1>3, <1>10 DEF AppliesWinner, TuneSound, Tuning
  <2>2. call'[t].at = "leave" /\ call'[t].winner = dial'
    BY <1>1, <1>10 DEF AppliesWinner
  <2> QED
    BY <1>4, <2>1, <2>2 DEF TuneSound, Tuning
<1>11. CASE LeavesTune(t)
  <2>1. tuning = t /\ call'[t].at = "idle"
    BY <1>1, <1>3, <1>11 DEF LeavesTune, TuneSound, Tuning, Idle
  <2> QED
    BY <1>4, <2>1 DEF TuneSound, Tuning
<1> QED
  BY <1>5, <1>6, <1>7, <1>8, <1>9, <1>10, <1>11 DEF Tunes

LEMMA TuneKept ==
  ASSUME IInv, [Next]_vars
  PROVE  TuneInv'
<1>1. call \in [Threads -> Calls]
  BY DEF IInv, TypeOK
<1>2. ASSUME UNCHANGED <<dial, tuning>>,
             \A t \in Threads : call'[t] = call[t] \/ call'[t].at \notin Tuning
      PROVE  TuneInv'
  BY <1>2 DEF IInv, TuneInv, Tuning
<1>3. ASSUME NEW t \in Threads, NEW want \in Wants, StartResolve(t, want) PROVE TuneInv'
  <2>1. call'[t].at \in {"best", "resolved"} /\ \A u \in Threads \ {t} : call'[u] = call[u]
    BY <1>1, <1>3 DEF StartResolve, Starts, Resolved
  <2> QED
    BY <1>2, <1>3, <2>1 DEF StartResolve, Tuning
<1>4. ASSUME NEW t \in Threads, ResolveBest(t) PROVE TuneInv'
  <2>1. call'[t].at = "resolved" /\ \A u \in Threads \ {t} : call'[u] = call[u]
    BY <1>1, <1>4 DEF ResolveBest, Resolved
  <2> QED
    BY <1>2, <1>4, <2>1 DEF ResolveBest, Tuning
<1>5. ASSUME NEW t \in Threads, Returns(t) \/ StartProbes(t) \/ ReturnsProbes(t) PROVE TuneInv'
  <2>1. call'[t].at \in {"idle", "probing"} /\ \A u \in Threads \ {t} : call'[u] = call[u]
    BY <1>1, <1>5 DEF Returns, StartProbes, ReturnsProbes, Starts, Idle
  <2> QED
    BY <1>2, <1>5, <2>1 DEF Returns, StartProbes, ReturnsProbes, probeRest, Tuning
<1>6. CASE UNCHANGED <<call, dial, tuning>>
  BY <1>2, <1>6
<1>7. CASE Next
  BY <1>3, <1>4, <1>5, <1>6, <1>7, TuneStepKept, Steps
     DEF ForeignFault, BuildsBase, EntersProbes, Guards, GuardRefused, Body, Restores,
         PublishesVerdict, PublishesTable, probeRest
<1>8. CASE UNCHANGED vars
  BY <1>6, <1>8 DEF vars
<1> QED
  BY <1>7, <1>8

-----------------------------------------------------------------------------
(* Theorems *)

\* The invariant is inductive: it holds of every reachable state.
THEOREM Invariance == Spec => []IInv
<1>1. IInv /\ [Next]_vars => IInv'
  BY TypeKept, LadderKept, PublishKept, BaseKept, CallKept, SignalKept, TuneKept DEF IInv
<1> QED
  BY InitInv, <1>1, PTL DEF Spec

\* resolve() never returns a kernel that the machine cannot run, whatever
\* run_trap_probes() is publishing meanwhile on another thread; the one
\* exception is "xthead" where the guard of the vlenb probe was refused.
THEOREM ResolvesToRunnable == Spec => []RunsOnThisCpu
<1>1. IInv => RunsOnThisCpu
  BY DEF IInv, CallInv, RunsOnThisCpu, Admits
<1> QED
  BY Invariance, <1>1, PTL

\* A resolve() that starts after a return of run_trap_probes() gets the
\* kernel it asks for if the machine runs it, the best one otherwise; the
\* portable one where a probe could not be guarded, and of a refused vlenb
\* probe nothing is claimed.
THEOREM UpgradeReachesCalls == Spec => []UpgradeSeen
<1>1. IInv => UpgradeSeen
  BY DEF IInv, CallInv, UpgradeSeen, Serves, Served
<1> QED
  BY Invariance, <1>1, PTL

\* The SIGILL handler of guarded() is in place for the probed instruction
\* only, and the ladder's own trap finds it there.
THEOREM HandlerIsScoped == Spec => []SignalScoped
<1>1. IInv => SignalScoped
  BY DEF IInv, SignalInv, SignalScoped
<1> QED
  BY Invariance, <1>1, PTL

\* tune_transpose16() times each pass under the mode it is timed for, and
\* leaves the winner in place.
THEOREM TunersDoNotMix == Spec => []TunersTimeTheirMode
<1>1. IInv => TunersTimeTheirMode
  BY DEF IInv, TuneInv, TunersTimeTheirMode
<1> QED
  BY Invariance, <1>1, PTL
=============================================================================
