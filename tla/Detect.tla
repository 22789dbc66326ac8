------------------------------- MODULE Detect -------------------------------
(***************************************************************************)
(* The RISC-V detection ladder (src/src/dispatch/cpu_detect_riscv.cpp): a  *)
(* machine is its vector unit and what its kernel says of it, a verdict is *)
(* what the ladder claims.                                                 *)
(***************************************************************************)
EXTENDS Integers, Sequences, SequencesExt

Vlenbs == {16, 64}

\* The kernels the constants choose from, and what each is compiled for.
Rvv == {"rvv128", "rvv512", "rvv128_zvbb", "rvv512_zvbb"}
Zvbb == {"rvv128_zvbb", "rvv512_zvbb"}
VlenbOf(k) == IF k \in {"rvv512", "rvv512_zvbb"} THEN 64 ELSE 16

-----------------------------------------------------------------------------
(* Machines *)

Shapes ==
  [isa : {"riscv"},
   unit : {"none", "rvv", "xthead"}, enabled : BOOLEAN, vlenb : Vlenbs, zvbb : BOOLEAN,
   csr : BOOLEAN,          \* a draft 0.7.1 unit with a readable vlenb
   thead : BOOLEAN,        \* mvendorid
   hwcap : BOOLEAN,        \* the V bit of AT_HWCAP
   hwprobe : BOOLEAN, vendorKey : BOOLEAN, vendorBit : BOOLEAN, imaV : BOOLEAN,
   assume : {"unset", "yes", "no"}]

(***************************************************************************)
(* What the ladder's comments take for granted of kernels and boards: they *)
(* vouch only for a unit that is there and enabled, a kernel with hwprobe  *)
(* that manages a 1.0 unit says so, only T-Head cores have the 0.7.1 unit, *)
(* and who sets the environment variable to 1 is right.                    *)
(***************************************************************************)
Plausible(m) ==
  /\ m.enabled => m.unit # "none"
  /\ m.hwcap => m.enabled
  /\ m.imaV = (m.hwprobe /\ m.enabled /\ m.unit = "rvv")
  /\ m.vendorBit = (m.vendorKey /\ m.enabled /\ m.unit = "xthead")
  /\ m.vendorKey => m.hwprobe
  /\ m.unit = "xthead" => m.thead
  /\ m.assume = "yes" => m.unit = "xthead" /\ m.enabled
  \* one representative where a field means nothing
  /\ m.unit # "rvv" => ~m.zvbb /\ m.vlenb = 16
  /\ m.unit # "xthead" => ~m.csr

RiscvMachines == {m \in Shapes : Plausible(m)}

RiscvRuns(m, k) ==
  \/ k = "xthead" /\ m.unit = "xthead" /\ m.enabled
  \/ k \in Rvv /\ m.unit = "rvv" /\ m.enabled /\ m.vlenb = VlenbOf(k)
       /\ (k \in Zvbb => m.zvbb)

-----------------------------------------------------------------------------
(* vec_state, and the rungs that need only system calls *)

NoVerdict ==
  [rvv |-> FALSE, xthead |-> FALSE, zvbb |-> FALSE, vlenb |-> 0, pending |-> "none"]

\* base_probe()
BaseProbe(m) ==
  CASE m.hwprobe /\ m.vendorKey /\ m.vendorBit -> [NoVerdict EXCEPT !.xthead = TRUE]
    [] m.hwprobe /\ m.imaV ->
         [NoVerdict EXCEPT !.rvv = TRUE, !.vlenb = m.vlenb, !.zvbb = m.zvbb]
    [] m.hwprobe /\ ~m.imaV /\ ~m.vendorBit /\ m.thead ->
         IF m.hwcap THEN [NoVerdict EXCEPT !.xthead = TRUE]
         ELSE [NoVerdict EXCEPT !.pending = "vendor_unit"]
    [] ~m.hwprobe /\ m.hwcap -> [NoVerdict EXCEPT !.pending = "legacy"]
    [] OTHER -> NoVerdict

-----------------------------------------------------------------------------
(* The rungs that may trap: instructions run one by one under the guard *)

FirstProbe(base) ==
  CASE base.pending = "vendor_unit" -> "vsetvli"
    [] base.pending = "legacy" -> "csrr vlenb"
    [] OTHER -> "none"

Traps(m, instruction) ==
  CASE instruction = "csrr vlenb" -> ~m.enabled \/ (m.unit = "xthead" /\ ~m.csr)
    [] OTHER -> ~m.enabled

\* mutant: a readable vlenb settles the dialect
LearnsFromVlenb(m, up, instruction, ok) ==
  CASE instruction = "csrr vlenb" ->
         IF ok THEN [up EXCEPT !.rvv = TRUE, !.vlenb = m.vlenb]
         ELSE [up EXCEPT !.xthead = TRUE]
    [] OTHER -> [up EXCEPT !.xthead = ok]

\* What each instruction adds to the verdict; the lanes that vsetvli with a
\* vtype immediate sets tell the dialects apart.
Learns(m, up, instruction, ok) ==
  CASE instruction = "vsetvli" -> [up EXCEPT !.xthead = ok]
    [] instruction = "csrr vlenb" -> [up EXCEPT !.xthead = ~ok]
    [] instruction = "vsetvli vtype" /\ ok /\ m.unit = "rvv" ->
         [up EXCEPT !.rvv = TRUE, !.vlenb = m.vlenb]
    [] OTHER -> [up EXCEPT !.xthead = ok]

NextProbe(instruction, ok) ==
  IF instruction = "csrr vlenb" /\ ok THEN "vsetvli vtype" ELSE "none"

-----------------------------------------------------------------------------
\* platform_cpu_supports() under a verdict, with xthead_supported()'s
\* environment variable.
RiscvSupports(m, verdict, k) ==
  \/ k = "xthead" /\ (m.assume = "yes" \/ (m.assume = "unset" /\ verdict.xthead))
  \/ k \in Rvv /\ verdict.rvv /\ verdict.vlenb = VlenbOf(k) /\ (k \in Zvbb => verdict.zvbb)
=============================================================================
