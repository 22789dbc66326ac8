------------------------------ MODULE Dispatch ------------------------------
(***************************************************************************)
(* Kernel dispatch (src/src/dispatch): threads that resolve kernels, run   *)
(* the trap probes and tune the transpose dial, over the machines of   *)
(* module Platforms.  Function-local statics are built once, by the first  *)
(* thread to arrive, while the others wait.                                *)
(***************************************************************************)
EXTENDS Platforms

CONSTANTS
  Threads,
  Requests,   \* isa -> the kernels asked for by name
  MaxCalls,   \* bound on the calls of a thread
  MaxFaults   \* bound on the application's own SIGILLs

VARIABLES
  machine,
  base,         \* the static in available_impl(): its builder, the kernels left to
                \* judge and the entries
  probe,        \* the static in run_trap_probes(): its thread and progress, and the
                \* instruction whose guard was refused
  disposition,  \* of SIGILL: the application's or the guard's
  trapActive,   \* g_trap_active: empty, or the verdict published
  availActive,  \* g_avail_active: empty, or the table published
  dial,         \* transpose16_active
  tuning,       \* the thread that holds g_tuning
  call,         \* what each thread is in
  calls,        \* calls each thread has made
  faults,       \* the application's SIGILLs so far
  upgraded      \* a call of run_trap_probes() has returned

vars == <<machine, base, probe, disposition, trapActive, availActive, dial, tuning,
          call, calls, faults, upgraded>>

None == "none"

ASSUME ThreadsAssumption == None \notin Threads

Dials == <<"staging", "tree", "quartered">>

Idle == [at |-> "idle"]

Init ==
  /\ machine \in Machines
  /\ base = [by |-> None, left |-> Registry[machine.isa], table |-> {}]
  /\ probe = [by |-> None, at |-> "idle", up |-> NoVerdict, instruction |-> None,
              ok |-> FALSE, refused |-> None]
  /\ disposition = "application"
  /\ trapActive = << >>
  /\ availActive = {}
  /\ dial = "quartered"
  /\ tuning = None
  /\ call = [t \in Threads |-> Idle]
  /\ calls = [t \in Threads |-> 0]
  /\ faults = 0
  /\ upgraded = FALSE

dispatchVars == <<base, probe, disposition, trapActive, availActive, upgraded>>

\* vec_probe()
Verdict == IF trapActive = << >> THEN BaseVerdict(machine) ELSE trapActive[1]

Kernels == Registry[machine.isa]

\* build_available() under a verdict
Table(verdict) == {k \in Kernels : Supports(machine, verdict, k)}

-----------------------------------------------------------------------------
(* available_impl() *)

BaseReady == base.left = {}

\* The entries of the base table are judged one by one, best first, each
\* against the verdict of its moment.
BuildsBase(t) ==
  /\ ~BaseReady
  /\ base.by \in {None, t}
  /\ LET k == Best(base.left)
     IN base' = [by |-> t, left |-> base.left \ {k},
                 table |-> base.table \cup {j \in {k} : Supports(machine, Verdict, j)}]
  /\ UNCHANGED <<machine, probe, disposition, trapActive, availActive, dial, tuning,
                 call, calls, faults, upgraded>>

Available == IF availActive = {} THEN base.table ELSE availActive

-----------------------------------------------------------------------------
(* resolve() *)

Starts(t, to) ==
  /\ call[t] = Idle
  /\ calls[t] < MaxCalls
  /\ calls' = [calls EXCEPT ![t] = @ + 1]
  /\ call' = [call EXCEPT ![t] = to]

Resolved(k, want, late) == [at |-> "resolved", kernel |-> k, want |-> want, late |-> late]

\* mutant: the request is only looked up
AnswersUnchecked(want) == want \in Kernels

\* The request can be served as it is.
Answers(want) ==
  /\ want # "auto"
  /\ Supports(machine, Verdict, want)
  /\ want \in Kernels

StartResolve(t, want) ==
  /\ Starts(t, IF Answers(want) THEN Resolved(want, want, upgraded)
               ELSE [at |-> "best", want |-> want, late |-> upgraded])
  /\ UNCHANGED <<machine, dispatchVars, dial, tuning, faults>>

\* best_available(), once the base table stands
ResolveBest(t) ==
  /\ call[t].at = "best"
  /\ BaseReady
  /\ call' = [call EXCEPT ![t] = Resolved(Best(Available), @.want, @.late)]
  /\ UNCHANGED <<machine, dispatchVars, dial, tuning, calls, faults>>

Returns(t) ==
  /\ call[t].at = "resolved"
  /\ call' = [call EXCEPT ![t] = Idle]
  /\ UNCHANGED <<machine, dispatchVars, dial, tuning, calls, faults>>

-----------------------------------------------------------------------------
(* run_trap_probes() and platform_run_trap_probes() *)

StartProbes(t) ==
  /\ Starts(t, [at |-> "probing"])
  /\ UNCHANGED <<machine, dispatchVars, dial, tuning, faults>>

ProbeAt(t, at) == call[t].at = "probing" /\ probe.by = t /\ probe.at = at

probeRest == <<machine, base, dial, tuning, calls, faults>>

\* The first to arrive runs the ladder's deferred rungs.
EntersProbes(t) ==
  /\ call[t].at = "probing"
  /\ probe.by = None
  /\ LET pending == BaseVerdict(machine)
     IN probe' = [by |-> t, at |-> "guard", up |-> [pending EXCEPT !.pending = None],
                  instruction |-> FirstProbe(pending), ok |-> FALSE, refused |-> None]
  /\ UNCHANGED <<probeRest, disposition, trapActive, availActive, call, upgraded>>

\* guarded(): the handler is installed, or nothing is left to run.
Guards(t) ==
  /\ ProbeAt(t, "guard")
  /\ IF probe.instruction = None
     THEN probe' = [probe EXCEPT !.at = "verdict"] /\ UNCHANGED disposition
     ELSE probe' = [probe EXCEPT !.at = "body"] /\ disposition' = "guard"
  /\ UNCHANGED <<probeRest, trapActive, availActive, call, upgraded>>

\* sigaction() fails: guarded() returns false as it does after a trap, and
\* its body has not run.
GuardRefused(t) ==
  /\ ProbeAt(t, "guard")
  /\ probe.instruction # None
  /\ probe' = [probe EXCEPT !.refused = probe.instruction,
                            !.instruction = NextProbe(@, FALSE),
                            !.up = Learns(machine, @, probe.instruction, FALSE)]
  /\ UNCHANGED <<probeRest, disposition, trapActive, availActive, call, upgraded>>

\* The instruction executes or traps.  A trap under the guard ends the body;
\* one that finds another disposition is the application's to decide.
Body(t) ==
  /\ ProbeAt(t, "body")
  /\ LET traps == Traps(machine, probe.instruction)
     IN probe' = [probe EXCEPT !.at = IF traps /\ disposition # "guard" THEN "lost" ELSE "restore",
                               !.ok = ~traps]
  /\ UNCHANGED <<probeRest, disposition, trapActive, availActive, call, upgraded>>

\* mutant: the guard stays in place between two probes
RestoredLast(instruction) == IF instruction = None THEN "application" ELSE disposition

\* g_probe_old
Restored(instruction) == "application"

Restores(t) ==
  /\ ProbeAt(t, "restore")
  /\ LET next == NextProbe(probe.instruction, probe.ok)
     IN /\ probe' = [probe EXCEPT !.at = "guard", !.ok = FALSE, !.instruction = next,
                                  !.up = Learns(machine, @, probe.instruction, probe.ok)]
        /\ disposition' = Restored(next)
  /\ UNCHANGED <<probeRest, trapActive, availActive, call, upgraded>>

News == probe.up.rvv # BaseVerdict(machine).rvv \/ probe.up.xthead # BaseVerdict(machine).xthead

\* The verdict is published, and with no news the probes are over.
PublishesVerdict(t) ==
  /\ ProbeAt(t, "verdict")
  /\ IF News THEN /\ trapActive' = <<probe.up>>
                  /\ probe' = [probe EXCEPT !.at = "table"]
     ELSE probe' = [probe EXCEPT !.at = "done"] /\ UNCHANGED trapActive
  /\ UNCHANGED <<probeRest, disposition, availActive, call, upgraded>>

\* mutant: the table in use is published again
UpgradedTableStale == Table(BaseVerdict(machine))

\* g_avail_upgraded
UpgradedTable == Table(Verdict)

PublishesTable(t) ==
  /\ ProbeAt(t, "table")
  /\ availActive' = UpgradedTable
  /\ probe' = [probe EXCEPT !.at = "done"]
  /\ UNCHANGED <<probeRest, disposition, trapActive, call, upgraded>>

\* The thread that ran the probes and those that waited for it return.
ReturnsProbes(t) ==
  /\ call[t].at = "probing"
  /\ probe.at = "done"
  /\ upgraded' = TRUE
  /\ call' = [call EXCEPT ![t] = Idle]
  /\ UNCHANGED <<probeRest, probe, disposition, trapActive, availActive>>

\* probe_sigill() on a thread that is not probing: the old disposition comes
\* back, and the instruction that faulted is executed again under it.
ForeignFault ==
  /\ faults < MaxFaults
  /\ faults' = faults + 1
  /\ disposition' = "application"
  /\ UNCHANGED <<machine, base, probe, trapActive, availActive, dial, tuning,
                 call, calls, upgraded>>

-----------------------------------------------------------------------------
(* tune_transpose16() *)

tuneRest == <<machine, dispatchVars, faults>>

\* mutant: races are not serialized
EntersUnguarded(t) == TRUE

\* tune_guard: compare_exchange, or wait for the notification.
Enters(t) == tuning = None

StartTune(t) ==
  /\ Starts(t, [at |-> "tune"])
  /\ UNCHANGED <<tuneRest, dial, tuning>>

EntersTune(t) ==
  /\ call[t].at = "tune"
  /\ Enters(t)
  /\ tuning' = t
  /\ call' = [call EXCEPT ![t] = [at |-> "find"]]
  /\ UNCHANGED <<tuneRest, dial, calls>>

\* The dial stays where it is inert, without a width-16 kernel, and where
\* the race gets no memory.
FindsKernel(t) ==
  /\ call[t].at = "find"
  /\ BaseReady
  /\ \/ /\ \E k \in Available : Wide(k)
        /\ call' = [call EXCEPT ![t] = [at |-> "set", mode |-> 1]]
        /\ UNCHANGED tuning
     \/ call' = [call EXCEPT ![t] = Idle] /\ tuning' = None
  /\ UNCHANGED <<tuneRest, dial, calls>>

SetsMode(t) ==
  /\ call[t].at = "set"
  /\ dial' = Dials[call[t].mode]
  /\ call' = [call EXCEPT ![t].at = "pass"]
  /\ UNCHANGED <<tuneRest, tuning, calls>>

\* One timed pass: it runs under what the dial says.
TimesPass(t) ==
  /\ call[t].at = "pass"
  /\ call' = [call EXCEPT ![t] =
                IF @.mode < Len(Dials) THEN [at |-> "set", mode |-> @.mode + 1]
                ELSE [at |-> "win"]]
  /\ UNCHANGED <<tuneRest, dial, tuning, calls>>

\* Any strategy may have been the fastest.
AppliesWinner(t) ==
  /\ call[t].at = "win"
  /\ \E winner \in Range(Dials) :
       /\ dial' = winner
       /\ call' = [call EXCEPT ![t] = [at |-> "leave", winner |-> winner]]
  /\ UNCHANGED <<tuneRest, tuning, calls>>

LeavesTune(t) ==
  /\ call[t].at = "leave"
  /\ tuning' = None
  /\ call' = [call EXCEPT ![t] = Idle]
  /\ UNCHANGED <<tuneRest, dial, calls>>

-----------------------------------------------------------------------------
Resolves(t) ==
  \/ \E want \in {"auto"} \cup Requests[machine.isa] : StartResolve(t, want)
  \/ ResolveBest(t) \/ Returns(t)
  \/ (call[t].at \in {"best", "find"} /\ BuildsBase(t))

Probes(t) ==
  \/ StartProbes(t) \/ EntersProbes(t) \/ Guards(t) \/ GuardRefused(t) \/ Body(t)
  \/ Restores(t) \/ PublishesVerdict(t) \/ PublishesTable(t)
  \/ ReturnsProbes(t)

Tunes(t) ==
  \/ StartTune(t) \/ EntersTune(t) \/ FindsKernel(t) \/ SetsMode(t) \/ TimesPass(t)
  \/ AppliesWinner(t) \/ LeavesTune(t)

Next == ForeignFault \/ \E t \in Threads : Resolves(t) \/ Probes(t) \/ Tunes(t)

Spec == Init /\ [][Next]_vars

-----------------------------------------------------------------------------
(* Properties *)

\* The probe that reads vlenb could not be guarded, which counts as a trap.
Misread == probe.refused = "csrr vlenb"

\* A wrong assertion of the environment variable "is the one way this library
\* runs a kernel the CPU may lack": resolve() returns nothing else that the
\* machine cannot run, whatever was being published; but a vlenb that could
\* not be read is taken for the 0.7.1 dialect.
RunsOnThisCpu ==
  \A t \in Threads : call[t].at = "resolved" =>
    \/ Runs(machine, call[t].kernel)
    \/ Misread /\ call[t].kernel = "xthead"

\* The user vouches for a unit the probes need not see.
Asserted == machine.isa = "riscv" /\ machine.assume = "yes"

\* "It upgrades cpu_supports(), available_arches() and auto-dispatch": calls
\* after a return of run_trap_probes() get the best kernel the machine runs,
\* or the one they ask for.  After a probe that could not be made safe they
\* get what is sure without it; of a vlenb not read nothing is claimed.
UpgradeSeen ==
  LET served == {k \in Kernels :
                   \/ k = "scalar"
                   \/ probe.refused = None /\ Runs(machine, k) /\ Recognizable(machine, k)}
  IN \A t \in Threads : call[t].at = "resolved" /\ call[t].late /\ ~Asserted /\ ~Misread =>
       call[t].kernel = IF call[t].want \in served THEN call[t].want ELSE Best(served)

\* "Cannot make the probe safe -> claim nothing" (guarded()): after a refused
\* guard no call gets a kernel that the machine cannot run.
RefusedProbeIsSafe ==
  \A t \in Threads :
    call[t].at = "resolved" /\ probe.refused # None => Runs(machine, call[t].kernel)

\* The guard's disposition never outlives the probed instruction, and the
\* ladder's own trap reaches the guard while no other thread faults.
SignalScoped ==
  /\ disposition = "guard" => probe.at \in {"body", "restore"}
  /\ faults = 0 => probe.at # "lost"

\* "Two races at once would each time the other's setting and crown a bogus
\* winner": a pass runs under the mode it is timed for, and the last
\* winner stands.
TunersTimeTheirMode ==
  \A t \in Threads :
    /\ call[t].at = "pass" => dial = Dials[call[t].mode]
    /\ call[t].at = "leave" => dial = call[t].winner
=============================================================================
