------------------------------ MODULE Backends ------------------------------
(***************************************************************************)
(* The platform backends under the engines' calls: Grand Central Dispatch, *)
(* completion ports, and next to either the synchronous path for what does *)
(* not ride a queue (posix_file.hpp, pread_backend.hpp, stdio_backend.hpp, *)
(* iocp_backend.hpp).                                                      *)
(***************************************************************************)
EXTENDS GcdBackend, IocpBackend

VARIABLES
  kind,  \* "gcd" or "iocp"
  done   \* units moved so far by read_sync or write_sync

vars == <<clientVars, gcdVars, iocpVars, kind, done>>

Init ==
  /\ ClientInit /\ GcdInit /\ IocpInit
  /\ kind \in {"gcd", "iocp"}
  /\ done = 0

-----------------------------------------------------------------------------
(* read_sync(), write_sync(): positional calls on the thread itself, until *)
(* the whole range is moved or one of them fails.                          *)

SyncOver == done = Len

SyncCall(s) ==
  /\ pc = "idle" /\ ~latched
  /\ s \in mine
  /\ starts < MaxStarts
  /\ starts' = starts + 1
  /\ pc' = "sync"
  /\ target' = s
  /\ done' = 0
  /\ moved' = [moved EXCEPT ![s] = Blank]
  /\ fate' = [fate EXCEPT ![s] = "fine"]
  /\ finished' = FALSE
  /\ UNCHANGED <<role, stalls, mine, latched, gcdVars, iocpVars, kind>>

SyncMoves(n) ==
  /\ pc = "sync" /\ ~SyncOver
  /\ done + n <= Len
  /\ Pass(target, done, done, n)
  /\ done' = done + n
  /\ UNCHANGED <<role, stalls, pc, target, mine, latched, starts, fate, finished,
                 gcdVars, iocpVars, kind>>

\* An errno, or the end of the file: thrown.
SyncThrows ==
  /\ pc = "sync" /\ ~SyncOver
  /\ Thrown({target})
  /\ UNCHANGED <<gcdVars, iocpVars, kind, done>>

SyncReturns ==
  /\ pc = "sync" /\ SyncOver
  /\ pc' = "idle"
  /\ UNCHANGED <<role, stalls, target, mine, latched, starts, moved, fate, finished,
                 gcdVars, iocpVars, kind, done>>

-----------------------------------------------------------------------------
Calls ==
  \/ \E s \in Slots : WaitCall(s)
  \/ FinishCall("finish") \/ FinishCall("destroy") \/ DestroyReader

Next ==
  \/ Calls /\ UNCHANGED <<gcdVars, iocpVars, kind, done>>
  \/ \E s \in Slots : SyncCall(s)
  \/ \E n \in 1 .. Len : SyncMoves(n)
  \/ SyncThrows \/ SyncReturns
  \/ kind = "gcd" /\ GcdNext /\ UNCHANGED <<iocpVars, kind, done>>
  \/ kind = "iocp" /\ IocpNext /\ UNCHANGED <<gcdVars, kind, done>>

Spec == Init /\ [][Next]_vars

(***************************************************************************)
(* A thread inside a call or a destructor runs.  The queue gives every     *)
(* task a thread, and a device that does not stall finishes its transfers; *)
(* of one that does, only cancelled requests are sure to complete.         *)
(***************************************************************************)
OfGcd(A) == kind = "gcd" /\ A /\ UNCHANGED <<iocpVars, kind, done>>
OfIocp(A) == kind = "iocp" /\ A /\ UNCHANGED <<gcdVars, kind, done>>

Fairness ==
  /\ WF_vars(OfGcd(GcdThread))
  /\ WF_vars(OfGcd(GcdNotifies))
  /\ WF_vars(OfGcd(GcdDestroyed))
  /\ \A s \in Slots : WF_vars(~stalls /\ OfGcd(GcdWorker(s)))
  /\ WF_vars(OfIocp(IocpThread))
  /\ WF_vars(OfIocp(IocpTeardown))
  /\ \A s \in Slots : WF_vars((~stalls \/ cancelled) /\ OfIocp(IocpDevice(s)))

FairSpec == Spec /\ Fairness

-----------------------------------------------------------------------------
(* Properties *)

\* A slot the engine was given back and that did not fail holds the whole
\* transfer, every unit in its place, however short the pieces were.
\* (run_read, run_write, wait, reap_one, read_sync, write_sync)
TransfersExact ==
  \A s \in mine :
    fate[s] = "fine" /\ ~(pc = "sync" /\ target = s) => moved[s] = Whole

(***************************************************************************)
(* No failed transfer is passed over in silence: when finish() returns,    *)
(* every failure so far has been thrown to somebody ("Throws the slot's    *)
(* deferred write error", backend.hpp).                                    *)
(***************************************************************************)
FailuresSurface == finished => \A s \in Slots : fate[s] # "unreported"

(***************************************************************************)
(* Once the destructor is through nothing touches the engine's buffers or  *)
(* the backend's own lock, condition variable and OVERLAPPEDs: the count   *)
(* of requests and the group of workers miss nobody.  A port that failed   *)
(* is the exception the code documents.                                    *)
(***************************************************************************)
NoneOutlives ==
  pc = "freed" /\ ~portFailed =>
    /\ \A s \in Slots : ~Working(s)
    /\ notifying = 0
    /\ flight = {}

(***************************************************************************)
(* backend.hpp's contract: a slot is given back only when its transfer is  *)
(* over, at most one transfer per slot, no teardown under a transfer.      *)
(***************************************************************************)
Contract == INSTANCE SlotContract WITH
  op <- [s \in Slots |-> IF kind = "gcd" THEN GcdOp(s) ELSE IocpOp(s)],
  open <- pc # "freed" \/ portFailed

ImplementsContract == Contract!ContractSpec

(***************************************************************************)
(* Every wait ends while the device serves: with Grand Central Dispatch    *)
(* always, also for a slot whose failure was thrown before and although    *)
(* workers notify without the lock; with a completion port while nothing   *)
(* failed.                                                                 *)
(***************************************************************************)
Unharmed == \A s \in Slots : fate[s] = "fine"
WaitsReturn ==
  InWait /\ ~stalls /\ (kind = "gcd" \/ Unharmed)
    ~> ~InWait \/ (kind = "iocp" /\ ~Unharmed)

(***************************************************************************)
(* The destructor's drain ends: over a completion port even if the device  *)
(* serves nothing, because the requests are cancelled first.               *)
(***************************************************************************)
DrainEnds == pc = "drain" /\ (kind = "iocp" \/ ~stalls) ~> pc = "freed"
=============================================================================
