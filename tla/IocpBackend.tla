---------------------------- MODULE IocpBackend ----------------------------
(***************************************************************************)
(* iocp_reader and iocp_writer (src/src/io/iocp_backend.hpp): one          *)
(* OVERLAPPED per slot, a completion port, and a count of the requests in  *)
(* flight that the destructor cancels and drains.  A completion is the     *)
(* record [slot, at, bytes], bytes = 0 standing for every failure.         *)
(***************************************************************************)
EXTENDS SlotClient

VARIABLES
  islots,       \* slot -> [filled, ready]; a writer's busy is ~ready
  flight,       \* requests the system holds: [slot, at]
  port,         \* completions queued at the port
  outstanding,  \* outstanding_
  cancelled,    \* CancelIoEx has been called
  portFailed    \* the drain gave up because the port failed

iocpVars == <<islots, flight, port, outstanding, cancelled, portFailed>>

IocpInit ==
  /\ islots = [s \in Slots |-> [filled |-> 0, ready |-> role = "writer"]]
  /\ flight = {}
  /\ port = {}
  /\ outstanding = 0
  /\ cancelled = FALSE
  /\ portFailed = FALSE

\* mutant: the rest of a short transfer is not counted
SubmitFirstCounted(s, at, count) ==
  \/ /\ flight' = flight \cup {[slot |-> s, at |-> at]}
     /\ outstanding' = IF at = 0 THEN count + 1 ELSE count
  \/ flight' = flight /\ outstanding' = count

\* mutant: the request is counted before it is issued
SubmitCountedFirst(s, at, count) ==
  \/ flight' = flight \cup {[slot |-> s, at |-> at]} /\ outstanding' = count + 1
  \/ flight' = flight /\ outstanding' = count + 1

\* submit_read, submit_async: the call queues the request or throws; "count"
\* is outstanding_ at that moment.
SubmitRequest(s, at, count) ==
  \/ flight' = flight \cup {[slot |-> s, at |-> at]} /\ outstanding' = count + 1
  \/ flight' = flight /\ outstanding' = count

Refused == flight' = flight

IocpStart(s) ==
  /\ StartCall(s)
  /\ islots' = [islots EXCEPT ![s] = [filled |-> 0, ready |-> FALSE]]
  /\ SubmitRequest(s, 0, outstanding)
  /\ fate' = [fate EXCEPT ![s] = IF Refused THEN "told" ELSE Afresh(s)]
  /\ latched' = (Refused /\ role = "reader")
  /\ UNCHANGED <<port, cancelled, portFailed>>

-----------------------------------------------------------------------------
(* wait() and reap_one() *)

Waiting == InWait /\ ~islots[target].ready

IocpWaitReturns ==
  /\ InWait /\ islots[target].ready
  /\ SlotIdle
  /\ UNCHANGED iocpVars

FilledBy(c) == islots[c.slot].filled + c.bytes

Enough(c) == FilledBy(c) >= Len

\* The last piece of a transfer, the awaited one or another.
IocpAbsorbs(c) ==
  /\ Waiting
  /\ c \in port /\ c.bytes > 0 /\ Enough(c)
  /\ islots' = [islots EXCEPT ![c.slot] = [filled |-> FilledBy(c), ready |-> TRUE]]
  /\ port' = port \ {c}
  /\ outstanding' = outstanding - 1
  /\ UNCHANGED <<clientVars, flight, cancelled, portFailed>>

\* A short transfer is continued where it stopped, which may throw.
IocpContinues(c) ==
  /\ Waiting
  /\ c \in port /\ c.bytes > 0 /\ ~Enough(c)
  /\ islots' = [islots EXCEPT ![c.slot].filled = FilledBy(c)]
  /\ port' = port \ {c}
  /\ SubmitRequest(c.slot, FilledBy(c), outstanding - 1)
  /\ IF Refused THEN Thrown({c.slot}) ELSE UNCHANGED <<fate, pc>>
  /\ UNCHANGED <<role, stalls, target, mine, latched, starts, moved, finished,
                 cancelled, portFailed>>

\* Any slot's failure is thrown; the slot stays as it was.
IocpWaitThrows(c) ==
  /\ Waiting
  /\ c \in port /\ c.bytes = 0
  /\ port' = port \ {c}
  /\ outstanding' = outstanding - 1
  /\ Thrown({c.slot})
  /\ UNCHANGED <<islots, flight, cancelled, portFailed>>

\* The port itself fails: thrown, with nothing taken off it.
IocpPortThrows ==
  /\ Waiting
  /\ Thrown({})
  /\ UNCHANGED iocpVars

-----------------------------------------------------------------------------
(* The system serves a request in part or fails it, cancelled or not. *)

IocpServes(r, n) ==
  /\ r \in flight
  /\ r.at + n <= Len
  /\ flight' = flight \ {r}
  /\ port' = port \cup {[slot |-> r.slot, at |-> r.at, bytes |-> n]}
  /\ Pass(r.slot, r.at, r.at, n)
  /\ IF n = 0 THEN Fails(r.slot) ELSE UNCHANGED fate
  /\ UNCHANGED <<role, stalls, pc, target, mine, latched, starts, finished, islots,
                 outstanding, cancelled, portFailed>>

-----------------------------------------------------------------------------
(* ~iocp_reader, ~iocp_writer: drain_cancelled() *)

IocpCancels ==
  /\ pc = "drain" /\ ~cancelled
  /\ outstanding > 0
  /\ cancelled' = TRUE
  /\ UNCHANGED <<clientVars, islots, flight, port, outstanding, portFailed>>

IocpDrains(c) ==
  /\ pc = "drain" /\ cancelled
  /\ c \in port
  /\ port' = port \ {c}
  /\ outstanding' = outstanding - 1
  /\ UNCHANGED <<clientVars, islots, flight, cancelled, portFailed>>

IocpDestroyed ==
  /\ pc = "drain"
  /\ outstanding = 0
  /\ pc' = "freed"
  /\ UNCHANGED <<role, stalls, target, mine, latched, starts, moved, fate,
                 finished, iocpVars>>

\* A null OVERLAPPED: the port is unusable and the drain breaks off.
IocpGivesUp ==
  /\ pc = "drain" /\ cancelled
  /\ outstanding > 0
  /\ pc' = "freed"
  /\ portFailed' = TRUE
  /\ UNCHANGED <<role, stalls, target, mine, latched, starts, moved, fate,
                 finished, islots, flight, port, outstanding, cancelled>>

IocpThread ==
  \/ IocpWaitReturns
  \/ \E c \in port : IocpAbsorbs(c) \/ IocpContinues(c) \/ IocpWaitThrows(c)
IocpTeardown == IocpCancels \/ (\E c \in port : IocpDrains(c)) \/ IocpDestroyed
IocpDevice(s) == \E r \in flight, n \in 0 .. Len : r.slot = s /\ IocpServes(r, n)

IocpNext ==
  \/ \E s \in Slots : IocpStart(s) \/ IocpDevice(s)
  \/ IocpThread \/ IocpPortThrows \/ IocpTeardown \/ IocpGivesUp

\* The slot as backend.hpp's contract sees it: a transfer of which nothing
\* is in flight and that is not complete has failed.
IocpOp(s) ==
  IF \E r \in flight : r.slot = s THEN "pending"
  ELSE IF islots[s].ready \/ s \in mine THEN "idle"
  ELSE IF \E c \in port : c.slot = s /\ c.bytes > 0 THEN "pending"
  ELSE "failed"
=============================================================================
