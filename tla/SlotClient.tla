----------------------------- MODULE SlotClient -----------------------------
(***************************************************************************)
(* The engines (src/src/io/engine.hpp) as a backend sees them, with every  *)
(* order of calls the slot rules of src/src/io/backend.hpp allow: one      *)
(* thread that starts transfers on slots it was given back, waits for any  *)
(* other, finishes, and destroys the backend, also after exceptions.       *)
(*                                                                         *)
(* A transfer moves Len units between a buffer and its place in the file;  *)
(* "moved" tells which unit of the transfer each position took part in, so *)
(* a transfer is right where it maps every position to itself.             *)
(***************************************************************************)
EXTENDS Integers, FiniteSets

CONSTANTS
  QD,        \* number of slots
  Len,       \* units per transfer
  MaxStarts  \* bound on the transfers started

\* queue_depth is clamped to [2, 32], and a transfer is never empty.
ASSUME SlotsAssumption == QD \in Nat \ {0} /\ Len \in Nat \ {0}

VARIABLES
  role,        \* "reader" or "writer"
  stalls,      \* the device never finishes a transfer by itself
  pc,          \* where the thread is
  target,      \* the slot it waits for
  mine,        \* the slots whose buffers it may use
  latched,     \* a start failed: a reader_engine makes no further call
  starts,      \* transfers started
  moved,       \* slot -> position -> unit, or Junk
  fate,        \* slot -> "fine", or its transfer failed: "unreported", "told"
  finished     \* finish() has returned and nothing was started since

clientVars == <<role, stalls, pc, target, mine, latched, starts, moved, fate,
                finished>>

Slots == 0 .. QD - 1
Positions == 0 .. Len - 1
Junk == -1
Blank == [i \in Positions |-> Junk]
Whole == [i \in Positions |-> i]

ClientInit ==
  /\ role \in {"reader", "writer"}
  /\ stalls \in BOOLEAN
  /\ pc = "idle"
  /\ target = 0
  /\ mine = Slots
  /\ latched = FALSE
  /\ starts = 0
  /\ moved = [s \in Slots |-> Whole]
  /\ fate = [s \in Slots |-> "fine"]
  /\ finished = FALSE

-----------------------------------------------------------------------------
(* What a call changes on the engine's side. *)

\* start() or start_write(); the backend adds what it does.
StartCall(s) ==
  /\ pc = "idle" /\ ~latched
  /\ s \in mine
  /\ starts < MaxStarts
  /\ starts' = starts + 1
  /\ mine' = mine \ {s}
  /\ moved' = [moved EXCEPT ![s] = Blank]
  /\ finished' = FALSE
  /\ UNCHANGED <<role, stalls, pc, target>>

\* A new transfer on a slot of which nothing is left untold.
Afresh(s) == IF fate[s] = "told" THEN "fine" ELSE fate[s]

\* wait() on a slot with a transfer, or wait_slot() on any.
WaitCall(s) ==
  /\ pc = "idle" /\ ~latched
  /\ role = "writer" \/ s \notin mine
  /\ pc' = "wait"
  /\ target' = s
  /\ UNCHANGED <<role, stalls, mine, latched, starts, moved, fate, finished>>

\* finish(), from the producer or from ~file_writer.
FinishCall(state) ==
  /\ pc = "idle" /\ role = "writer"
  /\ pc' = state
  /\ target' = 0
  /\ UNCHANGED <<role, stalls, mine, latched, starts, moved, fate, finished>>

DestroyReader ==
  /\ pc = "idle" /\ role = "reader"
  /\ pc' = "drain"
  /\ UNCHANGED <<role, stalls, target, mine, latched, starts, moved, fate,
                 finished>>

InWait == pc \in {"wait", "finish", "destroy"}

\* ~file_writer swallows what finish() throws.
LeaveByException == pc' = IF pc = "destroy" THEN "drain" ELSE "idle"

\* wait_slot(target) returns: to the engine, to the next slot of finish(),
\* or to its tail, where the preallocation is trimmed or the stream flushed,
\* which may fail.
SlotIdle ==
  /\ mine' = mine \cup {target}
  /\ \/ pc = "wait" /\ pc' = "idle" /\ UNCHANGED <<target, finished>>
     \/ pc # "wait" /\ target < QD - 1 /\ target' = target + 1
          /\ UNCHANGED <<pc, finished>>
     \/ /\ pc # "wait" /\ target = QD - 1
        /\ finished' \in {finished, TRUE}
        /\ LeaveByException
        /\ UNCHANGED target
  /\ UNCHANGED <<role, stalls, latched, starts, moved, fate>>

\* An exception tells of the failed transfers of "slots".
Thrown(slots) ==
  /\ fate' = [s \in Slots |-> IF s \in slots THEN "told" ELSE fate[s]]
  /\ LeaveByException
  /\ UNCHANGED <<role, stalls, target, mine, latched, starts, moved, finished>>

\* Units src .. src + n - 1 of slot s's transfer pass through positions
\* from at on.
Pass(s, at, src, n) ==
  moved' = [moved EXCEPT ![s] = [i \in Positions |->
              IF i \in at .. at + n - 1 THEN src + (i - at) ELSE @[i]]]

Fails(s) == fate' = [fate EXCEPT ![s] = "unreported"]
=============================================================================
