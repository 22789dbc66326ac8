----------------------------- MODULE FileHandles -----------------------------
(***************************************************************************)
(* What a backend opens before the first transfer and which of it every    *)
(* call uses, on the five platforms of src/src/io/backend_select.hpp.  A   *)
(* buffered handle always exists; a second one with direct I/O, and the    *)
(* queue, are taken where the system grants them.  The engine's windows    *)
(* and buffers are aligned, the file's tail is not.                        *)
(***************************************************************************)
EXTENDS Functions

VARIABLES
  host,      \* the platform
  asked,     \* the options, and whether a writer is being built
  stage,     \* where the constructor is, then "ready", "failed" or "gone"
  handles,   \* open handle -> what it demands of its calls
  direct,    \* posix_file::direct, win_file::direct
  queued,    \* use_uring_, use_iocp, use_gcd_
  reserved,  \* prealloc_ # 0
  call       \* the latest system call on a handle

handleVars == <<host, asked, stage, handles, direct, queued, reserved, call>>

Hosts == {"linux", "windows", "darwin", "unix", "other"}
NoCall == [how |-> "none"]

HandlesInit ==
  /\ host \in Hosts
  /\ asked \in [writer : BOOLEAN, direct : BOOLEAN, async : BOOLEAN, prealloc : BOOLEAN]
  /\ stage = "open"
  /\ handles = << >>
  /\ direct = FALSE /\ queued = FALSE /\ reserved = FALSE
  /\ call = NoCall

Opened(name) == name \in DOMAIN handles
With(name, demands) ==
  [h \in DOMAIN handles \cup {name} |-> IF h = name THEN demands ELSE handles[h]]
Without(name) == Restrict(handles, DOMAIN handles \ {name})

\* The members' destructors close what they own.  Of a half constructed
\* stdio_reader no destructor knows the stream.
Throws ==
  /\ stage' = "failed"
  /\ handles' = IF host = "other" THEN handles ELSE << >>

-----------------------------------------------------------------------------
(* The constructors *)

OpenPlain ==
  /\ stage = "open"
  /\ \/ /\ handles' = With("plain", {})
        /\ stage' = IF asked.writer THEN "reserve" ELSE "size"
     \/ Throws
  /\ UNCHANGED <<host, asked, direct, queued, reserved, call>>

QuerySize ==
  /\ stage = "size"
  /\ (stage' = "engage" /\ UNCHANGED handles) \/ Throws
  /\ UNCHANGED <<host, asked, direct, queued, reserved, call>>

\* fallocate, F_PREALLOCATE, SetEndOfFile: each may be refused.
Reserve ==
  /\ stage = "reserve"
  /\ reserved' \in {FALSE, asked.prealloc /\ host \in {"linux", "windows", "darwin"}}
  /\ stage' = "engage"
  /\ UNCHANGED <<host, asked, handles, direct, queued, call>>

\* try_odirect(): O_DIRECT is a flag of the open.
ReopenDirect ==
  /\ stage = "engage" /\ host \in {"linux", "unix"}
  /\ \/ /\ asked.direct
        /\ handles' = With("fast", {"aligned"})
        /\ direct' = TRUE
     \/ UNCHANGED <<handles, direct>>
  /\ stage' = "queue"
  /\ UNCHANGED <<host, asked, queued, reserved, call>>

\* F_NOCACHE is a property of the descriptor, with any alignment.
CacheOff ==
  /\ stage = "engage" /\ host = "darwin"
  /\ direct' \in {FALSE, asked.direct}
  /\ stage' = "queue"
  /\ UNCHANGED <<host, asked, handles, queued, reserved, call>>

\* The ring, or the dispatch group.
MakeQueue ==
  /\ stage = "queue"
  /\ \/ /\ asked.async /\ host \in {"linux", "darwin"}
        /\ handles' = With("queue", {})
        /\ queued' = TRUE
     \/ UNCHANGED <<handles, queued>>
  /\ stage' = IF host = "unix" THEN "ready" ELSE "named"
  /\ UNCHANGED <<host, asked, direct, reserved, call>>

\* The slots and the backend's name are allocated last, and that may fail.
Complete ==
  /\ stage = "named"
  /\ (stage' = "ready" /\ UNCHANGED handles) \/ Throws
  /\ UNCHANGED <<host, asked, direct, queued, reserved, call>>

\* engage(): one more open with both flags,
ReopenFast ==
  /\ stage = "engage" /\ host = "windows"
  /\ \/ /\ asked.direct \/ asked.async
        /\ handles' = With("fast", (IF asked.direct THEN {"aligned"} ELSE {})
                                   \cup (IF asked.async THEN {"overlapped"} ELSE {}))
        /\ stage' = "attach"
     \/ stage' = "ready" /\ UNCHANGED handles
  /\ UNCHANGED <<host, asked, direct, queued, reserved, call>>

\* mutant: the handle serves without a port
RefusedKeepsHandle == UNCHANGED handles /\ direct' = asked.direct

PortRefused == handles' = Without("fast") /\ UNCHANGED direct

\* then the port, which takes the handle down with it.
AttachPort ==
  /\ stage = "attach"
  /\ \/ /\ handles' = IF asked.async THEN With("queue", {}) ELSE handles
        /\ direct' = asked.direct
        /\ queued' = asked.async
     \/ asked.async /\ PortRefused /\ UNCHANGED queued
  /\ stage' = "ready"
  /\ UNCHANGED <<host, asked, reserved, call>>

StdioReady ==
  /\ stage = "engage" /\ host = "other"
  /\ stage' = "ready"
  /\ UNCHANGED <<host, asked, handles, direct, queued, reserved, call>>

-----------------------------------------------------------------------------
(* The calls.  "aligned" tells of the length. *)

\* f_.fd, h()
Fast == IF Opened("fast") THEN "fast" ELSE "plain"

\* mutant: the queue takes every length
WantsAnyLength(aligned) == queued

WantsAsync(aligned) == queued /\ (aligned \/ (host = "darwin" /\ ~asked.writer))

\* mutant: direct I/O takes every length
SyncAnyLength(aligned) == IF direct /\ ~queued THEN Fast ELSE "plain"

\* sync_fd() and its Windows twin, where an overlapped handle never serves.
SyncHandle(aligned) ==
  IF direct /\ aligned /\ ~(host = "windows" /\ queued) THEN Fast ELSE "plain"

Transfer(aligned) ==
  /\ stage = "ready"
  /\ call' = IF WantsAsync(aligned)
             THEN [how |-> "async", on |-> Fast, aligned |-> aligned]
             ELSE [how |-> "sync", on |-> SyncHandle(aligned), aligned |-> aligned]
  /\ UNCHANGED <<host, asked, stage, handles, direct, queued, reserved>>

\* finish() trims what was reserved to any length.
Trim ==
  /\ stage = "ready" /\ reserved
  /\ call' = [how |-> "trim", on |-> "plain", aligned |-> FALSE]
  /\ reserved' = FALSE
  /\ UNCHANGED <<host, asked, stage, handles, direct, queued>>

Close ==
  /\ stage = "ready"
  /\ stage' = "gone"
  /\ handles' = << >>
  /\ call' = NoCall
  /\ UNCHANGED <<host, asked, direct, queued, reserved>>

HandlesNext ==
  \/ OpenPlain \/ QuerySize \/ Reserve
  \/ ReopenDirect \/ CacheOff \/ MakeQueue \/ Complete
  \/ ReopenFast \/ AttachPort \/ StdioReady
  \/ \E aligned \in BOOLEAN : Transfer(aligned)
  \/ Trim \/ Close

HandlesSpec == HandlesInit /\ [][HandlesNext]_handleVars

-----------------------------------------------------------------------------
(***************************************************************************)
(* Whatever the system grants or refuses, every call goes to a handle that *)
(* admits it: none of an unaligned length to a direct handle, none without *)
(* a queue to an overlapped one, none to the queue without its handle; the *)
(* flags behind the reported name say what is engaged; and a constructor   *)
(* that throws, like a destructor, leaves no handle open.  Not claimed of  *)
(* stdio_reader, whose stream is lost with an exception, and not of the    *)
(* rest of a short transfer, which stays on its handle.  (sync_fd,         *)
(* wants_async, engage, read_sync, and the constructors)                   *)
(***************************************************************************)
HandlesFit ==
  /\ call # NoCall =>
       /\ Opened(call.on)
       /\ "aligned" \in handles[call.on] => call.aligned
       /\ call.how = "async" => Opened("queue")
       /\ host = "windows" => (call.how = "async" <=> "overlapped" \in handles[call.on])
  /\ stage = "ready" =>
       /\ queued <=> Opened("queue")
       /\ Opened("fast") => (direct <=> "aligned" \in handles["fast"])
  /\ stage \in {"failed", "gone"} /\ host # "other" => handles = << >>
=============================================================================
