------------------------------ MODULE ByteSink ------------------------------
(***************************************************************************)
(* What file_writer promises its producer                                  *)
(* (src/include/blake3pp/detail/file_writer.hpp): buffers are lent one at  *)
(* a time, submit() takes the next units of the stream and returns before  *)
(* they are in the file, the device puts them there in any order, and      *)
(* finish() returns only when the file is what submit() accepted.  A unit  *)
(* that reached the file stays.  The stream has the number i as its unit i.*)
(***************************************************************************)
EXTENDS Integers

CONSTANTS
  Capacity,  \* units per buffer
  Granule,   \* submits other than the last are multiples of it
  MaxUnits,  \* bound on the stream's length
  Lengths    \* the sizes the file may be given in advance

VARIABLES
  accepted,  \* units submit() has taken
  lent,      \* the producer has a buffer
  closed,    \* a partial submit closed the stream
  disk,      \* the file's units
  length,    \* the file's size
  refused,   \* some submit() threw, and may have left units behind
  finished   \* finish() returned and nothing was accepted since

sinkVars == <<accepted, lent, closed, disk, length, refused, finished>>

Offsets == 0 .. MaxUnits - 1
Unwritten == -1

SinkInit ==
  /\ accepted = 0
  /\ lent = FALSE
  /\ closed = FALSE
  /\ disk = [u \in Offsets |-> Unwritten]
  /\ length \in Lengths
  /\ refused = FALSE
  /\ finished = FALSE

Below(bound) == {u \in Offsets : u < bound}

\* Units reach the file.
Reach(units) ==
  /\ disk' = [u \in Offsets |-> IF u \in units THEN u ELSE disk[u]]
  /\ length' = IF \E u \in units : u >= length
               THEN (CHOOSE u \in units : \A v \in units : v <= u) + 1 ELSE length

\* acquire() returns a buffer, or takes back the one before.
Lend ==
  /\ lent' \in BOOLEAN
  /\ UNCHANGED <<accepted, closed, disk, length, refused, finished>>

Accept(n, units) ==
  /\ lent /\ ~closed
  /\ accepted' = accepted + n
  /\ closed' = (n % Granule # 0)
  /\ lent' = FALSE
  /\ finished' = FALSE
  /\ Reach(units)
  /\ UNCHANGED refused

\* submit() throws: the same units may be submitted again.
Refuse(units) ==
  /\ lent /\ ~closed
  /\ refused' = TRUE
  /\ closed' \in BOOLEAN
  /\ lent' \in BOOLEAN
  /\ Reach(units)
  /\ UNCHANGED <<accepted, finished>>

Transfer(units) ==
  /\ Reach(units)
  /\ UNCHANGED <<accepted, lent, closed, refused, finished>>

\* finish() returns: all of it is in the file, and nothing else unless a
\* refused submit left something behind.
FinishReturns ==
  /\ \A u \in Offsets : u < accepted => disk[u] = u
  /\ length' \in {accepted} \cup (IF refused THEN {length} ELSE {})
  /\ disk' = [u \in Offsets |-> IF u < length' THEN disk[u] ELSE Unwritten]
  /\ finished' = TRUE
  /\ UNCHANGED <<accepted, lent, closed, refused>>

SinkNext ==
  \/ Lend
  \/ \E n \in 1 .. Capacity : \E units \in SUBSET Below(accepted + n) : Accept(n, units)
  \/ \E units \in SUBSET Below(accepted + Capacity) : Refuse(units)
  \/ \E units \in SUBSET Below(accepted + (IF refused THEN Capacity ELSE 0)) :
       Transfer(units)
  \/ FinishReturns

SinkSpec == SinkInit /\ [][SinkNext]_sinkVars
=============================================================================
