--------------------------- MODULE WindowStream ---------------------------
(***************************************************************************)
(* What file_reader promises its caller                                    *)
(* (src/include/blake3pp/detail/file_reader.hpp): the windows of the file  *)
(* come one by one, strictly in file order, each with the file's bytes;    *)
(* the bytes of a window stay as they were until that window is released   *)
(* or the reader destroyed; at most QD windows are out at a time.          *)
(***************************************************************************)
EXTENDS Integers, FiniteSets

CONSTANTS QD,         \* queue depth
          WindowSize, \* units per window
          Sizes       \* the file sizes considered, in units

VARIABLES size,       \* the file's size
          delivered,  \* windows handed out so far
          view,       \* window index -> bytes, for each window the caller holds
          open        \* the reader exists

streamVars == <<size, delivered, view, open>>

NumWindows(sz) == (sz + WindowSize - 1) \div WindowSize

\* The units of window w; unit u of the file is the number u.
FileWindow(sz, w) ==
  [i \in 0 .. (IF sz - w * WindowSize < WindowSize
               THEN sz - w * WindowSize ELSE WindowSize) - 1 |-> w * WindowSize + i]

StreamInit ==
  /\ size \in Sizes
  /\ delivered = 0
  /\ view = << >>
  /\ open = TRUE

Deliver ==
  /\ open = TRUE
  /\ delivered < NumWindows(size)
  /\ Cardinality(DOMAIN view) < QD
  /\ delivered' = delivered + 1
  /\ view' = [w \in DOMAIN view \cup {delivered} |->
                IF w = delivered THEN FileWindow(size, w) ELSE view[w]]
  /\ UNCHANGED <<size, open>>

GiveBack(w) ==
  /\ open = TRUE
  /\ w \in DOMAIN view
  /\ view' = [v \in DOMAIN view \ {w} |-> view[v]]
  /\ UNCHANGED <<size, delivered, open>>

\* The reader is destroyed: its windows die with it.
Close ==
  /\ open = TRUE
  /\ open' = FALSE
  /\ view' = << >>
  /\ UNCHANGED <<size, delivered>>

StreamNext ==
  \/ Deliver
  \/ \E w \in DOMAIN view : GiveBack(w)
  \/ Close

StreamSpec == StreamInit /\ [][StreamNext]_streamVars
=============================================================================
