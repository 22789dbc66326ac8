--------------------------- MODULE MCUringReader ---------------------------
(***************************************************************************)
(* Instance of UringReader for TLC: three slots, windows of two units, one   *)
(* granule per window, so a file of odd size ends in an unaligned tail     *)
(* that is read synchronously.                                             *)
(***************************************************************************)
EXTENDS UringReader

MCSizes == {0, 1, 7, 8}

(***************************************************************************)
(* "blocks until its read completes. [...] Throws std::system_error on     *)
(* read failure" (file_reader.hpp): next() always comes back, also when it *)
(* is called again after it threw.                                         *)
(***************************************************************************)
EveryNextReturns == pc = "wait" ~> pc # "wait"
=============================================================================
