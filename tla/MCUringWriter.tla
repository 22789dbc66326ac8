--------------------------- MODULE MCUringWriter ---------------------------
(***************************************************************************)
(* Instance of UringWriter for TLC: buffers of two units, one granule per  *)
(* buffer, so a one-unit submit is the unaligned tail; streams of up to    *)
(* seven units over three buffers, so the first is used again and a tail   *)
(* may follow; no preallocation, or one that the stream may undercut, meet *)
(* or exceed.                                                              *)
(***************************************************************************)
EXTENDS UringWriter

MCPreallocs == {0, 4}
=============================================================================
