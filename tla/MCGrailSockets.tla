--------------------------- MODULE MCGrailSockets ---------------------------
(***************************************************************************)
(* Small instances of GrailSockets.  ns-3 sockets are interchangeable.     *)
(***************************************************************************)
EXTENDS GrailSockets, TLC

Interchangeable == Permutations(Socks)
=============================================================================
