--------------------------- MODULE MCMemoryRepo ---------------------------
(***************************************************************************)
(* Pages below, at and above the limits.                                   *)
(***************************************************************************)
EXTENDS MemoryRepo

MCPage == [limit : {0, 1, 2, 3}, offset : {-1, 0, 1, 3}]
=============================================================================
