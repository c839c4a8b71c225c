------------------------- MODULE MCFileCommitStore --------------------------
(* TLC instance of MmapStore over FileCommitStore. *)
EXTENDS MmapStore
=============================================================================
