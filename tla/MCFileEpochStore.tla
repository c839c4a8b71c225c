-------------------------- MODULE MCFileEpochStore --------------------------
(* TLC instance of FileEpochStore. *)
EXTENDS FileEpochStore
=============================================================================
