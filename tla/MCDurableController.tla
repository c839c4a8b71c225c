------------------------- MODULE MCDurableController ------------------------
(* TLC instance of DurableController. *)
EXTENDS DurableController
=============================================================================
