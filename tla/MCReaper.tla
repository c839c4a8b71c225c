------------------------------- MODULE MCReaper -------------------------------
(* TLC instance of Reaper: three roots over a bounded queue of one place.   *)
EXTENDS Reaper
===============================================================================
