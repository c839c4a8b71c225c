------------------------------ MODULE MCKernel ------------------------------
(* TLC instance of KernelQueries: names are interchangeable, so symmetry is *)
(* sound (only safety is checked).                                          *)
EXTENDS KernelQueries, TLC

Symmetry == Permutations(Slots) \cup Permutations(Atoms) \cup Permutations(Predicates)
=============================================================================
