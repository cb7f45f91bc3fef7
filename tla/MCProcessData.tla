--------------------------- MODULE MCProcessData ---------------------------
(***************************************************************************)
(* TLC instances of the process data cycle.                                *)
(***************************************************************************)
EXTENDS ProcessData, TLC

Symmetry == Permutations(Tasks)
=============================================================================
