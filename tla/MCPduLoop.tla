---------------------------- MODULE MCPduLoop ------------------------------
(***************************************************************************)
(* TLC instances of the PDU loop.                                          *)
(***************************************************************************)
EXTENDS PduLoop, TLC

Symmetry == Permutations(Tasks)
=============================================================================
