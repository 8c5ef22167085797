----------------------------- MODULE MCPairing ------------------------------
(***************************************************************************)
(* An instance of Pairing.                                                 *)
(***************************************************************************)
EXTENDS Pairing, TLC

Symmetry == Permutations(Peers)
=============================================================================
