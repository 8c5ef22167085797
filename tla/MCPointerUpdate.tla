-------------------------- MODULE MCPointerUpdate ---------------------------
(* PointerUpdate with interchangeable contacts and Servers.                 *)
EXTENDS PointerUpdate, TLC

Symmetry == Permutations(Contacts) \cup Permutations(Addrs \ {NoServer})
=============================================================================
