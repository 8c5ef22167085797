----------------------------- MODULE MCSession ------------------------------
(***************************************************************************)
(* Instances of Session.                                                   *)
(***************************************************************************)
EXTENDS Session, TLC

Symmetry == Permutations(Peers)

\* Trouble is looked for with one message from each side and one pairing, longer
\* conversations without it.
OneTrouble == Calm \/ (pairings = 1 /\ \A p \in Peers : chats[p] <= 1)
=============================================================================
