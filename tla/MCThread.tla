------------------------------ MODULE MCThread ------------------------------
\* Two devices, and who sends which message.
EXTENDS Thread, TLC

CONSTANTS a, b, m1, m2, m3, m4
Sender == (m1 :> a) @@ (m2 :> a) @@ (m3 :> b) @@ (m4 :> b)
MCFrom == [m \in Msgs |-> Sender[m]]
MCTo == [m \in Msgs |-> IF Sender[m] = a THEN b ELSE a]
MsgSymmetry == Permutations({m1, m2}) \cup Permutations({m3, m4})
=============================================================================
