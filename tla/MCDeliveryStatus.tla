-------------------------- MODULE MCDeliveryStatus --------------------------
\* Model values for DeliveryStatus.
EXTENDS DeliveryStatus, TLC

CONSTANTS m1, m2
MCMsgs == {m1, m2}
OneMsg == {m1}
MsgSymmetry == Permutations(MCMsgs)
=============================================================================
