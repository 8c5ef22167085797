------------------------------- MODULE Outbox --------------------------------
(***************************************************************************)
(* What the node's retry queue promises its owner, without attempts,       *)
(* backoff, sweeps and crashes: an envelope handed over is either          *)
(* delivered or given up, once, and what was given up is reported once.    *)
(***************************************************************************)
CONSTANT Msgs

VARIABLES
  queued,     \* taken over, undecided
  failed,     \* given up, not yet reported
  delivered   \* acknowledged by the recipient

vars == <<queued, failed, delivered>>

Init == queued = {} /\ failed = {} /\ delivered = {}

Schedule(m) ==
  /\ queued' = queued \cup {m}
  /\ UNCHANGED <<failed, delivered>>

Deliver(m) ==
  /\ m \in queued
  /\ queued' = queued \ {m}
  /\ delivered' = delivered \cup {m}
  /\ UNCHANGED failed

GiveUp(m) ==
  /\ m \in queued
  /\ queued' = queued \ {m}
  /\ failed' = failed \cup {m}
  /\ UNCHANGED delivered

Report ==
  /\ failed' = {}
  /\ UNCHANGED <<queued, delivered>>

Next == Report \/ \E m \in Msgs : Schedule(m) \/ Deliver(m) \/ GiveUp(m)

Spec == Init /\ [][Next]_vars
=============================================================================
