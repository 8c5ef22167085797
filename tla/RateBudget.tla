----------------------------- MODULE RateBudget -----------------------------
(***************************************************************************)
(* What the node's rate limiter promises, without its table and its        *)
(* pruning: each remote id has a budget per window, a window opens with    *)
(* the first request after the previous one has run out, and a request is  *)
(* granted exactly while the open window has budget left.  Nothing is      *)
(* promised once the wall clock has been set back.                         *)
(***************************************************************************)
EXTENDS Integers

CONSTANTS Remotes, MaxPerWindow, Window

VARIABLES
  left,     \* seconds until the open window runs out, 0 when none is open
  used,     \* requests granted in the open window
  kept,     \* the wall clock has not been set back
  verdict   \* the last answer: whom, and whether the request was let through

vars == <<left, used, kept, verdict>>

NoVerdict == [remote |-> "none", granted |-> FALSE]

Init ==
  /\ left = [r \in Remotes |-> 0]
  /\ used = [r \in Remotes |-> 0]
  /\ kept = TRUE
  /\ verdict = NoVerdict

Grant(r) ==
  /\ used[r] < MaxPerWindow
  /\ left' = [left EXCEPT ![r] = IF @ = 0 THEN Window ELSE @]
  /\ used' = [used EXCEPT ![r] = @ + 1]
  /\ verdict' = [remote |-> r, granted |-> TRUE]

Refuse(r) ==
  /\ used[r] = MaxPerWindow
  /\ verdict' = [remote |-> r, granted |-> FALSE]
  /\ UNCHANGED <<left, used>>

\* s seconds pass; a window that runs out takes its count with it.
Pass(s) ==
  /\ left' = [r \in Remotes |-> IF left[r] > s THEN left[r] - s ELSE 0]
  /\ used' = [r \in Remotes |-> IF left[r] > s THEN used[r] ELSE 0]
  /\ UNCHANGED verdict

\* A restarted node has no open windows.
Forget ==
  /\ left' = [r \in Remotes |-> 0]
  /\ used' = [r \in Remotes |-> 0]
  /\ UNCHANGED verdict

Keep ==
  /\ kept /\ kept'
  /\ \/ \E r \in Remotes : Grant(r) \/ Refuse(r)
     \/ \E s \in 1..Window : Pass(s)
     \/ Forget

Lapse == ~kept'

Next == Keep \/ Lapse

Spec == Init /\ [][Next]_vars
=============================================================================
