---------------------------- MODULE RateLimiter -----------------------------
(***************************************************************************)
(* pm-node's request throttle (rate_limit.rs): a fixed-window counter per  *)
(* remote id, kept in a map that the sweep of lib.rs prunes.               *)
(*                                                                         *)
(* age[r] stands for now_ms() - started_at_ms of the window of r, in       *)
(* seconds; it follows the wall clock, which may be stepped.               *)
(***************************************************************************)
EXTENDS Integers

CONSTANTS
  Remotes,        \* endpoint ids that connect
  MaxPerWindow,   \* RATE_LIMIT_MAX_PER_WINDOW
  Window,         \* RATE_LIMIT_WINDOW
  SweepInterval,  \* SWEEP_INTERVAL
  MaxResets,      \* bound on restarts plus forward steps of the wall clock
  MaxBack         \* bound on the total backward stepping of the wall clock

ASSUME LimiterAssumption ==
  /\ MaxPerWindow \in Nat \ {0} /\ Window \in Nat \ {0}
  /\ SweepInterval \in Nat \ {0}
  /\ MaxResets \in Nat /\ MaxBack \in Nat

VARIABLES
  tracked,    \* keys of the windows map
  age,        \* age of the window of each key
  count,      \* requests counted in it
  sweepLeft,  \* seconds until the next sweep
  resets,     \* restarts and forward steps so far
  back,       \* backward steps the wall clock may still make
  verdict,    \* history: the last answer of allow
  granted,    \* history: per id, how many requests went through in the last i seconds
  quiet       \* history: seconds since the last request of the id

table == <<tracked, age, count>>
rateVars == <<table, sweepLeft, resets, back, verdict, granted, quiet>>

NoVerdict == [remote |-> "none", granted |-> FALSE]

\* An id silent for this long is long forgotten in every respect.
LongAgo == Window + SweepInterval + MaxBack

RateTypeOK ==
  /\ tracked \subseteq Remotes
  /\ age \in [Remotes -> Int]
  /\ count \in [Remotes -> 0..MaxPerWindow]
  /\ sweepLeft \in 0..SweepInterval
  /\ resets \in 0..MaxResets
  /\ back \in 0..MaxBack
  /\ granted \in [Remotes -> [1..Window -> Nat]]
  /\ quiet \in [Remotes -> 0..LongAgo]

RateInit ==
  /\ tracked = {}
  /\ age = [r \in Remotes |-> 0]
  /\ count = [r \in Remotes |-> 0]
  /\ sweepLeft = 0
  /\ resets = 0
  /\ back = MaxBack
  /\ verdict = NoVerdict
  /\ granted = [r \in Remotes |-> [i \in 1..Window |-> 0]]
  /\ quiet = [r \in Remotes |-> LongAgo]
-----------------------------------------------------------------------------
\* The window allow works on: a new one for a new or an expired id.
Fresh(r) == r \notin tracked \/ age[r] >= Window

\* Mutants: the window's start is moved but its count kept; every request
\* moves the start.
CountOf_NotReset(r) == IF r \notin tracked THEN 0 ELSE count[r]
AgeOf_Slides(r)     == 0

CountOf(r) == IF Fresh(r) THEN 0 ELSE count[r]
AgeOf(r)   == IF Fresh(r) THEN 0 ELSE age[r]

\* allow(r): open or reset the window, then count the request or refuse it.
allow(r) ==
  /\ tracked' = tracked \cup {r}
  /\ age' = [age EXCEPT ![r] = AgeOf(r)]
  /\ quiet' = [quiet EXCEPT ![r] = 0]
  /\ \/ /\ CountOf(r) >= MaxPerWindow
        /\ count' = [count EXCEPT ![r] = CountOf(r)]
        /\ verdict' = [remote |-> r, granted |-> FALSE]
        /\ UNCHANGED granted
     \/ /\ CountOf(r) < MaxPerWindow
        /\ count' = [count EXCEPT ![r] = CountOf(r) + 1]
        /\ verdict' = [remote |-> r, granted |-> TRUE]
        /\ granted' = [granted EXCEPT ![r] = [i \in 1..Window |-> granted[r][i] + 1]]
  /\ UNCHANGED <<sweepLeft, resets, back>>

\* Rows leave the map: the columns of an absent one read as 0.
Keep(S) ==
  /\ tracked' = S
  /\ age' = [r \in Remotes |-> IF r \in S THEN age[r] ELSE 0]
  /\ count' = [r \in Remotes |-> IF r \in S THEN count[r] ELSE 0]

\* Mutants: nothing is pruned; everything is.
prune_expired_KeepsAll ==
  /\ sweepLeft = 0
  /\ sweepLeft' = SweepInterval
  /\ Keep(tracked)
  /\ UNCHANGED <<resets, back, verdict, granted, quiet>>

prune_expired_DropsAll ==
  /\ sweepLeft = 0
  /\ sweepLeft' = SweepInterval
  /\ Keep({})
  /\ UNCHANGED <<resets, back, verdict, granted, quiet>>

\* prune_expired, on a tick of the sweep.
prune_expired ==
  /\ sweepLeft = 0
  /\ sweepLeft' = SweepInterval
  /\ Keep({r \in tracked : age[r] < Window})
  /\ UNCHANGED <<resets, back, verdict, granted, quiet>>

\* A restarted node starts with an empty map.
Restart ==
  /\ resets < MaxResets
  /\ resets' = resets + 1
  /\ Keep({})
  /\ sweepLeft' = 0
  /\ UNCHANGED <<back, verdict, granted, quiet>>
-----------------------------------------------------------------------------
\* A window older than every backward step still to come stays expired.
Grown(a, s) == IF a + s > Window + MaxBack THEN Window + MaxBack ELSE a + s

WallPasses(s) ==
  /\ age' = [r \in Remotes |-> IF r \in tracked THEN Grown(age[r], s) ELSE age[r]]
  /\ UNCHANGED <<tracked, count>>

Tick ==
  /\ sweepLeft > 0
  /\ sweepLeft' = sweepLeft - 1
  /\ WallPasses(1)
  /\ granted' = [r \in Remotes |->
       [i \in 1..Window |-> IF i = 1 THEN 0 ELSE granted[r][i - 1]]]
  /\ quiet' = [r \in Remotes |-> IF quiet[r] = LongAgo THEN LongAgo ELSE quiet[r] + 1]
  /\ UNCHANGED <<resets, back, verdict>>

\* The wall clock is set forward, or back.
StepForward(s) ==
  /\ resets < MaxResets
  /\ resets' = resets + 1
  /\ WallPasses(s)
  /\ UNCHANGED <<sweepLeft, back, verdict, granted, quiet>>

StepBack(s) ==
  /\ s <= back
  /\ back' = back - s
  /\ WallPasses(-s)
  /\ UNCHANGED <<sweepLeft, resets, verdict, granted, quiet>>

RateNext ==
  \/ \E r \in Remotes : allow(r)
  \/ prune_expired
  \/ Restart
  \/ Tick
  \/ \E s \in 1..Window : StepForward(s)
  \/ \E s \in 1..MaxBack : StepBack(s)

RateSpec == RateInit /\ [][RateNext]_rateVars

\* Time passes and the interval ticks.
FairSpec == RateSpec /\ WF_rateVars(Tick) /\ WF_rateVars(prune_expired)
-----------------------------------------------------------------------------
\* No id gets more than two windows' budget through in any stretch of Window
\* seconds, and one more budget for each restart or forward step of the clock:
\* the price of fixed windows that allow resets.
SpanBound ==
  \A r \in Remotes : granted[r][Window] <= (2 + resets) * MaxPerWindow

\* The map holds only ids that connected in the last window, give or take one
\* sweep and the seconds the wall clock was set back.
TrackedRecently ==
  \A r \in tracked : quiet[r] < Window + SweepInterval + (MaxBack - back)

\* An id that was quiet for a window starts fresh: allow lets it through,
\* pruned or not.
FreshAfterQuiet ==
  \A r \in Remotes :
    quiet[r] >= Window + (MaxBack - back) => CountOf(r) < MaxPerWindow

\* A refused id really had its budget in the last window, as long as the clock
\* was not set back: the eight slots of a pairing go through on a quiet Server.
RefusedWhenSpent ==
  \A r \in Remotes :
    back = MaxBack /\ CountOf(r) >= MaxPerWindow
      => granted[r][Window] >= MaxPerWindow

\* An id is let through again and again, however often it asks in between:
\* requests that are refused do not prolong the window.
Readmits == \A r \in Remotes : []<>(CountOf(r) < MaxPerWindow)

\* Whether and when expired rows are pruned cannot be told from allow's
\* answers: until the clock is set back the limiter implements the budget that
\* has no table at all.
Budget == INSTANCE RateBudget WITH
  left <- [r \in Remotes |-> IF Fresh(r) THEN 0 ELSE Window - age[r]],
  used <- [r \in Remotes |-> CountOf(r)],
  kept <- back = MaxBack

ImplementsBudget == Budget!Spec
=============================================================================
