------------------------- MODULE RateLimiterProofs --------------------------
(***************************************************************************)
(* Proofs about RateLimiter, for any set of ids, any window, cap and sweep *)
(* interval.  The age of a window and the silence of its id run together;  *)
(* AgeInv says how far clock steps can have driven them apart, and the     *)
(* bounds on the table and the refinement of RateBudget follow from it.    *)
(* SpanInv and SpentInv relate what an id got through to the count of its  *)
(* window, and give the bounds on both sides of the budget.                *)
(***************************************************************************)
EXTENDS RateLimiter, TLAPS

\* A window is as old as its id has been quiet, less what the clock was set
\* back, or so old that no step still to come can revive it.
AgeInv ==
  \A r \in tracked :
    \/ age[r] >= quiet[r] - (MaxBack - back)
    \/ age[r] >= Window + back

\* What the sweep let stand was young then, and has aged since.
SweptInv ==
  \A r \in tracked :
    quiet[r] < Window + (MaxBack - back) + (SweepInterval - sweepLeft)

IInv == RateTypeOK /\ AgeInv /\ SweptInv
-----------------------------------------------------------------------------
\* The cap on ages keeps them integers and expires no window early or late.
LEMMA GrownBound ==
  ASSUME NEW a \in Int, NEW s \in Int
  PROVE  /\ Grown(a, s) \in Int
         /\ Grown(a, s) >= Window <=> a + s >= Window
  BY LimiterAssumption DEF Grown, LimiterAssumption

\* The columns keep their types.
LEMMA RateTypeStep == RateTypeOK /\ [RateNext]_rateVars => RateTypeOK'
<1> SUFFICES ASSUME RateTypeOK, [RateNext]_rateVars
             PROVE  RateTypeOK'
  OBVIOUS
<1> USE LimiterAssumption DEF LimiterAssumption, RateTypeOK
<1>0. LongAgo \in Nat
  BY DEF LongAgo
<1>a. \A r \in Remotes : \A i \in 1..Window : granted[r][i] \in Nat
  OBVIOUS
<1>1. ASSUME NEW s \in Int, WallPasses(s)
      PROVE  age' \in [Remotes -> Int] /\ UNCHANGED <<tracked, count>>
  BY <1>1, GrownBound DEF WallPasses
<1>2. ASSUME NEW S \in SUBSET Remotes, Keep(S)
      PROVE  /\ tracked' \subseteq Remotes
             /\ age' \in [Remotes -> Int]
             /\ count' \in [Remotes -> 0..MaxPerWindow]
  BY <1>2 DEF Keep
<1>3. ASSUME NEW r \in Remotes, allow(r) PROVE RateTypeOK'
  <2>1. AgeOf(r) \in Int /\ CountOf(r) \in 0..MaxPerWindow
    BY DEF AgeOf, CountOf
  <2>2. count' \in [Remotes -> 0..MaxPerWindow]
    <3>1. PICK n \in 0..MaxPerWindow : count' = [count EXCEPT ![r] = n]
      BY <1>3, <2>1 DEF allow
    <3> QED
      BY <3>1
  <2>3. quiet' \in [Remotes -> 0..LongAgo]
    BY <1>0, <1>3 DEF allow
  <2>4. age' \in [Remotes -> Int] /\ tracked' \subseteq Remotes
    BY <1>3, <2>1, Zenon DEF allow
  <2>5. granted' \in [Remotes -> [1..Window -> Nat]]
    <3>1. [i \in 1..Window |-> granted[r][i] + 1] \in [1..Window -> Nat]
      BY <1>a
    <3> QED
      BY <1>3, <3>1, Zenon DEF allow
  <2> QED
    BY <1>3, <2>2, <2>3, <2>4, <2>5, Zenon DEF allow
<1>4. CASE prune_expired
  <2>1. {r \in tracked : age[r] < Window} \in SUBSET Remotes
    OBVIOUS
  <2>2. /\ tracked' \subseteq Remotes
        /\ age' \in [Remotes -> Int]
        /\ count' \in [Remotes -> 0..MaxPerWindow]
    BY <1>2, <1>4, <2>1, Zenon DEF prune_expired
  <2> QED
    BY <1>4, <2>2 DEF prune_expired
<1>5. CASE Restart
  BY <1>2, <1>5 DEF Restart
<1>6. CASE Tick
  <2>1. quiet' \in [Remotes -> 0..LongAgo]
    BY <1>0, <1>6 DEF Tick
  <2>2. sweepLeft' \in 0..SweepInterval
    BY <1>6 DEF Tick
  <2>3. granted' \in [Remotes -> [1..Window -> Nat]]
    <3>1. ASSUME NEW r \in Remotes, NEW i \in 1..Window
          PROVE  (IF i = 1 THEN 0 ELSE granted[r][i - 1]) \in Nat
      BY <1>a
    <3> QED
      BY <1>6, <3>1, Zenon DEF Tick
  <2> QED
    BY <1>1, <1>6, <2>1, <2>2, <2>3 DEF Tick
<1>7. ASSUME NEW s \in 1..Window, StepForward(s) PROVE RateTypeOK'
  BY <1>1, <1>7 DEF StepForward
<1>8. ASSUME NEW s \in 1..MaxBack, StepBack(s) PROVE RateTypeOK'
  <2>1. s \in Int /\ -s \in Int
    OBVIOUS
  <2>2. back' \in 0..MaxBack
    BY <1>8 DEF StepBack
  <2> QED
    BY <1>1, <1>8, <2>1, <2>2, Zenon DEF StepBack
<1>9. CASE UNCHANGED rateVars
  BY <1>9 DEF rateVars, table
<1> QED
  BY <1>3, <1>4, <1>5, <1>6, <1>7, <1>8, <1>9, Zenon DEF RateNext

\* A tick, or the clock, moves age, silence and the remaining steps together.
LEMMA AgeStep ==
  ASSUME RateTypeOK, AgeInv, SweptInv, [RateNext]_rateVars
  PROVE  AgeInv' /\ SweptInv'
<1> USE LimiterAssumption DEF LimiterAssumption
<1>0. /\ tracked \subseteq Remotes /\ back \in Nat /\ back <= MaxBack
      /\ sweepLeft \in Nat /\ sweepLeft <= SweepInterval
      /\ \A r \in Remotes : age[r] \in Int /\ quiet[r] \in Nat
  BY DEF RateTypeOK, LongAgo
<1> USE DEF AgeInv, SweptInv
<1>1. ASSUME NEW r \in Remotes, allow(r)
      PROVE  AgeInv' /\ SweptInv'
  <2>1. /\ tracked' = tracked \cup {r}
        /\ \A q \in Remotes : age'[q] = IF q = r THEN AgeOf(r) ELSE age[q]
        /\ \A q \in Remotes : quiet'[q] = IF q = r THEN 0 ELSE quiet[q]
        /\ UNCHANGED <<sweepLeft, back>>
    BY <1>1, Zenon DEF allow, RateTypeOK
  <2>2. /\ AgeOf(r) \in Int
        /\ AgeOf(r) >= 0 - (MaxBack - back) \/ AgeOf(r) >= Window + back
    BY <1>0 DEF AgeOf, Fresh
  <2> QED
    BY <1>0, <2>1, <2>2
<1>2. CASE prune_expired
  <2>1. /\ tracked' = {r \in tracked : age[r] < Window}
        /\ \A r \in tracked' : age'[r] = age[r]
        /\ sweepLeft' = SweepInterval /\ UNCHANGED <<back, quiet>>
    BY <1>0, <1>2, Zenon DEF prune_expired, Keep
  <2> QED
    BY <1>0, <2>1
<1>3. CASE Restart
  BY <1>3 DEF Restart, Keep
<1>4. CASE Tick
  <2>1. /\ tracked' = tracked /\ back' = back
        /\ sweepLeft > 0 /\ sweepLeft' = sweepLeft - 1
        /\ \A r \in tracked : age'[r] = Grown(age[r], 1)
        /\ \A r \in tracked : quiet'[r] \in Nat /\ quiet'[r] <= quiet[r] + 1
    BY <1>0, <1>4 DEF Tick, WallPasses, LongAgo
  <2>2. \A r \in tracked : /\ Grown(age[r], 1) \in Int
                           /\ \/ Grown(age[r], 1) = age[r] + 1
                              \/ Grown(age[r], 1) = Window + MaxBack
    BY <1>0 DEF Grown
  <2> QED
    BY <1>0, <2>1, <2>2
<1>5. ASSUME NEW s \in 1..Window, StepForward(s)
      PROVE  AgeInv' /\ SweptInv'
  <2>1. /\ \A r \in tracked : age'[r] = Grown(age[r], s)
        /\ UNCHANGED <<tracked, back, sweepLeft, quiet>>
    BY <1>0, <1>5, Zenon DEF StepForward, WallPasses
  <2>2. \A r \in tracked : /\ Grown(age[r], s) \in Int
                           /\ \/ Grown(age[r], s) = age[r] + s
                              \/ Grown(age[r], s) = Window + MaxBack
    BY <1>0 DEF Grown
  <2> QED
    BY <1>0, <2>1, <2>2
<1>6. ASSUME NEW s \in 1..MaxBack, StepBack(s)
      PROVE  AgeInv' /\ SweptInv'
  <2>1. /\ \A r \in tracked : age'[r] = Grown(age[r], -s)
        /\ s <= back /\ back' = back - s
        /\ UNCHANGED <<tracked, sweepLeft, quiet>>
    BY <1>0, <1>6, Zenon DEF StepBack, WallPasses
  <2>2. \A r \in tracked : /\ Grown(age[r], -s) \in Int
                           /\ \/ Grown(age[r], -s) = age[r] - s
                              \/ Grown(age[r], -s) = Window + MaxBack
    BY <1>0 DEF Grown
  <2> QED
    BY <1>0, <2>1, <2>2
<1>7. CASE UNCHANGED rateVars
  BY <1>7 DEF rateVars, table
<1> QED
  BY <1>1, <1>2, <1>3, <1>4, <1>5, <1>6, <1>7, Zenon DEF RateNext

\* A new limiter has no rows.
LEMMA LimiterInit == RateInit => IInv
  BY LimiterAssumption
  DEF RateInit, IInv, RateTypeOK, AgeInv, SweptInv, LimiterAssumption, LongAgo

\* The invariant of the limiter.
LEMMA LimiterInvariant == RateSpec => []IInv
<1>1. IInv /\ [RateNext]_rateVars => IInv'
  BY RateTypeStep, AgeStep DEF IInv
<1> QED
  BY <1>1, LimiterInit, PTL DEF RateSpec

\* The map of rate_limit.rs holds only ids that connected within a window, a
\* sweep and the backward steps of the clock: prune_expired bounds it.
THEOREM TableBounded == RateSpec => []TrackedRecently
<1>1. IInv => TrackedRecently
  <2> SUFFICES ASSUME IInv, NEW r \in tracked
               PROVE  quiet[r] < Window + SweepInterval + (MaxBack - back)
    BY DEF TrackedRecently
  <2>1. /\ r \in Remotes /\ quiet[r] \in Int /\ back \in Int /\ sweepLeft \in Nat
        /\ quiet[r] < Window + (MaxBack - back) + (SweepInterval - sweepLeft)
    BY DEF IInv, RateTypeOK, SweptInv
  <2> QED
    BY <2>1, LimiterAssumption DEF LimiterAssumption
<1> QED
  BY <1>1, LimiterInvariant, PTL

\* allow lets an id through that was quiet for a window, whether or not its
\* row was pruned in the meantime.
THEOREM QuietIsFresh == RateSpec => []FreshAfterQuiet
<1>1. IInv => FreshAfterQuiet
  <2> SUFFICES ASSUME IInv, NEW r \in Remotes,
                      quiet[r] >= Window + (MaxBack - back)
               PROVE  CountOf(r) < MaxPerWindow
    BY DEF FreshAfterQuiet
  <2>1. quiet[r] \in Int /\ age[r] \in Int /\ back \in Nat /\ back <= MaxBack
    BY LimiterAssumption DEF IInv, RateTypeOK, LimiterAssumption
  <2>2. Fresh(r)
    BY <2>1, LimiterAssumption DEF IInv, AgeInv, Fresh, LimiterAssumption
  <2> QED
    BY <2>2, LimiterAssumption DEF CountOf, LimiterAssumption
<1> QED
  BY <1>1, LimiterInvariant, PTL
-----------------------------------------------------------------------------
\* What went through lately, per id, besides the requests counted in its window:
\* in the current second only what a restart or a forward step gave away, in the
\* whole stretch one more budget, and since the window was opened, by the clock,
\* again only what was given away.  The last holds of expired windows too, which
\* a backward step may revive.
SpanInv ==
  \A r \in Remotes :
    /\ granted[r][1] <= CountOf(r) + resets * MaxPerWindow
    /\ granted[r][Window] <= CountOf(r) + (1 + resets) * MaxPerWindow
    /\ r \in tracked => \A i \in 1..Window :
         i <= age[r] + 1 => granted[r][i] <= count[r] + resets * MaxPerWindow

\* A longer stretch has more requests.
Monotone == \A r \in Remotes : \A i, j \in 1..Window : i <= j => granted[r][i] <= granted[r][j]

\* An open window's requests went through since it was opened, unless the clock
\* was set back.
SpentInv ==
  back = MaxBack => \A r \in Remotes :
    ~Fresh(r) => age[r] >= 0 /\ count[r] <= granted[r][age[r] + 1]

-----------------------------------------------------------------------------
\* One reset more is one budget more.
LEMMA OneMore ==
  ASSUME NEW n \in Nat, NEW m \in Nat
  PROVE  /\ n * m \in Nat
         /\ (1 + n) * m = n * m + m
         /\ (2 + n) * m = n * m + m + m
OBVIOUS

\* What an action makes of one id's history.
LEMMA GrantedAfter ==
  ASSUME RateTypeOK, NEW r \in Remotes
  PROVE  /\ \A q \in Remotes : allow(q) =>
              IF q = r /\ CountOf(r) < MaxPerWindow
              THEN \A i \in 1..Window : granted'[r][i] = granted[r][i] + 1
              ELSE granted'[r] = granted[r]
         /\ Tick => \A i \in 1..Window :
              granted'[r][i] = IF i = 1 THEN 0 ELSE granted[r][i - 1]
         /\ prune_expired \/ Restart => granted' = granted
         /\ \A s \in 1..Window : StepForward(s) => granted' = granted
         /\ \A s \in 1..MaxBack : StepBack(s) => granted' = granted
<1>1. ASSUME NEW q \in Remotes, allow(q)
      PROVE  IF q = r /\ CountOf(r) < MaxPerWindow
             THEN \A i \in 1..Window : granted'[r][i] = granted[r][i] + 1
             ELSE granted'[r] = granted[r]
  <2>1. CountOf(q) \in Nat /\ MaxPerWindow \in Nat
    BY LimiterAssumption DEF RateTypeOK, CountOf, LimiterAssumption
  <2>2. CASE CountOf(q) < MaxPerWindow
    <3>1. granted' = [granted EXCEPT ![q] = [i \in 1..Window |-> granted[q][i] + 1]]
      BY <1>1, <2>1, <2>2 DEF allow
    <3> QED
      BY <2>2, <3>1, Zenon DEF RateTypeOK
  <2>3. CASE ~(CountOf(q) < MaxPerWindow)
    BY <1>1, <2>1, <2>3, Zenon DEF allow
  <2> QED
    BY <2>2, <2>3, Zenon
<1>2. ASSUME Tick
      PROVE  \A i \in 1..Window : granted'[r][i] = IF i = 1 THEN 0 ELSE granted[r][i - 1]
  BY <1>2 DEF Tick
<1> QED
  BY <1>1, <1>2, Zenon DEF prune_expired, Restart, StepForward, StepBack

\* allow counts a request in the window and on record, or does neither.
LEMMA CountedOrRefused ==
  ASSUME RateTypeOK, NEW r \in Remotes, allow(r)
  PROVE  \/ count'[r] = CountOf(r) /\ granted'[r] = granted[r]
         \/ /\ count'[r] = CountOf(r) + 1
            /\ \A i \in 1..Window : granted'[r][i] = granted[r][i] + 1
<1>1. CountOf(r) \in Nat /\ MaxPerWindow \in Nat /\ count \in [Remotes -> 0..MaxPerWindow]
  BY LimiterAssumption DEF RateTypeOK, CountOf, LimiterAssumption
<1>2. CASE CountOf(r) < MaxPerWindow
  <2>1. count' = [count EXCEPT ![r] = CountOf(r) + 1]
    BY <1>1, <1>2 DEF allow
  <2>2. \A i \in 1..Window : granted'[r][i] = granted[r][i] + 1
    BY <1>2, GrantedAfter, Zenon
  <2> QED
    BY <1>1, <2>1, <2>2
<1>3. CASE ~(CountOf(r) < MaxPerWindow)
  <2>1. count' = [count EXCEPT ![r] = CountOf(r)]
    BY <1>1, <1>3, Zenon DEF allow
  <2>2. granted'[r] = granted[r]
    BY <1>3, GrantedAfter
  <2> QED
    BY <1>1, <2>1, <2>2
<1> QED
  BY <1>2, <1>3, Zenon

\* The types of one id's row and history.
LEMMA RowType ==
  ASSUME RateTypeOK, NEW r \in Remotes
  PROVE  /\ age[r] \in Int /\ count[r] \in 0..MaxPerWindow /\ CountOf(r) \in 0..MaxPerWindow
         /\ resets \in Nat /\ resets * MaxPerWindow \in Nat
         /\ \A i \in 1..Window : granted[r][i] \in Nat
         /\ Window \in Nat /\ Window >= 1 /\ MaxPerWindow \in Nat
<1>1. /\ age[r] \in Int /\ count[r] \in 0..MaxPerWindow /\ CountOf(r) \in 0..MaxPerWindow
      /\ resets \in Nat /\ MaxPerWindow \in Nat /\ Window \in Nat /\ Window >= 1
  BY LimiterAssumption DEF RateTypeOK, CountOf, LimiterAssumption
<1>2. \A i \in 1..Window : granted[r][i] \in Nat
  BY Zenon DEF RateTypeOK
<1> QED
  BY <1>1, <1>2, OneMore

\* The clock moves the ages of tracked rows and nothing else of the table.
LEMMA AgesMove ==
  ASSUME RateTypeOK, NEW s \in Int, WallPasses(s), NEW r \in Remotes
  PROVE  /\ tracked' = tracked /\ count' = count /\ age'[r] \in Int
         /\ r \in tracked =>
              /\ age'[r] <= age[r] + s
              /\ age'[r] = age[r] + s \/ age'[r] >= Window
         /\ r \in tracked => (Fresh(r)' <=> age[r] + s >= Window)
         /\ r \notin tracked => Fresh(r) /\ Fresh(r)'
<1>1. age[r] \in Int /\ Window \in Nat /\ MaxBack \in Nat
  BY LimiterAssumption DEF RateTypeOK, LimiterAssumption
<1>2. /\ tracked' = tracked /\ count' = count
      /\ age'[r] = IF r \in tracked THEN Grown(age[r], s) ELSE age[r]
  BY DEF WallPasses
<1>3. /\ Grown(age[r], s) \in Int /\ Grown(age[r], s) <= age[r] + s
      /\ Grown(age[r], s) = age[r] + s \/ Grown(age[r], s) >= Window
      /\ Grown(age[r], s) >= Window <=> age[r] + s >= Window
  BY <1>1, GrownBound DEF Grown
<1> QED
  BY <1>1, <1>2, <1>3, Zenon DEF Fresh

\* The bound on what one id gets through is kept by every step.
LEMMA SpanStep ==
  ASSUME RateTypeOK, Monotone, SpanInv, [RateNext]_rateVars
  PROVE  SpanInv'
<1> SUFFICES ASSUME NEW r \in Remotes
             PROVE  /\ granted'[r][1] <= CountOf(r)' + resets' * MaxPerWindow
                    /\ granted'[r][Window] <= CountOf(r)' + (1 + resets') * MaxPerWindow
                    /\ r \in tracked' => \A i \in 1..Window :
                         i <= age'[r] + 1 => granted'[r][i] <= count'[r] + resets' * MaxPerWindow
  BY Zenon DEF SpanInv
<1> DEFINE Within == /\ granted'[r][1] <= CountOf(r)' + resets' * MaxPerWindow
                     /\ granted'[r][Window] <= CountOf(r)' + (1 + resets') * MaxPerWindow
                     /\ r \in tracked' => \A i \in 1..Window :
                          i <= age'[r] + 1 => granted'[r][i] <= count'[r] + resets' * MaxPerWindow
           lost == resets * MaxPerWindow
<1>0. /\ age[r] \in Int /\ count[r] \in 0..MaxPerWindow /\ CountOf(r) \in 0..MaxPerWindow
      /\ lost \in Nat /\ Window \in Nat /\ Window >= 1 /\ MaxPerWindow \in Nat
      /\ \A i \in 1..Window : granted[r][i] \in Nat
  BY RowType
<1>1. /\ granted[r][1] <= CountOf(r) + lost
      /\ granted[r][Window] <= CountOf(r) + lost + MaxPerWindow
      /\ r \in tracked => \A i \in 1..Window :
           i <= age[r] + 1 => granted[r][i] <= count[r] + lost
  <2>1. resets \in Nat
    BY RowType
  <2>2. (1 + resets) * MaxPerWindow = lost + MaxPerWindow
    BY <1>0, <2>1, OneMore
  <2>3. /\ granted[r][1] <= CountOf(r) + lost
        /\ granted[r][Window] <= CountOf(r) + (1 + resets) * MaxPerWindow
        /\ r \in tracked => \A i \in 1..Window :
             i <= age[r] + 1 => granted[r][i] <= count[r] + lost
    BY DEF SpanInv
  <2> HIDE DEF lost
  <2> QED
    BY <1>0, <2>2, <2>3
<1>2. \A i, j \in 1..Window : i <= j => granted[r][i] <= granted[r][j]
  BY DEF Monotone
<1>3. ASSUME resets' = resets
      PROVE  resets' * MaxPerWindow = lost /\ (1 + resets') * MaxPerWindow = lost + MaxPerWindow
  BY <1>0, <1>3, OneMore DEF RateTypeOK
<1>4. ASSUME resets' = resets + 1
      PROVE  /\ resets' * MaxPerWindow = lost + MaxPerWindow
             /\ (1 + resets') * MaxPerWindow = lost + MaxPerWindow + MaxPerWindow
  <2>1. resets \in Nat
    BY DEF RateTypeOK
  <2>2. resets' = 1 + resets /\ 1 + resets' = 2 + resets
    BY <1>4, <2>1
  <2> QED
    BY <1>0, <2>1, <2>2, OneMore
<1> HIDE DEF lost
<1>5. ASSUME NEW q \in Remotes, allow(q) PROVE Within
  <2>1. resets' = resets
    BY <1>5, Zenon DEF allow
  <2>2. CASE q # r
    <3>1. /\ r \in tracked' <=> r \in tracked
          /\ age'[r] = age[r] /\ count'[r] = count[r] /\ granted'[r] = granted[r]
      BY <1>5, <2>2, GrantedAfter DEF allow, RateTypeOK
    <3>2. CountOf(r)' = CountOf(r)
      BY <3>1 DEF CountOf, Fresh
    <3> QED
      BY <1>0, <1>1, <1>3, <2>1, <3>1, <3>2
  <2>3. CASE q = r
    <3>1. /\ age'[r] = AgeOf(r) /\ r \in tracked' /\ AgeOf(r) < Window /\ AgeOf(r) \in Int
      BY <1>0, <1>5, <2>3 DEF allow, RateTypeOK, AgeOf, Fresh
    <3>2. CountOf(r)' = count'[r]
      BY <1>0, <3>1 DEF CountOf, Fresh
    <3>3. \/ count'[r] = CountOf(r) /\ granted'[r] = granted[r]
          \/ /\ count'[r] = CountOf(r) + 1
             /\ \A i \in 1..Window : granted'[r][i] = granted[r][i] + 1
      BY <1>5, <2>3, CountedOrRefused
    <3>4. ASSUME NEW i \in 1..Window, i <= AgeOf(r) + 1
          PROVE  granted[r][i] <= CountOf(r) + lost
      <4>1. CASE Fresh(r)
        <5>1. i = 1
          BY <1>0, <3>4, <4>1 DEF AgeOf
        <5> QED
          BY <1>1, <5>1
      <4>2. CASE ~Fresh(r)
        BY <1>1, <3>4, <4>2, Zenon DEF AgeOf, CountOf, Fresh
      <4> QED
        BY <4>1, <4>2
    <3>5. 1 \in 1..Window /\ Window \in 1..Window
      BY <1>0
    <3> QED
      BY <1>0, <1>1, <1>3, <2>1, <3>1, <3>2, <3>3, <3>4, <3>5
  <2> QED
    BY <2>2, <2>3, Zenon
<1>6. CASE prune_expired
  <2>1. /\ r \in tracked' => r \in tracked /\ age'[r] = age[r] /\ count'[r] = count[r]
        /\ granted' = granted /\ resets' = resets
    BY <1>6 DEF prune_expired, Keep
  <2>2. CountOf(r)' = CountOf(r)
    BY <1>0, <1>6 DEF prune_expired, Keep, CountOf, Fresh
  <2> QED
    BY <1>0, <1>1, <1>3, <2>1, <2>2
<1>7. CASE Restart
  <2>1. r \notin tracked' /\ granted' = granted /\ resets' = resets + 1
    BY <1>7 DEF Restart, Keep
  <2>2. CountOf(r)' = 0
    BY <2>1 DEF CountOf, Fresh
  <2> QED
    BY <1>0, <1>1, <1>4, <2>1, <2>2
<1>8. CASE Tick
  <2>1. /\ WallPasses(1) /\ resets' = resets
        /\ \A i \in 1..Window : granted'[r][i] = IF i = 1 THEN 0 ELSE granted[r][i - 1]
    BY <1>8, GrantedAfter, Zenon DEF Tick
  <2>2. /\ tracked' = tracked /\ count' = count /\ age'[r] \in Int
        /\ r \in tracked => age'[r] <= age[r] + 1
        /\ r \in tracked => (Fresh(r)' <=> age[r] + 1 >= Window)
        /\ r \notin tracked => Fresh(r) /\ Fresh(r)'
    BY <2>1, AgesMove
  <2>3. granted'[r][1] = 0 /\ granted'[r][Window] <= granted[r][Window]
    BY <1>0, <1>2, <2>1
  <2>4. CountOf(r)' \in Nat
    BY <1>0, <2>2 DEF CountOf
  <2>5. granted'[r][Window] <= CountOf(r)' + lost + MaxPerWindow
    <3>1. CASE CountOf(r)' = CountOf(r)
      BY <1>0, <1>1, <2>3, <3>1, <2>1
    <3>2. CASE CountOf(r)' # CountOf(r)
      <4>1. r \in tracked /\ ~Fresh(r) /\ Fresh(r)'
        BY <1>0, <2>2, <3>2 DEF CountOf, Fresh
      <4>2. age[r] + 1 >= Window
        BY <2>2, <4>1
      <4>3. granted[r][Window] <= count[r] + lost
        BY <1>0, <1>1, <4>1, <4>2
      <4>4. granted'[r][Window] \in Nat
        BY <1>0, <2>1
      <4> QED
        BY <1>0, <2>3, <2>4, <4>3, <4>4
    <3> QED
      BY <3>1, <3>2
  <2>6. ASSUME r \in tracked', NEW i \in 1..Window, i <= age'[r] + 1
        PROVE  granted'[r][i] <= count'[r] + lost
    <3>1. CASE i = 1
      BY <1>0, <2>2, <2>3, <3>1
    <3>2. CASE i # 1
      <4>1. i - 1 \in 1..Window /\ i - 1 <= age[r] + 1
        BY <1>0, <2>2, <2>6, <3>2
      <4> QED
        BY <1>1, <2>1, <2>2, <2>6, <3>2, <4>1, Zenon
    <3> QED
      BY <3>1, <3>2
  <2> QED
    BY <1>0, <1>3, <2>1, <2>3, <2>4, <2>5, <2>6
<1>9. ASSUME NEW s \in 1..Window, StepForward(s) PROVE Within
  <2>1. WallPasses(s) /\ resets' = resets + 1 /\ granted' = granted /\ s \in Int
    BY <1>9 DEF StepForward
  <2>2. tracked' = tracked /\ count' = count
    BY <2>1, AgesMove
  <2>3. CountOf(r)' \in Nat /\ (CountOf(r)' = 0 \/ CountOf(r)' = count[r])
    BY <1>0, <2>2 DEF CountOf
  <2>4. CountOf(r) <= CountOf(r)' + MaxPerWindow
    BY <1>0, <2>3
  <2>5. r \in tracked => CountOf(r) <= count[r]
    BY <1>0 DEF CountOf
  <2>6. \A i \in 1..Window : granted[r][i] <= granted[r][Window]
    BY <1>0, <1>2
  <2> QED
    BY <1>0, <1>1, <1>4, <2>1, <2>2, <2>3, <2>4, <2>5, <2>6
<1>10. ASSUME NEW s \in 1..MaxBack, StepBack(s) PROVE Within
  <2>1. WallPasses(-s) /\ resets' = resets /\ granted' = granted /\ -s \in Int /\ s >= 1
    BY <1>10, LimiterAssumption DEF StepBack, LimiterAssumption
  <2>2. /\ tracked' = tracked /\ count' = count /\ age'[r] \in Int
        /\ r \in tracked => age'[r] <= age[r] + (-s)
        /\ r \in tracked => (Fresh(r)' <=> age[r] + (-s) >= Window)
        /\ r \notin tracked => Fresh(r) /\ Fresh(r)'
    BY <2>1, AgesMove, Zenon
  <2>3. CountOf(r)' \in Nat /\ CountOf(r) <= CountOf(r)'
    <3>1. r \in tracked /\ ~Fresh(r) => ~Fresh(r)'
      BY <1>0, <2>1, <2>2 DEF Fresh
    <3> QED
      BY <1>0, <2>2, <3>1 DEF CountOf
  <2>4. r \in tracked => age'[r] <= age[r]
    BY <1>0, <2>1, <2>2
  <2> QED
    BY <1>0, <1>1, <1>3, <2>1, <2>2, <2>3, <2>4
<1>11. CASE UNCHANGED rateVars
  BY <1>0, <1>1, <1>3, <1>11 DEF rateVars, table, CountOf, Fresh
<1> QED
  BY <1>5, <1>6, <1>7, <1>8, <1>9, <1>10, <1>11, Zenon DEF RateNext

\* Longer stretches keep having more requests.
LEMMA MonotoneStep ==
  ASSUME RateTypeOK, Monotone, [RateNext]_rateVars
  PROVE  Monotone'
<1> SUFFICES ASSUME NEW r \in Remotes, NEW i \in 1..Window, NEW j \in 1..Window, i <= j
             PROVE  granted'[r][i] <= granted'[r][j]
  BY DEF Monotone
<1>0. /\ Window \in Nat /\ \A n \in 1..Window : granted[r][n] \in Nat
      /\ \A m, n \in 1..Window : m <= n => granted[r][m] <= granted[r][n]
  BY RowType, Zenon DEF Monotone
<1>1. ASSUME NEW q \in Remotes, allow(q) PROVE granted'[r][i] <= granted'[r][j]
  <2>1. \/ granted'[r] = granted[r]
        \/ \A n \in 1..Window : granted'[r][n] = granted[r][n] + 1
    BY <1>1, GrantedAfter, Zenon
  <2> QED
    BY <1>0, <2>1
<1>2. CASE Tick
  <2>1. \A n \in 1..Window : granted'[r][n] = IF n = 1 THEN 0 ELSE granted[r][n - 1]
    BY <1>2, GrantedAfter, Zenon
  <2>2. CASE i = 1
    BY <1>0, <2>1, <2>2
  <2>3. CASE i # 1
    <3>1. i - 1 \in 1..Window /\ j - 1 \in 1..Window /\ i - 1 <= j - 1 /\ j # 1
      BY <1>0, <2>3
    <3> QED
      BY <1>0, <2>1, <2>3, <3>1
  <2> QED
    BY <2>2, <2>3
<1>3. ASSUME granted' = granted PROVE granted'[r][i] <= granted'[r][j]
  BY <1>0, <1>3
<1> QED
  BY <1>1, <1>2, <1>3, GrantedAfter, Zenon DEF RateNext, rateVars

\* A request that was counted stays on record while its window is open.
LEMMA SpentStep ==
  ASSUME RateTypeOK, Monotone, SpentInv, [RateNext]_rateVars
  PROVE  SpentInv'
<1> SUFFICES ASSUME back' = MaxBack, NEW r \in Remotes, ~Fresh(r)'
             PROVE  age'[r] >= 0 /\ count'[r] <= granted'[r][age'[r] + 1]
  BY DEF SpentInv
<1>0. /\ age[r] \in Int /\ count[r] \in 0..MaxPerWindow /\ CountOf(r) \in 0..MaxPerWindow
      /\ Window \in Nat /\ Window >= 1 /\ MaxPerWindow \in Nat
      /\ \A i \in 1..Window : granted[r][i] \in Nat
  BY RowType
<1>1. back = MaxBack
  <2>1. ASSUME NEW s \in 1..MaxBack, StepBack(s) PROVE FALSE
    BY <2>1, LimiterAssumption DEF StepBack, RateTypeOK, LimiterAssumption
  <2> QED
    BY <2>1, Zenon DEF RateNext, rateVars, allow, prune_expired, Restart, Tick, StepForward
<1>2. ~Fresh(r) => age[r] >= 0 /\ age[r] < Window /\ count[r] <= granted[r][age[r] + 1]
  BY <1>0, <1>1 DEF SpentInv, Fresh
<1>3. ASSUME UNCHANGED <<granted>>, Fresh(r)' <=> Fresh(r), age'[r] = age[r], count'[r] = count[r]
      PROVE  age'[r] >= 0 /\ count'[r] <= granted'[r][age'[r] + 1]
  BY <1>2, <1>3, Zenon
<1>4. ASSUME NEW q \in Remotes, allow(q)
      PROVE  age'[r] >= 0 /\ count'[r] <= granted'[r][age'[r] + 1]
  <2>1. CASE q # r
    <3>1. /\ r \in tracked' <=> r \in tracked
          /\ age'[r] = age[r] /\ count'[r] = count[r] /\ granted'[r] = granted[r]
      BY <1>4, <2>1, GrantedAfter DEF allow, RateTypeOK
    <3> QED
      BY <1>2, <3>1, Zenon DEF Fresh
  <2>2. CASE q = r
    <3>1. age'[r] = AgeOf(r)
      BY <1>4, <2>2, Zenon DEF allow, RateTypeOK
    <3>2. /\ AgeOf(r) \in Int /\ AgeOf(r) >= 0 /\ AgeOf(r) + 1 \in 1..Window
          /\ CountOf(r) <= granted[r][AgeOf(r) + 1]
      BY <1>0, <1>2 DEF AgeOf, CountOf
    <3>3. \/ count'[r] = CountOf(r) /\ granted'[r] = granted[r]
          \/ /\ count'[r] = CountOf(r) + 1
             /\ \A i \in 1..Window : granted'[r][i] = granted[r][i] + 1
      BY <1>4, <2>2, CountedOrRefused, Zenon
    <3> QED
      BY <1>0, <3>1, <3>2, <3>3
  <2> QED
    BY <2>1, <2>2
<1>5. CASE prune_expired
  BY <1>2, <1>5, Zenon DEF prune_expired, Keep, Fresh
<1>6. CASE Restart
  BY <1>6 DEF Restart, Keep, Fresh
<1>7. CASE Tick
  <2>1. /\ WallPasses(1)
        /\ \A i \in 1..Window : granted'[r][i] = IF i = 1 THEN 0 ELSE granted[r][i - 1]
    BY <1>7, GrantedAfter, Zenon DEF Tick
  <2>2. /\ count' = count /\ r \in tracked /\ age[r] + 1 < Window /\ age'[r] \in Int
        /\ age'[r] = age[r] + 1 \/ age'[r] >= Window
    BY <1>0, <2>1, AgesMove
  <2>3. ~Fresh(r) /\ age'[r] = age[r] + 1
    BY <1>0, <2>1, <2>2 DEF Fresh, WallPasses
  <2>4. granted'[r][age'[r] + 1] = granted[r][age[r] + 1]
    <3> DEFINE n == age'[r] + 1
    <3>1. n \in 1..Window /\ n # 1 /\ n - 1 = age[r] + 1
      BY <1>0, <1>2, <2>2, <2>3
    <3> HIDE DEF n
    <3>2. granted'[r][n] = granted[r][n - 1]
      BY <2>1, <3>1
    <3> QED
      BY <3>1, <3>2, Zenon DEF n
  <2> QED
    BY <1>0, <1>2, <2>2, <2>3, <2>4
<1>8. ASSUME NEW s \in 1..Window, StepForward(s)
      PROVE  age'[r] >= 0 /\ count'[r] <= granted'[r][age'[r] + 1]
  <2>1. WallPasses(s) /\ granted' = granted /\ s \in Int /\ s >= 1
    BY <1>0, <1>8 DEF StepForward
  <2>2. /\ count' = count /\ r \in tracked /\ age[r] + s < Window /\ age'[r] \in Int
        /\ age'[r] = age[r] + s \/ age'[r] >= Window
    BY <1>0, <2>1, AgesMove
  <2>3. ~Fresh(r) /\ age'[r] = age[r] + s
    BY <1>0, <2>1, <2>2 DEF Fresh, WallPasses
  <2>4. /\ age[r] + 1 \in 1..Window /\ age'[r] + 1 \in 1..Window
        /\ age[r] + 1 <= age'[r] + 1
    BY <1>0, <1>2, <2>1, <2>2, <2>3
  <2>5. granted[r][age[r] + 1] <= granted[r][age'[r] + 1]
    BY <2>4, Zenon DEF Monotone
  <2>6. count[r] <= granted[r][age[r] + 1] /\ age'[r] >= 0
    BY <1>0, <1>2, <2>1, <2>3
  <2>7. /\ count[r] \in Nat
        /\ granted[r][age[r] + 1] \in Nat /\ granted[r][age'[r] + 1] \in Nat
    BY <1>0, <2>4
  <2>8. count[r] <= granted[r][age'[r] + 1]
    BY <2>5, <2>6, <2>7
  <2> QED
    BY <2>1, <2>2, <2>6, <2>8, Zenon
<1>9. ASSUME NEW s \in 1..MaxBack, StepBack(s) PROVE FALSE
  BY <1>1, <1>9, LimiterAssumption DEF StepBack, RateTypeOK, LimiterAssumption
<1>10. CASE UNCHANGED rateVars
  BY <1>2, <1>10, Zenon DEF rateVars, table, Fresh
<1> QED
  BY <1>4, <1>5, <1>6, <1>7, <1>8, <1>9, <1>10, Zenon DEF RateNext

\* The invariants of the history.
LEMMA HistoryInvariant == RateSpec => [](RateTypeOK /\ Monotone /\ SpanInv /\ SpentInv)
<1>1. RateInit => RateTypeOK /\ Monotone /\ SpanInv /\ SpentInv
  <2> SUFFICES ASSUME RateInit PROVE RateTypeOK /\ Monotone /\ SpanInv /\ SpentInv
    OBVIOUS
  <2>1. RateTypeOK
    BY LimiterInit DEF IInv
  <2>2. tracked = {} /\ \A r \in Remotes : CountOf(r) = 0 /\ Fresh(r)
    BY DEF RateInit, CountOf, Fresh
  <2>3. \A r \in Remotes : \A i \in 1..Window : granted[r][i] = 0
    BY DEF RateInit
  <2>4. SpanInv
    <3>1. resets * MaxPerWindow \in Nat /\ (1 + resets) * MaxPerWindow \in Nat
      <4>1. resets = 0 /\ MaxPerWindow \in Nat
        BY LimiterAssumption DEF RateInit, LimiterAssumption
      <4> QED
        BY <4>1, OneMore
    <3>2. 1 \in 1..Window /\ Window \in 1..Window
      BY LimiterAssumption DEF LimiterAssumption
    <3>3. ASSUME NEW r \in Remotes
          PROVE  /\ granted[r][1] <= CountOf(r) + resets * MaxPerWindow
                 /\ granted[r][Window] <= CountOf(r) + (1 + resets) * MaxPerWindow
      <4>1. granted[r][1] = 0 /\ granted[r][Window] = 0 /\ CountOf(r) = 0
        BY <2>2, <2>3, <3>2
      <4> QED
        BY <3>1, <4>1
    <3> QED
      BY <2>2, <3>3, Zenon DEF SpanInv
  <2> QED
    BY <2>1, <2>2, <2>3, <2>4 DEF Monotone, SpentInv
<1>2. (RateTypeOK /\ Monotone /\ SpanInv /\ SpentInv) /\ [RateNext]_rateVars
        => (RateTypeOK /\ Monotone /\ SpanInv /\ SpentInv)'
  BY RateTypeStep, MonotoneStep, SpanStep, SpentStep
<1> QED
  BY <1>1, <1>2, PTL DEF RateSpec

\* allow never lets an id have more than two budgets in a stretch of Window
\* seconds, plus one for each restart or forward step of the clock, whenever the
\* sweep runs and however far the clock is set back.
THEOREM SpanBounded == RateSpec => []SpanBound
<1>1. RateTypeOK /\ SpanInv => SpanBound
  <2> SUFFICES ASSUME RateTypeOK, SpanInv, NEW r \in Remotes
               PROVE  granted[r][Window] <= (2 + resets) * MaxPerWindow
    BY Zenon DEF SpanBound
  <2>1. /\ CountOf(r) \in 0..MaxPerWindow /\ resets \in Nat /\ MaxPerWindow \in Nat
        /\ granted[r][Window] \in Nat
    BY RowType
  <2>2. granted[r][Window] <= CountOf(r) + (1 + resets) * MaxPerWindow
    BY DEF SpanInv
  <2>3. (1 + resets) * MaxPerWindow \in Nat /\
        (2 + resets) * MaxPerWindow = (1 + resets) * MaxPerWindow + MaxPerWindow
    BY <2>1, OneMore
  <2> QED
    BY <2>1, <2>2, <2>3
<1> QED
  BY <1>1, HistoryInvariant, PTL

\* allow refuses an id only if it had its whole budget within the last window, as
\* long as the clock was not set back: no sweep, restart or forward step costs an
\* id a request it is entitled to.
THEOREM RefusalEarned == RateSpec => []RefusedWhenSpent
<1>1. RateTypeOK /\ Monotone /\ SpentInv => RefusedWhenSpent
  <2> SUFFICES ASSUME RateTypeOK, Monotone, SpentInv, NEW r \in Remotes,
                      back = MaxBack, CountOf(r) >= MaxPerWindow
               PROVE  granted[r][Window] >= MaxPerWindow
    BY DEF RefusedWhenSpent
  <2>1. /\ age[r] \in Int /\ count[r] \in 0..MaxPerWindow
        /\ Window \in Nat /\ Window >= 1 /\ MaxPerWindow \in Nat /\ MaxPerWindow # 0
        /\ \A i \in 1..Window : granted[r][i] \in Nat
    BY RowType, LimiterAssumption DEF LimiterAssumption
  <2>2. ~Fresh(r) /\ count[r] = MaxPerWindow
    BY <2>1 DEF CountOf
  <2>3. age[r] >= 0 /\ age[r] < Window /\ count[r] <= granted[r][age[r] + 1]
    BY <2>1, <2>2 DEF SpentInv, Fresh
  <2>4. granted[r][age[r] + 1] <= granted[r][Window]
    BY <2>1, <2>3 DEF Monotone
  <2> QED
    BY <2>1, <2>2, <2>3, <2>4
<1> QED
  BY <1>1, HistoryInvariant, PTL
-----------------------------------------------------------------------------
\* A window is open exactly when RateBudget has seconds left in it.
Left(r) == IF Fresh(r) THEN 0 ELSE Window - age[r]

\* s seconds on the wall clock are s seconds of the budget.
LEMMA PassStep ==
  ASSUME RateTypeOK, NEW s \in 1..Window, WallPasses(s), UNCHANGED verdict
  PROVE  Budget!Pass(s)
<1> USE LimiterAssumption DEF LimiterAssumption
<1>1. s \in Int /\ \A r \in Remotes : age[r] \in Int
  BY DEF RateTypeOK
<1>2. ASSUME NEW r \in Remotes
      PROVE  /\ Left(r)' = IF Left(r) > s THEN Left(r) - s ELSE 0
             /\ CountOf(r)' = IF Left(r) > s THEN CountOf(r) ELSE 0
  <2>1. CASE r \notin tracked
    BY <1>1, <2>1 DEF WallPasses, Left, CountOf, Fresh
  <2>2. CASE r \in tracked
    <3>1. /\ tracked' = tracked /\ count'[r] = count[r]
          /\ age'[r] = IF age[r] + s > Window + MaxBack THEN Window + MaxBack
                       ELSE age[r] + s
      BY <2>2 DEF WallPasses, Grown
    <3>2. Fresh(r)' <=> age[r] + s >= Window
      BY <1>1, <2>2, <3>1 DEF Fresh
    <3>3. Fresh(r) <=> age[r] >= Window
      BY <2>2 DEF Fresh
    <3> QED
      BY <1>1, <3>1, <3>2, <3>3 DEF Left, CountOf
  <2> QED
    BY <2>1, <2>2
<1> QED
  BY <1>2, Zenon DEF Budget!Pass, Left

\* Each step of the limiter is one of RateBudget or cannot be seen there.
LEMMA BudgetStep ==
  ASSUME RateTypeOK, [RateNext]_rateVars
  PROVE  [Budget!Next]_(Budget!vars)
<1> USE LimiterAssumption DEF LimiterAssumption
<1>0. /\ back \in Nat /\ back <= MaxBack
      /\ \A r \in Remotes : age[r] \in Int /\ count[r] \in 0..MaxPerWindow
  BY DEF RateTypeOK
<1>1. CASE back' # MaxBack
  BY <1>1 DEF Budget!Next, Budget!Lapse
<1>2. ASSUME back = MaxBack, back' = MaxBack, NEW r \in Remotes, allow(r)
      PROVE  Budget!Keep
  <2>1. \A q \in Remotes : q # r =>
          Left(q)' = Left(q) /\ CountOf(q)' = CountOf(q)
    BY <1>2, Zenon DEF allow, Left, CountOf, Fresh, RateTypeOK
  <2>2. /\ r \in tracked' /\ age'[r] = AgeOf(r) /\ AgeOf(r) < Window
        /\ AgeOf(r) \in Int
    BY <1>0, <1>2 DEF allow, AgeOf, Fresh, RateTypeOK
  <2>3. /\ ~Fresh(r)' /\ CountOf(r)' = count'[r]
        /\ Left(r)' = Window - AgeOf(r)
    BY <1>0, <2>2 DEF Fresh, CountOf, Left
  <2>4. Left(r)' = IF Left(r) = 0 THEN Window ELSE Left(r)
    BY <1>0, <2>3 DEF AgeOf, Left, Fresh
  <2>5. CountOf(r) \in 0..MaxPerWindow
    BY <1>0 DEF CountOf
  <2>6. CASE CountOf(r) >= MaxPerWindow
    <3>1. /\ CountOf(r) = MaxPerWindow /\ count'[r] = CountOf(r)
          /\ verdict' = [remote |-> r, granted |-> FALSE]
      BY <1>2, <2>5, <2>6 DEF allow, RateTypeOK
    <3>2. Left(r)' = Left(r)
      <4>1. ~Fresh(r)
        BY <3>1 DEF CountOf
      <4>2. Left(r) # 0
        BY <1>0, <4>1 DEF Left, Fresh
      <4> QED
        BY <2>4, <4>2
    <3>3. Budget!Refuse(r)
      BY <2>1, <2>3, <3>1, <3>2, Zenon DEF Budget!Refuse, Left
    <3> QED
      BY <1>2, <3>3 DEF Budget!Keep
  <2>7. CASE CountOf(r) < MaxPerWindow
    <3>1. /\ count'[r] = CountOf(r) + 1
          /\ verdict' = [remote |-> r, granted |-> TRUE]
      BY <1>2, <2>5, <2>7 DEF allow, RateTypeOK
    <3>2. Budget!Grant(r)
      BY <2>1, <2>3, <2>4, <2>7, <3>1, Zenon DEF Budget!Grant, Left
    <3> QED
      BY <1>2, <3>2 DEF Budget!Keep
  <2> QED
    BY <2>5, <2>6, <2>7
<1>3. CASE prune_expired
  <2>1. \A r \in Remotes : Left(r)' = Left(r) /\ CountOf(r)' = CountOf(r)
    BY <1>0, <1>3 DEF prune_expired, Keep, Left, CountOf, Fresh
  <2> QED
    BY <1>3, <2>1, Zenon DEF prune_expired, Left, Budget!vars
<1>4. ASSUME back = MaxBack, back' = MaxBack, Restart PROVE Budget!Keep
  <2>1. \A r \in Remotes : Left(r)' = 0 /\ CountOf(r)' = 0
    BY <1>4 DEF Restart, Keep, Left, CountOf, Fresh
  <2> QED
    BY <1>4, <2>1 DEF Restart, Left, Budget!Forget, Budget!Keep
<1>5. ASSUME back = MaxBack, back' = MaxBack, Tick PROVE Budget!Keep
  BY <1>5, PassStep DEF Tick, Budget!Keep
<1>6. ASSUME back = MaxBack, back' = MaxBack, NEW s \in 1..Window, StepForward(s)
      PROVE  Budget!Keep
  BY <1>6, PassStep DEF StepForward, Budget!Keep
<1>7. ASSUME NEW s \in 1..MaxBack, StepBack(s) PROVE back' # MaxBack
  BY <1>0, <1>7 DEF StepBack
<1>8. CASE UNCHANGED rateVars
  BY <1>8 DEF rateVars, table, Budget!vars, Fresh, CountOf
<1>9. (RateNext /\ back' = MaxBack) => back = MaxBack
  BY <1>7, Zenon DEF RateNext, allow, prune_expired, Restart, Tick, StepForward
<1> QED
  BY <1>1, <1>2, <1>3, <1>4, <1>5, <1>6, <1>7, <1>8, <1>9 DEF RateNext, Budget!Next

\* allow's answers are those of a limiter without a table: whether and when
\* prune_expired drops an expired row cannot be observed until the wall clock
\* is set back.
THEOREM PruningUnobservable == RateSpec => ImplementsBudget
<1>1. RateInit => Budget!Init
  BY DEF RateInit, Budget!Init, Fresh, CountOf, NoVerdict, Budget!NoVerdict
<1>2. IInv /\ [RateNext]_rateVars => [Budget!Next]_(Budget!vars)
  BY BudgetStep DEF IInv
<1> QED
  BY <1>1, <1>2, LimiterInvariant, PTL DEF RateSpec, ImplementsBudget, Budget!Spec
=============================================================================
