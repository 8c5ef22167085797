-------------------------- MODULE RetryQueueProofs --------------------------
(***************************************************************************)
(* Proofs about RetryQueue, for any set of messages and any timing         *)
(* constants.  TypeOK is inductive by itself.  HistoryInv adds what the    *)
(* rows know of the past; TaskInv adds how long a running dial still keeps *)
(* its row away from the sweep, which is where the margin between          *)
(* IN_FLIGHT_GRACE and RETRY_DIAL_TIMEOUT is needed.                       *)
(***************************************************************************)
EXTENDS RetryQueue, TLAPS

\* Passing of time keeps the waits integers and never lets them fall further
\* than the time that passed.
LEMMA ElapseBound ==
  ASSUME NEW w \in Int, NEW s \in Int
  PROVE  Elapse(w, s) \in Int /\ Elapse(w, s) >= w - s
  BY ConstantsAssumption DEF Elapse

\* The same for the column as a whole.
LEMMA ElapseRowsType ==
  ASSUME wait \in [Msgs -> Int], NEW s \in Int, ElapseRows(s)
  PROVE  wait' \in [Msgs -> Int]
<1>1. \A m \in Msgs : Elapse(wait[m], s) \in Int
  BY ElapseBound
<1> QED
  BY <1>1 DEF ElapseRows

\* Every action keeps each variable in its type, whatever the constants are.
LEMMA TypeStep == TypeOK /\ [Next]_vars => TypeOK'
<1> SUFFICES ASSUME TypeOK, [Next]_vars
             PROVE  TypeOK'
  OBVIOUS
<1> USE ConstantsAssumption DEF ConstantsAssumption
<1>1. ASSUME NEW m \in Msgs, schedule(m) PROVE TypeOK'
  <2>1. /\ pending' \subseteq Msgs
        /\ attempts' \in [Msgs -> 0..(MaxAttempts - 1)] /\ wait' \in [Msgs -> Int]
    BY <1>1 DEF schedule, TypeOK
  <2>2. scheduled' \in [Msgs -> Nat]
    BY <1>1 DEF schedule, TypeOK
  <2>3. UNCHANGED <<up, failed, dials, clock, crashes, made, failures, delivered, drained>>
    BY <1>1 DEF schedule
  <2> QED
    BY <2>1, <2>2, <2>3, Zenon DEF TypeOK, clock
<1>2. CASE Sweep
  <2>1. Due \subseteq Msgs
    BY DEF Due, TypeOK
  <2>2. dials' \subseteq Dial
    BY <1>2, <2>1 DEF Sweep, TypeOK, Dial
  <2>3. sweepLeft' \in (-SweepDelay)..SweepInterval
    BY <1>2 DEF Sweep, TypeOK
  <2>4. wait' \in [Msgs -> Int] /\ made' \in [Msgs -> Nat]
    BY <1>2 DEF Sweep, TypeOK
  <2> QED
    BY <1>2, <2>2, <2>3, <2>4, Zenon DEF Sweep, TypeOK
<1>3. ASSUME NEW d \in dials, mark_delivered(d) PROVE TypeOK'
  <2>1. d.msg \in Msgs
    BY DEF TypeOK, Dial
  <2> QED
    BY <1>3, <2>1 DEF mark_delivered, DeleteRow, TypeOK, clock
<1>4. ASSUME NEW d \in dials, mark_failed(d) PROVE TypeOK'
  <2>1. d.msg \in Msgs
    BY DEF TypeOK, Dial
  <2>2. failures' \in [Msgs -> Nat] /\ dials' \subseteq Dial
    <3>1. failures' = [failures EXCEPT ![d.msg] = @ + 1] /\ dials' = dials \ {d}
      BY <1>4, Zenon DEF mark_failed
    <3>2. failures \in [Msgs -> Nat] /\ dials \subseteq Dial
      BY DEF TypeOK
    <3> QED
      BY <2>1, <3>1, <3>2
  <2>6. attempts[d.msg] \in Nat /\ MaxAttempts \in Nat
    BY <2>1 DEF TypeOK
  <2>3. CASE d.msg \notin pending
    BY <1>4, <2>1, <2>2, <2>3, Zenon DEF mark_failed, TypeOK, clock, table
  <2>4. CASE d.msg \in pending /\ attempts[d.msg] + 1 >= MaxAttempts
    <3>1. DeleteRow(d.msg) /\ failed' = failed \cup {d.msg}
      BY <1>4, <2>4, <2>6 DEF mark_failed
    <3>2. attempts' \in [Msgs -> 0..(MaxAttempts - 1)] /\ wait' \in [Msgs -> Int]
      BY <2>1, <3>1 DEF DeleteRow, TypeOK
    <3>3. pending' \subseteq Msgs /\ failed' \subseteq Msgs
      BY <2>1, <3>1, Zenon DEF DeleteRow, TypeOK
    <3>4. UNCHANGED <<up, clock, crashes, scheduled, made, delivered, drained>>
      BY <1>4, Zenon DEF mark_failed
    <3> QED
      BY <2>2, <3>2, <3>3, <3>4, Zenon DEF TypeOK, clock
  <2>5. CASE d.msg \in pending /\ attempts[d.msg] + 1 < MaxAttempts
    <3>1. attempts[d.msg] + 1 \in 1..(MaxAttempts - 1)
      BY <2>5, <2>6
    <3>2. Backoff[attempts[d.msg] + 1] \in Int
      BY <3>1
    <3>3. /\ attempts' = [attempts EXCEPT ![d.msg] = @ + 1]
          /\ wait' = [wait EXCEPT ![d.msg] = Backoff[attempts[d.msg] + 1]]
          /\ UNCHANGED <<pending, failed>>
      BY <1>4, <2>5, <2>6 DEF mark_failed
    <3>4. attempts' \in [Msgs -> 0..(MaxAttempts - 1)]
      BY <2>1, <3>1, <3>3 DEF TypeOK
    <3>5. wait' \in [Msgs -> Int]
      BY <2>1, <3>2, <3>3, Zenon DEF TypeOK
    <3> QED
      BY <1>4, <2>2, <3>3, <3>4, <3>5, Zenon DEF mark_failed, TypeOK, clock
  <2> QED
    BY <2>3, <2>4, <2>5, <2>6
<1>5. CASE take_failed
  BY <1>5, Zenon DEF take_failed, TypeOK, table, clock
<1>6. CASE Crash
  <2>1. /\ attempts' \in [Msgs -> 0..(MaxAttempts - 1)] /\ wait' \in [Msgs -> Int]
        /\ pending' \subseteq Msgs /\ failed' \subseteq Msgs
    BY <1>6 DEF Crash, LoseProcess, TypeOK
  <2>2. /\ up' = FALSE /\ dials' = {} /\ crashes' = crashes + 1
        /\ crashes < MaxCrashes
        /\ UNCHANGED <<clock, history>>
    BY <1>6 DEF Crash, LoseProcess
  <2>3. up' \in BOOLEAN
    BY <2>2, Zenon
  <2>4. crashes' \in 0..MaxCrashes /\ dials' \subseteq Dial
    BY <2>2 DEF TypeOK
  <2>5. UNCHANGED <<sweepLeft, forward, back, scheduled, made, failures,
                    delivered, drained>>
    BY <2>2 DEF clock, history
  <2> QED
    BY <2>1, <2>3, <2>4, <2>5, Zenon DEF TypeOK
<1>7. ASSUME NEW S \in SUBSET Due, CrashInSweep(S) PROVE TypeOK'
  <2>1. /\ attempts' \in [Msgs -> 0..(MaxAttempts - 1)] /\ wait' \in [Msgs -> Int]
        /\ pending' \subseteq Msgs /\ failed' \subseteq Msgs
    BY <1>7 DEF CrashInSweep, LoseProcess, TypeOK
  <2>2. /\ up' = FALSE /\ dials' = {} /\ crashes' = crashes + 1
        /\ crashes < MaxCrashes
        /\ UNCHANGED <<clock, history>>
    BY <1>7 DEF CrashInSweep, LoseProcess
  <2>3. up' \in BOOLEAN
    BY <2>2, Zenon
  <2>4. crashes' \in 0..MaxCrashes /\ dials' \subseteq Dial
    BY <2>2 DEF TypeOK
  <2>5. UNCHANGED <<sweepLeft, forward, back, scheduled, made, failures,
                    delivered, drained>>
    BY <2>2 DEF clock, history
  <2> QED
    BY <2>1, <2>3, <2>4, <2>5, Zenon DEF TypeOK
<1>8. CASE Restart
  BY <1>8 DEF Restart, TypeOK, table, history
<1>9. CASE Tick
  <2>1. wait' \in [Msgs -> Int]
    <3>1. ElapseRows(1)
      BY <1>9 DEF Tick
    <3> QED
      BY <3>1, ElapseRowsType DEF TypeOK
  <2>2. dials' \subseteq Dial
    <3> SUFFICES ASSUME NEW d \in dials
                 PROVE  Aged(d) \in Dial
      BY <1>9 DEF Tick
    <3>1. d \in Dial /\ d.left > 0
      BY <1>9, Zenon DEF Tick, TypeOK
    <3> QED
      BY <3>1 DEF Dial, Aged
  <2>3. sweepLeft' \in (-SweepDelay)..SweepInterval
    BY <1>9 DEF Tick, TypeOK
  <2> QED
    BY <1>9, <2>1, <2>2, <2>3, Zenon DEF Tick, TypeOK, history
<1>10. ASSUME NEW s \in 1..MaxForward, StepForward(s) PROVE TypeOK'
  <2>1. wait' \in [Msgs -> Int]
    BY <1>10, ElapseRowsType DEF StepForward, TypeOK
  <2> QED
    BY <1>10, <2>1 DEF StepForward, TypeOK, history
<1>11. ASSUME NEW s \in 1..MaxBack, StepBack(s) PROVE TypeOK'
  <2>1. wait' \in [Msgs -> Int]
    <3>1. -s \in Int /\ ElapseRows(-s)
      BY <1>11 DEF StepBack
    <3> QED
      BY <3>1, ElapseRowsType, Zenon DEF TypeOK
  <2> QED
    BY <1>11, <2>1 DEF StepBack, TypeOK, history
<1>12. CASE UNCHANGED vars
  BY <1>12, Zenon DEF vars, table, clock, history, TypeOK
<1> QED
  BY <1>1, <1>2, <1>3, <1>4, <1>5, <1>6, <1>7, <1>8, <1>9, <1>10, <1>11, <1>12, Zenon
  DEF Next

\* The tables, tasks and timers stay within their types; in particular no row
\* ever stores MAX_RETRY_ATTEMPTS, so the index into RETRY_BACKOFF is in range.
THEOREM TypeCorrect == Spec => []TypeOK
<1>1. Init => TypeOK
  BY ConstantsAssumption DEF Init, TypeOK
<1> QED
  BY <1>1, TypeStep, PTL DEF Spec
-----------------------------------------------------------------------------
\* A message that was never handed over has left no trace.
NoTrace ==
  \A m \in Msgs : scheduled[m] = 0 =>
    /\ m \notin pending \cup failed \cup drained \cup delivered
    /\ made[m] = 0 /\ failures[m] = 0
    /\ \A d \in dials : d.msg # m

\* A row's count is the number of its dials that reported failure.
CountsAgree == \A m \in pending : scheduled[m] = 1 => failures[m] = attempts[m]

HistoryInv == NoTrace /\ CountsAgree /\ NoEarlyGiveUp /\ NothingLost

\* Each action keeps the agreement between the tables and the history.
LEMMA HistoryStep == TypeOK /\ HistoryInv /\ [Next]_vars => HistoryInv'
<1> SUFFICES ASSUME TypeOK, HistoryInv, [Next]_vars
             PROVE  HistoryInv'
  OBVIOUS
<1> USE ConstantsAssumption DEF ConstantsAssumption
<1>1. ASSUME NEW m \in Msgs, schedule(m) PROVE HistoryInv'
  <2>1. NoTrace'
    BY <1>1 DEF schedule, NoTrace, HistoryInv, TypeOK
  <2>2. CountsAgree'
    BY <1>1 DEF schedule, NoTrace, CountsAgree, HistoryInv, TypeOK
  <2>3. NoEarlyGiveUp'
    <3>1. UNCHANGED <<failed, drained, failures>>
      BY <1>1 DEF schedule
    <3>2. \A k \in failed \cup drained : scheduled'[k] = 1 => scheduled[k] = 1
      <4>1. \A k \in failed \cup drained : k \in Msgs /\ scheduled[k] # 0 /\ scheduled[k] \in Nat
        BY Zenon DEF TypeOK, HistoryInv, NoTrace
      <4>2. \A k \in Msgs : scheduled'[k] = IF k = m THEN scheduled[k] + 1 ELSE scheduled[k]
        BY <1>1, Zenon DEF schedule, TypeOK
      <4> QED
        BY <4>1, <4>2
    <3> QED
      BY <3>1, <3>2 DEF NoEarlyGiveUp, HistoryInv
  <2>4. NothingLost'
    BY <1>1, Zenon DEF schedule, NothingLost, HistoryInv, TypeOK
  <2> QED
    BY <2>1, <2>2, <2>3, <2>4 DEF HistoryInv
<1>2. CASE Sweep
  <2>1. NoTrace'
    BY <1>2 DEF Sweep, Due, NoTrace, HistoryInv, TypeOK
  <2>2. CountsAgree' /\ NoEarlyGiveUp' /\ NothingLost'
    BY <1>2, Zenon DEF Sweep, CountsAgree, NoEarlyGiveUp, NothingLost, HistoryInv
  <2> QED
    BY <2>1, <2>2 DEF HistoryInv
<1>3. ASSUME NEW d \in dials, mark_delivered(d) PROVE HistoryInv'
  <2>1. d.msg \in Msgs /\ scheduled[d.msg] # 0
    BY Zenon DEF TypeOK, Dial, NoTrace, HistoryInv
  <2>2. NoTrace'
    BY <1>3, <2>1, Zenon DEF mark_delivered, DeleteRow, NoTrace, HistoryInv, TypeOK
  <2>3. CountsAgree'
    BY <1>3, <2>1, Zenon DEF mark_delivered, DeleteRow, CountsAgree, HistoryInv, TypeOK
  <2>4. NoEarlyGiveUp' /\ NothingLost'
    BY <1>3, Zenon DEF mark_delivered, DeleteRow, NoEarlyGiveUp, NothingLost, HistoryInv
  <2> QED
    BY <2>2, <2>3, <2>4 DEF HistoryInv
<1>4. ASSUME NEW d \in dials, mark_failed(d) PROVE HistoryInv'
  <2>1. d.msg \in Msgs /\ scheduled[d.msg] # 0
    BY Zenon DEF TypeOK, Dial, NoTrace, HistoryInv
  <2>2. /\ \A m \in Msgs : attempts[m] \in Nat /\ failures[m] \in Nat
        /\ failures' = [failures EXCEPT ![d.msg] = @ + 1]
        /\ dials' = dials \ {d}
        /\ UNCHANGED <<crashes, scheduled, made, delivered, drained>>
    BY <1>4 DEF mark_failed, TypeOK
  <2>3. \A m \in Msgs : failures'[m] >= failures[m]
    BY <2>2 DEF TypeOK
  <2>4. CASE d.msg \notin pending
    <3>1. UNCHANGED <<pending, attempts, failed>>
      BY <1>4, <2>4, Zenon DEF mark_failed, table
    <3>2. NoTrace'
      BY <2>1, <2>2, <3>1 DEF NoTrace, HistoryInv, TypeOK
    <3>3. CountsAgree' /\ NothingLost'
      BY <2>2, <2>4, <3>1, Zenon DEF CountsAgree, NothingLost, HistoryInv, TypeOK
    <3>4. NoEarlyGiveUp'
      BY <2>2, <2>3, <3>1 DEF NoEarlyGiveUp, HistoryInv, TypeOK
    <3> QED
      BY <3>2, <3>3, <3>4 DEF HistoryInv
  <2>5. CASE d.msg \in pending /\ attempts[d.msg] + 1 >= MaxAttempts
    <3>1. /\ pending' = pending \ {d.msg}
          /\ attempts' = [attempts EXCEPT ![d.msg] = 0]
          /\ failed' = failed \cup {d.msg}
      BY <1>4, <2>1, <2>2, <2>5 DEF mark_failed, DeleteRow
    <3>2. NoTrace'
      BY <2>1, <2>2, <3>1 DEF NoTrace, HistoryInv, TypeOK
    <3>3. CountsAgree' /\ NothingLost'
      BY <2>1, <2>2, <3>1, Zenon DEF CountsAgree, NothingLost, HistoryInv, TypeOK
    <3>4. NoEarlyGiveUp'
      BY <2>1, <2>2, <2>3, <2>5, <3>1
      DEF NoEarlyGiveUp, CountsAgree, HistoryInv, TypeOK
    <3> QED
      BY <3>2, <3>3, <3>4 DEF HistoryInv
  <2>6. CASE d.msg \in pending /\ attempts[d.msg] + 1 < MaxAttempts
    <3>1. /\ attempts' = [attempts EXCEPT ![d.msg] = @ + 1]
          /\ UNCHANGED <<pending, failed>>
      BY <1>4, <2>1, <2>2, <2>6 DEF mark_failed
    <3>2. NoTrace'
      BY <2>1, <2>2, <3>1 DEF NoTrace, HistoryInv, TypeOK
    <3>3. CountsAgree' /\ NothingLost'
      BY <2>1, <2>2, <3>1, Zenon DEF CountsAgree, NothingLost, HistoryInv, TypeOK
    <3>4. NoEarlyGiveUp'
      BY <2>2, <2>3, <3>1 DEF NoEarlyGiveUp, HistoryInv, TypeOK
    <3> QED
      BY <3>2, <3>3, <3>4 DEF HistoryInv
  <2> QED
    BY <2>1, <2>2, <2>4, <2>5, <2>6
<1>5. CASE take_failed
  BY <1>5, Zenon DEF take_failed, table, HistoryInv, NoTrace, CountsAgree,
     NoEarlyGiveUp, NothingLost
<1>6. CASE Crash \/ \E S \in SUBSET Due : CrashInSweep(S)
  <2>1. /\ dials' = {} /\ crashes' = crashes + 1 /\ crashes \in Nat
        /\ failed' = (IF Persistent THEN failed ELSE {})
        /\ pending' = (IF Persistent THEN pending ELSE {})
        /\ attempts' = (IF Persistent THEN attempts ELSE [m \in Msgs |-> 0])
        /\ UNCHANGED <<scheduled, made, failures, delivered, drained>>
    BY <1>6 DEF Crash, CrashInSweep, LoseProcess, history, TypeOK
  <2>2. NoTrace'
    BY <2>1, Zenon DEF NoTrace, HistoryInv
  <2>3. CountsAgree' /\ NoEarlyGiveUp'
    BY <2>1, Zenon DEF CountsAgree, NoEarlyGiveUp, HistoryInv
  <2>4. NothingLost'
    BY <2>1 DEF NothingLost, HistoryInv
  <2> QED
    BY <2>2, <2>3, <2>4 DEF HistoryInv
<1>7. CASE Tick
  <2>1. UNCHANGED <<pending, attempts, failed, crashes, history>>
    BY <1>7 DEF Tick
  <2>2. \A e \in dials' : \E d \in dials : e.msg = d.msg
    BY <1>7 DEF Tick, Aged
  <2>3. NoTrace'
    BY <2>1, <2>2 DEF NoTrace, HistoryInv, history
  <2> QED
    BY <2>1, <2>3, Zenon
    DEF HistoryInv, CountsAgree, NoEarlyGiveUp, NothingLost, history
<1>8. CASE UNCHANGED <<pending, attempts, failed, dials, crashes, history>>
  BY <1>8, Zenon DEF HistoryInv, NoTrace, CountsAgree, NoEarlyGiveUp, NothingLost,
     history
<1> QED
  BY <1>1, <1>2, <1>3, <1>4, <1>5, <1>6, <1>7, <1>8, Zenon
  DEF Next, Restart, StepForward, StepBack, vars, table

\* The invariant both results below follow from.
LEMMA HistoryInvariant == Spec => [](TypeOK /\ HistoryInv)
<1>1. Init => TypeOK /\ HistoryInv
  BY ConstantsAssumption
  DEF Init, TypeOK, HistoryInv, NoTrace, CountsAgree, NoEarlyGiveUp,
      NothingLost, ConstantsAssumption
<1>2. (TypeOK /\ HistoryInv) /\ [Next]_vars => (TypeOK /\ HistoryInv)'
  BY TypeStep, HistoryStep
<1> QED
  BY <1>1, <1>2, PTL DEF Spec

\* An envelope the node accepted is never forgotten by a node with a data_dir,
\* whatever the timing and wherever the node crashes.
THEOREM Conservation == Spec => []NothingLost
<1>1. TypeOK /\ HistoryInv => NothingLost
  BY DEF HistoryInv
<1> QED
  BY <1>1, HistoryInvariant, PTL

\* MAX_RETRY_ATTEMPTS real failures precede every reported failure.
THEOREM GiveUpEarned == Spec => []NoEarlyGiveUp
<1>1. TypeOK /\ HistoryInv => NoEarlyGiveUp
  BY DEF HistoryInv
<1> QED
  BY <1>1, HistoryInvariant, PTL
-----------------------------------------------------------------------------
\* A running dial holds its row, and for longer than it can still run.
DialHoldsRow ==
  \A d \in dials : scheduled[d.msg] = 1 =>
    d.msg \in pending /\ wait[d.msg] > d.left + forward

GivenUpHasNoRow ==
  \A m \in failed \cup drained : scheduled[m] = 1 => m \notin pending

\* Dials that did not report failure: the running one and one per crash.
DialsCounted ==
  \A m \in pending : scheduled[m] = 1 =>
    /\ made[m] <= attempts[m] + crashes + 1
    /\ (\A d \in dials : d.msg # m) => made[m] <= attempts[m] + crashes

TaskInv == DialHoldsRow /\ NoOverlap

OutcomeInv == AckedNeverFailed /\ GivenUpHasNoRow /\ AttemptBudget /\ DialsCounted

\* A margin of w over l + f survives when w loses no more than l or f does.
LEMMA Margin ==
  \A w, v, l, f, s \in Int :
     w > l + f /\ v >= w - s => v > (l - s) + f /\ v > l + (f - s)
OBVIOUS

\* The sweep finds no row due whose dial still runs, so tasks stay apart.
LEMMA TaskStep ==
  ASSUME GraceCoversDial, TypeOK, NoTrace, TaskInv, [Next]_vars
  PROVE  TaskInv'
<1> USE ConstantsAssumption DEF ConstantsAssumption
<1>0. \A d \in dials : /\ d.msg \in Msgs /\ d.left \in Nat
                       /\ scheduled[d.msg] \in Nat /\ scheduled[d.msg] # 0
                       /\ wait[d.msg] \in Int
  BY DEF TypeOK, Dial, NoTrace
<1>f. forward \in Nat /\ forward <= MaxForward
  BY DEF TypeOK
<1>1. ASSUME NEW m \in Msgs, schedule(m) PROVE TaskInv'
  <2>1. /\ dials' = dials /\ forward' = forward
        /\ wait' = [wait EXCEPT ![m] = 0] /\ pending' = pending \cup {m}
        /\ scheduled' = [scheduled EXCEPT ![m] = @ + 1]
    BY <1>1 DEF schedule, clock
  <2>2. \A d \in dials : scheduled'[d.msg] = 1 => d.msg # m /\ scheduled[d.msg] = 1
    BY <1>0, <2>1 DEF TypeOK
  <2>3. \A k \in Msgs : k # m => wait'[k] = wait[k]
    BY <2>1, Zenon DEF TypeOK
  <2>4. DialHoldsRow'
    BY <1>0, <2>1, <2>2, <2>3, Zenon DEF TaskInv, DialHoldsRow
  <2> QED
    BY <2>1, <2>2, <2>4, Zenon DEF TaskInv, NoOverlap
<1>2. CASE Sweep
  <2>1. \A d \in dials : scheduled[d.msg] = 1 => d.msg \notin Due
    <3> SUFFICES ASSUME NEW d \in dials, scheduled[d.msg] = 1
                 PROVE  ~(wait[d.msg] <= 0)
      BY DEF Due
    <3>1. wait[d.msg] > d.left + forward
      BY DEF TaskInv, DialHoldsRow
    <3> QED
      BY <1>0, <1>f, <3>1
  <2>2. \A e \in dials' : \/ e \in dials
                          \/ /\ e.msg \in Due /\ e.left = DialLimit
                             /\ e.n = made[e.msg] + 1
                             /\ e = [msg |-> e.msg, n |-> e.n, left |-> e.left]
    BY <1>2 DEF Sweep
  <2>3. UNCHANGED <<pending, scheduled, forward>>
    BY <1>2, Zenon DEF Sweep
  <2>4. \A m \in Msgs : wait'[m] = IF m \in Due THEN Grace ELSE wait[m]
    BY <1>2, Zenon DEF Sweep
  <2>5. Due \subseteq pending /\ pending \subseteq Msgs
    BY DEF Due, TypeOK
  <2>6. DialHoldsRow'
    <3> SUFFICES ASSUME NEW e \in dials', scheduled[e.msg] = 1
                 PROVE  e.msg \in pending /\ wait'[e.msg] > e.left + forward
      BY <2>3 DEF DialHoldsRow
    <3>1. CASE e \in dials
      BY <1>0, <2>1, <2>4, <3>1, Zenon DEF TaskInv, DialHoldsRow
    <3>2. CASE e.msg \in Due /\ e.left = DialLimit
      <4>1. wait'[e.msg] = Grace /\ e.msg \in pending
        BY <2>4, <2>5, <3>2
      <4> QED
        BY <1>f, <3>2, <4>1 DEF GraceCoversDial
    <3> QED
      BY <2>2, <3>1, <3>2, Zenon
  <2>7. NoOverlap'
    BY <2>1, <2>2, <2>3 DEF TaskInv, NoOverlap
  <2> QED
    BY <2>6, <2>7 DEF TaskInv
<1>3. ASSUME NEW d \in dials, mark_delivered(d) \/ mark_failed(d) PROVE TaskInv'
  <2>1. dials' = dials \ {d} /\ UNCHANGED <<scheduled, forward>>
    BY <1>3, Zenon DEF mark_delivered, mark_failed, clock
  <2>2. \A e \in dials' : scheduled[e.msg] = 1 => e.msg # d.msg
    BY <2>1 DEF TaskInv, NoOverlap
  <2>3. \A m \in Msgs \ {d.msg} : /\ wait'[m] = wait[m]
                                  /\ m \in pending => m \in pending'
    BY <1>3, Zenon DEF mark_delivered, mark_failed, DeleteRow, table, TypeOK
  <2> QED
    BY <1>0, <2>1, <2>2, <2>3 DEF TaskInv, DialHoldsRow, NoOverlap
<1>4. CASE Crash \/ \E S \in SUBSET Due : CrashInSweep(S)
  BY <1>4, Zenon DEF Crash, CrashInSweep, LoseProcess, TaskInv, DialHoldsRow, NoOverlap
<1>5. CASE Tick
  <2>1. UNCHANGED <<pending, scheduled, forward>>
    BY <1>5 DEF Tick, history
  <2>2. \A e \in dials' : \E d \in dials : e = Aged(d)
    BY <1>5 DEF Tick
  <2>3. \A m \in pending : wait'[m] >= wait[m] - 1
    BY <1>5, ElapseBound DEF Tick, ElapseRows, TypeOK
  <2>4. \A m \in pending : wait'[m] \in Int /\ wait[m] \in Int
    BY TypeStep, Zenon DEF TypeOK
  <2>5. DialHoldsRow'
    <3> SUFFICES ASSUME NEW d \in dials, scheduled[d.msg] = 1
                 PROVE  d.msg \in pending /\ wait'[d.msg] > (d.left - 1) + forward
      BY <2>1, <2>2 DEF DialHoldsRow, Aged
    <3>1. d.msg \in pending /\ wait[d.msg] > d.left + forward
      BY DEF TaskInv, DialHoldsRow
    <3>2. wait'[d.msg] >= wait[d.msg] - 1 /\ wait'[d.msg] \in Int /\ wait[d.msg] \in Int
      BY <2>3, <2>4, <3>1
    <3>3. d.left \in Int /\ forward \in Int /\ 1 \in Int
      BY <1>0, <1>f
    <3> QED
      BY <3>1, <3>2, <3>3, Margin, Zenon
  <2>6. NoOverlap'
    BY <2>1, <2>2 DEF TaskInv, NoOverlap, Aged
  <2> QED
    BY <2>5, <2>6 DEF TaskInv
<1>6. ASSUME NEW s \in 1..MaxForward, StepForward(s) PROVE TaskInv'
  <2>1. UNCHANGED <<pending, scheduled, dials>> /\ forward' = forward - s
    BY <1>6 DEF StepForward, history
  <2>2. \A m \in pending : wait'[m] >= wait[m] - s
    BY <1>6, ElapseBound DEF StepForward, ElapseRows, TypeOK
  <2>3. \A m \in pending : wait'[m] \in Int /\ wait[m] \in Int
    BY TypeStep, Zenon DEF TypeOK
  <2>4. DialHoldsRow'
    <3> SUFFICES ASSUME NEW d \in dials, scheduled[d.msg] = 1
                 PROVE  d.msg \in pending /\ wait'[d.msg] > d.left + (forward - s)
      BY <2>1 DEF DialHoldsRow
    <3>1. d.msg \in pending /\ wait[d.msg] > d.left + forward
      BY DEF TaskInv, DialHoldsRow
    <3>2. wait'[d.msg] >= wait[d.msg] - s /\ wait'[d.msg] \in Int /\ wait[d.msg] \in Int
      BY <2>2, <2>3, <3>1
    <3>3. d.left \in Int /\ forward \in Int /\ s \in Int
      BY <1>0, <1>f
    <3> QED
      BY <3>1, <3>2, <3>3, Margin, Zenon
  <2> QED
    BY <2>1, <2>4 DEF TaskInv, NoOverlap
<1>7. ASSUME NEW s \in 1..MaxBack, StepBack(s) PROVE TaskInv'
  <2>1. UNCHANGED <<pending, scheduled, dials, forward>>
    BY <1>7 DEF StepBack, history
  <2>2. \A m \in pending : wait'[m] = Elapse(wait[m], -s)
    BY <1>7, Zenon DEF StepBack, ElapseRows, TypeOK
  <2>3. \A m \in pending : wait[m] \in Int
    BY DEF TypeOK
  <2>4. \A w \in Int : Elapse(w, -s) \in Int /\ Elapse(w, -s) >= w
    BY DEF Elapse
  <2>5. \A m \in pending : wait'[m] \in Int /\ wait'[m] >= wait[m]
    BY <2>2, <2>3, <2>4, Zenon
  <2>6. DialHoldsRow'
    <3> SUFFICES ASSUME NEW d \in dials, scheduled[d.msg] = 1
                 PROVE  d.msg \in pending /\ wait'[d.msg] > d.left + forward
      BY <2>1 DEF DialHoldsRow
    <3>1. d.msg \in pending /\ wait[d.msg] > d.left + forward
      BY DEF TaskInv, DialHoldsRow
    <3>2. wait'[d.msg] >= wait[d.msg] /\ wait'[d.msg] \in Int /\ wait[d.msg] \in Int
      BY <2>3, <2>5, <3>1
    <3>3. d.left \in Int /\ forward \in Int
      BY <1>0, <1>f
    <3> QED
      BY <3>1, <3>2, <3>3
  <2> QED
    BY <2>1, <2>6 DEF TaskInv, NoOverlap
<1>8. CASE UNCHANGED <<pending, wait, dials, scheduled, forward>>
  BY <1>8 DEF TaskInv, DialHoldsRow, NoOverlap
<1> QED
  BY <1>1, <1>2, <1>3, <1>4, <1>5, <1>6, <1>7, <1>8, Zenon
  DEF Next, Restart, take_failed, vars, table, clock, history

\* What became of an envelope stays consistent, because the dial that reports
\* is the only one of its message and still finds the row.
LEMMA OutcomeStep ==
  ASSUME TypeOK, NoTrace, TaskInv, OutcomeInv, [Next]_vars
  PROVE  OutcomeInv'
<1> USE ConstantsAssumption DEF ConstantsAssumption
<1>0. /\ pending \cup failed \cup drained \cup delivered \subseteq Msgs
      /\ \A m \in Msgs : /\ scheduled[m] \in Nat /\ made[m] \in Nat
                         /\ attempts[m] \in 0..(MaxAttempts - 1)
      /\ crashes \in Nat
      /\ \A d \in dials : d.msg \in Msgs /\ scheduled[d.msg] # 0
  BY DEF TypeOK, Dial, NoTrace
<1> DEFINE Same == UNCHANGED <<pending, failed, drained, delivered, scheduled>>
<1>1. ASSUME NEW m \in Msgs, schedule(m) PROVE OutcomeInv'
  <2>1. /\ pending' = pending \cup {m}
        /\ attempts' = [attempts EXCEPT ![m] = 0]
        /\ scheduled' = [scheduled EXCEPT ![m] = @ + 1]
        /\ UNCHANGED <<failed, dials, crashes, made, delivered, drained>>
    BY <1>1 DEF schedule
  <2>2. \A k \in Msgs : scheduled'[k] = 1 =>
          \/ k # m /\ scheduled[k] = 1
          \/ k = m /\ scheduled[k] = 0
    BY <1>0, <2>1 DEF TypeOK
  <2>3. /\ \A k \in Msgs \ {m} : attempts'[k] = attempts[k]
        /\ attempts'[m] = 0
    BY <2>1, Zenon DEF TypeOK
  <2>4. AckedNeverFailed' /\ GivenUpHasNoRow'
    BY <1>0, <2>1, <2>2, Zenon
    DEF OutcomeInv, AckedNeverFailed, GivenUpHasNoRow, NoTrace
  <2>5. AttemptBudget'
    BY <1>0, <2>1, <2>2 DEF OutcomeInv, AttemptBudget, NoTrace
  <2>6. DialsCounted'
    <3> SUFFICES ASSUME NEW k \in pending', scheduled'[k] = 1
                 PROVE  /\ made[k] <= attempts'[k] + crashes + 1
                        /\ (\A d \in dials : d.msg # k) =>
                             made[k] <= attempts'[k] + crashes
      BY <2>1, Zenon DEF DialsCounted
    <3>1. k \in Msgs
      BY <1>0, <2>1, Zenon
    <3>2. CASE k # m
      BY <1>0, <2>1, <2>2, <2>3, <3>1, <3>2, Zenon DEF OutcomeInv, DialsCounted
    <3>3. CASE k = m
      <4>1. made[k] = 0 /\ attempts'[k] = 0
        BY <2>2, <2>3, <3>1, <3>3, Zenon DEF NoTrace
      <4> QED
        BY <1>0, <4>1
    <3> QED
      BY <3>2, <3>3, Zenon
  <2> QED
    BY <2>4, <2>5, <2>6 DEF OutcomeInv
<1>2. CASE Sweep
  <2>1. Same /\ UNCHANGED <<attempts, crashes>>
    BY <1>2, Zenon DEF Sweep
  <2>2. \A m \in Msgs : made'[m] = IF m \in Due THEN made[m] + 1 ELSE made[m]
    BY <1>2, Zenon DEF Sweep
  <2>3. Due \subseteq pending
    BY DEF Due
  <2>4. \A m \in Due : scheduled[m] = 1 => \A d \in dials : d.msg # m
    <3> SUFFICES ASSUME NEW d \in dials, scheduled[d.msg] = 1
                 PROVE  ~(wait[d.msg] <= 0)
      BY DEF Due
    <3>1. wait[d.msg] > d.left + forward /\ d.left \in Nat /\ forward \in Nat
      BY DEF TaskInv, DialHoldsRow, TypeOK, Dial
    <3>2. wait[d.msg] \in Int
      BY <1>0, Zenon DEF TypeOK
    <3> QED
      BY <3>1, <3>2
  <2>5. /\ \A m \in Due : \E d \in dials' : d.msg = m
        /\ dials \subseteq dials'
    <3>1. \A m \in Due :
            [msg |-> m, n |-> made[m] + 1, left |-> DialLimit] \in dials'
      BY <1>2, Zenon DEF Sweep
    <3> QED
      BY <1>2, <3>1, Zenon DEF Sweep
  <2>6. DialsCounted'
    <3> SUFFICES ASSUME NEW m \in pending, scheduled[m] = 1
                 PROVE  /\ made'[m] <= attempts[m] + crashes + 1
                        /\ (\A d \in dials' : d.msg # m) =>
                             made'[m] <= attempts[m] + crashes
      BY <2>1 DEF DialsCounted
    <3>1. /\ made[m] <= attempts[m] + crashes + 1
          /\ (\A d \in dials : d.msg # m) => made[m] <= attempts[m] + crashes
      BY DEF OutcomeInv, DialsCounted
    <3>2. m \in Msgs /\ made[m] \in Nat /\ attempts[m] \in Nat /\ crashes \in Nat
      BY <1>0
    <3>3. CASE m \in Due
      <4>1. made'[m] = made[m] + 1 /\ made[m] <= attempts[m] + crashes
        BY <2>2, <2>4, <3>1, <3>2, <3>3, Zenon
      <4>2. ~ (\A d \in dials' : d.msg # m)
        BY <2>5, <3>3
      <4> QED
        BY <3>2, <4>1, <4>2
    <3>4. CASE m \notin Due
      <4>1. made'[m] = made[m]
        BY <2>2, <3>2, <3>4
      <4>2. (\A d \in dials' : d.msg # m) => (\A d \in dials : d.msg # m)
        BY <2>5
      <4> QED
        BY <3>1, <4>1, <4>2, Zenon
    <3> QED
      BY <3>3, <3>4, Zenon
  <2>7. AttemptBudget'
    <3> SUFFICES ASSUME NEW m \in Msgs, scheduled[m] = 1
                 PROVE  made'[m] <= MaxAttempts + crashes
      BY <2>1 DEF AttemptBudget
    <3>1. CASE m \in Due
      <4>1. made'[m] = made[m] + 1 /\ made[m] <= attempts[m] + crashes
        BY <2>2, <2>3, <2>4, <3>1, Zenon DEF OutcomeInv, DialsCounted
      <4>2. /\ made[m] \in Nat /\ crashes \in Nat /\ MaxAttempts \in Nat
            /\ attempts[m] \in 0..(MaxAttempts - 1)
        BY <1>0
      <4> QED
        BY <4>1, <4>2
    <3>2. CASE m \notin Due
      BY <2>2, <3>2 DEF OutcomeInv, AttemptBudget
    <3> QED
      BY <3>1, <3>2
  <2>8. AckedNeverFailed' /\ GivenUpHasNoRow'
    BY <2>1 DEF OutcomeInv, AckedNeverFailed, GivenUpHasNoRow
  <2> QED
    BY <2>6, <2>7, <2>8 DEF OutcomeInv
<1>3. ASSUME NEW d \in dials, mark_delivered(d) PROVE OutcomeInv'
  <2>1. /\ pending' = pending \ {d.msg} /\ delivered' = delivered \cup {d.msg}
        /\ dials' = dials \ {d}
        /\ \A m \in Msgs \ {d.msg} : attempts'[m] = attempts[m]
        /\ UNCHANGED <<failed, crashes, scheduled, made, drained>>
    BY <1>3, Zenon DEF mark_delivered, DeleteRow, TypeOK
  <2>2. scheduled[d.msg] = 1 => d.msg \in pending
    BY DEF TaskInv, DialHoldsRow
  <2>3. AckedNeverFailed' /\ GivenUpHasNoRow' /\ AttemptBudget'
    BY <1>0, <2>1, <2>2
    DEF OutcomeInv, AckedNeverFailed, GivenUpHasNoRow, AttemptBudget
  <2>4. DialsCounted'
    BY <1>0, <2>1, Zenon DEF OutcomeInv, DialsCounted
  <2> QED
    BY <2>3, <2>4 DEF OutcomeInv
<1>4. ASSUME NEW d \in dials, mark_failed(d) PROVE OutcomeInv'
  <2>1. dials' = dials \ {d} /\ UNCHANGED <<crashes, scheduled, made, delivered, drained>>
    BY <1>4, Zenon DEF mark_failed
  <2>2. scheduled[d.msg] = 1 =>
          /\ d.msg \in pending
          /\ \A e \in dials' : e.msg # d.msg
    BY <2>1 DEF TaskInv, DialHoldsRow, NoOverlap
  <2>3. \A m \in Msgs \ {d.msg} :
          /\ attempts'[m] = attempts[m]
          /\ (m \in pending') <=> (m \in pending)
          /\ (m \in failed') <=> (m \in failed)
          /\ (\A e \in dials' : e.msg # m) => (\A e \in dials : e.msg # m)
    BY <1>4, <2>1, Zenon DEF mark_failed, DeleteRow, table, TypeOK
  <2>4. \/ d.msg \notin pending'
        \/ /\ d.msg \in pending' /\ failed' = failed
           /\ scheduled[d.msg] = 1 => attempts'[d.msg] = attempts[d.msg] + 1
    BY <1>0, <1>4, <2>2, Zenon DEF mark_failed, DeleteRow, table, TypeOK
  <2>5. d.msg \in failed' => d.msg \in failed \/ d.msg \in pending
    BY <1>4, Zenon DEF mark_failed, DeleteRow, table
  <2>6. pending' \subseteq Msgs /\ failed' \subseteq Msgs
    BY TypeStep, Zenon DEF TypeOK
  <2>7. AckedNeverFailed' /\ GivenUpHasNoRow'
    <3>1. AckedNeverFailed'
      <4> SUFFICES ASSUME NEW m \in delivered, scheduled[m] = 1
                   PROVE  m \notin pending' \cup failed' \cup drained
        BY <2>1 DEF AckedNeverFailed
      <4>1. m \in Msgs /\ m \notin pending \cup failed \cup drained
        BY <1>0 DEF OutcomeInv, AckedNeverFailed
      <4>2. m # d.msg
        BY <2>2, <4>1
      <4> QED
        BY <2>3, <4>1, <4>2
    <3>2. GivenUpHasNoRow'
      <4> SUFFICES ASSUME NEW m \in failed' \cup drained, scheduled[m] = 1
                   PROVE  m \notin pending'
        BY <2>1 DEF GivenUpHasNoRow
      <4>1. m \in Msgs
        BY <1>0, <2>6
      <4>2. CASE m # d.msg
        BY <2>3, <4>1, <4>2 DEF OutcomeInv, GivenUpHasNoRow
      <4>3. CASE m = d.msg
        BY <2>2, <2>4, <4>3, Zenon DEF OutcomeInv, GivenUpHasNoRow
      <4> QED
        BY <4>2, <4>3
    <3> QED
      BY <3>1, <3>2
  <2>8. AttemptBudget'
    BY <2>1 DEF OutcomeInv, AttemptBudget
  <2>9. DialsCounted'
    <3> SUFFICES ASSUME NEW m \in pending', scheduled[m] = 1
                 PROVE  /\ made[m] <= attempts'[m] + crashes + 1
                        /\ (\A e \in dials' : e.msg # m) =>
                             made[m] <= attempts'[m] + crashes
      BY <2>1 DEF DialsCounted
    <3>1. m \in Msgs
      BY <2>6
    <3>2. CASE m # d.msg
      BY <1>0, <2>3, <3>1, <3>2, Zenon DEF OutcomeInv, DialsCounted
    <3>3. CASE m = d.msg
      <4>1. /\ attempts'[m] = attempts[m] + 1
            /\ made[m] <= attempts[m] + crashes + 1
        BY <2>2, <2>4, <3>3, Zenon DEF OutcomeInv, DialsCounted
      <4>2. made[m] \in Nat /\ attempts[m] \in Nat /\ crashes \in Nat
        BY <1>0, <3>1
      <4> QED
        BY <4>1, <4>2
    <3> QED
      BY <3>2, <3>3, Zenon
  <2> QED
    BY <2>7, <2>8, <2>9 DEF OutcomeInv
<1>5. CASE take_failed
  BY <1>5, Zenon DEF take_failed, table, OutcomeInv, AckedNeverFailed, GivenUpHasNoRow,
     AttemptBudget, DialsCounted
<1>6. CASE Crash \/ \E S \in SUBSET Due : CrashInSweep(S)
  <2>1. /\ crashes' = crashes + 1
        /\ failed' \subseteq failed /\ pending' \subseteq pending
        /\ \A m \in pending' : attempts'[m] = attempts[m]
        /\ UNCHANGED <<scheduled, made, delivered, drained>>
    BY <1>6, Zenon DEF Crash, CrashInSweep, LoseProcess, history
  <2>2. AckedNeverFailed' /\ GivenUpHasNoRow'
    BY <2>1 DEF OutcomeInv, AckedNeverFailed, GivenUpHasNoRow
  <2>3. AttemptBudget'
    <3> SUFFICES ASSUME NEW m \in Msgs, scheduled[m] = 1
                 PROVE  made[m] <= MaxAttempts + (crashes + 1)
      BY <2>1 DEF AttemptBudget
    <3>1. made[m] <= MaxAttempts + crashes
      BY DEF OutcomeInv, AttemptBudget
    <3>2. made[m] \in Nat /\ crashes \in Nat /\ MaxAttempts \in Nat
      BY <1>0
    <3> QED
      BY <3>1, <3>2
  <2>4. DialsCounted'
    <3> SUFFICES ASSUME NEW m \in pending', scheduled[m] = 1
                 PROVE  made[m] <= attempts[m] + (crashes + 1)
      <4>1. \A m \in pending' : m \in Msgs /\ attempts[m] \in Nat /\ made[m] \in Nat
        BY <1>0, <2>1
      <4>2. \A m \in pending' : made[m] <= attempts[m] + (crashes + 1) =>
              made[m] <= attempts[m] + (crashes + 1) + 1
        BY <1>0, <4>1
      <4> QED
        BY <2>1, <4>2, Zenon DEF DialsCounted
    <3>1. m \in Msgs /\ made[m] <= attempts[m] + crashes + 1
      BY <1>0, <2>1, Zenon DEF OutcomeInv, DialsCounted
    <3>2. made[m] \in Nat /\ crashes \in Nat /\ attempts[m] \in Nat
      BY <1>0, <3>1
    <3> QED
      BY <3>1, <3>2
  <2> QED
    BY <2>2, <2>3, <2>4 DEF OutcomeInv
<1>7. CASE Tick
  <2>1. Same /\ UNCHANGED <<attempts, crashes, made>>
    BY <1>7 DEF Tick, history
  <2>2. \A m \in Msgs : (\A e \in dials' : e.msg # m) => (\A e \in dials : e.msg # m)
    <3>1. \A d \in dials : Aged(d) \in dials' /\ Aged(d).msg = d.msg
      BY <1>7, Zenon DEF Tick, Aged
    <3> QED
      BY <3>1
  <2> QED
    BY <1>0, <2>1, <2>2, Zenon
    DEF OutcomeInv, AckedNeverFailed, GivenUpHasNoRow, AttemptBudget, DialsCounted
<1>8. CASE Same /\ UNCHANGED <<attempts, dials, crashes, made>>
  BY <1>8, Zenon DEF OutcomeInv, AckedNeverFailed, GivenUpHasNoRow, AttemptBudget,
     DialsCounted
<1> QED
  BY <1>1, <1>2, <1>3, <1>4, <1>5, <1>6, <1>7, <1>8, Zenon
  DEF Next, Restart, StepForward, StepBack, vars, table, history

\* All of the invariant, under the margin the constants must leave.
LEMMA QueueInvariant ==
  ASSUME GraceCoversDial
  PROVE  Spec => [](TypeOK /\ NoTrace /\ TaskInv /\ OutcomeInv)
<1>1. Init => TypeOK /\ HistoryInv /\ TaskInv /\ OutcomeInv
  <2> SUFFICES ASSUME Init
               PROVE  TypeOK /\ HistoryInv /\ TaskInv /\ OutcomeInv
    OBVIOUS
  <2>1. TypeOK /\ HistoryInv
    BY ConstantsAssumption
    DEF Init, TypeOK, HistoryInv, NoTrace, CountsAgree, NoEarlyGiveUp,
        NothingLost, ConstantsAssumption
  <2>2. TaskInv
    BY DEF Init, TaskInv, DialHoldsRow, NoOverlap
  <2>3. OutcomeInv
    BY DEF Init, OutcomeInv, AckedNeverFailed, GivenUpHasNoRow, AttemptBudget,
       DialsCounted
  <2> QED
    BY <2>1, <2>2, <2>3
<1>2. (TypeOK /\ HistoryInv /\ TaskInv /\ OutcomeInv) /\ [Next]_vars
        => (TypeOK /\ HistoryInv /\ TaskInv /\ OutcomeInv)'
  <2> SUFFICES ASSUME TypeOK, HistoryInv, TaskInv, OutcomeInv, [Next]_vars
               PROVE  (TypeOK /\ HistoryInv /\ TaskInv /\ OutcomeInv)'
    OBVIOUS
  <2>1. NoTrace
    BY DEF HistoryInv
  <2> QED
    BY <2>1, TypeStep, HistoryStep, TaskStep, OutcomeStep
<1>3. HistoryInv => NoTrace
  BY DEF HistoryInv
<1> QED
  BY <1>1, <1>2, <1>3, PTL DEF Spec

\* Dials of one envelope never overlap: IN_FLIGHT_GRACE outlasts a dial as long
\* as the wall clock is stepped forward by less than the margin between them.
THEOREM DialsApart == GraceCoversDial => (Spec => []NoOverlap)
<1> SUFFICES ASSUME GraceCoversDial PROVE Spec => []NoOverlap
  OBVIOUS
<1>1. TaskInv => NoOverlap
  BY DEF TaskInv
<1> QED
  BY <1>1, QueueInvariant, PTL

\* An envelope whose dial was acknowledged is neither queued nor reported as
\* failed: mark_delivered deletes the row no other dial can be working on.
THEOREM AcknowledgedSettled == GraceCoversDial => (Spec => []AckedNeverFailed)
<1> SUFFICES ASSUME GraceCoversDial
             PROVE  Spec => []AckedNeverFailed
  OBVIOUS
<1>1. OutcomeInv => AckedNeverFailed
  BY DEF OutcomeInv
<1> QED
  BY <1>1, QueueInvariant, PTL

\* An envelope that was handed over once is dialled MAX_RETRY_ATTEMPTS times at
\* most, and once more for each crash that forgot a dial.
THEOREM DialsBounded == GraceCoversDial => (Spec => []AttemptBudget)
<1> SUFFICES ASSUME GraceCoversDial
             PROVE  Spec => []AttemptBudget
  OBVIOUS
<1>1. OutcomeInv => AttemptBudget
  BY DEF OutcomeInv
<1> QED
  BY <1>1, QueueInvariant, PTL
-----------------------------------------------------------------------------
\* An envelope is handed over as often as the owner may, and no more.
HandedOver == \A m \in Msgs : scheduled[m] <= MaxSchedules

\* How often envelopes were handed over, for every behaviour.
LEMMA HandOverBound == Spec => [](TypeOK /\ HandedOver)
<1>1. Init => HandedOver
  <2> SUFFICES ASSUME Init, NEW m \in Msgs PROVE scheduled[m] <= MaxSchedules
    BY Zenon DEF HandedOver
  <2>1. scheduled[m] = 0
    BY DEF Init
  <2> QED
    BY <2>1, ConstantsAssumption DEF ConstantsAssumption
<1>2. TypeOK /\ HandedOver /\ [Next]_vars => HandedOver'
  <2> SUFFICES ASSUME TypeOK, HandedOver, [Next]_vars
               PROVE  HandedOver'
    OBVIOUS
  <2>1. CASE \E m \in Msgs : schedule(m)
    <3>1. PICK m \in Msgs : schedule(m)
      BY <2>1
    <3>2. /\ scheduled \in [Msgs -> Nat]
          /\ scheduled[m] < MaxSchedules
          /\ scheduled' = [scheduled EXCEPT ![m] = @ + 1]
      BY <3>1, Zenon DEF schedule, TypeOK
    <3> QED
      BY <3>2, ConstantsAssumption DEF HandedOver, ConstantsAssumption
  <2>2. CASE UNCHANGED scheduled
    BY <2>2 DEF HandedOver
  <2> QED
    BY <2>1, <2>2, Zenon
    DEF Next, Sweep, mark_delivered, mark_failed, take_failed, Crash,
        CrashInSweep, Restart, Tick, StepForward, StepBack, vars, history
<1> QED
  BY <1>1, <1>2, TypeCorrect, PTL DEF Spec

\* A running dial of an envelope that is handed over once finds its row.
LEMMA RowOfDial ==
  ASSUME MaxSchedules = 1, TypeOK, NoTrace, TaskInv, HandedOver, NEW d \in dials
  PROVE  d.msg \in Msgs /\ d.msg \in pending
<1>1. d.msg \in Msgs /\ scheduled[d.msg] \in Nat
  BY DEF TypeOK, Dial
<1>2. scheduled[d.msg] # 0
  BY <1>1 DEF NoTrace
<1>3. scheduled[d.msg] <= 1
  BY <1>1 DEF HandedOver
<1>4. scheduled[d.msg] = 1
  BY <1>1, <1>2, <1>3
<1> QED
  BY <1>1, <1>4 DEF TaskInv, DialHoldsRow

\* Each step of the queue is one of Outbox or changes nothing it can see.
LEMMA OutboxStep ==
  ASSUME MaxSchedules = 1, Persistent, TypeOK, NoTrace, TaskInv, HandedOver,
         [Next]_vars
  PROVE  [Promise!Next]_(Promise!vars)
<1>1. ASSUME NEW m \in Msgs, schedule(m) PROVE Promise!Schedule(m)
  BY <1>1 DEF schedule, Promise!Schedule
<1>2. ASSUME NEW d \in dials, mark_delivered(d) PROVE Promise!Deliver(d.msg)
  BY <1>2, RowOfDial DEF mark_delivered, DeleteRow, Promise!Deliver
<1>3. ASSUME NEW d \in dials, mark_failed(d)
      PROVE  Promise!GiveUp(d.msg) \/ UNCHANGED Promise!vars
  BY <1>3, RowOfDial, Zenon DEF mark_failed, DeleteRow, Promise!GiveUp, Promise!vars
<1>4. CASE take_failed
  BY <1>4 DEF take_failed, table, Promise!Report, Promise!Next
<1>5. CASE Crash \/ \E S \in SUBSET Due : CrashInSweep(S)
  BY <1>5, Zenon DEF Crash, CrashInSweep, LoseProcess, history, Promise!vars
<1>6. CASE UNCHANGED <<pending, failed, delivered>>
  BY <1>6 DEF Promise!vars
<1> QED
  BY <1>1, <1>2, <1>3, <1>4, <1>5, <1>6, RowOfDial, Zenon
  DEF Next, Sweep, Restart, Tick, StepForward, StepBack, vars, table, history,
      Promise!Next

\* With a data_dir, a sufficient grace and envelopes handed over once, the
\* queue of retry_queue.rs is an Outbox: whatever the sweeps, clock steps and
\* crashes, each envelope is delivered or given up, never both, and reported.
THEOREM QueueIsOutbox ==
  GraceCoversDial /\ Persistent /\ MaxSchedules = 1 => (Spec => ImplementsOutbox)
<1> SUFFICES ASSUME GraceCoversDial, Persistent, MaxSchedules = 1
             PROVE  Spec => ImplementsOutbox
  OBVIOUS
<1>1. Init => Promise!Init
  BY DEF Init, Promise!Init
<1>2. TypeOK /\ NoTrace /\ TaskInv /\ HandedOver /\ [Next]_vars
        => [Promise!Next]_(Promise!vars)
  BY OutboxStep
<1> QED
  BY <1>1, <1>2, QueueInvariant, HandOverBound, PTL
  DEF Spec, ImplementsOutbox, Promise!Spec
=============================================================================
