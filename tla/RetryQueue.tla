----------------------------- MODULE RetryQueue -----------------------------
(***************************************************************************)
(* pm-node's retry-delivery queue (retry_queue.rs) together with the sweep *)
(* loop that drives it (retry_sweep_loop in lib.rs): the owner's client    *)
(* hands over an envelope, every sweep takes the due entries and spawns    *)
(* one dial task per entry, and each task reports back with mark_delivered *)
(* or mark_failed.  The node may crash and be started again.               *)
(*                                                                         *)
(* Time is in seconds and relative.  wait[m] stands for the difference     *)
(* next_attempt_at_ms - now_ms() of the row of m: the code compares the    *)
(* two and stores now_ms() plus a constant, nothing else.  It follows the  *)
(* wall clock, which may be stepped; the dial timeout and the sweep        *)
(* interval follow tokio's monotonic clock, which may not.                 *)
(***************************************************************************)
EXTENDS Integers

CONSTANTS
  Msgs,           \* message ids the owner's client may hand over
  MaxAttempts,    \* MAX_RETRY_ATTEMPTS
  Backoff,        \* RETRY_BACKOFF: seconds after failed attempt 1, 2, ...
  Grace,          \* IN_FLIGHT_GRACE
  DialLimit,      \* RETRY_DIAL_TIMEOUT plus the delay until the task reports
  SweepInterval,  \* SWEEP_INTERVAL
  SweepDelay,     \* how late a tick of the interval may be served
  Persistent,     \* TRUE when spawn is given a data_dir
  MaxSchedules,   \* bound on ScheduleRetry requests per message
  MaxCrashes,     \* bound on crashes
  MaxForward,     \* bound on the total forward stepping of the wall clock
  MaxBack         \* bound on the total backward stepping of the wall clock

ASSUME ConstantsAssumption ==
  /\ MaxAttempts \in Nat \ {0}
  /\ Backoff \in [1..(MaxAttempts - 1) -> Nat]
  /\ Grace \in Nat /\ DialLimit \in Nat
  /\ SweepInterval \in Nat \ {0} /\ SweepDelay \in Nat
  /\ Persistent \in BOOLEAN
  /\ MaxSchedules \in Nat /\ MaxCrashes \in Nat
  /\ MaxForward \in Nat /\ MaxBack \in Nat

VARIABLES
  up,         \* the node process runs
  pending,    \* message ids with a row in retry_entries
  attempts,   \* column attempts
  wait,       \* column next_attempt_at_ms, relative to the wall clock
  failed,     \* table failed_deliveries
  dials,      \* spawned dial tasks: message, ordinal, seconds they have left
  sweepLeft,  \* seconds until the interval's next tick
  forward,    \* forward steps the wall clock may still make
  back,       \* backward steps the wall clock may still make
  crashes,    \* crashes so far
  scheduled,  \* history: ScheduleRetry requests served per message
  made,       \* history: dial tasks spawned per message
  failures,   \* history: dial tasks of the message that reported failure
  delivered,  \* history: messages for which mark_delivered ran
  drained     \* history: messages take_failed has returned

table   == <<pending, attempts, wait>>
clock   == <<sweepLeft, forward, back>>
history == <<scheduled, made, failures, delivered, drained>>
vars    == <<up, table, failed, dials, clock, crashes, history>>

Dial == [msg : Msgs, n : Nat, left : 0..DialLimit]

TypeOK ==
  /\ up \in BOOLEAN
  /\ pending \subseteq Msgs
  /\ attempts \in [Msgs -> 0..(MaxAttempts - 1)]
  /\ wait \in [Msgs -> Int]
  /\ failed \subseteq Msgs
  /\ dials \subseteq Dial
  /\ sweepLeft \in (-SweepDelay)..SweepInterval
  /\ forward \in 0..MaxForward
  /\ back \in 0..MaxBack
  /\ crashes \in 0..MaxCrashes
  /\ scheduled \in [Msgs -> Nat]
  /\ made \in [Msgs -> Nat]
  /\ failures \in [Msgs -> Nat]
  /\ delivered \subseteq Msgs
  /\ drained \subseteq Msgs

Init ==
  /\ up = TRUE
  /\ pending = {}
  /\ attempts = [m \in Msgs |-> 0]
  /\ wait = [m \in Msgs |-> 0]
  /\ failed = {}
  /\ dials = {}
  /\ sweepLeft = 0
  /\ forward = MaxForward
  /\ back = MaxBack
  /\ crashes = 0
  /\ scheduled = [m \in Msgs |-> 0]
  /\ made = [m \in Msgs |-> 0]
  /\ failures = [m \in Msgs |-> 0]
  /\ delivered = {}
  /\ drained = {}
-----------------------------------------------------------------------------
\* DELETE FROM retry_entries: the columns of an absent row read as 0.
DeleteRow(m) ==
  /\ pending' = pending \ {m}
  /\ attempts' = [attempts EXCEPT ![m] = 0]
  /\ wait' = [wait EXCEPT ![m] = 0]

\* NodeRequest::ScheduleRetry: insert, or overwrite the row of a pending id.
schedule(m) ==
  /\ up
  /\ scheduled[m] < MaxSchedules
  /\ pending' = pending \cup {m}
  /\ attempts' = [attempts EXCEPT ![m] = 0]
  /\ wait' = [wait EXCEPT ![m] = 0]
  /\ scheduled' = [scheduled EXCEPT ![m] = @ + 1]
  /\ UNCHANGED <<up, failed, dials, clock, crashes, made, failures, delivered,
                 drained>>

\* Mutant: a row that has one attempt left is not selected.
Due_SkipsLast == {m \in pending : wait[m] <= 0 /\ attempts[m] + 1 < MaxAttempts}

Due == {m \in pending : wait[m] <= 0}

\* Mutant: take_due hands rows out without pushing them past the dial.
Sweep_NoGrace ==
  /\ up
  /\ sweepLeft <= 0
  /\ sweepLeft' = sweepLeft + SweepInterval
  /\ made' = [m \in Msgs |-> IF m \in Due THEN made[m] + 1 ELSE made[m]]
  /\ dials' = dials \cup
       {[msg |-> m, n |-> made[m] + 1, left |-> DialLimit] : m \in Due}
  /\ UNCHANGED <<up, table, failed, forward, back, crashes, scheduled, failures,
                 delivered, drained>>

\* One tick of the sweep: take_due pushes every due row out by the grace
\* period and a dial task is spawned for each.
Sweep ==
  /\ up
  /\ sweepLeft <= 0
  /\ sweepLeft' = sweepLeft + SweepInterval
  /\ wait' = [m \in Msgs |-> IF m \in Due THEN Grace ELSE wait[m]]
  /\ made' = [m \in Msgs |-> IF m \in Due THEN made[m] + 1 ELSE made[m]]
  /\ dials' = dials \cup
       {[msg |-> m, n |-> made[m] + 1, left |-> DialLimit] : m \in Due}
  /\ UNCHANGED <<up, pending, attempts, failed, forward, back, crashes,
                 scheduled, failures, delivered, drained>>

\* The dial was acknowledged in time.
mark_delivered(d) ==
  /\ dials' = dials \ {d}
  /\ DeleteRow(d.msg)
  /\ delivered' = delivered \cup {d.msg}
  /\ UNCHANGED <<up, failed, clock, crashes, scheduled, made, failures,
                 drained>>

\* Mutant: the count is not stored.
mark_failed_NotCounted(d) ==
  LET m == d.msg
  IN
  /\ dials' = dials \ {d}
  /\ failures' = [failures EXCEPT ![m] = @ + 1]
  /\ IF m \in pending /\ attempts[m] + 1 >= MaxAttempts
     THEN DeleteRow(m) /\ failed' = failed \cup {m}
     ELSE /\ wait' = [wait EXCEPT ![m] =
                        IF m \in pending THEN Backoff[attempts[m] + 1] ELSE @]
          /\ UNCHANGED <<pending, attempts, failed>>
  /\ UNCHANGED <<up, clock, crashes, scheduled, made, delivered, drained>>

\* The dial was refused, broke off, or ran into its timeout.  A message that
\* has no row any more is left alone.
mark_failed(d) ==
  LET m == d.msg
  IN
  /\ dials' = dials \ {d}
  /\ failures' = [failures EXCEPT ![m] = @ + 1]
  /\ \/ /\ m \notin pending
        /\ UNCHANGED <<table, failed>>
     \/ /\ m \in pending
        /\ attempts[m] + 1 >= MaxAttempts
        /\ DeleteRow(m)
        /\ failed' = failed \cup {m}
     \/ /\ m \in pending
        /\ attempts[m] + 1 < MaxAttempts
        /\ attempts' = [attempts EXCEPT ![m] = @ + 1]
        /\ wait' = [wait EXCEPT ![m] = Backoff[attempts[m] + 1]]
        /\ UNCHANGED <<pending, failed>>
  /\ UNCHANGED <<up, clock, crashes, scheduled, made, delivered, drained>>

\* Mutant: one row is returned and deleted per request.
take_failed_OneRow ==
  /\ up
  /\ \E m \in failed : failed' = failed \ {m} /\ drained' = drained \cup {m}
  /\ UNCHANGED <<up, table, dials, clock, crashes, scheduled, made, failures,
                 delivered>>

\* NodeRequest::PollFailedDeliveries drains the table, whether or not the
\* answer reaches the client.
take_failed ==
  /\ up
  /\ failed # {}
  /\ failed' = {}
  /\ drained' = drained \cup failed
  /\ UNCHANGED <<up, table, dials, clock, crashes, scheduled, made, failures,
                 delivered>>
-----------------------------------------------------------------------------
\* What a process loses when it dies: its tasks, and its tables when they
\* were in memory.
LoseProcess ==
  /\ crashes < MaxCrashes
  /\ crashes' = crashes + 1
  /\ up' = FALSE
  /\ dials' = {}
  /\ failed' = IF Persistent THEN failed ELSE {}
  /\ pending' = IF Persistent THEN pending ELSE {}
  /\ attempts' = IF Persistent THEN attempts ELSE [m \in Msgs |-> 0]

\* A crash between two requests, ticks or task steps.
Crash ==
  /\ up
  /\ LoseProcess
  /\ wait' = IF Persistent THEN wait ELSE [m \in Msgs |-> 0]
  /\ UNCHANGED <<clock, history>>

\* A crash inside take_due, whose row updates are not one transaction: some
\* of the due rows are pushed out although nothing was dialled.
CrashInSweep(S) ==
  /\ up
  /\ sweepLeft <= 0
  /\ Persistent
  /\ LoseProcess
  /\ wait' = [m \in Msgs |-> IF m \in S THEN Grace ELSE wait[m]]
  /\ UNCHANGED <<clock, history>>

\* spawn: the first tick of a new interval completes at once.
Restart ==
  /\ ~up
  /\ up' = TRUE
  /\ sweepLeft' = 0
  /\ UNCHANGED <<table, failed, dials, forward, back, crashes, history>>
-----------------------------------------------------------------------------
\* A row that is overdue by more than every backward step still to come
\* stays due, so waits need not be followed below that.
Elapse(w, s) == IF w - s < -MaxBack THEN -MaxBack ELSE w - s

\* Passing of s seconds on the wall clock, for the rows that exist.
ElapseRows(s) ==
  wait' = [m \in Msgs |-> IF m \in pending THEN Elapse(wait[m], s) ELSE wait[m]]

Aged(d) == [msg |-> d.msg, n |-> d.n, left |-> d.left - 1]

\* One second passes.  A dial task may not outlive its limit and the sweep
\* is served within its delay.
Tick ==
  /\ up => sweepLeft > -SweepDelay
  /\ \A d \in dials : d.left > 0
  /\ ElapseRows(1)
  /\ dials' = {Aged(d) : d \in dials}
  /\ sweepLeft' = IF up THEN sweepLeft - 1 ELSE sweepLeft
  /\ UNCHANGED <<up, pending, attempts, failed, forward, back, crashes, history>>

\* The wall clock is set forward by s seconds; timers do not notice.
StepForward(s) ==
  /\ s <= forward
  /\ forward' = forward - s
  /\ ElapseRows(s)
  /\ UNCHANGED <<up, pending, attempts, failed, dials, sweepLeft, back, crashes,
                 history>>

\* The wall clock is set back by s seconds.
StepBack(s) ==
  /\ s <= back
  /\ back' = back - s
  /\ ElapseRows(-s)
  /\ UNCHANGED <<up, pending, attempts, failed, dials, sweepLeft, forward,
                 crashes, history>>

Next ==
  \/ \E m \in Msgs : schedule(m)
  \/ Sweep
  \/ \E d \in dials : mark_delivered(d)
  \/ \E d \in dials : mark_failed(d)
  \/ take_failed
  \/ Crash
  \/ \E S \in SUBSET Due : CrashInSweep(S)
  \/ Restart
  \/ Tick
  \/ \E s \in 1..MaxForward : StepForward(s)
  \/ \E s \in 1..MaxBack : StepBack(s)

Spec == Init /\ [][Next]_vars

\* Time passes, the interval ticks, and a node that stopped is started again
\* by its supervisor.  Tasks end because Tick waits for them.
Fairness ==
  /\ WF_vars(Tick)
  /\ WF_vars(Sweep)
  /\ WF_vars(Restart)
  /\ WF_vars(\E d \in dials : mark_delivered(d) \/ mark_failed(d))

FairSpec == Spec /\ Fairness
-----------------------------------------------------------------------------
\* The margin the constants leave: a dial reports before its row is due again.
GraceCoversDial == DialLimit + MaxForward < Grace

\* Two dial tasks for the same envelope never run at the same time, unless
\* the client handed the same id over twice: take_due's grace period outlasts
\* the dial timeout.  Two at once would make the recipient reject one copy.
NoOverlap ==
  \A d, e \in dials :
    d.msg = e.msg /\ scheduled[d.msg] = 1 => d = e

\* Once a dial of an envelope was acknowledged the envelope is neither dialled
\* nor reported as failed again, whatever older tasks still have to say.
AckedNeverFailed ==
  \A m \in delivered :
    scheduled[m] = 1 => m \notin pending \cup failed \cup drained

\* No envelope the node accepted is forgotten: it is queued, acknowledged, or
\* reported failed.  With a data_dir that survives crashes at any point;
\* without one it holds until the first crash.
NothingLost ==
  Persistent \/ crashes = 0 =>
    \A m \in Msgs :
      scheduled[m] > 0 => m \in pending \cup failed \cup drained \cup delivered

\* An envelope is dialled MAX_RETRY_ATTEMPTS times at most; only a crash, which
\* loses the outcome of a running dial, adds one.
AttemptBudget ==
  \A m \in Msgs : scheduled[m] = 1 => made[m] <= MaxAttempts + crashes

\* The node gives an envelope up only after MAX_RETRY_ATTEMPTS dials of it
\* have really failed, crashes in between not counting as attempts.
NoEarlyGiveUp ==
  \A m \in failed \cup drained : scheduled[m] = 1 => failures[m] >= MaxAttempts

\* Every queued envelope leaves the queue, acknowledged or given up, although
\* the node may crash and the wall clock may be set back.
Resolves == \A m \in Msgs : m \in pending ~> m \notin pending

\* With a data_dir the queue implements the one without sweeps, attempts and
\* crashes: mark_delivered and mark_failed decide a row that is still there,
\* and no row is decided twice.
Promise == INSTANCE Outbox WITH queued <- pending

ImplementsOutbox == Promise!Spec
=============================================================================
