\* One node with a data_dir, two envelopes, the production timing.
CONSTANTS
  m1 = m1
  m2 = m2
  Msgs = {m1, m2}
  MaxAttempts = 3
  Backoff <- MCBackoff
  Grace = 12
  DialLimit = 10
  SweepInterval = 2
  SweepDelay = 0
  Persistent = TRUE
  MaxSchedules = 1
  MaxCrashes = 1
  MaxForward = 1
  MaxBack = 1
SPECIFICATION FairSpec
INVARIANTS
  NoOverlap
  AttemptBudget
PROPERTIES
  Resolves
  ImplementsOutbox
