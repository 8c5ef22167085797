\* Two ids, a clock that is stepped both ways, one restart or forward step.
CONSTANTS
  a = a
  b = b
  Remotes = {a, b}
  MaxPerWindow = 2
  Window = 3
  SweepInterval = 2
  MaxResets = 1
  MaxBack = 1
SPECIFICATION FairSpec
INVARIANTS
  SpanBound
  TrackedRecently
  RefusedWhenSpent
PROPERTIES
  Readmits
  ImplementsBudget
