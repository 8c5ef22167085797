\* The eight migrations, two messages, three stops at any statement, two attempts to
\* restore.
SPECIFICATION FairSpec
CONSTANTS
  Old = old
  None = none
  Phrases = {old, p1, p2}
  Statements <- MigrationSizes
  Writes = 2
  Messages <- TwoMessages
  MaxStops = 3
  MaxRestores = 2
INVARIANTS StoreReachable RestoredWhole
PROPERTY Opens
