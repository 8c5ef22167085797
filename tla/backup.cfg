\* One backup and one restore, from either copy, at any point of a conversation of
\* three messages and one answer, with one write of the device that gets no answer.
SPECIFICATION FairSpec
CONSTANTS
  Batch = 3
  MaxSends = 3
  MaxReplies = 1
  MaxLosses = 1
  MaxBackups = 1
  MaxRestores = 1
INVARIANTS  RefusalsBounded HistoryReturns
PROPERTY SyncCompletes
CHECK_DEADLOCK FALSE
