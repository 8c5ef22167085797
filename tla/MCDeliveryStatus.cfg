\* Two messages of a sender with an own Server; answers and receipts are lost,
\* the app is killed.
SPECIFICATION FairSpec
CONSTANTS
  m1 = m1
  m2 = m2
  Msgs <- MCMsgs
  HasServer = TRUE
  MaxAttempts = 3
  MaxLost = 2
  MaxDropped = 1
  MaxKills = 1
INVARIANTS
  DeliveredIsReceived
  FailedNotReceived
  FailureLeavesNoTrace
PROPERTIES
  OpenResolves
CHECK_DEADLOCK FALSE
