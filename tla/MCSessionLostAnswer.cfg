\* Local-only clients; one answer is lost.
CONSTANTS
  a = a
  b = b
  Peers = {a, b}
  Talkers = {a}
  HasServer = {}
  MaxChats = 2
  MaxPairings = 1
  MaxFaults = 1
  MaxRedials = 0
  MaxKills = 0
SPECIFICATION Spec
INVARIANT
  CanTalk
CHECK_DEADLOCK FALSE
