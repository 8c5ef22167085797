\* Both talk and both have a Server of their own.  Either calls fail, envelopes
\* come late, a retry queue dials again or a client is killed, in a conversation
\* of one message from each side; or all goes well in a longer one, with a second
\* pairing.
CONSTANTS
  a = a
  b = b
  Peers = {a, b}
  Talkers = {a, b}
  HasServer = {a, b}
  MaxChats = 2
  MaxPairings = 2
  MaxFaults = 2
  MaxRedials = 2
  MaxKills = 1
SPECIFICATION Spec
INVARIANTS
  DeliveredIsStored
  FirstKeyUsable
  OneSession
  CanTalkWhenCalm
CONSTRAINT OneTrouble
CHECK_DEADLOCK FALSE
SYMMETRY Symmetry
