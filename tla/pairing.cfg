\* Two people, two codes on every screen, one registration that fails half-way, a
\* contact that starts over, a kill.
SPECIFICATION Spec
CONSTANTS
  Peers = {p, q}
  Batch = 2
  MaxKeys = 2
  MaxCodes = 2
  MaxAdds = 3
  MaxFails = 1
  MaxSends = 2
  MaxLives = 2
  MaxKills = 1
INVARIANTS HeldKeyUsable SessionIsContacts SlotReady
SYMMETRY Symmetry
CHECK_DEADLOCK FALSE
