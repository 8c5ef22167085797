\* Two changes of the address, at any time, a backup of the owner, two faults: failed
\* deliveries, kills or restores, of the owner or of a contact.
CONSTANTS
  c1 = c1
  c2 = c2
  home = home
  none = none
  Contacts = {c1, c2}
  Addrs = {home, none}
  NoServer = none
  MaxChanges = 2
  MaxBackups = 1
  MaxFaults = 2
SYMMETRY Symmetry
SPECIFICATION PointerSpec
INVARIANTS
  NextIsAccepted
  SettledOnCurrent
CHECK_DEADLOCK FALSE
