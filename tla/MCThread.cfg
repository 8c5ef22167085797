\* A device with a Server mailbox and one without; a device is replaced.
SPECIFICATION Spec
CONSTANTS
  a = a
  b = b
  m1 = m1
  m2 = m2
  m3 = m3
  m4 = m4
  Devices = {a, b}
  Msgs = {m1, m2, m3}
  From <- MCFrom
  To <- MCTo
  Ordered = {b}
  MaxKills = 1
  MaxReceipts = 1
  Restorable = {a}
SYMMETRY MsgSymmetry
INVARIANTS
  OneOrder
  RepliesFollow
  MailboxOrder
CHECK_DEADLOCK FALSE
