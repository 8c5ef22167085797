\* Two sync calls at a time; the Server is added, removed and added again; one kill.
\* An owner left without a Server may have nothing more to do.
CONSTANTS
  c1 = c1
  t1 = t1
  t2 = t2
  s1 = s1
  Contacts = {c1}
  Tasks = {t1, t2}
  Servers = {s1}
  Batch = 2
  MaxPairings = 1
  MaxWrites = 2
  MaxMoves = 3
  MaxKills = 1
SPECIFICATION FairSpec
INVARIANTS WatermarkCovers DeliveredWasKept NextSlotRegistered
CHECK_DEADLOCK FALSE
PROPERTIES
  BlobsArrive
