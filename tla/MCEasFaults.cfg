SPECIFICATION FairSpec
CONSTANTS
  d1 = d1
  d2 = d2
  m1 = m1
  m2 = m2
  NoItem = NoItem
  Devices = {d1}
  Items = {m1}
  Tries = {1, 2}
  Class = "PIM"
  Old = {}
  Window = 1
  Uploads = {"Add", "Delete"}
  Env = {"lose", "dberror", "crash", "reset"}
  MaxSeq = 2
  MaxRev = 1
  MaxKey = 2
  MaxFaults = 1
PROPERTY CatchesUp
