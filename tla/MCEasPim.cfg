SPECIFICATION Spec
CONSTANTS
  d1 = d1
  d2 = d2
  m1 = m1
  m2 = m2
  NoItem = NoItem
  Devices = {d1}
  Items = {m1, m2}
  Tries = {1}
  Class = "PIM"
  Old = {}
  Window = 1
  Uploads = {"Add", "Change", "Delete", "Fetch"}
  Env = {"lose", "prune"}
  MaxSeq = 3
  MaxRev = 2
  MaxKey = 2
  MaxFaults = 1
INVARIANT NothingLost
