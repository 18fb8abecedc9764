SPECIFICATION Spec
CONSTANTS
  d1 = d1
  d2 = d2
  m1 = m1
  m2 = m2
  NoItem = NoItem
  Devices = {d1}
  Items = {m1, m2}
  Tries = {1}
  Class = "Email"
  Old = {m2}
  Window = 1
  Uploads = {"Change", "Delete"}
  Env = {"lose"}
  MaxSeq = 4
  MaxRev = 2
  MaxKey = 2
  MaxFaults = 1
INVARIANTS TypeOK NothingLost NoZombie KnownMatches
PROPERTY NeverBack
