SPECIFICATION Spec
CONSTANTS
  u1 = u1
  u2 = u2
  a1 = a1
  a1x = a1x
  a2 = a2
  cat = cat
  lost = lost
  far = far
  NoUser = NoUser
  Users <- MCUsers
  Addrs <- MCAddrs
  Owner <- MCOwner
  Address <- MCAddress
  Hosted <- MCHosted
  CatchAll <- MCCatchAll
  m1 = m1
  m2 = m2
  Batches <- MCBatches
  Msgs = {m1, m2}
  MaxReqs = 2
  MaxRows = 3
  MaxFaults = 1
  MaxDays = 1
INVARIANTS
  RetryIsSafe
CHECK_DEADLOCK FALSE
