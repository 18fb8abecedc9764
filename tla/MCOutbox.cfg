SPECIFICATION FairSpec
CONSTANTS
  m1 = m1
  m2 = m2
  Msgs = {m1, m2}
  MaxAttempts = 2
  Limit = 2
  MaxFaults = 1
  MaxAdmin = 1
  MaxSwitch = 1
INVARIANTS TypeOK NoLoss AttemptsBounded DuplicateNeedsFault
PROPERTY Settles
CHECK_DEADLOCK FALSE
