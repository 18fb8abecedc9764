SPECIFICATION Spec
CONSTANTS
  m1 = m1
  m2 = m2
  Msgs = {m1}
  MaxAttempts = 2
  Limit = 2
  MaxFaults = 0
  MaxAdmin = 0
  MaxSwitch = 0
INVARIANT SourceIncluded
CHECK_DEADLOCK FALSE
