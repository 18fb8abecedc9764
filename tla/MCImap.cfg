SPECIFICATION FairSpec
CONSTANTS
  inbox = inbox
  other = other
  NoBox = NoBox
  Boxes <- MCBoxes
  Inbox <- inbox
  Conns = {c1}
  Apps = {a1}
  StoreOps <- MCStoreOps
  MaxMsgs = 3
  MaxCmds = 3
  MaxFaults = 1
INVARIANTS
  TypeOK
  FeedTells
  NumbersHold
PROPERTIES
  IdleTells
CHECK_DEADLOCK FALSE
