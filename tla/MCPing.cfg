SPECIFICATION FairSpec
CONSTANTS
  k1 = k1
  f1 = f1
  p1 = p1
  p2 = p2
  NoPing = NoPing
  NoFolder = NoFolder
  Keys = {k1}
  Folders = {f1}
  Pings = {p1, p2}
  MaxSeq = 2
INVARIANTS TypeOK ClosedOnce Reachable
PROPERTIES CancelledEnds Announced
