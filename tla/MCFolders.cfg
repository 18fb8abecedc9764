SPECIFICATION FairSpec
CONSTANTS
  nInbox = nInbox
  nCalendar = nCalendar
  nSpam = nSpam
  NoDev = NoDev
  Devices = {d1}
  Handlers = {h1, h2}
  Names <- MCNames
  InboxName <- nInbox
  CalendarName <- nCalendar
  SpamName <- nSpam
  Types = {1}
  MaxFolders = 3
  MaxCmds = 3
  MaxFaults = 1
INVARIANTS
  TypeOK
  Told
PROPERTIES
  Converges
CHECK_DEADLOCK FALSE
