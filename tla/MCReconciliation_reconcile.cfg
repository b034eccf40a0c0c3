\* Two keys, dates that are numbers when they can be read, one scan, crashes.
SPECIFICATION ReconSpec
CONSTANTS
  admin = admin
  r1 = r1
  p1 = p1
  None = None
  Users <- TheAdmin
  Managers <- TheAdmin
  Admins <- TheAdmin
  ManagerClaims <- NoManager
  Slots <- TwoSlots
  ReqIds <- OneRequest
  DayCounts <- OneDay
  Readings <- BelowNothingToo
  AsOfs <- Dates
  MaxApprovals = 2
  MayCrash = TRUE
  PushForms <- NumbersOrNaN
  PullForms <- NumbersOrNaN
  Scans <- OneScan
  MaxRows = 2
  MaxTime = 2
INVARIANTS
  ReconTypeOK
  AnsweredIsInEffect
PROPERTIES
  ImplementsTimeOff
  CacheNeverGoesBack
CHECK_DEADLOCK FALSE
