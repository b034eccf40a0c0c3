\* The batch has a date nothing can read, some of its rows have their own.
SPECIFICATION ReconSpec
CONSTANTS
  admin = admin
  r1 = r1
  p1 = p1
  None = None
  Users <- TheAdmin
  Managers <- TheAdmin
  Admins <- TheAdmin
  ManagerClaims <- NoManager
  Slots <- TwoSlots
  ReqIds <- OneRequest
  DayCounts <- OneDay
  Readings <- NothingOrADay
  AsOfs <- Dates
  MaxApprovals = 1
  MayCrash = FALSE
  PushForms <- TextsOrNaN
  PullForms <- Numbers
  Scans <- NoScans
  MaxRows = 2
  MaxTime = 2
PROPERTIES
  RowsAreIndependent
CHECK_DEADLOCK FALSE
