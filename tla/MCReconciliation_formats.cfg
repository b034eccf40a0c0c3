\* Batch rows keep their date as a text, other reports have numbers.
SPECIFICATION ReconSpec
CONSTANTS
  admin = admin
  r1 = r1
  p1 = p1
  None = None
  Users <- TheAdmin
  Managers <- TheAdmin
  Admins <- TheAdmin
  ManagerClaims <- NoManager
  Slots <- OneSlot
  ReqIds <- OneRequest
  DayCounts <- OneDay
  Readings <- NothingOrADay
  AsOfs <- Dates
  MaxApprovals = 1
  MayCrash = FALSE
  PushForms <- TextsAndNumbers
  PullForms <- Numbers
  Scans <- NoScans
  MaxRows = 1
  MaxTime = 2
PROPERTIES
  CacheNeverGoesBack
CHECK_DEADLOCK FALSE
