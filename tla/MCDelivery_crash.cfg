\* The process dies once.
SPECIFICATION FairDeliverySpec
CONSTANTS
  admin = admin
  r1 = r1
  r2 = r2
  None = None
  Users <- TheAdmin
  Managers <- TheAdmin
  Admins <- TheAdmin
  ManagerClaims <- NoManager
  Slots <- OneSlot
  ReqIds <- OneRequest
  DayCounts <- OneDay
  Readings <- Readings02
  AsOfs <- AtOne
  MaxApprovals = 1
  MayCrash = FALSE
  BatchSize = 1
  MaxAttempts = 2
  Granted <- OneGranted
  Budget <- WithCrash
PROPERTIES
  ApprovedIsSettled
CHECK_DEADLOCK FALSE
