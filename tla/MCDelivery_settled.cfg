\* No crash, batches of one row, fewer failures than attempts.
SPECIFICATION FairDeliverySpec
CONSTANTS
  admin = admin
  r1 = r1
  r2 = r2
  None = None
  Users <- TheAdmin
  Managers <- TheAdmin
  Admins <- TheAdmin
  ManagerClaims <- NoManager
  Slots <- OneSlot
  ReqIds <- OneRequest
  DayCounts <- OneDay
  Readings <- Readings02
  AsOfs <- AtOne
  MaxApprovals = 2
  MayCrash = FALSE
  BatchSize = 1
  MaxAttempts = 4
  Granted <- TwoGranted
  Budget <- AllButCrash
PROPERTIES
  OutboxIsServed
  ApprovedIsSettled
CHECK_DEADLOCK FALSE
