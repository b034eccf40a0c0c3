\* Nothing goes wrong, HR changes nothing.
SPECIFICATION DeliverySpec
CONSTANTS
  admin = admin
  r1 = r1
  r2 = r2
  None = None
  Users <- TheAdmin
  Managers <- TheAdmin
  Admins <- TheAdmin
  ManagerClaims <- NoManager
  Slots <- OneSlot
  ReqIds <- TwoRequests
  DayCounts <- OneDay
  Readings <- Readings02
  AsOfs <- AtOne
  MaxApprovals = 1
  MayCrash = FALSE
  BatchSize = 1
  MaxAttempts = 2
  Granted <- OneGranted
  Budget <- JustASnapshot
INVARIANTS
  PromisedIsCovered
CHECK_DEADLOCK FALSE
