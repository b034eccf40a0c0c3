\* HCM makes the debit and answers with an error.
SPECIFICATION DeliverySpec
CONSTANTS
  admin = admin
  r1 = r1
  r2 = r2
  None = None
  Users <- TheAdmin
  Managers <- TheAdmin
  Admins <- TheAdmin
  ManagerClaims <- NoManager
  Slots <- OneSlot
  ReqIds <- OneRequest
  DayCounts <- OneDay
  Readings <- Readings02
  AsOfs <- AtOne
  MaxApprovals = 1
  MayCrash = FALSE
  BatchSize = 1
  MaxAttempts = 2
  Granted <- OneGranted
  Budget <- WithUnanswered
INVARIANTS
  DebitedIsNotReviewed
CHECK_DEADLOCK FALSE
