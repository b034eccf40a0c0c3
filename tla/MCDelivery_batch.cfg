\* Two requests of one or two days for the two HCM has, batches of two, three approvals;
\* HR changes nothing, HCM refuses only what is not there but may make one debit all the
\* same, no GET is wrong and no POST is lost on its way.  Four events of the budget at most.
SPECIFICATION DeliverySpec
CONSTANTS
  admin = admin
  r1 = r1
  r2 = r2
  None = None
  Users <- TheAdmin
  Managers <- TheAdmin
  Admins <- TheAdmin
  ManagerClaims <- NoManager
  Slots <- OneSlot
  ReqIds <- TwoRequests
  DayCounts <- OneOrTwo
  Readings <- Readings02
  AsOfs <- AtOne
  MaxApprovals = 3
  MayCrash = TRUE
  BatchSize = 2
  MaxAttempts = 2
  Granted <- TwoGranted
  Budget <- NoAdjustment
SYMMETRY Interchangeable
CONSTRAINT AtMostFour
INVARIANTS
  DeliveryTypeOK
  DebitedOnce
  ConsumedMeansDebited
  FailedIsNotDebited
  ConsumedIsGranted
  ApprovedIsInOutbox
PROPERTIES
  ImplementsOutbox
CHECK_DEADLOCK FALSE
