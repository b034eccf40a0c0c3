\* The lifecycle of two requests of one employee, every report in order.
SPECIFICATION Spec
CONSTANTS
  emp = emp
  boss = boss
  r1 = r1
  r2 = r2
  None = None
  Users <- TwoUsers
  Managers <- TheBoss
  Admins <- NoUsers
  ManagerClaims <- EmployeeFiles
  Slots <- OneSlot
  ReqIds <- TwoRequests
  DayCounts <- OneOrTwoDays
  Readings <- RoughReadings
  AsOfs <- Numbers
  MaxApprovals = 3
  MayCrash = FALSE
SYMMETRY Interchangeable
INVARIANTS
  TypeOK
  ReservationFollowsState
  OneExternalIdPerRequest
  ApprovedIsSubmitted
  IdBookkeeping
PROPERTIES
  ImplementsLedger
  OnlyReportsOverdraw
  DriftPausesApproved
