\* Two employees, one key, three requests, a lifetime of one instant, crashes.
SPECIFICATION IdemSpec
CONSTANTS
  ann = ann
  bob = bob
  r1 = r1
  r2 = r2
  r3 = r3
  key1 = key1
  None = None
  Users <- TwoUsers
  Managers <- NoUsers
  Admins <- NoUsers
  ManagerClaims <- NoManager
  Slots <- OneSlot
  ReqIds <- ThreeRequests
  DayCounts <- OneDay
  Readings <- DayOrTwo
  AsOfs <- AtOne
  MaxApprovals = 0
  MayCrash = TRUE
  IdemKeys <- TheKey
  TTL = 1
  MaxTime = 3
SYMMETRY Interchangeable
INVARIANTS
  IdemTypeOK
  AnswersAreOwn
PROPERTIES
  ImplementsFiledOnce
CHECK_DEADLOCK FALSE
