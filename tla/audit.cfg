CONSTANTS
  j1 = j1
  j2 = j2
  j3 = j3
  Jobs <- ThreeJobs
  Free = Free
  Row = j1
  MaxEvents = 3
SPECIFICATION PlaneFairSpec
INVARIANTS
  StatusIsAudited
  FeedCoversTable
PROPERTIES
  ImplementsAuditLog
  StatusCatchesUp
CHECK_DEADLOCK FALSE
