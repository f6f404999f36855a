CONSTANTS
  Names <- TwoNames
  Specs <- TopSpecs
  Remediations <- TopLadders
  Policies <- OneFleet
  NoSpec = NoSpec
  NoPolicy = NoPolicy
  MaxCount = 2
  Verdicts = {"healthy", "unhealthy"}
  AlerterSuspends = FALSE
  ChannelOutcomes = {"ok"}
  ApproverSuspends = FALSE
  Callers = {worker}
  worker = worker
  Reloader = Reloader
  Free = Free
  Reloads = FALSE
  OperatorFreezes = TRUE
  Uis = {"textual", "live"}
  Stores = {TRUE, FALSE}
SPECIFICATION TopFairSpec
PROPERTIES
  OneShot
  ImplementsCycle
  ApprovalActs
  QuitEnds
CHECK_DEADLOCK FALSE
