CONSTANTS
  Names <- TwoNames
  Specs <- TwoSpecs
  Remediations <- TwoLadders
  Policies <- AllPolicies
  NoSpec = NoSpec
  NoPolicy = NoPolicy
  MaxCount = 2
  Verdicts = {"healthy", "unhealthy"}
  AlerterSuspends = TRUE
  ChannelOutcomes = {"dropped", "raises"}
  ApproverSuspends = FALSE
  Reloads = TRUE
  Hung = {}
SPECIFICATION FairSpec
INVARIANTS
  JobsFollowPolicy
PROPERTIES
  RetiredStaysSilent
  ReloadEnds
CHECK_DEADLOCK FALSE
