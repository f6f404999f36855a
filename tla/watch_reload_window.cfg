CONSTANTS
  Names <- TwoNames
  Specs <- TwoSpecs
  Remediations <- TwoLadders
  Policies <- AllPolicies
  NoSpec = NoSpec
  NoPolicy = NoPolicy
  MaxCount = 2
  Verdicts <- AllVerdicts
  AlerterSuspends = TRUE
  ChannelOutcomes <- AllOutcomes
  ApproverSuspends = TRUE
  Reloads = TRUE
  Hung = {}
SPECIFICATION Spec
INVARIANTS
  RemovedLosesState
CHECK_DEADLOCK FALSE
