CONSTANTS
  Names <- TwoNames
  Specs <- MixedSpecs
  Remediations <- MixedLadders
  Policies <- AllPolicies
  NoSpec = NoSpec
  NoPolicy = NoPolicy
  MaxCount = 2
  Verdicts <- AllVerdicts
  AlerterSuspends = FALSE
  ChannelOutcomes = {"ok"}
  ApproverSuspends = TRUE
  Reloads = TRUE
  Hung = {"b"}
SPECIFICATION FairSpec
INVARIANTS
  RemovedLosesState
  MiscountsAtMostOnce
PROPERTIES
  FailingTargetIsActedOn
  RecoveryCloses
CHECK_DEADLOCK FALSE
