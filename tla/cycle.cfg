CONSTANTS
  Names <- TwoNames
  Specs <- TwoSpecs
  Remediations <- TwoLadders
  Policies <- AllPolicies
  NoSpec = NoSpec
  NoPolicy = NoPolicy
  MaxCount = 2
  Verdicts <- AllVerdicts
  AlerterSuspends = TRUE
  ChannelOutcomes = {"ok", "raises"}
  ApproverSuspends = TRUE
  Callers = {c1, c2}
  c1 = c1
  c2 = c2
  Reloader = Reloader
  Free = Free
  Reloads = TRUE
  OperatorFreezes = FALSE
SPECIFICATION FairSpec
INVARIANTS
  CounterIsEvidence
  ActsOnlyAsAllowed
  SinkAgrees
PROPERTIES
  FreezeHolds
  ActsOnEvidence
  ImplementsAlertContract
  EveryWaiterServed
