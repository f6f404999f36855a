CONSTANTS
  Names <- TwoNames
  Specs <- TwoSpecs
  Remediations <- TwoLadders
  Policies <- AllPolicies
  NoSpec = NoSpec
  NoPolicy = NoPolicy
  MaxCount = 2
  Verdicts <- AllVerdicts
  AlerterSuspends = FALSE
  ChannelOutcomes = {"ok"}
  ApproverSuspends = FALSE
  Callers = {c1, c2}
  c1 = c1
  c2 = c2
  Reloader = Reloader
  Free = Free
  Reloads = FALSE
  OperatorFreezes = TRUE
SPECIFICATION Spec
INVARIANTS
  OneRemediationAtATime
