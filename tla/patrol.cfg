CONSTANTS
  ExitCodes <- MCExitCodes
  NotJson = NotJson
  NotObject = NotObject
  NoValue = NoValue
  Nobody = Nobody
  Ladders <- MCLadders
  MaxFailures = 3
  Setups <- MCSetups
  Bodies <- MCBodies
  Answers <- MCAnswers
SPECIFICATION FairSpec
INVARIANTS
  EligibleIsPrefix
  NothingLeftBehind
  HealthyOnEvidence
  NoHiddenFault
  DestructiveNeedsClearYes
PROPERTIES
  SlowNotRerun
  ClearedOnEvidence
  HealStopsAtSuccess
  CallReturns
  ClimbsUnlessRepaired
CHECK_DEADLOCK FALSE
