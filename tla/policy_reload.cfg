CONSTANTS
  p1 = p1
  p2 = p2
  odd = odd
  Empty = Empty
  Nothing = Nothing
  Contents <- Plain
  Policies <- TwoPolicies
  Rejected <- Bad
  MaxStamp = 4
  OnChange = TRUE
  StartupEdits = FALSE
SPECIFICATION FairSpec
INVARIANTS
  HangupHonoured
  SettledBeforeRead
  HandledIsRead
PROPERTIES
  Converges
CHECK_DEADLOCK FALSE
