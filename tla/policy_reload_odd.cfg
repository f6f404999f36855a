CONSTANTS
  p1 = p1
  p2 = p2
  odd = odd
  Empty = Empty
  Nothing = Nothing
  Contents <- WithOdd
  Policies <- TwoPolicies
  Rejected <- Bad
  MaxStamp = 2
  OnChange = TRUE
  StartupEdits = FALSE
SPECIFICATION Spec
INVARIANTS
  KeepsSupervising
CHECK_DEADLOCK FALSE
