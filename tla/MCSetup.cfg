SPECIFICATION Spec
CONSTANTS
  Browsers = {b1, b2}
  Names = {n1, n2}
  Requests = {r1, r2}
  Nobody = Nobody
  Admin = 1
  Review = 3
  MaxSlips = 1
  MaxResets = 1
INVARIANTS SetupTypeOK AdminHasItsCode
PROPERTIES FollowsFirstRun SetupFinishes
CHECK_DEADLOCK FALSE
