SPECIFICATION Spec
CONSTANTS
  Deps = {d1, d2}
  Replays = {r1, r2}
  Blank = Blank
  Nothing = Nothing
  MaxChanges = 2
  MaxRules = 2
SYMMETRY EitherWay
INVARIANTS ReplayTypeOK ActsOnTaught CreatesAreTrue
CHECK_DEADLOCK FALSE
