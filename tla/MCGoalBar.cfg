SPECIFICATION MCSpec
CONSTANTS
  MaxChecks = 2
  MaxSteps = 4
  PageSteps = 3
  Every = 2
  MaxWakes = 2
  MaxTime = 5
  MaxMoves = 3
INVARIANTS MCTypeOK StandingIsExact
PROPERTIES StandingIsSound StandingSettles
CHECK_DEADLOCK FALSE
