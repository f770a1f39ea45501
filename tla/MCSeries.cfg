CONSTANTS
  Specs <- Shapes
  MaxIter = 3
  Floor = 1
  Ceil = 2
  Paces = {3}
  Steered <- Paused
  MaxControls = 3
  Stops = TRUE
  MaxFaults = 1
  MaxTime = 4
SPECIFICATION FairSpec
CHECK_DEADLOCK FALSE
INVARIANTS SeriesTypeOK SeriesIsExact
PROPERTIES SeriesKeepsItsWord SeriesSettles
