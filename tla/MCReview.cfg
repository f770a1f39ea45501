SPECIFICATION MCSpec
CONSTANTS
  ReviewSteps = 3
  Scripts <- MCScripts
  Context = 1
  DashedLines = FALSE
  BlankTails = FALSE
  Rewrites = FALSE
  Near = 2
  MaxTop = 5
  Races = FALSE
  Keys = FALSE
  Native = FALSE
  Nudges = FALSE
  Hasty = FALSE
  ScrollSteps = 7
  DiffSteps = 3
INVARIANTS MCTypeOK ScreensAreTrue FileIsWhole
PROPERTIES ReaderKeepsPlace ScreensComeToRest
CHECK_DEADLOCK FALSE
