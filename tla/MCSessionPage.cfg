SPECIFICATION Spec
CONSTANTS
  Texts = {"hi"}
  Kids = {11}
  Items = {"m1"}
  MaxSteps = 3
INVARIANTS TypeOK NothingIsLost ClicksAreOnce
PROPERTIES PageCatchesUp
CHECK_DEADLOCK FALSE
