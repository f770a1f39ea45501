SPECIFICATION Spec
CONSTANTS
  Input = {"input", "next"}
  Close = {}
  Slots = 3
  MaxRestarts = 0
INVARIANT InputHasKeeper
CHECK_DEADLOCK FALSE
