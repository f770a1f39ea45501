SPECIFICATION DeliverySpec
CONSTANTS
  Casts <- PeerCasts
  InboxCap = 2
  PeerCap = 2
  WordCap = 2
  MaxSteps = 1
  MaxCrashes = 0
  Input = {}
  Close = {}
  Slots = 1
  MaxRestarts = 0
INVARIANT NoneSwallowed
CHECK_DEADLOCK FALSE
