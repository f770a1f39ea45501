SPECIFICATION FairDelivery
CONSTANTS
  Casts <- MCCasts
  InboxCap = 1
  PeerCap = 1
  WordCap = 1
  MaxSteps = 1
  MaxCrashes = 1
  Input = {"input"}
  Close = {"close"}
  Slots = 3
  MaxRestarts = 1
INVARIANT DeliveryTypeOK
PROPERTIES InputsSettleRight InputsSettle
CHECK_DEADLOCK FALSE
