CONSTANTS
  Keys = {k1, k2, k3}
  Writers = {k3}
  NoKey = NoKey
  MaxSlots = 4
SPECIFICATION FairSpec
INVARIANTS
  PollerInv
PROPERTIES
  NoStaleEvent
  EventsServed
CHECK_DEADLOCK FALSE
