\* MRP over a lossy, duplicating, reordering network.
CONSTANTS
  a = a
  b = b
  None = None
  Node <- MCNode
  MaxMsgCtr = 3
  MRP_MAX_TRANSMISSIONS = 2
  NetCapacity = 3
  Lossy = TRUE
SPECIFICATION Spec
INVARIANT TypeOK
INVARIANT DeliveredOrGaveUp
PROPERTY RetransResolves
\* An exchange whose sessions used up the bounded counters stops.
CHECK_DEADLOCK FALSE
