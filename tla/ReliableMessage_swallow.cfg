\* MRP over a network that loses nothing: a reliable message carrying a
\* stale piggy-backed ack is swallowed by the receiver.
CONSTANTS
  a = a
  b = b
  None = None
  Node <- MCNode
  MaxMsgCtr = 3
  MRP_MAX_TRANSMISSIONS = 2
  NetCapacity = 4
  Lossy = FALSE
SPECIFICATION Spec
INVARIANT NoReliableMessageSwallowed
CHECK_DEADLOCK FALSE
