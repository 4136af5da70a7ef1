\* Every retry count and jitter byte, for the default and edge intervals.
CONSTANTS
  None = None
  Intervals <- MCIntervals
  MRP_MAX_TRANSMISSIONS = 10
SPECIFICATION Spec
INVARIANT TypeOK WithinMaxDelay
PROPERTY DelayNonDecreasing
\* An entry stops at MRP_MAX_TRANSMISSIONS: pre_send fails and it is dropped.
CHECK_DEADLOCK FALSE
