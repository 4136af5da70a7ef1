\* The session table under the transport's calls and PASE reservations, and
\* its refinement of SessionTable. Two clock ticks give idle sessions
\* different last uses, so the scan's least-recently-used choice matters.
CONSTANTS
  None = None
  MAX_SESSIONS = 2
  MAX_EXCHANGES = 1
  Fabrics <- MCFabrics
  MaxUid = 4
  MaxTime = 2
SPECIFICATION MgrSpec
INVARIANT MgrTypeOK NoLeakedReservation
PROPERTY EvictionChoice ImplementsSessionTable
\* Every session id and clock tick is used up eventually.
CHECK_DEADLOCK FALSE
