\* Spec 4.3: a responder whose Sigma1 matches no fabric terminates.
CONSTANTS
  None = None
  t1 = t1
  t2 = t2
  Tasks <- MCTasks
  MAX_SESSIONS = 2
  MAX_EXCHANGES = 1
  Fabrics <- MCFabrics
  MaxUid = 4
  MaxTime = 1
SPECIFICATION Spec
SYMMETRY TaskSymmetry
INVARIANT NoReservationAfterStatus
\* Every task finishes and the session ids run out.
CHECK_DEADLOCK FALSE
