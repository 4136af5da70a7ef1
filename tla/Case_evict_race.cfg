\* Spec 6: a reservation fails only when nothing can be evicted.
CONSTANTS
  None = None
  t1 = t1
  t2 = t2
  Tasks <- MCTasks
  MAX_SESSIONS = 2
  MAX_EXCHANGES = 1
  Fabrics <- MCFabrics
  MaxUid = 5
  MaxTime = 1
SPECIFICATION Spec
SYMMETRY TaskSymmetry
INVARIANT RejectedOnlyWhenNothingEvictable
\* Every task finishes and the session ids run out.
CHECK_DEADLOCK FALSE
