\* Two CASE responders against a two-session table, with fabric removal,
\* eviction, resets and the transport's own sessions; and the refinement of
\* SessionTable by the table under them.
CONSTANTS
  None = None
  t1 = t1
  t2 = t2
  Tasks <- MCTasks
  MAX_SESSIONS = 2
  MAX_EXCHANGES = 1
  Fabrics <- MCOneFabric
  MaxUid = 4
  MaxTime = 1
SPECIFICATION Spec
SYMMETRY TaskSymmetry
INVARIANT CaseTypeOK CaseNoLeakedReservation PublishedCaseFabricLive PublishedLocalIdsUnique
PROPERTY ImplementsSessionTable
\* Every task finishes and the session ids run out.
CHECK_DEADLOCK FALSE
