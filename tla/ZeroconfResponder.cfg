\* The responder under announcements, a service `new` rejects, worker
\* registration failures, poll
\* errors and stops.
CONSTANTS
  None = None
  s1 = s1
  s2 = s2
  s3 = s3
  Service <- MCService
  Unencodable <- MCUnencodable
  MaxChanges = 3
  MaxWorkers <- MCMaxWorkers
SPECIFICATION Spec
INVARIANT TypeOK EntriesMatchAnnounced LiveWorkerHasEntry
PROPERTY WithdrawnUnregistered
\* After the last announcement every thread has exited or polls forever.
CHECK_DEADLOCK FALSE
