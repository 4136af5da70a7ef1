\* One session with two exchange slots; the peer opens exchanges with id 1,
\* and local opens take ids 1..3 from the counter.
CONSTANTS
  None = None
  s1 = s1
  Sessions <- MCSessions
  MAX_EXCHANGES = 2
  PeerExchIds = {1}
  MaxExchId = 3
SPECIFICATION Spec
INVARIANT TypeOK ExchangeRouting
PROPERTY PendingWorkKept
\* Local exchange ids run out.
CHECK_DEADLOCK FALSE
