CONSTANTS
  Sessions = {s1, s2}
  MaxInflight = 1
  MaxQueueSize = 1
  Workers = 2
SPECIFICATION FairSpec
INVARIANT TypeOK
INVARIANT OutcomeOnce
INVARIANT QueuedOnce
INVARIANT QueueNotOverstated
PROPERTY ClosedAdmitsNobody
PROPERTY RequestResolved
