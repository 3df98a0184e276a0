CONSTANTS
  Sessions = {s1, s2, s3}
  MaxInflight = 1
  MaxQueueSize = 1
  Workers = 2
SPECIFICATION Spec
INVARIANT NoLostWakeup
