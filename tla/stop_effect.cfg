CONSTANTS
  Sessions = {s1, s2}
  MaxInflight = 1
  MaxQueueSize = 1
  Workers = 1
SPECIFICATION FairSpec
PROPERTY StopTakesEffect
