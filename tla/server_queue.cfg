CONSTANTS
  Sessions = {s1, s2, s3, s4}
  MaxInflight = 1
  MaxQueueSize = 2
  Workers = 1
SPECIFICATION Spec
SYMMETRY Symmetry
INVARIANT SlotsExact
INVARIANT QueueBounded
INVARIANT QueueCountExact
INVARIANT NoLostWakeup
INVARIANT FinishedHoldsNoSlot
PROPERTY ImplementsAdmission
