CONSTANTS
  MinInflight = 1
  MaxInflight = 6
  MaxQueueSize = 2
  TargetP95 = 100
  CriticalP95 = 200
  MaxKvUsage = 85
  MaxGpuUsage = 100
  MaxWaiting = 2
  RecoveryPct = 99
  CooldownSamples = 3
  Samples <- MCSamples
  Counts <- MCCounts
SPECIFICATION FairPolicySpec
INVARIANT PolicyTypeOK
INVARIANT Monotone
PROPERTY RaiseEarned
PROPERTY Recovers
PROPERTY Sheds
