CONSTANTS
  Sessions = {s1, s2, s3}
  MaxInflight = 2
  MaxQueueSize = 1
  Workers = 2
  WindowCapacity = 2
  Durations = {1, 2}
  SmallWindows <- MCSmallWindows
  LargeWindows <- MCLargeWindows
SPECIFICATION MetricsSpec
SYMMETRY Symmetry
INVARIANT ReportConsistent
INVARIANT WindowCounted
INVARIANT WindowSettled
INVARIANT NearestRank
