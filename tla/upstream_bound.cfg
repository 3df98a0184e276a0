CONSTANTS
  Sessions = {s1, s2}
  MaxInflight = 1
  MaxQueueSize = 1
  MaxPieces = 1
  ReadResults = {"data", "done", "full", "last", "end"}
SPECIFICATION SessionSpec
INVARIANT UpstreamBounded
