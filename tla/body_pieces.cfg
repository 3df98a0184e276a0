CONSTANTS
  Sessions = {s1}
  MaxInflight = 1
  MaxQueueSize = 1
  MaxPieces = 2
  ReadResults = {"data", "done", "full", "last", "end"}
SPECIFICATION SessionSpec
INVARIANT CompletedDelivered
