CONSTANTS
  Sessions = {s1, s2}
  MaxInflight = 1
  MaxQueueSize = 1
  MaxPieces = 2
  ReadResults = {"data", "done", "full", "last", "end"}
SPECIFICATION FairSessionSpec
INVARIANT SessionTypeOK
INVARIANT SlotWhileForwarding
INVARIANT Watched
INVARIANT PiecesAccounted
PROPERTY SlotReturned
