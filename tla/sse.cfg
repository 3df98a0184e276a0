CONSTANTS
  MaxBuffer = 7
  MaxChunk = 6
  MaxLines = 4
  Streams <- MCStreams
SPECIFICATION Spec
INVARIANT BufferBounded
INVARIANT CutIndependent
INVARIANT Observed
