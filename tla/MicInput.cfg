SPECIFICATION Spec
CONSTANTS
  Cap = 6
  Chunk = 4
  Blocks = {2, 4}
  Wrap = 8
  Streams = 2
INVARIANTS
  NotParkedBesideAChunk
  NobodyHangs
PROPERTIES
  ImplementsFifo
  ReadEnds
