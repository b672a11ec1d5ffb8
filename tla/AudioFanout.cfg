SPECIFICATION Spec
CONSTANTS
    Poppers = {"viz"}
    Peekers = {"spectrum"}
    NSlots = 2
    Size = 3
    MaxChunk = 2
    MaxSamples = 2
    MaxPos = 8
INVARIANTS
    TypeOK
    RingsOutliveCalls
    SamplesInOrder
