SPECIFICATION Spec
CONSTANTS
    FileSize = 3
    Capacity = 2
    ChunkMax = 2
    Counts <- MCCounts
    Modes <- MCModes
    ReadFails = TRUE
INVARIANTS
    TypeOK
    RingIsBoundedFifo
    BytesInOrder
    TellIsWhereWeAre
PROPERTIES
    ShortReadsAreLast
    CallsReturn
