SPECIFICATION Spec
CONSTANTS
    Producers = {player, tags}
    TagReader = tags
    MaxEvents = 2
    PipeCap = 2
    ReadChunk = 1
    MaxFiles = 2
INVARIANTS
    TypeOK
    NoLostWakeup
    AwaitedIsOnItsWay
PROPERTIES
    ImplementsMailbox
    FillTagsEnds
