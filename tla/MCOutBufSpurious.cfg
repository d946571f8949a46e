SPECIFICATION Spec
CONSTANTS
    a = a
    b = b
    Unit <- MCUnit
    Chunks <- MCChunks
    Size = 2
    PlayMax = 2
    MaxTime = 3
    CanHwPause = TRUE
    ReopenFails = TRUE
    Spurious = TRUE
INVARIANTS
    ParkedOnlyWhenIdle
    WaitingIsParked
PROPERTIES
    PutReturns
    StopReturnsInTheEnd
    ExitHappens
