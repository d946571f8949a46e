SPECIFICATION Spec
CONSTANTS
    a = a
    b = b
    Unit <- MCUnit
    Chunks <- MCChunks
    Size = 2
    PlayMax = 2
    MaxTime = 4
    CanHwPause = FALSE
    ReopenFails = TRUE
    Spurious = FALSE
INVARIANTS
    TypeOK
    QuietIsSilent
    TimeIsWhatWasHeard
PROPERTIES
    WaitReturnsInTheEnd
    ImplementsSoundLine
