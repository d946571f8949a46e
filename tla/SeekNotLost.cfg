SPECIFICATION PlayerSafetySpec
CONSTANTS
    f = f
    g = g
    Unit <- MCUnit
    Chunks <- MCChunks
    Size = 1
    PlayMax = 1
    MaxTime = 4
    CanHwPause = TRUE
    ReopenFails = TRUE
    Spurious = FALSE
    Songs <- MCSongs
    NoSong = NoSong
    SongLen = 1
    PrecacheLen = 1
    PutLen = 2
    NeedConv = TRUE
    ParamsChange = FALSE
    AutoNext = TRUE
    MaxCalls = 3
PROPERTIES
    SeekNotLost
CHECK_DEADLOCK FALSE
