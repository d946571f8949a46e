SPECIFICATION Spec
CONSTANTS
    song = song
    stream = stream
    NoRecord = NoRecord
    Files <- MCFiles
    Untitled <- MCStream
    Misnamed <- MCStream
    Selections <- MCSelections
    Recorded <- MCFiles
    OldRecords <- MCOldRecords
    Changing <- MCSong
    Played <- MCFiles
    MaxItems = 1
    MaxVersion = 2
    MaxAsked = 2
    MaxSignals = 1
ACTION_CONSTRAINT
    Sessions
INVARIANTS
    EngineTypeOK
    RecordsAreTrue
    LimitIsKept
    CacheIsThereUnlessEarly
PROPERTIES
    AnswersCome
    QuitEnds
CHECK_DEADLOCK FALSE
