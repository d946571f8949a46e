SPECIFICATION Spec
CONSTANTS
    song = song
    stream = stream
    NoRecord = NoRecord
    Files <- MCFiles
    Untitled <- MCStream
    Misnamed <- MCNone
    Selections <- MCSelections
    Recorded <- MCNone
    OldRecords <- MCNone
    Changing <- MCNone
    Played <- MCNone
    MaxItems = 1
    MaxVersion = 1
    MaxAsked = 1
    MaxSignals = 1
INVARIANT
    CacheIsThere
CHECK_DEADLOCK FALSE
