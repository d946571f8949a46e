SPECIFICATION Spec
CONSTANTS
    a = a
    b = b
    c = c
    NoFile = NoFile
    Files <- MCFiles
    FirstItems <- MCFirst
    Toggles <- MCToggles
    FirstOptions <- MCOptions
    MaxItems = 4
    MaxCalls = 3
INVARIANTS
    TypeOK
    ShuffledIsPlaylist
    EachOnceIfNothingLeft
PROPERTIES
    ShuffleLeavesNoneOut
    ArrivesAtAnItem
    PlayingEnds
CHECK_DEADLOCK FALSE
