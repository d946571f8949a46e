SPECIFICATION Spec
CONSTANTS
    a = a
    b = b
    c = c
    NoFile = NoFile
    Files <- MCFiles
    FirstItems <- MCFirst
    Toggles <- MCNone
    FirstOptions <- MCPlain
    MaxItems = 4
    MaxCalls = 3
INVARIANT
    EachOnce
CHECK_DEADLOCK FALSE
