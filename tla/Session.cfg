SPECIFICATION Spec
CONSTANTS
    p1 = p1
    p2 = p2
    Path <- MCPath
    InitialDisk <- MCDisk
    NoPath = NoPath
    NoFile = NoFile
    FirstText = 1
    Exotic = {2, 3}
    MaxText = 3
    ReplaceUnderDialogs = TRUE
INVARIANT UnmodifiedMeansKept
PROPERTY NothingIsLost
CHECK_DEADLOCK FALSE
