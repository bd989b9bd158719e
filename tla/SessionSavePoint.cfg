SPECIFICATION Spec
CONSTANTS
    p1 = p1
    p2 = p2
    Path <- MCPath
    InitialDisk <- MCDisk
    NoPath = NoPath
    NoFile = NoFile
    FirstText = 1
    Exotic = {2}
    MaxText = 3
    ReplaceUnderDialogs = TRUE
INVARIANT UnmodifiedMeansKeptAlways
CHECK_DEADLOCK FALSE
