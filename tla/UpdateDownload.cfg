\* Two windows that update at the same time.
SPECIFICATION FairSpec
CONSTANTS
    Process = {w1, w2}
    Chunks = 2
    ReadFails = TRUE
    NoFile = NoFile
INVARIANTS HandedOverIsVerified NothingLeftBehind
PROPERTY DownloadEnds
CHECK_DEADLOCK FALSE
