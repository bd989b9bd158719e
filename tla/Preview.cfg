\* Two documents edited and used for some steps, eleven read and printed at two widths.
SPECIFICATION Spec
CONSTANTS
    MaxItems = 5
    Docs <- AllDocs
    Played <- UsedDocs
    Widths = {250, 700}
    ViewHeight = 60
    Needle <- Searched
    MaxSteps = 4
    Papers <- PrintedPapers
INVARIANTS
    RefsAreLive
    CopiedIsShown
    WordsStayWhole
    OutlineInStep
    SourceIsFound
    BlocksInOrder
    PagesAreSound
    KeptTogether
    FlowTellsAll
CHECK_DEADLOCK FALSE
