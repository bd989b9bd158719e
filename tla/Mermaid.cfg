SPECIFICATION MermaidSpec
CONSTANTS
    Inputs <- MCInputs
    Sources <- MCSources
    MaxNodes = 5
    MaxEdges = 4
    Lines <- MCLines
    MaxLines = 4
INVARIANTS
    RetargetingIsSound
    BarsAndBlocksNest TextKeepsClear
    RankingIsSound DrawingIsClear FramesAreSound
