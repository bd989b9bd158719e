SPECIFICATION Spec
CONSTANTS
    Folder <- MCFolder
    Markdown <- MCMarkdown
    OtherFile <- MCOtherFile
    LeftOut <- MCLeftOut
    Changing <- MCChanging
    InitialDisk <- MCInitialDisk
    SegmentWidth <- MCSegmentWidth
    SeparatorWidth = 14
    OverflowWidth = 20
    Items <- MCToolbar
    Pad = 6
    Gap = 2
    ButtonWidth = 30
    ClientWidths = {240, 300, 900}
    WorkWidths = {300}
    Dpi = 96
    Height = 600
    ToolbarHeight = 40
    FormatBarHeight = 36
    MousePositions = {200, 640}
    Toggled = {"showOutline"}
CHECK_DEADLOCK FALSE
INVARIANTS PanesTile TreeIsSound
PROPERTIES LayoutComesBack FileIsRevealed
