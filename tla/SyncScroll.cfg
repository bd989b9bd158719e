SPECIFICATION SyncSpec
CONSTANTS
    Layouts <- MCLayouts
    LastTop = 3
    ViewHeight = 6
INVARIANT InStep
PROPERTY EchoMovesNothing
