SPECIFICATION Spec
CONSTANTS
    Bytes = {10, 13, 65, 195, 169, 216, 220}
    MaxPayload = 4
    Files <- MCFiles
    Typed <- MCTyped
    NoDocument = NoDocument
INVARIANTS RoundTrip SavedTextComesBack
CHECK_DEADLOCK FALSE
