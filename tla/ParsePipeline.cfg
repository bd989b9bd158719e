\* Two texts and a few edits; posting a message does not fail.
CONSTANTS
    Text = {t1, t2}
    MaxEdits = 2
    PostOutcomes = {TRUE}
    Reparse = Reparse
    None = None
SPECIFICATION FairSpec
INVARIANTS
    OffsetsValid
    NoTreeLeak
PROPERTIES
    PreviewCatchesUp
    StopReturnsUnlessMissed
    RefinesContract
