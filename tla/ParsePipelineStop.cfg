CONSTANTS
    Text = {t1, t2}
    MaxEdits = 1
    PostOutcomes = {TRUE}
    Reparse = Reparse
    None = None
SPECIFICATION FairSpec
PROPERTY StopReturns
