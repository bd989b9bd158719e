SPECIFICATION Spec
CONSTANTS
    Texts <- MCTexts
    Letters = {"a", "b"}
    Needle <- MCNeedle
    Replacement <- MCReplacement
    MaxSteps = 1
CHECK_DEADLOCK FALSE
INVARIANTS InlineTogglesOff LineFormatsHold BlockStandsApart FindsWhatIsThere
