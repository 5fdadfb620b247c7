SPECIFICATION MCSpec
CONSTANTS
    Drafts <- TwoDrafts
    DataOnly = "data-only"
    Worded <- MCWorded
    MaxBase = 2
CHECK_DEADLOCK FALSE
INVARIANT
    StepNumbersDistinct
