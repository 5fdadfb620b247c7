SPECIFICATION FairSpec
CONSTANTS
    MaxAsks = 3
    MaxSteps = 2
CHECK_DEADLOCK FALSE
INVARIANTS
    OneQuestionShown
    BusyIsTheWork
    NoSilentEnd
    PanelIsTheStream
PROPERTIES
    StoppedIsStill
    BusyEnds
