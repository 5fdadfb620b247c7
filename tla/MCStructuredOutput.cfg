SPECIFICATION CallsSpec
CONSTANTS
    c1 = c1
    c2 = c2
    c3 = c3
    Calls <- ThreeCalls
CHECK_DEADLOCK FALSE
INVARIANTS
    ModeIsBest
    SettledIsReused
    WalkIsShort
