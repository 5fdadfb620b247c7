SPECIFICATION FairSpec
CONSTANTS
    Questions = {q1, q2}
    Checks = {c1}
    Labels <- MCLabels
    FirstDays <- Starts
    Newest = {47}
    MaxMidnights = 1
    ToolPool = 1
    AuditPool = 1
CHECK_DEADLOCK FALSE
INVARIANTS
    WindowsAreTheCalendar
    NothingElapsedIsCounted
    NothingLeftOpen
PROPERTIES
    FreshIsNeverStale
    EveryRequestEnds
