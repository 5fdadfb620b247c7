SPECIFICATION FairPipeline
CONSTANTS
    Understandings <- MCUnderstandings
    Envelopes <- MCEnvelopes
    Implemented <- Tool
    Drafts <- TwoDrafts
    DataOnly = "data-only"
    Worded <- MCWorded
    LogWrites <- Both
CHECK_DEADLOCK FALSE
INVARIANTS
    StageIsTheWork
    StreamIsTheRun
    AuditIsTheRun
    ModelWordingWasAccepted
    VerdictIsAboutTheAnswer
    RewriteIsCorrected
    TraceTellsTheAttempts
PROPERTIES
    KeepsThePromise
    RequestEnds
