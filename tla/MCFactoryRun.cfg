SPECIFICATION FactorySpec
CONSTANTS
    Understandings <- Handovers
    Envelopes <- MCEnvelopes
    Implemented <- Built
    MesStates <- FactoryStates
    MaxEdits = 1
CHECK_DEADLOCK FALSE
INVARIANTS
    EndIsJustified
    WholePlanShown
    CalledWithWhatCameBack
    FindingRestsOnACall
    UnknownIsRefused
    OutcomeIsWhatWasRead
