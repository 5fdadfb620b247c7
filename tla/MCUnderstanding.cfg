SPECIFICATION Spec
CONSTANTS
    Questions <- MCQuestions
    Replies <- MCReplies
CHECK_DEADLOCK FALSE
INVARIANTS
    FailsClosed
    StatedPeriodWins
    RunAndPlanAgree
    BareQuantityIsNotCalculated
    HandsOver
