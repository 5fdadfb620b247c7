SPECIFICATION Spec
CONSTANTS
    Questions <- MCQuestions
    Replies <- MCReplies
CHECK_DEADLOCK FALSE
INVARIANT
    PlannedIsNotCapacity
