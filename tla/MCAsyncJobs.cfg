SPECIFICATION Spec
CONSTANTS
    TooLong <- LongRequests
    NoAction = NoAction
    NoCall = NoCall
    Intrusions <- OutOfTurn
    MaxIntrusions = 1
    MaxCalls = 4
INVARIANTS EveryReplyAnswersItsCall
\* The caller may have nothing left to ask.
CHECK_DEADLOCK FALSE
