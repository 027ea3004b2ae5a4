SPECIFICATION Spec
CONSTANTS
    TooLong <- LongLines
    NoAction = NoAction
    NoLine = NoLine
    Empty = Empty
    TraceLists <- TracesTried
    RegistrationReplies <- Replies
    Intrusions <- OutOfTurn
    MaxIntrusions = 1
    Implementations <- Names
    Compute <- Computed
    Panic = Panic
INVARIANTS ReplayDecidesConformance MismatchNamesTheStep OneAnswerPerRequest
PROPERTY EveryCallReturns
\* A call that has returned is over.
CHECK_DEADLOCK FALSE
