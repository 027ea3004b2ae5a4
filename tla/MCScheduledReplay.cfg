SPECIFICATION ReplaySpec
CONSTANTS
    TooLong <- NoLines
    NoAction = NoAction
    NoLine = NoLine
    Empty = Empty
    NoExtension = NoExtension
    Absent = Absent
    NoBinding = NoBinding
    DescriptorSchema = "v1"
    TraceLists <- WholeAndShort
    RegistrationReplies <- Replies
    Intrusions <- OutOfTurn
    MaxIntrusions = 1
    Selections <- OneAdapterOrNone
    Values = {0, 1}
    PlanLength = 1
    NoExecution = NoExecution
    MaxInitializations = 2
    MaxReceiptBytes = 3
    RowBytes = {1, 3}
    ErrorRowBytes = 1
INVARIANTS PassedIsEarned ComparisonIsTheMirrors
PROPERTY StatesAreReportedInStep
\* A replay that has returned is over.
CHECK_DEADLOCK FALSE
