SPECIFICATION Spec
CONSTANTS
    TooLong <- NoLines
    NoAction = NoAction
    NoLine = NoLine
    Empty = Empty
    NoExtension = NoExtension
    Absent = Absent
    NoBinding = NoBinding
    DescriptorSchema = "v1"
    TraceLists <- TwoTraces
    RegistrationReplies <- Replies
    Intrusions <- OutOfTurn
    MaxIntrusions = 1
    Selections <- SelectionsTried
    Values = {0, 1}
INVARIANTS NoAdapterWithoutAuthority BindingsAreDisposed
PROPERTY FirstErrorIsKept
\* A call that has returned is over.
CHECK_DEADLOCK FALSE
