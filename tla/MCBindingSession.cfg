SPECIFICATION Spec
CONSTANTS
    PlanLength = 1
    NoExecution = NoExecution
    MaxInitializations = 3
    MaxReceiptBytes = 14
    RowBytes <- ReceiptLengthsTried
    ErrorRowBytes = 1
INVARIANTS OneRowPerExecution FullyCompletedIsHonest
PROPERTIES RetryUpdatesTheRow FailureIsSticky
\* A disposed session may have nothing left to do.
CHECK_DEADLOCK FALSE
