SPECIFICATION Spec
CONSTANTS
    PlanLength = 1
    NoExecution = NoExecution
    MaxInitializations = 3
    MaxReceiptBytes = 14
    RowBytes <- ReceiptLengthsTried
    ErrorRowBytes = 1
INVARIANT EvidenceIsBounded
\* A disposed session may have nothing left to do.
CHECK_DEADLOCK FALSE
