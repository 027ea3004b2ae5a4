SPECIFICATION FairSpec
CONSTANTS
    Actors = {"a", "b"}
    Checkpoints = {"written"}
    Undeclared = "other"
    Plans <- BoundedPlans
    MaxEvidence = 8
    MaxCleanups = 1
INVARIANT EvidenceWithinBound
PROPERTIES
    CallsReturn
    DropReturns
