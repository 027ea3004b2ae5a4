SPECIFICATION Spec
CONSTANTS
    Spaces <- AllSpaces
    MaxActors = 3
    MaxInputs = 3
    MaxPreemptions = 3
    MaxSteps = 5
    Caps = {0, 2, 30}
    RunLimits = {1, 30}
    EvidenceLimits = {15, 300}
    RowBytes = {10}
    CoverageLimits = {8, 11, 30}
    StateBytes = 3
    EdgeBytes = 1
    Samples <- SamplesTried
    CanonicalOf <- Canonical
    MeaningOf <- StateMeaning
    Unusable <- Malformed
    MaxDepth = 3
    MaxNodes = 12
    Decimals = {"0", "1", "2"}
    Campaigns = 2
INVARIANTS CompleteIsExhaustive StopReasonExplains CoverageIsObserved
PROPERTY UnknownCleanupStops
\* The last exploration is over.
CHECK_DEADLOCK FALSE
