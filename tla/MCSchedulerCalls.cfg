SPECIFICATION CallsSpec
CONSTANTS
    Actors = {"a", "b", "c"}
    Checkpoints = {"written"}
    Undeclared = "other"
    Plans <- AnyPlans
    MaxEvidence = 30
    MaxCleanups = 2
INVARIANTS
    TypeOK
    ObserverQuiescence
    ExclusiveInterval
    OwnsEveryThread
    TeardownOnceAfterJoin
    NoLostWakeup
    PassedRanThePlan
    EvidenceFollowsPlan
    FailureWasCleanedUp
PROPERTIES VerdictIsFinal ImplementsInterface
