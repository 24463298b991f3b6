SPECIFICATION FairSpec
CONSTANTS
    Jobs = {j1, j2}
    Workers = {w1}
    Operators = {o1}
    NoJob = NoJob
    BatchSize = 2
    MaxAttempts = 2
    Faults = {"cascade"}
    MaxAbandons = 1
    MaxSlips = 0
    MaxReplays = 1
    MaxAudit = 9
CHECK_DEADLOCK FALSE
INVARIANTS
    NoJobStranded
    EveryClaimIsReapable
PROPERTIES
    EventuallySettled
    ClaimsAreReleased
