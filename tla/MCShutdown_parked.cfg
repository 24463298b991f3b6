SPECIFICATION StopSpec
CONSTANTS
    Jobs = {j1}
    Workers = {w1}
    Stopping = {w1}
    Operators = {}
    NoJob = NoJob
    BatchSize = 2
    MaxAttempts = 2
    Faults = {"reserve"}
    MaxAbandons = 1
    MaxSlips = 0
    MaxReplays = 0
    MaxAudit = 9
CHECK_DEADLOCK FALSE
INVARIANTS
    EveryClaimIsReapable
