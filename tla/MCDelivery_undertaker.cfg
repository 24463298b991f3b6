SPECIFICATION Spec
CONSTANTS
    Jobs = {j1}
    Workers = {w1, w2}
    Operators = {o1}
    NoJob = NoJob
    BatchSize = 1
    MaxAttempts = 2
    Faults = {}
    MaxAbandons = 1
    MaxSlips = 0
    MaxReplays = 0
    MaxAudit = 4
SYMMETRY Symmetry
CHECK_DEADLOCK FALSE
INVARIANTS
    DeadJobsReachTheDlq
