SPECIFICATION Spec
CONSTANTS
    Jobs = {j1}
    Workers = {w1, w2}
    Operators = {o1}
    NoJob = NoJob
    BatchSize = 1
    MaxAttempts = 2
    Faults = {"slow"}
    MaxAbandons = 0
    MaxSlips = 1
    MaxReplays = 0
    MaxAudit = 6
SYMMETRY Symmetry
CHECK_DEADLOCK FALSE
INVARIANTS
    SlowWorkerCostsOneDuplicate
