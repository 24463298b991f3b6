SPECIFICATION Spec
CONSTANTS
    Jobs = {j1}
    Workers = {w1, w2}
    Operators = {o1}
    NoJob = NoJob
    BatchSize = 2
    MaxAttempts = 2
    Faults = {"slow", "resend", "reserve", "replay", "cascade"}
    MaxAbandons = 1
    MaxSlips = 2
    MaxReplays = 1
    MaxAudit = 3
SYMMETRY Symmetry
CHECK_DEADLOCK FALSE
INVARIANTS
    BudgetSpentOnAttempts
    SucceededWasAnswered
