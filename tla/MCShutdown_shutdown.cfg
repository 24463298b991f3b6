SPECIFICATION StopFairSpec
CONSTANTS
    Jobs = {j1, j2}
    Workers = {w1, w2}
    Stopping = {w1}
    Operators = {}
    NoJob = NoJob
    BatchSize = 2
    MaxAttempts = 2
    Faults = {"reserve"}
    MaxAbandons = 1
    MaxSlips = 0
    MaxReplays = 0
    MaxAudit = 9
CHECK_DEADLOCK FALSE
INVARIANTS
    OneParkedJobPerSignal
    SecondAnswerNeedsASignal
PROPERTIES
    ToldWorkersExit
    SettledUnlessParked
