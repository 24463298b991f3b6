SPECIFICATION Spec
CONSTANTS
    Jobs = {j1, j2}
    Workers = {w1, w2}
    Operators = {o1, o2}
    NoJob = NoJob
    BatchSize = 1
    MaxAttempts = 2
    Faults = {"reserve", "replay", "cascade"}
    MaxAbandons = 1
    MaxSlips = 0
    MaxReplays = 2
    MaxAudit = 9
SYMMETRY Symmetry
CHECK_DEADLOCK FALSE
INVARIANTS
    TypeOK
    SingleCustody
    OwnedByOneWorker
    AuditNeverCollides
    BudgetNeverOverdrawn
    StoresAgree
    SecondAnswerNeedsADrop
PROPERTIES
    ImplementsLifecycle
