SPECIFICATION Spec
CONSTANTS
    Requests = {r1, r2, r3}
    Jobs = {j1, j2, j3}
    NoJob = NoJob
    FaultSets <- OnlyCreationThrows
SYMMETRY Symmetry
CHECK_DEADLOCK FALSE
INVARIANTS
    EventIsQueuedOnce
