SPECIFICATION Spec
CONSTANTS
    Requests = {r1, r2, r3}
    Jobs = {j1, j2, j3}
    NoJob = NoJob
    FaultSets <- EverySetOfFaults
SYMMETRY Symmetry
CHECK_DEADLOCK FALSE
INVARIANTS
    TypeOK
    AtMostOneJob
    SameAnswer
    OneCreatorAtATime
    PendingHasOwner
    AnsweredWasPushed
