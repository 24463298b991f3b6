SPECIFICATION Spec
CONSTANTS
    Jobs = {j1, j2}
    Threshold = 2
    Cooldown = 3
    StateTtl = 5
    Rate = 2
    Burst = 6
    Cost = 3
    Slack = 1
    Timeout = 2
    Skews = {0, 1}
    MaxNow = 7
SYMMETRY Symmetry
CHECK_DEADLOCK FALSE
INVARIANTS
    CapHolds
