SPECIFICATION Spec
CONSTANTS
    Jobs = {j1, j2, j3}
    Threshold = 2
    Cooldown = 3
    StateTtl = 5
    Rate = 2
    Burst = 6
    Cost = 3
    Slack = 1
    Timeout = 2
    Skews = {0}
    MaxNow = 7
SYMMETRY Symmetry
CHECK_DEADLOCK FALSE
INVARIANTS
    TypeOK
    CountMatchesState
    OpenWasEarned
    WindowIsBounded
    PaceKept
    RetryFindsToken
