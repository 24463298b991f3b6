SPECIFICATION ProgramsSpec
CONSTANTS
    Schedulers = {s1, s2}
    Tokens = {t1, t2, t3}
    NoToken = NoToken
    Ttl = 5
    Interval = 2
    FaultSets <- EverySetOfFaults
    Runs = {r1, r2}
    LastFile = 2
    Creating = {1}
    MaxFails = 2
    Jobs = {j1, j2}
    BatchSize = 1
    Limit = 1
    GhostSets <- NoneOrOneGhost
    Clicks = {c1, c2}
    MaxPolls = 2
INVARIANTS
    ProgramsTypeOK
    SweeperHoldsTheLock
    NeverLongUnswept
    SchemaIsRecorded
    ExitZeroIsUpToDate
    CurrentListIsReplayed
PROPERTIES
    OwnersOnly
    SchedulersSweepOn
    MigrationsGetThere
    DashboardCatchesUp
