----------------------------- MODULE MCPrograms -----------------------------
(***************************************************************************)
(* Definitions for TLC's run of three programs that share no state with    *)
(* one another: the schedulers, the migration runner and the dashboard.    *)
(* A behaviour is one of one of them and the variables of the others stay  *)
(* as they were, so that their state spaces add up and do not multiply.    *)
(***************************************************************************)
EXTENDS Leadership, Migrate, Dashboard

VARIABLE program   \* whose behaviour it is; never changes

NoneOrOneGhost == {{}} \cup {{j} : j \in Jobs}
EverySetOfFaults == SUBSET AllFaults

programsVars == <<program, vars, migrateVars, dashboardVars>>

ProgramsInit ==
    /\ program \in {"schedulers", "migrate", "dashboard"}
    /\ Init /\ MigrateInit /\ DashboardInit
    /\ program # "schedulers" => faults = {} /\ \A s \in Schedulers : timer[s] = 0
    /\ program # "migrate" => disk = 0
    /\ program # "dashboard" => ghosts = {}

Schedule(step) ==
    /\ program = "schedulers" /\ step
    /\ UNCHANGED <<program, migrateVars, dashboardVars>>
Deploy(step) ==
    /\ program = "migrate" /\ step
    /\ UNCHANGED <<program, vars, dashboardVars>>
Operate(step) ==
    /\ program = "dashboard" /\ step
    /\ UNCHANGED <<program, vars, migrateVars>>

ProgramsNext == Schedule(Next) \/ Deploy(MigrateNext) \/ Operate(DashboardNext)

\* The fairness that FairSpec, MigrateFairSpec and DashboardFairSpec ask for.
ProgramsFairness ==
    /\ WF_programsVars(Schedule(Clock))
    /\ \A s \in Schedulers : WF_programsVars(Schedule(Goes(s)))
    /\ \A r \in Runs : WF_programsVars(Deploy(RunGoesOn(r)))
    /\ WF_programsVars(Operate(Asks))
    /\ SF_programsVars(Operate(IsAnswered))
    /\ SF_programsVars(Operate(Shows))

ProgramsSpec == ProgramsInit /\ [][ProgramsNext]_programsVars /\ ProgramsFairness

\* The types of the three programs' state.
ProgramsTypeOK == TypeOK /\ MigrateTypeOK /\ DashboardTypeOK

\* SweepsGoOn, when it is the schedulers (scheduler.ts) that run.
SchedulersSweepOn == program = "schedulers" => SweepsGoOn

\* FilesGetApplied, when it is the migrations (migrate.ts) that are run.
MigrationsGetThere == program = "migrate" => FilesGetApplied

\* ListCatchesUp, when it is the dashboard (hooks.ts) that is open.
DashboardCatchesUp == program = "dashboard" => ListCatchesUp
=============================================================================
