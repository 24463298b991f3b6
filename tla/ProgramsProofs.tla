--------------------------- MODULE ProgramsProofs ---------------------------
(***************************************************************************)
(* Proofs about the three programs that share no state with the others:    *)
(* the migration runner, the dashboard, and the schedulers with their      *)
(* lock.  Each part starts from the specification of its own module.       *)
(***************************************************************************)
EXTENDS MCPrograms, FiniteSetTheorems, WellFoundedInduction, TLAPS

-----------------------------------------------------------------------------
(* Migrate.                                                                *)

\* There is a first file among those that are pending.
LEMMA FirstFile ==
    ASSUME NEW S \in SUBSET Nat, S # {}
    PROVE  Min(S) \in S /\ \A n \in S : Min(S) <= n
<1> DEFINE Below == {1..n : n \in S}
<1>1. IsWellFoundedOn(StrictSubsetOrdering(Nat), FiniteSubsetsOf(Nat))
  BY FS_StrictSubsetOrderingWellFounded
<1>2. \A n \in S : 1..n \in FiniteSubsetsOf(Nat)
  BY FS_Interval DEF FiniteSubsetsOf
<1>3. Below \subseteq FiniteSubsetsOf(Nat) /\ Below # {}
  BY <1>2
<1>4. PICK least \in Below : \A other \in Below : <<other, least>> \notin StrictSubsetOrdering(Nat)
  BY <1>1, <1>3, WFMin
<1>5. PICK m \in S : least = 1..m
  OBVIOUS
<1>6. \A n \in S : m <= n
  <2> SUFFICES ASSUME NEW n \in S, n < m PROVE FALSE
    OBVIOUS
  <2>1. 1..n \subseteq 1..m /\ m \in 1..m /\ m \notin 1..n
    OBVIOUS
  <2>2. <<1..n, 1..m>> \in StrictSubsetOrdering(Nat)
    BY <2>1 DEF StrictSubsetOrdering
  <2> QED
    BY <1>4, <1>5, <2>2
<1> QED
  BY <1>6 DEF Min

\* The invariant: what was said of runs in Migrate, and what it is for.
MigrateInv == MigrateTypeOK /\ SchemaIsRecorded /\ RunsKeepTrack /\ OneRecorder

\* The file in hand is the first that is pending.
LEMMA FileIsFirst ==
    ASSUME MigrateTypeOK, NEW r \in Runs, run[r].todo # {}
    PROVE  /\ File(r) \in run[r].todo /\ File(r) \in Files
           /\ \A f \in run[r].todo : File(r) <= f
<1>1. run[r].todo \subseteq Files /\ Files \subseteq Nat
  BY MigrateAssumption DEF MigrateTypeOK, Files
<1> QED
  BY <1>1, FirstFile DEF File

\* A COMMIT that is executed adds the next file to both sides.
LEMMA CommitAddsNext ==
    ASSUME MigrateInv, NEW r \in Runs, run[r].at = "commit", Committed(r)
    PROVE  /\ schema' \in Seq(Files) /\ recorded' \subseteq Files
           /\ recorded' = recorded \cup {File(r)}
           /\ SchemaIsRecorded'
           /\ tx' = [tx EXCEPT ![r] = {}]
<1> USE DEF MigrateInv
<1>1. /\ File(r) \in run[r].todo /\ File(r) \in Files
      /\ \A f \in run[r].todo : File(r) <= f
  BY FileIsFirst DEF RunsKeepTrack
<1>2. /\ run[r].todo \subseteq 1..run[r].listed
      /\ (1..run[r].listed) \ run[r].todo \subseteq recorded
      /\ {"sql", "row"} \subseteq tx[r] /\ File(r) \notin recorded
  BY DEF RunsKeepTrack, OneRecorder
<1>3. schema \in Seq(Files) /\ Len(schema) \in Nat /\ run[r].listed \in Nat
  BY MigrateAssumption DEF MigrateTypeOK
<1>4. /\ recorded = 1..Len(schema)
      /\ schema = [i \in 1..Len(schema) |-> i]
  BY DEF SchemaIsRecorded
<1>5. File(r) = Len(schema) + 1
  <2>1. File(r) \in Nat /\ File(r) <= run[r].listed /\ File(r) > Len(schema)
    BY <1>1, <1>2, <1>3, <1>4 DEF Files
  <2>2. ASSUME File(r) > Len(schema) + 1 PROVE FALSE
    <3>1. Len(schema) + 1 \in 1..run[r].listed
      BY <1>3, <2>1, <2>2
    <3>2. Len(schema) + 1 \notin run[r].todo /\ Len(schema) + 1 \notin recorded
      BY <1>1, <1>3, <1>4, <2>1, <2>2
    <3> QED
      BY <1>2, <3>1, <3>2
  <2> QED
    BY <1>3, <2>1, <2>2
<1>6. schema' = Append(schema, File(r)) /\ recorded' = recorded \cup {File(r)}
  BY <1>2 DEF Committed
<1>7. /\ schema' \in Seq(Files) /\ Len(schema') = Len(schema) + 1
      /\ \A i \in 1..Len(schema') : schema'[i] = IF i <= Len(schema) THEN schema[i] ELSE File(r)
  BY <1>1, <1>3, <1>6
<1>8. schema' = [i \in 1..Len(schema') |-> i]
  <2>1. \A i \in 1..Len(schema') : schema'[i] = i
    BY <1>3, <1>4, <1>5, <1>7
  <2>2. schema' = [i \in 1..Len(schema') |-> schema'[i]]
    BY <1>7
  <2> QED
    BY <2>1, <2>2
<1>9. recorded' = 1..Len(schema')
  BY <1>3, <1>4, <1>5, <1>6, <1>7
<1>10. recorded' \subseteq Files
  BY <1>1, <1>6 DEF MigrateTypeOK
<1> QED
  BY <1>6, <1>7, <1>8, <1>9, <1>10 DEF SchemaIsRecorded, Committed, Drops

LEMMA MigrateInvInit == MigrateInit => MigrateInv
<1> SUFFICES ASSUME MigrateInit PROVE MigrateInv
  OBVIOUS
<1>1. MigrateTypeOK
  BY MigrateAssumption DEF MigrateInit, MigrateTypeOK, RunSteps
<1>2. schema = << >> /\ recorded = {} /\ Len(schema) = 0
  BY DEF MigrateInit
<1>3. SchemaIsRecorded
  BY <1>2 DEF SchemaIsRecorded
<1> QED
  BY <1>1, <1>3 DEF MigrateInit, MigrateInv, RunsKeepTrack, OneRecorder

\* What is the same before and after a step of r that commits nothing.
MovesAlone(r) ==
    /\ UNCHANGED <<disk, schema, recorded>> /\ fails' \in 0..MaxFails
    /\ run' = [run EXCEPT ![r] = run'[r]]
    /\ tx' = [tx EXCEPT ![r] = tx'[r]]

\* Such a step keeps the invariant if what is said of r still holds, and r is not
\* the second to be ready to commit a file.
LEMMA MoveKeepsInv ==
    ASSUME MigrateInv, NEW r \in Runs, MovesAlone(r),
           run'[r] \in [at: RunSteps, listed: 0..LastFile, todo: SUBSET Files],
           tx'[r] \subseteq {"sql", "row"},
           run'[r].todo \subseteq 1..run'[r].listed,
           run'[r].at \in {"sql", "row", "commit"} => run'[r].todo # {},
           run'[r].at \in {"read", "select", "done"} => run'[r].todo = {},
           run'[r].at \in {"sql", "row", "commit", "done"} =>
               (1..run'[r].listed) \ run'[r].todo \subseteq recorded,
           run'[r].at = "row" => "sql" \in tx'[r],
           run'[r].at = "commit" =>
               /\ tx'[r] = {"sql", "row"} /\ run'[r].todo = run[r].todo
               /\ File(r) \notin recorded
               /\ \A other \in Runs \ {r} : run[other].at = "commit" => File(other) # File(r)
    PROVE  MigrateInv'
<1> USE DEF MigrateInv
<1>1. /\ run \in [Runs -> [at: RunSteps, listed: 0..LastFile, todo: SUBSET Files]]
      /\ tx \in [Runs -> SUBSET {"sql", "row"}]
  BY DEF MigrateTypeOK
<1>2. \A q \in Runs \ {r} : run'[q] = run[q] /\ tx'[q] = tx[q]
  BY <1>1 DEF MovesAlone
<1>3. MigrateTypeOK'
  BY <1>1 DEF MigrateTypeOK, MovesAlone
<1>4. SchemaIsRecorded'
  BY DEF SchemaIsRecorded, MovesAlone
<1>5. RunsKeepTrack'
  BY <1>2 DEF RunsKeepTrack, MovesAlone
<1>6. OneRecorder'
  <2> SUFFICES ASSUME NEW q \in Runs, run'[q].at = "commit"
               PROVE  /\ File(q)' \notin recorded'
                      /\ \A other \in Runs \ {q} :
                            run'[other].at = "commit" => File(other)' # File(q)'
    BY DEF OneRecorder
  <2>1. \A p \in Runs : run'[p].at = "commit" => File(p)' = File(p)
    BY <1>2 DEF File
  <2>2. recorded' = recorded
    BY DEF MovesAlone
  <2>3. CASE q = r
    BY <1>2, <2>1, <2>2, <2>3
  <2>4. CASE q # r
    BY <1>2, <2>1, <2>2, <2>4 DEF OneRecorder
  <2> QED
    BY <2>3, <2>4
<1> QED
  BY <1>3, <1>4, <1>5, <1>6

\* A COMMIT keeps it too, whatever becomes of the reply.
LEMMA CommitKeepsInv ==
    ASSUME MigrateInv, NEW r \in Runs, run[r].at = "commit", Committed(r),
           UNCHANGED disk, fails' \in 0..MaxFails,
           NextFile(r) \/ StepsTo(r, "undo")
    PROVE  MigrateInv'
<1> USE DEF MigrateInv
<1>1. /\ schema' \in Seq(Files) /\ recorded' \subseteq Files
      /\ recorded' = recorded \cup {File(r)}
      /\ SchemaIsRecorded'
      /\ tx' = [tx EXCEPT ![r] = {}]
  BY CommitAddsNext
<1>2. /\ run \in [Runs -> [at: RunSteps, listed: 0..LastFile, todo: SUBSET Files]]
      /\ tx \in [Runs -> SUBSET {"sql", "row"}]
  BY DEF MigrateTypeOK
<1>3. \A q \in Runs \ {r} : run'[q] = run[q] /\ tx'[q] = tx[q]
  BY <1>1, <1>2 DEF NextFile, StepsTo
<1>4. /\ run'[r].listed = run[r].listed
      /\ \/ run'[r].at = "undo" /\ run'[r].todo = run[r].todo
         \/ /\ run'[r].todo = run[r].todo \ {File(r)}
            /\ run'[r].at = IF run[r].todo = {File(r)} THEN "done" ELSE "sql"
  BY <1>2 DEF NextFile, StepsTo
<1>5. run' \in [Runs -> [at: RunSteps, listed: 0..LastFile, todo: SUBSET Files]]
  BY <1>2 DEF NextFile, StepsTo, RunSteps
<1>6. MigrateTypeOK'
  BY <1>1, <1>2, <1>5 DEF MigrateTypeOK
<1>7. RunsKeepTrack'
  <2>1. File(r) \in run[r].todo
    BY FileIsFirst DEF RunsKeepTrack
  <2>2. ASSUME NEW q \in Runs \ {r}
        PROVE  /\ run'[q].todo \subseteq 1..run'[q].listed
               /\ run'[q].at \in {"sql", "row", "commit"} => run'[q].todo # {}
               /\ run'[q].at \in {"read", "select", "done"} => run'[q].todo = {}
               /\ run'[q].at \in {"sql", "row", "commit", "done"} =>
                     (1..run'[q].listed) \ run'[q].todo \subseteq recorded'
               /\ run'[q].at = "row" => "sql" \in tx'[q]
               /\ run'[q].at = "commit" => {"sql", "row"} \subseteq tx'[q]
    BY <1>1, <1>3 DEF RunsKeepTrack
  <2>3. /\ run'[r].todo \subseteq 1..run'[r].listed
        /\ run'[r].at \in {"sql", "row", "commit"} => run'[r].todo # {}
        /\ run'[r].at \in {"read", "select", "done"} => run'[r].todo = {}
        /\ run'[r].at \in {"sql", "row", "commit", "done"} =>
              (1..run'[r].listed) \ run'[r].todo \subseteq recorded'
        /\ run'[r].at \notin {"row", "commit"}
    BY <1>1, <1>4, <2>1 DEF RunsKeepTrack
  <2> QED
    BY <2>2, <2>3 DEF RunsKeepTrack
<1>8. OneRecorder'
  <2> SUFFICES ASSUME NEW q \in Runs, run'[q].at = "commit"
               PROVE  /\ File(q)' \notin recorded'
                      /\ \A other \in Runs \ {q} :
                            run'[other].at = "commit" => File(other)' # File(q)'
    BY DEF OneRecorder
  <2>1. \A p \in Runs : run'[p].at = "commit" => p # r /\ run[p].at = "commit" /\ File(p)' = File(p)
    BY <1>3, <1>4 DEF File
  <2> QED
    BY <1>1, <2>1 DEF OneRecorder
<1> QED
  BY <1>1, <1>6, <1>7, <1>8

LEMMA MigrateInvNext == MigrateInv /\ [MigrateNext]_migrateVars => MigrateInv'
<1> SUFFICES ASSUME MigrateInv, [MigrateNext]_migrateVars PROVE MigrateInv'
  OBVIOUS
<1> USE DEF MigrateInv
<1>0. /\ run \in [Runs -> [at: RunSteps, listed: 0..LastFile, todo: SUBSET Files]]
      /\ tx \in [Runs -> SUBSET {"sql", "row"}]
      /\ disk \in 0..LastFile /\ fails \in 0..MaxFails /\ recorded \subseteq Files
      /\ LastFile \in Nat /\ MaxFails \in Nat
  BY MigrateAssumption DEF MigrateTypeOK
<1>1. CASE UNCHANGED migrateVars
  BY <1>1 DEF migrateVars, MigrateTypeOK, SchemaIsRecorded, RunsKeepTrack, OneRecorder, File
<1>2. CASE AddFile
  <2>1. MigrateTypeOK'
    BY <1>0, <1>2 DEF AddFile, MigrateTypeOK
  <2> QED
    BY <1>2, <2>1 DEF AddFile, SchemaIsRecorded, RunsKeepTrack, OneRecorder, File
<1>3. ASSUME NEW r \in Runs, StartRun(r) PROVE MigrateInv'
  <2>1. /\ run'[r] = [at |-> "read", listed |-> 0, todo |-> {}]
        /\ tx'[r] = tx[r] /\ MovesAlone(r)
    BY <1>0, <1>3 DEF StartRun, MovesAlone
  <2> QED
    BY <1>0, <2>1, MoveKeepsInv DEF RunSteps
<1>4. ASSUME NEW r \in Runs, ReadDir(r) PROVE MigrateInv'
  <2>1. /\ run'[r] = [run[r] EXCEPT !.at = "select", !.listed = disk]
        /\ tx'[r] = tx[r] /\ MovesAlone(r) /\ run[r].at = "read"
    BY <1>0, <1>4 DEF ReadDir, MovesAlone
  <2> QED
    BY <1>0, <2>1, MoveKeepsInv DEF RunSteps, RunsKeepTrack
<1>5. ASSUME NEW r \in Runs, SelectNames(r) PROVE MigrateInv'
  <2>1. /\ run'[r] = [run[r] EXCEPT !.todo = Pending(r),
                                    !.at = IF Pending(r) = {} THEN "done" ELSE "sql"]
        /\ tx'[r] = tx[r] /\ MovesAlone(r)
    BY <1>0, <1>5 DEF SelectNames, MovesAlone
  <2>2. Pending(r) \subseteq 1..run[r].listed /\ Pending(r) \subseteq Files
    BY <1>0 DEF Pending, Files
  <2>3. /\ run'[r].at = (IF Pending(r) = {} THEN "done" ELSE "sql")
        /\ run'[r].listed = run[r].listed /\ run'[r].todo = Pending(r)
        /\ run'[r] \in [at: RunSteps, listed: 0..LastFile, todo: SUBSET Files]
    <3> DEFINE step == IF Pending(r) = {} THEN "done" ELSE "sql"
    <3>1. step \in RunSteps /\ run[r] \in [at: RunSteps, listed: 0..LastFile, todo: SUBSET Files]
      BY <1>0 DEF RunSteps
    <3>2. run'[r] = [run[r] EXCEPT !.todo = Pending(r), !.at = step]
      BY <2>1
    <3> HIDE DEF step
    <3> QED
      BY <2>2, <3>1, <3>2 DEF step
  <2>4. (1..run[r].listed) \ Pending(r) \subseteq recorded
    BY DEF Pending
  <2> QED
    BY <1>0, <2>1, <2>2, <2>3, <2>4, MoveKeepsInv
<1>6. ASSUME NEW r \in Runs, ApplyFile(r) PROVE MigrateInv'
  <2>1. /\ run[r].at = "sql" /\ MovesAlone(r)
        /\ \/ run'[r] = [run[r] EXCEPT !.at = "undo"] /\ tx'[r] = tx[r]
           \/ run'[r] = [run[r] EXCEPT !.at = "row"] /\ tx'[r] = tx[r] \cup {"sql"}
    BY <1>0, <1>6 DEF ApplyFile, StepsTo, Does, MovesAlone
  <2> QED
    BY <1>0, <2>1, MoveKeepsInv DEF RunSteps, RunsKeepTrack
<1>7. ASSUME NEW r \in Runs, RecordFile(r) PROVE MigrateInv'
  <2>1. /\ run[r].at = "row" /\ MovesAlone(r) /\ ~Waits(r, "row")
        /\ \/ run'[r] = [run[r] EXCEPT !.at = "undo"] /\ tx'[r] = tx[r]
           \/ /\ run'[r] = [run[r] EXCEPT !.at = "commit"] /\ tx'[r] = tx[r] \cup {"row"}
              /\ File(r) \notin recorded
    BY <1>0, <1>7 DEF RecordFile, StepsTo, Does, MovesAlone
  <2>2. \A other \in Runs \ {r} : run[other].at = "commit" => File(other) # File(r)
    BY <2>1 DEF Waits, RunsKeepTrack
  <2>3. "sql" \in tx[r] /\ tx[r] \subseteq {"sql", "row"}
    BY <1>0, <2>1 DEF RunsKeepTrack
  <2> QED
    BY <1>0, <2>1, <2>2, <2>3, MoveKeepsInv DEF RunSteps, RunsKeepTrack
<1>8. ASSUME NEW r \in Runs, Commit(r) \/ CommitUnanswered(r) PROVE MigrateInv'
  <2>1. /\ run[r].at = "commit" /\ Committed(r) /\ UNCHANGED disk
        /\ fails' \in 0..MaxFails /\ (NextFile(r) \/ StepsTo(r, "undo"))
    BY <1>0, <1>8 DEF Commit, CommitUnanswered, Fails
  <2> QED
    BY <2>1, CommitKeepsInv
<1>9. ASSUME NEW r \in Runs, Undo(r) \/ SessionEnds(r) PROVE MigrateInv'
  <2>1. /\ MovesAlone(r)
        /\ run'[r] = [run[r] EXCEPT !.at = "failed"] /\ tx'[r] = {}
    BY <1>0, <1>9 DEF Undo, SessionEnds, StepsTo, Drops, MovesAlone
  <2> QED
    BY <1>0, <2>1, MoveKeepsInv DEF RunSteps, RunsKeepTrack
<1>10. ASSUME NEW r \in Runs, QueryThrows(r) \/ Killed(r) PROVE MigrateInv'
  <2>1. /\ MovesAlone(r) /\ tx'[r] = tx[r]
        /\ \E step \in {"failed", "undo", "killed"} : run'[r] = [run[r] EXCEPT !.at = step]
    BY <1>0, <1>10 DEF QueryThrows, Killed, Fails, StepsTo, MovesAlone
  <2> QED
    BY <1>0, <2>1, MoveKeepsInv DEF RunSteps, RunsKeepTrack
<1> QED
  BY <1>1, <1>2, <1>3, <1>4, <1>5, <1>6, <1>7, <1>8, <1>9, <1>10 DEF MigrateNext, RunGoesOn

LEMMA MigrateInvariant == MigrateSpec => []MigrateInv
  BY MigrateInvInit, MigrateInvNext, PTL DEF MigrateSpec

\* However many runs meet, die or lose a reply, the statements of a file and the
\* row that records it are there together, each file is applied once, and none
\* before an earlier one (migrate.ts:81-82).
THEOREM SchemaMatchesRecord == MigrateSpec => []SchemaIsRecorded
  BY MigrateInvariant, PTL DEF MigrateInv

\* Exit 0 means that every file that was on disk is applied (migrate.ts:107).
THEOREM ExitZeroTellsTheTruth == MigrateSpec => []ExitZeroIsUpToDate
<1>1. MigrateInv => ExitZeroIsUpToDate
  <2> SUFFICES ASSUME MigrateInv, NEW r \in Runs, run[r].at = "done"
               PROVE  1..run[r].listed \subseteq Range(schema)
    BY DEF ExitZeroIsUpToDate
  <2>1. 1..run[r].listed \subseteq recorded
    BY DEF MigrateInv, RunsKeepTrack
  <2>2. recorded \subseteq Range(schema)
    BY DEF MigrateInv, SchemaIsRecorded, Range
  <2> QED
    BY <2>1, <2>2
<1> QED
  BY <1>1, MigrateInvariant, PTL

-----------------------------------------------------------------------------
(* Dashboard.                                                              *)

DashboardInv == DashboardTypeOK /\ AnswersAreTrue /\ ReplaysKeepToTheirList

\* LRANGE answers with no more than it was asked for.
LEMMA NewestIsBrief ==
    ASSUME dlq \in Seq(Jobs)
    PROVE  /\ Newest \in Seq(Jobs) /\ Len(Newest) <= Limit
           /\ Len(dlq) <= Limit => Newest = dlq
<1>1. Limit \in Nat \ {0} /\ Len(dlq) \in Nat
  BY DashboardAssumption
<1> QED
  BY <1>1 DEF Newest

\* A list shows no more jobs than it has entries.
LEMMA ListedJobs ==
    ASSUME NEW list \in Seq(Jobs)
    PROVE  /\ Range(list) \subseteq Jobs /\ IsFiniteSet(Range(list))
           /\ \A rows \in SUBSET Range(list) :
                 Cardinality(rows) \in Nat /\ Cardinality(rows) <= Len(list)
<1>0. Len(list) \in Nat /\ DOMAIN list = 1..Len(list)
      /\ list \in [1..Len(list) -> Jobs]
  OBVIOUS
<1>1. list \in Surjection(1..Len(list), Range(list))
  <2>1. Range(list) = {list[i] : i \in 1..Len(list)}
    BY <1>0 DEF Range
  <2>2. list \in [1..Len(list) -> Range(list)]
    BY <1>0, <2>1
  <2> QED
    BY <2>1, <2>2 DEF Surjection
<1>2. IsFiniteSet(1..Len(list)) /\ Cardinality(1..Len(list)) = Len(list)
  BY <1>0, FS_Interval
<1>3. /\ IsFiniteSet(Range(list)) /\ Cardinality(Range(list)) <= Len(list)
  BY <1>1, <1>2, FS_Surjection
<1>4. ASSUME NEW rows \in SUBSET Range(list)
      PROVE  Cardinality(rows) \in Nat /\ Cardinality(rows) <= Len(list)
  <2>1. /\ IsFiniteSet(rows) /\ Cardinality(rows) <= Cardinality(Range(list))
        /\ Cardinality(rows) \in Nat /\ Cardinality(Range(list)) \in Nat
    BY <1>3, FS_Subset, FS_CardinalityType
  <2> QED
    BY <1>0, <1>3, <2>1
<1> QED
  BY <1>3, <1>4 DEF Range

\* What the api answers is true when it is answered.
LEMMA AnswerIsTrue ==
    ASSUME DashboardTypeOK
    PROVE  LET answer == [rows |-> Listed, current |-> Len(dlq) <= Limit]
           IN  answer \in Answers /\ IsTrue(answer)
<1> DEFINE answer == [rows |-> Listed, current |-> Len(dlq) <= Limit]
<1>1. dlq \in Seq(Jobs) /\ Limit \in Nat
  BY DashboardAssumption DEF DashboardTypeOK, QueueTypeOK
<1>2. /\ Newest \in Seq(Jobs) /\ Len(Newest) <= Limit
      /\ Len(dlq) <= Limit => Newest = dlq
  BY <1>1, NewestIsBrief
<1>3. Listed \subseteq Range(Newest) /\ Listed \in SUBSET Jobs
  BY <1>2, ListedJobs DEF Listed
<1>4. Cardinality(Listed) \in Nat /\ Cardinality(Listed) <= Len(Newest) /\ Len(Newest) \in Nat
  BY <1>2, <1>3, ListedJobs
<1>5. Len(dlq) <= Limit => NextPopsAreAmong(Cardinality(Listed), Listed \cup ghosts)
  <2> SUFFICES ASSUME Len(dlq) <= Limit, NEW i \in 1..Cardinality(Listed)
               PROVE  dlq[i] \in Listed \cup ghosts
    BY <1>2, <1>4 DEF NextPopsAreAmong
  <2>1. i \in 1..Len(dlq)
    BY <1>1, <1>2, <1>4
  <2>2. dlq[i] \in Range(Newest)
    BY <1>1, <1>2, <2>1 DEF Range
  <2> QED
    BY <2>2 DEF Listed
<1>6. /\ answer \in Answers
      /\ answer.rows = Listed /\ answer.current = (Len(dlq) <= Limit)
  <2>1. (Len(dlq) <= Limit) \in BOOLEAN
    OBVIOUS
  <2> QED
    BY <1>3, <2>1, Zenon DEF Answers
<1>7. Cardinality(Listed) <= Limit
  BY <1>1, <1>2, <1>4
<1> HIDE DEF answer
<1>8. IsTrue(answer)
  BY <1>5, <1>6, <1>7 DEF IsTrue
<1> QED
  BY <1>6, <1>8 DEF answer

\* A job that dies is buried behind the others.
LEMMA OldestStay ==
    ASSUME dlq \in Seq(Jobs), NEW j \in Jobs, dlq' = Append(dlq, j),
           NEW n \in Nat, NEW jobs, NextPopsAreAmong(n, jobs)
    PROVE  n <= Len(dlq') /\ \A i \in 1..n : dlq'[i] \in jobs
  BY DEF NextPopsAreAmong

\* A pop finds one of those that were foreseen, and leaves the others in front.
LEMMA OldestGoes ==
    ASSUME dlq \in Seq(Jobs), dlq # << >>, dlq' = Tail(dlq),
           NEW n \in Nat \ {0}, NEW jobs, NextPopsAreAmong(n, jobs)
    PROVE  /\ Head(dlq) \in jobs
           /\ n - 1 <= Len(dlq') /\ \A i \in 1..(n - 1) : dlq'[i] \in jobs
<1>1. 1 \in 1..n /\ Head(dlq) = dlq[1] /\ Len(dlq') = Len(dlq) - 1 /\ Len(dlq) \in Nat \ {0}
  OBVIOUS
<1>2. \A i \in 1..(n - 1) : dlq'[i] = dlq[i + 1] /\ i + 1 \in 1..n
  BY <1>1 DEF NextPopsAreAmong
<1> QED
  BY <1>1, <1>2 DEF NextPopsAreAmong

\* Taking one answer off the wire leaves the others as they were.
LEMMA OthersStay ==
    ASSUME answers \in Seq(Answers), NEW i \in 1..Len(answers)
    PROVE  /\ Without(i) \in Seq(Answers)
           /\ \A k \in 1..Len(Without(i)) : \E m \in 1..Len(answers) : Without(i)[k] = answers[m]
<1> DEFINE front == SubSeq(answers, 1, i - 1)
           back == SubSeq(answers, i + 1, Len(answers))
<1>1. Len(answers) \in Nat /\ i \in Nat /\ 1 <= i /\ i <= Len(answers)
  OBVIOUS
<1>2. /\ front \in Seq(Answers) /\ Len(front) = i - 1
      /\ \A k \in 1..(i - 1) : front[k] = answers[k]
  BY <1>1
<1>3. /\ back \in Seq(Answers) /\ Len(back) = Len(answers) - i
      /\ \A k \in 1..(Len(answers) - i) : back[k] = answers[i + k]
  BY <1>1
<1>4. /\ Without(i) \in Seq(Answers) /\ Len(Without(i)) = Len(answers) - 1
      /\ \A k \in 1..(Len(answers) - 1) :
            Without(i)[k] = IF k <= i - 1 THEN front[k] ELSE back[k - (i - 1)]
  <2>1. Without(i) = front \o back
    BY DEF Without
  <2> HIDE DEF front, back
  <2>0. front \in Seq(Answers) /\ back \in Seq(Answers)
    BY <1>2, <1>3
  <2>2. Without(i) \in Seq(Answers) /\ Len(Without(i)) = Len(front) + Len(back)
    BY <2>0, <2>1
  <2>3. \A k \in 1..(Len(front) + Len(back)) :
            Without(i)[k] = IF k <= Len(front) THEN front[k] ELSE back[k - Len(front)]
    BY <1>2, <1>3, <2>1
  <2> QED
    BY <1>1, <1>2, <1>3, <2>2, <2>3
<1> HIDE DEF front, back
<1>5. ASSUME NEW k \in 1..Len(Without(i))
      PROVE  \E m \in 1..Len(answers) : Without(i)[k] = answers[m]
  <2>1. k \in 1..(Len(answers) - 1)
    BY <1>4
  <2>2. Without(i)[k] = IF k <= i - 1 THEN front[k] ELSE back[k - (i - 1)]
    BY <1>4, <2>1
  <2>3. CASE k <= i - 1
    <3>1. k \in 1..(i - 1) /\ k \in 1..Len(answers)
      BY <1>1, <2>1, <2>3
    <3>2. Without(i)[k] = answers[k]
      BY <1>2, <2>2, <2>3, <3>1
    <3> QED
      BY <3>1, <3>2
  <2>4. CASE ~(k <= i - 1)
    <3>1. /\ k - (i - 1) \in 1..(Len(answers) - i)
          /\ k + 1 \in 1..Len(answers) /\ i + (k - (i - 1)) = k + 1
      BY <1>1, <2>1, <2>4
    <3>2. Without(i)[k] = answers[k + 1]
      BY <1>3, <2>2, <2>4, <3>1
    <3> QED
      BY <3>1, <3>2
  <2> QED
    BY <2>3, <2>4
<1> QED
  BY <1>4, <1>5

LEMMA DashboardInvInit == DashboardInit => DashboardInv
<1> SUFFICES ASSUME DashboardInit PROVE DashboardInv
  OBVIOUS
<1>1. QueueTypeOK
  BY DEF DashboardInit, QueueInit, QueueTypeOK, LeaseStates, DelayStates
<1>2. NoAnswer \in Answers /\ NoReplay \in Replays /\ MaxPolls \in Nat \ {0} /\ Limit \in Nat
  BY DashboardAssumption DEF NoAnswer, NoReplay, Answers, Replays
<1>3. DashboardTypeOK
  BY <1>1, <1>2 DEF DashboardInit, DashboardTypeOK
<1>4. AnswersAreTrue
  <2>1. Cardinality({}) = 0
    BY FS_EmptySet
  <2>2. IsTrue(view) /\ Len(answers) = 0
    BY <1>2, <2>1 DEF DashboardInit, IsTrue, NoAnswer
  <2> QED
    BY <2>2 DEF AnswersAreTrue
<1>5. ReplaysKeepToTheirList
  BY DEF DashboardInit, ReplaysKeepToTheirList, NoReplay
<1> QED
  BY <1>3, <1>4, <1>5 DEF DashboardInv

\* A step that leaves the DLQ as it is keeps the answers true, if it makes none up.
LEMMA AnswersKept ==
    ASSUME AnswersAreTrue, UNCHANGED <<dlq, ghosts>>,
           view' = view \/ \E m \in 1..Len(answers) : view' = answers[m],
           \A k \in 1..Len(answers') :
               IsTrue(answers'[k]) \/ \E m \in 1..Len(answers) : answers'[k] = answers[m]
    PROVE  AnswersAreTrue'
<1>1. IsTrue(view')
  BY DEF AnswersAreTrue
<1>2. \A k \in 1..Len(answers') : IsTrue(answers'[k])
  BY DEF AnswersAreTrue
<1> QED
  BY <1>1, <1>2 DEF AnswersAreTrue, IsTrue, NextPopsAreAmong

\* It keeps replays to their lists, if what they still have to pop is the same.
LEMMA ReplaysKept ==
    ASSUME ReplaysKeepToTheirList, dlq' = dlq,
           \A c \in Clicks : replays'[c].expected # Jobs =>
               /\ replays'[c].expected = replays[c].expected
               /\ replays'[c].left = replays[c].left
               /\ replays'[c].hand \subseteq replays[c].hand
    PROVE  ReplaysKeepToTheirList'
  BY DEF ReplaysKeepToTheirList, NextPopsAreAmong

\* fetch only counts the request.
LEMMA FetchTyped ==
    ASSUME DashboardTypeOK, Fetch \/ UNCHANGED <<asked, answers>>
    PROVE  asked' \in 0..MaxPolls /\ answers' = answers
<1>1. asked \in 0..MaxPolls /\ Len(answers) \in Nat /\ MaxPolls \in Nat
  BY DashboardAssumption DEF DashboardTypeOK
<1> QED
  BY <1>1 DEF Fetch

LEMMA BuryKeepsInv ==
    ASSUME DashboardInv, NEW j \in Jobs, Bury(j), UNCHANGED ghosts
    PROVE  DashboardInv'
<1> USE DEF DashboardInv
<1>1. /\ dlq \in Seq(Jobs) /\ dlq' = Append(dlq, j) /\ Limit \in Nat
      /\ UNCHANGED panelVars
  BY DashboardAssumption DEF DashboardTypeOK, QueueTypeOK, Bury, DeadLetter
<1>2. view \in Answers /\ answers \in Seq(Answers) /\ replays \in [Clicks -> Replays]
  BY DEF DashboardTypeOK
<1>3. DashboardTypeOK'
  <2>1. QueueTypeOK'
    BY <1>1 DEF DashboardTypeOK, QueueTypeOK, Bury, DeadLetter, DropClaim, LeaseStates
  <2> QED
    BY <1>1, <2>1 DEF DashboardTypeOK, panelVars
<1>4. ASSUME NEW answer \in Answers, IsTrue(answer)
      PROVE  /\ Cardinality(answer.rows) <= Limit
             /\ answer.current =>
                   /\ Cardinality(answer.rows) <= Len(dlq')
                   /\ \A i \in 1..Cardinality(answer.rows) : dlq'[i] \in answer.rows \cup ghosts
  <2>1. answer.rows \in SUBSET Jobs
    BY DEF Answers
  <2>2. Cardinality(answer.rows) \in Nat
    BY <2>1, QueueAssumption, FS_Subset, FS_CardinalityType
  <2> QED
    BY <1>1, <1>4, <2>2, OldestStay DEF IsTrue
<1>5. AnswersAreTrue'
  <2>1. UNCHANGED <<view, answers, ghosts>>
    BY <1>1 DEF panelVars
  <2>2. \A i \in 1..Len(answers) : answers[i] \in Answers
    BY <1>2
  <2> QED
    BY <1>2, <1>4, <2>1, <2>2 DEF AnswersAreTrue, IsTrue, NextPopsAreAmong
<1>6. ReplaysKeepToTheirList'
  <2> SUFFICES ASSUME NEW c \in Clicks, replays[c].expected # Jobs
               PROVE  /\ replays[c].hand \subseteq replays[c].expected
                      /\ replays[c].left <= Len(dlq')
                      /\ \A i \in 1..replays[c].left : dlq'[i] \in replays[c].expected
    BY <1>1 DEF ReplaysKeepToTheirList, NextPopsAreAmong, panelVars
  <2>1. replays[c].left \in Nat
    BY <1>1, <1>2 DEF Replays
  <2> QED
    BY <1>1, <2>1, OldestStay DEF ReplaysKeepToTheirList
<1> QED
  BY <1>3, <1>5, <1>6

\* A pop makes every list outdated, and every replay but its own a stranger to
\* what it was clicked for.
LEMMA PopKeepsInv ==
    ASSUME DashboardInv, NEW c \in Clicks, ReplayPops(c), UNCHANGED ghosts
    PROVE  DashboardInv'
<1> USE DEF DashboardInv
<1>1. PICK j \in Jobs :
        /\ PopDlq(j)
        /\ replays' = [d \in Clicks |->
              IF d = c THEN [replays[c] EXCEPT !.left = @ - 1, !.hand = {j}]
                       ELSE [replays[d] EXCEPT !.expected = Jobs]]
  BY DEF ReplayPops
<1>2. /\ dlq \in Seq(Jobs) /\ dlq # << >> /\ dlq' = Tail(dlq) /\ j = Head(dlq)
      /\ Limit \in Nat
  BY <1>1, DashboardAssumption DEF DashboardTypeOK, QueueTypeOK, PopDlq
<1>3. /\ view \in Answers /\ answers \in Seq(Answers) /\ replays \in [Clicks -> Replays]
      /\ Len(answers) \in Nat
  BY DEF DashboardTypeOK
<1>4. replays[c] \in Replays /\ replays[c].left \in (0..Limit) \ {0} /\ replays[c].left - 1 \in 0..Limit
  BY <1>2, <1>3 DEF ReplayPops, Replays
<1>5. \A answer \in Answers : /\ Outdated(answer) \in Answers
                              /\ Outdated(answer).rows = answer.rows
                              /\ Outdated(answer).current = FALSE
  BY DEF Answers, Outdated
<1>6. /\ answers' \in Seq(Answers) /\ Len(answers') = Len(answers)
      /\ \A i \in 1..Len(answers) : answers'[i] = Outdated(answers[i])
  <2>1. answers' = [i \in 1..Len(answers) |-> Outdated(answers[i])]
    BY DEF ReplayPops
  <2>2. \A i \in 1..Len(answers) : answers[i] \in Answers
    BY <1>3
  <2> QED
    BY <1>3, <1>5, <2>1, <2>2
<1>7. replays' \in [Clicks -> Replays]
  BY <1>1, <1>3, <1>4 DEF Replays
<1>8. DashboardTypeOK'
  <2>1. QueueTypeOK'
    BY <1>1, <1>2 DEF DashboardTypeOK, QueueTypeOK, PopDlq
  <2> QED
    BY <1>3, <1>5, <1>6, <1>7, <2>1 DEF DashboardTypeOK, ReplayPops
<1>9. AnswersAreTrue'
  <2>1. view' = Outdated(view) /\ \A i \in 1..Len(answers) : answers[i] \in Answers
    BY <1>3 DEF ReplayPops
  <2>2. view'.rows = view.rows /\ ~view'.current
    BY <1>3, <1>5, <2>1
  <2>3. \A i \in 1..Len(answers) : answers'[i].rows = answers[i].rows /\ ~answers'[i].current
    BY <1>5, <1>6, <2>1
  <2> QED
    BY <1>6, <2>2, <2>3 DEF AnswersAreTrue, IsTrue
<1>10. ReplaysKeepToTheirList'
  <2>1. ASSUME NEW d \in Clicks \ {c} PROVE replays'[d].expected = Jobs
    BY <1>1, <1>3 DEF Replays
  <2>2. /\ replays'[c].expected = replays[c].expected
        /\ replays'[c].left = replays[c].left - 1 /\ replays'[c].hand = {j}
    BY <1>1, <1>4 DEF Replays
  <2>3. ASSUME replays[c].expected # Jobs
        PROVE  /\ {j} \subseteq replays[c].expected
               /\ NextPopsAreAmong(replays[c].left, replays[c].expected)'
    <3>1. NextPopsAreAmong(replays[c].left, replays[c].expected)
      BY <2>3 DEF ReplaysKeepToTheirList
    <3>2. /\ Head(dlq) \in replays[c].expected
          /\ replays[c].left - 1 <= Len(dlq')
          /\ \A i \in 1..(replays[c].left - 1) : dlq'[i] \in replays[c].expected
      BY <1>2, <1>4, <3>1, OldestGoes
    <3> QED
      BY <1>2, <2>2, <3>2 DEF NextPopsAreAmong
  <2> QED
    BY <2>1, <2>2, <2>3 DEF ReplaysKeepToTheirList, NextPopsAreAmong
<1> QED
  BY <1>8, <1>9, <1>10

LEMMA PollsKeepInv ==
    ASSUME DashboardInv, Polls, UNCHANGED ghosts
    PROVE  DashboardInv'
<1> USE DEF DashboardInv
<1>1. /\ answers \in Seq(Answers) /\ Len(answers) \in Nat /\ view \in Answers
      /\ asked \in 0..MaxPolls /\ MaxPolls \in Nat
      /\ UNCHANGED <<redisVars, live, tab, replays>>
  BY DashboardAssumption
     DEF DashboardTypeOK, Polls, PollTick, PollAnswered, PollArrives, PollFails
<1>2. ReplaysKeepToTheirList'
  BY <1>1, ReplaysKept DEF redisVars
<1>3. ASSUME view' = view \/ \E m \in 1..Len(answers) : view' = answers[m],
             answers' \in Seq(Answers), asked' \in 0..MaxPolls,
             \A k \in 1..Len(answers') :
                 IsTrue(answers'[k]) \/ \E m \in 1..Len(answers) : answers'[k] = answers[m]
      PROVE  DashboardInv'
  <2>1. AnswersAreTrue'
    BY <1>1, <1>3, AnswersKept DEF redisVars
  <2>2. view' \in Answers
    BY <1>1, <1>3
  <2>3. DashboardTypeOK'
    BY <1>1, <1>3, <2>2 DEF DashboardTypeOK, QueueTypeOK, redisVars
  <2> QED
    BY <1>2, <2>1, <2>3
<1>4. CASE PollTick
  BY <1>1, <1>3, <1>4, FetchTyped DEF PollTick
<1>5. CASE PollAnswered
  <2> DEFINE answer == [rows |-> Listed, current |-> Len(dlq) <= Limit]
  <2>1. answer \in Answers /\ IsTrue(answer)
    BY AnswerIsTrue
  <2>2. answers' = Append(answers, answer) /\ asked' \in 0..MaxPolls /\ view' = view
    BY <1>1, <1>5 DEF PollAnswered
  <2> HIDE DEF answer
  <2>3. /\ answers' \in Seq(Answers)
        /\ \A k \in 1..Len(answers') :
              answers'[k] = answer \/ \E m \in 1..Len(answers) : answers'[k] = answers[m]
    BY <1>1, <2>1, <2>2
  <2> QED
    BY <1>3, <2>1, <2>2, <2>3
<1>6. CASE PollArrives
  <2>1. PICK i \in 1..Len(answers) : view' = answers[i] /\ answers' = Without(i)
    BY <1>6 DEF PollArrives
  <2>2. /\ answers' \in Seq(Answers)
        /\ \A k \in 1..Len(answers') : \E m \in 1..Len(answers) : answers'[k] = answers[m]
    BY <1>1, <2>1, OthersStay
  <2>3. asked' \in 0..MaxPolls
    BY <1>1, <1>6 DEF PollArrives
  <2> QED
    BY <1>3, <2>1, <2>2, <2>3
<1>7. CASE PollFails
  <2>1. view' = view /\ asked' \in 0..MaxPolls
    BY <1>1, <1>7 DEF PollFails
  <2>2. answers' = answers \/ \E i \in 1..Len(answers) : answers' = Without(i)
    BY <1>7 DEF PollFails
  <2>3. /\ answers' \in Seq(Answers)
        /\ \A k \in 1..Len(answers') : \E m \in 1..Len(answers) : answers'[k] = answers[m]
    <3>1. CASE answers' = answers
      BY <1>1, <3>1
    <3>2. CASE \E i \in 1..Len(answers) : answers' = Without(i)
      BY <1>1, <3>2, OthersStay
    <3> QED
      BY <2>2, <3>1, <3>2
  <2> QED
    BY <1>3, <2>1, <2>3
<1> QED
  BY <1>4, <1>5, <1>6, <1>7 DEF Polls

\* What else happens in the panel pops nothing and adds nothing to a list.
LEMMA PanelKeepsInv ==
    ASSUME DashboardInv, UNCHANGED ghosts,
           \/ Switch
           \/ \E c \in Clicks : ReplayGoesOn(c) \/ ReplayEnds(c) \/ ReplayRejected(c)
    PROVE  DashboardInv'
<1> USE DEF DashboardInv
<1>1. /\ answers \in Seq(Answers) /\ view \in Answers /\ replays \in [Clicks -> Replays]
      /\ NoReplay \in Replays /\ NoReplay.expected = Jobs
  BY DashboardAssumption DEF DashboardTypeOK, NoReplay, Replays
<1>2. UNCHANGED <<redisVars, view>> /\ (Fetch \/ UNCHANGED <<asked, answers>>)
  BY DEF Switch, SetPanel, ReplayGoesOn, ReplayEnds, ReplayRejected
<1>3. live' \in BOOLEAN /\ tab' \in {"jobs", "dlq"}
  BY DEF DashboardTypeOK, Switch, SetPanel, ReplayGoesOn, ReplayEnds, ReplayRejected
<1> DEFINE KeepsReplay(d) ==
               /\ replays'[d] \in Replays
               /\ replays'[d].expected # Jobs =>
                    /\ replays'[d].expected = replays[d].expected
                    /\ replays'[d].left = replays[d].left
                    /\ replays'[d].hand \subseteq replays[d].hand
<1>4. replays' = [d \in Clicks |-> replays'[d]] /\ \A d \in Clicks : KeepsReplay(d)
  <2>1. CASE Switch
    <3>1. PICK openTab \in {"jobs", "dlq"} :
            replays' = [c \in Clicks |-> IF openTab = "jobs" /\ replays[c].by = "panel"
                                        THEN [replays[c] EXCEPT !.by = "unattended"]
                                        ELSE replays[c]]
      BY <2>1 DEF Switch, SetPanel, DashboardTypeOK
    <3> QED
      BY <1>1, <3>1 DEF Replays
  <2>2. ASSUME NEW c \in Clicks, ReplayGoesOn(c) \/ ReplayEnds(c) \/ ReplayRejected(c)
        PROVE  replays' = [d \in Clicks |-> replays'[d]] /\ \A d \in Clicks : KeepsReplay(d)
    <3>1. \/ replays' = [replays EXCEPT ![c].hand = {}]
          \/ replays' = [replays EXCEPT ![c] = NoReplay]
          \/ replays' = [replays EXCEPT ![c].by = "unattended"]
      BY <2>2 DEF ReplayGoesOn, ReplayEnds, ReplayRejected
    <3>2. replays' = [d \in Clicks |-> replays'[d]]
      BY <1>1, <3>1
    <3>3. \A d \in Clicks : d # c => replays'[d] = replays[d]
      BY <1>1, <3>1
    <3>4. \/ replays'[c] = [replays[c] EXCEPT !.hand = {}]
          \/ replays'[c] = NoReplay
          \/ replays'[c] = [replays[c] EXCEPT !.by = "unattended"]
      BY <1>1, <3>1
    <3>5. KeepsReplay(c)
      BY <1>1, <3>4 DEF Replays
    <3>6. \A d \in Clicks : d # c => KeepsReplay(d)
      BY <1>1, <3>3
    <3> QED
      BY <3>2, <3>5, <3>6
  <2> QED
    BY <2>1, <2>2
<1>5. asked' \in 0..MaxPolls /\ answers' = answers
  BY <1>2, FetchTyped
<1>6. DashboardTypeOK'
  BY <1>2, <1>3, <1>4, <1>5 DEF DashboardTypeOK, QueueTypeOK, redisVars
<1>7. AnswersAreTrue'
  BY <1>2, <1>5, AnswersKept DEF redisVars
<1>8. ReplaysKeepToTheirList'
  BY <1>2, <1>4, ReplaysKept DEF redisVars
<1> QED
  BY <1>6, <1>7, <1>8

\* A click promises to pop no more than the list shown has, and while the list is
\* current these are what the pops will find.
LEMMA ClickKeepsInv ==
    ASSUME DashboardInv, NEW c \in Clicks, ClickReplay(c), UNCHANGED ghosts
    PROVE  DashboardInv'
<1> USE DEF DashboardInv
<1> DEFINE promised == IF view.current THEN view.rows \cup ghosts ELSE Jobs
           click == [by |-> "panel", left |-> Cardinality(view.rows), hand |-> {},
                     expected |-> promised]
<1>1. /\ view \in Answers /\ ghosts \in SUBSET Jobs /\ Limit \in Nat
      /\ replays \in [Clicks -> Replays] /\ view.rows \in SUBSET Jobs
  BY DashboardAssumption DEF DashboardTypeOK, Answers
<1>2. /\ UNCHANGED <<redisVars, live, tab, asked, answers, view, ghosts>>
      /\ replays' = [replays EXCEPT ![c] = click]
  BY DEF ClickReplay
<1>3. Cardinality(view.rows) \in 0..Limit
  <2>1. IsFiniteSet(view.rows)
    BY <1>1, FS_Subset, QueueAssumption
  <2>2. Cardinality(view.rows) \in Nat
    BY <2>1, FS_CardinalityType
  <2> QED
    BY <1>1, <2>2 DEF AnswersAreTrue, IsTrue
<1>4. click \in Replays
  <2>1. promised \in SUBSET Jobs
    BY <1>1
  <2> HIDE DEF promised
  <2> QED
    BY <1>3, <2>1 DEF Replays
<1>5. promised # Jobs => NextPopsAreAmong(Cardinality(view.rows), promised)
  BY DEF AnswersAreTrue, IsTrue
<1>6. click.hand = {} /\ click.expected = promised /\ click.left = Cardinality(view.rows)
  OBVIOUS
<1> HIDE DEF click, promised
<1>7. replays' \in [Clicks -> Replays]
  BY <1>1, <1>2, <1>4
<1>8. DashboardTypeOK'
  BY <1>2, <1>7 DEF DashboardTypeOK, QueueTypeOK, redisVars
<1>9. AnswersAreTrue'
  BY <1>2, AnswersKept DEF redisVars
<1>10. ReplaysKeepToTheirList'
  <2> SUFFICES ASSUME NEW d \in Clicks, replays'[d].expected # Jobs
               PROVE  /\ replays'[d].hand \subseteq replays'[d].expected
                      /\ replays'[d].left <= Len(dlq')
                      /\ \A i \in 1..replays'[d].left : dlq'[i] \in replays'[d].expected
    BY DEF ReplaysKeepToTheirList, NextPopsAreAmong
  <2>1. dlq' = dlq
    BY <1>2 DEF redisVars
  <2>2. CASE d = c
    <3>1. replays'[d] = click
      BY <1>1, <1>2, <2>2
    <3> QED
      BY <1>5, <1>6, <2>1, <3>1 DEF NextPopsAreAmong
  <2>3. CASE d # c
    <3>1. replays'[d] = replays[d]
      BY <1>1, <1>2, <2>3
    <3> QED
      BY <2>1, <3>1 DEF ReplaysKeepToTheirList, NextPopsAreAmong
  <2> QED
    BY <2>2, <2>3
<1> QED
  BY <1>8, <1>9, <1>10

LEMMA DashboardInvNext == DashboardInv /\ [DashboardNext]_dashboardVars => DashboardInv'
<1>1. ASSUME DashboardInv, UNCHANGED dashboardVars PROVE DashboardInv'
  BY <1>1 DEF DashboardInv, DashboardTypeOK, QueueTypeOK, AnswersAreTrue, IsTrue,
              ReplaysKeepToTheirList, NextPopsAreAmong, dashboardVars, panelVars, redisVars
<1>2. ASSUME DashboardInv, DashboardNext PROVE DashboardInv'
  <2>1. UNCHANGED ghosts
    BY <1>2 DEF DashboardNext
  <2>2. CASE \E j \in Jobs : Bury(j)
    BY <1>2, <2>1, <2>2, BuryKeepsInv
  <2>3. CASE Switch
    BY <1>2, <2>1, <2>3, PanelKeepsInv
  <2>4. CASE Polls
    BY <1>2, <2>1, <2>4, PollsKeepInv
  <2>5. ASSUME NEW c \in Clicks, ReplayStep(c) PROVE DashboardInv'
    <3>1. CASE ClickReplay(c)
      BY <1>2, <2>1, <3>1, ClickKeepsInv
    <3>2. CASE ReplayPops(c)
      BY <1>2, <2>1, <3>2, PopKeepsInv
    <3>3. CASE ReplayGoesOn(c) \/ ReplayEnds(c) \/ ReplayRejected(c)
      BY <1>2, <2>1, <3>3, PanelKeepsInv
    <3> QED
      BY <2>5, <3>1, <3>2, <3>3 DEF ReplayStep
  <2> QED
    BY <1>2, <2>2, <2>3, <2>4, <2>5 DEF DashboardNext
<1> QED
  BY <1>1, <1>2

LEMMA DashboardInvariant == DashboardSpec => []DashboardInv
  BY DashboardInvInit, DashboardInvNext, PTL DEF DashboardSpec

\* However polls overtake one another, fail or come late, a job that was not on
\* the list is replayed only if the list was cut at its limit or a replay has
\* popped something since it was read (DlqPanel.tsx, queue.controller.ts:35-36).
THEOREM ReplayKeepsToTheList == DashboardSpec => []CurrentListIsReplayed
<1>1. DashboardInv => CurrentListIsReplayed
  <2> SUFFICES ASSUME DashboardInv, NEW c \in Clicks
               PROVE  replays[c].hand \subseteq replays[c].expected
    BY DEF CurrentListIsReplayed
  <2>1. replays[c].hand \subseteq Jobs
    BY DEF DashboardInv, DashboardTypeOK, Replays
  <2> QED
    BY <2>1 DEF DashboardInv, ReplaysKeepToTheirList
<1> QED
  BY <1>1, DashboardInvariant, PTL

-----------------------------------------------------------------------------
(* Leadership.                                                             *)

LeadershipInv ==
    TypeOK /\ TokensAreDistinct /\ LockEnds /\ SomebodyRuns /\ SweeperHoldsTheLock

LEMMA LeadershipNumbers ==
    /\ Cardinality(Schedulers) \in Nat /\ Handover \in Nat /\ LongIdle \in Nat
    /\ Handover = Ttl + Interval
<1>1. Cardinality(Schedulers) \in Nat /\ Handover \in Nat
  BY LeadershipAssumption, FS_CardinalityType DEF Handover
<1>2. Cardinality(Schedulers) * Handover \in Nat
  BY <1>1
<1> QED
  BY <1>1, <1>2, LeadershipAssumption DEF LongIdle, Handover

\* While nobody has the lock, each scheduler has one token at most, and there
\* are more tokens than schedulers: randomUUID has one that is not in use.
LEMMA FreshToken ==
    ASSUME TypeOK, TokensAreDistinct, key = NoToken
    PROVE  RandomUUID \in Tokens /\ RandomUUID \notin InUse
<1> DEFINE inHand == [s \in Schedulers |-> IF lock[s] # NoToken THEN lock[s] ELSE reply[s]]
           hands == {inHand[s] : s \in Schedulers}
<1>1. InUse \subseteq hands \cup {NoToken}
  BY DEF TypeOK, TokensAreDistinct, InUse
<1>2. IsFiniteSet(hands) /\ Cardinality(hands) <= Cardinality(Schedulers)
  <2>1. inHand \in Surjection(Schedulers, hands)
    BY DEF Surjection
  <2> QED
    BY <2>1, FS_Surjection, LeadershipAssumption
<1>3. ~(Tokens \subseteq hands)
  <2> SUFFICES ASSUME Tokens \subseteq hands PROVE FALSE
    OBVIOUS
  <2> HIDE DEF hands
  <2>1. Cardinality(Tokens) <= Cardinality(hands)
    BY <1>2, FS_Subset
  <2> QED
    BY <1>2, <2>1, LeadershipAssumption, FS_CardinalityType
<1>4. PICK token \in Tokens : token \notin InUse
  BY <1>1, <1>3, LeadershipAssumption
<1> QED
  BY <1>4 DEF RandomUUID

\* What the lock answers: to its holder, to a latecomer, or to its next holder.
LEMMA LockAnswers ==
    ASSUME TypeOK, TokensAreDistinct, NEW s \in Schedulers, NEW answer \in MaybeToken,
           AskRedis(s, answer)
    PROVE  \/ /\ lock[s] # NoToken /\ key = lock[s]
              /\ answer = key /\ key' = key /\ ttl' = Ttl
           \/ /\ IF lock[s] = NoToken THEN key # NoToken ELSE key # lock[s]
              /\ answer = NoToken /\ UNCHANGED <<key, ttl>>
           \/ /\ lock[s] = NoToken /\ key = NoToken
              /\ answer = key' /\ key' \in Tokens \ InUse /\ ttl' = Ttl
<1>1. CASE lock[s] # NoToken
  BY <1>1 DEF AskRedis, Renew
<1>2. CASE lock[s] = NoToken
  <2>1. CASE key = NoToken
    BY <1>2, <2>1, FreshToken DEF AskRedis, Acquire
  <2>2. CASE key # NoToken
    BY <1>2, <2>2 DEF AskRedis, Acquire
  <2> QED
    BY <2>1, <2>2
<1> QED
  BY <1>1, <1>2

\* Tokens stay distinct if one scheduler forgets some, or learns a fresh one.
LEMMA HandsKept ==
    ASSUME TypeOK, TokensAreDistinct, NEW s \in Schedulers,
           \A t \in Schedulers : t # s =>
               at'[t] = at[t] /\ lock'[t] = lock[t] /\ reply'[t] = reply[t],
           lock'[s] # NoToken /\ reply'[s] # NoToken => lock'[s] = reply'[s],
           reply'[s] # NoToken => at'[s] = "asked",
           at'[s] = "promoted" => lock'[s] # NoToken,
           \A x \in {lock'[s], reply'[s]} \ {NoToken} : x \in Held(s) \/ x \notin InUse
    PROVE  TokensAreDistinct'
<1>1. \A t \in Schedulers :
        /\ lock'[t] # NoToken /\ reply'[t] # NoToken => lock'[t] = reply'[t]
        /\ reply'[t] # NoToken => at'[t] = "asked"
        /\ at'[t] = "promoted" => lock'[t] # NoToken
  BY DEF TokensAreDistinct
<1>2. ASSUME NEW t \in Schedulers, t # s
      PROVE  Held(t)' = Held(t) /\ Held(s)' \cap Held(t) = {}
  <2>1. Held(t)' = Held(t)
    BY <1>2 DEF Held
  <2>2. Held(t) \subseteq InUse /\ Held(s) \cap Held(t) = {}
    BY <1>2 DEF TokensAreDistinct, Held, InUse
  <2>3. \A x \in Held(s)' : x \in Held(s) \/ x \notin InUse
    BY DEF Held
  <2> QED
    BY <2>1, <2>2, <2>3
<1>3. \A t, u \in Schedulers : t # u => Held(t)' \cap Held(u)' = {}
  BY <1>2 DEF TokensAreDistinct
<1> QED
  BY <1>1, <1>3 DEF TokensAreDistinct

\* Who sweeps keeps the lock, as long as the key changes only when it is free or
\* his own, and he himself goes on with what the key holds.
LEMMA SweepersKept ==
    ASSUME SweeperHoldsTheLock, TokensAreDistinct, NEW s \in Schedulers, faults' = faults,
           key' = key \/ key = NoToken \/ key \in Held(s),
           \A t \in Schedulers : t # s =>
               /\ at'[t] = at[t] /\ lock'[t] = lock[t]
               /\ reply'[t] = reply[t] /\ stop'[t] = stop[t],
           Sweeping(s)' /\ stop'[s] = "running" =>
               \/ key' = IF at'[s] = "asked" THEN reply'[s] ELSE lock'[s]
               \/ "stall" \in faults
    PROVE  SweeperHoldsTheLock'
<1> SUFFICES ASSUME "stall" \notin faults,
                    NEW t \in Schedulers, Sweeping(t)', stop'[t] = "running", t # s
             PROVE  key' = IF at'[t] = "asked" THEN reply'[t] ELSE lock'[t]
  BY DEF SweeperHoldsTheLock
<1>1. Sweeping(t) /\ stop[t] = "running"
  BY DEF Sweeping
<1>2. key = (IF at[t] = "asked" THEN reply[t] ELSE lock[t]) /\ key # NoToken
  BY <1>1 DEF SweeperHoldsTheLock, Sweeping, TokensAreDistinct
<1>3. key \in Held(t)
  BY <1>2 DEF Held
<1>4. key' = key
  BY <1>2, <1>3 DEF TokensAreDistinct
<1> QED
  BY <1>2, <1>4

LEMMA LeadershipInvInit == Init => LeadershipInv
<1> SUFFICES ASSUME Init PROVE LeadershipInv
  OBVIOUS
<1>1. TypeOK
  BY LeadershipNumbers, LeadershipAssumption DEF Init, TypeOK, MaybeToken
<1>2. TokensAreDistinct
  BY DEF Init, TokensAreDistinct, Held
<1>3. LockEnds /\ SomebodyRuns /\ SweeperHoldsTheLock
  BY DEF Init, LockEnds, SomebodyRuns, SweeperHoldsTheLock, Sweeping
<1> QED
  BY <1>1, <1>2, <1>3 DEF LeadershipInv

LEMMA AskKeepsInv ==
    ASSUME LeadershipInv, NEW s \in Schedulers, Ask(s), faults' = faults
    PROVE  LeadershipInv'
<1> USE DEF LeadershipInv
<1>1. PICK answer \in MaybeToken : AskRedis(s, answer) /\ reply' = Set(reply, s, answer)
  BY DEF Ask
<1>2. \/ /\ lock[s] # NoToken /\ key = lock[s]
         /\ answer = key /\ key' = key /\ ttl' = Ttl
      \/ answer = NoToken /\ UNCHANGED <<key, ttl>>
      \/ /\ lock[s] = NoToken /\ key = NoToken
         /\ answer = key' /\ key' \in Tokens \ InUse /\ ttl' = Ttl
  BY <1>1, LockAnswers
<1>3. /\ at[s] = "asleep" /\ reply[s] = NoToken
      /\ at' = Set(at, s, "asked") /\ UNCHANGED <<timer, lock, stop, idle>>
  BY DEF Ask, Awake, TokensAreDistinct
<1>4. /\ at'[s] = "asked" /\ reply'[s] = answer /\ lock'[s] = lock[s]
      /\ \A t \in Schedulers : t # s =>
            at'[t] = at[t] /\ lock'[t] = lock[t] /\ reply'[t] = reply[t] /\ stop'[t] = stop[t]
  BY <1>1, <1>3 DEF TypeOK, Set
<1>5. TypeOK'
  <2>1. key' \in MaybeToken /\ ttl' \in 0..Ttl
    BY <1>2, LeadershipAssumption DEF TypeOK, MaybeToken
  <2> QED
    BY <1>1, <1>3, <2>1 DEF TypeOK, Set
<1>6. TokensAreDistinct'
  BY <1>2, <1>4, HandsKept DEF Held, InUse
<1>7. LockEnds' /\ SomebodyRuns'
  BY <1>2, <1>3, LeadershipAssumption DEF LockEnds, SomebodyRuns, TypeOK
<1>8. SweeperHoldsTheLock'
  BY <1>2, <1>4, SweepersKept DEF Sweeping
<1> QED
  BY <1>5, <1>6, <1>7, <1>8

LEMMA FollowKeepsInv ==
    ASSUME LeadershipInv, NEW s \in Schedulers, Follow(s), faults' = faults
    PROVE  LeadershipInv'
<1> USE DEF LeadershipInv
<1>1. /\ at'[s] = "asleep" /\ reply'[s] = NoToken /\ lock'[s] = NoToken
      /\ \A t \in Schedulers : t # s =>
            at'[t] = at[t] /\ lock'[t] = lock[t] /\ reply'[t] = reply[t] /\ stop'[t] = stop[t]
      /\ UNCHANGED <<key, ttl, stop, idle>>
  BY DEF TypeOK, Follow, Sleep, Set
<1>2. TypeOK'
  BY LeadershipAssumption DEF TypeOK, Follow, Sleep, Set, MaybeToken
<1>3. TokensAreDistinct'
  BY <1>1, HandsKept DEF Held
<1>4. LockEnds' /\ SomebodyRuns'
  BY <1>1 DEF LockEnds, SomebodyRuns
<1>5. SweeperHoldsTheLock'
  BY <1>1, SweepersKept DEF Sweeping
<1> QED
  BY <1>2, <1>3, <1>4, <1>5

LEMMA PromoteKeepsInv ==
    ASSUME LeadershipInv, NEW s \in Schedulers, Promote(s), faults' = faults
    PROVE  LeadershipInv'
<1> USE DEF LeadershipInv
<1>1. /\ at'[s] = "promoted" /\ reply'[s] = NoToken /\ lock'[s] = reply[s]
      /\ at[s] = "asked" /\ reply[s] # NoToken
      /\ \A t \in Schedulers : t # s =>
            at'[t] = at[t] /\ lock'[t] = lock[t] /\ reply'[t] = reply[t] /\ stop'[t] = stop[t]
      /\ UNCHANGED <<key, ttl, timer, idle>>
  BY DEF TypeOK, Promote, Sent, Set
<1>2. \A t \in Schedulers : stop'[t] = "running" <=> stop[t] = "running"
  BY DEF Promote, TypeOK, Sent, Set, CanSend
<1>3. TypeOK'
  BY DEF TypeOK, Promote, Sent, Set, MaybeToken
<1>4. TokensAreDistinct'
  BY <1>1, HandsKept DEF Held
<1>5. LockEnds' /\ SomebodyRuns'
  BY <1>1, <1>2 DEF LockEnds, SomebodyRuns
<1>6. SweeperHoldsTheLock'
  <2>1. Sweeping(s)' /\ stop'[s] = "running" /\ "stall" \notin faults => key = reply[s]
    BY <1>1, <1>2 DEF SweeperHoldsTheLock, Sweeping
  <2> QED
    BY <1>1, <2>1, SweepersKept
<1> QED
  BY <1>3, <1>4, <1>5, <1>6

LEMMA ReapKeepsInv ==
    ASSUME LeadershipInv, NEW s \in Schedulers, Reap(s), faults' = faults
    PROVE  LeadershipInv'
<1> USE DEF LeadershipInv
<1>1. /\ at'[s] = "asleep" /\ reply'[s] = reply[s] /\ lock'[s] = lock[s]
      /\ at[s] = "promoted" /\ reply[s] = NoToken
      /\ \A t \in Schedulers : t # s =>
            at'[t] = at[t] /\ lock'[t] = lock[t] /\ reply'[t] = reply[t] /\ stop'[t] = stop[t]
      /\ UNCHANGED <<key, ttl>>
  BY DEF TypeOK, TokensAreDistinct, Reap, Sleep, Sent, Set
<1>2. \A t \in Schedulers : stop'[t] = "running" <=> stop[t] = "running"
  BY DEF Reap, TypeOK, Sent, Set, CanSend
<1>3. TypeOK'
  BY LeadershipNumbers, LeadershipAssumption DEF TypeOK, Reap, Sleep, Sent, Set
<1>4. TokensAreDistinct'
  BY <1>1, HandsKept DEF Held
<1>5. LockEnds' /\ SomebodyRuns'
  BY <1>1, <1>2 DEF LockEnds, SomebodyRuns
<1>6. SweeperHoldsTheLock'
  BY <1>1, SweepersKept DEF Sweeping
<1> QED
  BY <1>3, <1>4, <1>5, <1>6

LEMMA TickFailsKeepsInv ==
    ASSUME LeadershipInv, NEW s \in Schedulers, TickFails(s), faults' = faults
    PROVE  LeadershipInv'
<1> USE DEF LeadershipInv
<1>1. /\ at'[s] = "asleep" /\ reply'[s] = NoToken
      /\ lock'[s] = NoToken \/ lock'[s] \in Held(s)
      /\ \A t \in Schedulers : t # s =>
            at'[t] = at[t] /\ lock'[t] = lock[t] /\ reply'[t] = reply[t] /\ stop'[t] = stop[t]
      /\ UNCHANGED <<stop, idle>>
  BY DEF TypeOK, TokensAreDistinct, TickFails, Sleep, Set, Awake, Held
<1>2. \/ UNCHANGED <<key, ttl>>
      \/ key' \in MaybeToken /\ ttl' = Ttl /\ (key' = key \/ key = NoToken)
  <2>1. CASE UNCHANGED <<key, ttl>>
    BY <2>1
  <2>2. CASE \E answer \in MaybeToken : AskRedis(s, answer)
    BY <2>2, LockAnswers DEF TypeOK, MaybeToken
  <2> QED
    BY <2>1, <2>2 DEF TickFails
<1>3. TypeOK'
  <2>1. key' \in MaybeToken /\ ttl' \in 0..Ttl
    BY <1>2, LeadershipAssumption DEF TypeOK
  <2>2. lock' \in [Schedulers -> MaybeToken] /\ reply' \in [Schedulers -> MaybeToken]
    BY DEF TypeOK, TickFails, Set, MaybeToken
  <2>3. /\ at' \in [Schedulers -> {"asleep", "asked", "promoted", "gone"}]
        /\ timer' \in [Schedulers -> 0..Interval]
    <3>1. at' = Set(at, s, "asleep") /\ timer' = Set(timer, s, Interval)
      BY DEF TickFails, Sleep
    <3> QED
      BY <3>1, LeadershipAssumption DEF TypeOK, Set
  <2> QED
    BY <1>1, <2>1, <2>2, <2>3 DEF TypeOK
<1>4. TokensAreDistinct'
  BY <1>1, HandsKept DEF Held
<1>5. LockEnds' /\ SomebodyRuns'
  BY <1>1, <1>2, LeadershipAssumption DEF LockEnds, SomebodyRuns
<1>6. SweeperHoldsTheLock'
  BY <1>1, <1>2, SweepersKept DEF Sweeping
<1> QED
  BY <1>3, <1>4, <1>5, <1>6

\* Whoever may stop leaves somebody behind.
LEMMA SomebodyIsLeft ==
    ASSUME NEW s \in Schedulers, Dispensable(s),
           \A t \in Schedulers : t # s => stop'[t] = stop[t]
    PROVE  SomebodyRuns'
  BY DEF Dispensable, SomebodyRuns

LEMMA StoppingKeepsInv ==
    ASSUME LeadershipInv, NEW s \in Schedulers, Stopping(s), faults' = faults
    PROVE  LeadershipInv'
<1> USE DEF LeadershipInv
<1>1. CASE Shutdown(s)
  <2>1. /\ UNCHANGED <<at, timer, lock, reply, idle>>
        /\ \/ UNCHANGED <<key, ttl>>
           \/ key' = NoToken /\ ttl' = 0 /\ key = lock[s] /\ key # NoToken
    BY <1>1 DEF Shutdown, ReleaseKey
  <2>2. /\ stop'[s] # "running" /\ \A t \in Schedulers : t # s => stop'[t] = stop[t]
        /\ stop' \in [Schedulers -> {"running", "releasing", "quitting", "exited"}]
    BY <1>1 DEF Shutdown, TypeOK, Set
  <2>3. TypeOK'
    BY <2>1, <2>2, LeadershipAssumption DEF TypeOK, MaybeToken
  <2>4. TokensAreDistinct' /\ LockEnds'
    BY <2>1 DEF TokensAreDistinct, Held, LockEnds
  <2>5. SomebodyRuns'
    BY <1>1, <2>2, SomebodyIsLeft DEF Shutdown
  <2>6. SweeperHoldsTheLock'
    BY <2>1, <2>2, SweepersKept DEF Held
  <2> QED
    BY <2>3, <2>4, <2>5, <2>6
<1>2. CASE Released(s)
  <2>1. /\ UNCHANGED <<key, ttl, at, timer, lock, reply, idle>>
        /\ \A t \in Schedulers : stop'[t] = "running" <=> stop[t] = "running"
        /\ stop' \in [Schedulers -> {"running", "releasing", "quitting", "exited"}]
    BY <1>2 DEF Released, TypeOK, Set
  <2> QED
    BY <2>1 DEF TypeOK, TokensAreDistinct, Held, LockEnds, SomebodyRuns,
                SweeperHoldsTheLock, Sweeping
<1>3. CASE Exit(s) \/ Crash(s)
  <2>1. /\ at'[s] = "gone" /\ reply'[s] = NoToken /\ lock'[s] = NoToken
        /\ \A t \in Schedulers : t # s =>
              at'[t] = at[t] /\ lock'[t] = lock[t] /\ reply'[t] = reply[t] /\ stop'[t] = stop[t]
        /\ UNCHANGED <<key, ttl, idle>>
    BY <1>3 DEF Exit, Crash, End, TypeOK, Set
  <2>2. TypeOK'
    BY <1>3, LeadershipAssumption DEF Exit, Crash, End, TypeOK, Set, MaybeToken
  <2>3. TokensAreDistinct'
    BY <2>1, HandsKept DEF Held
  <2>4. LockEnds'
    BY <2>1 DEF LockEnds
  <2>5. SomebodyRuns'
    <3>1. CASE Crash(s)
      BY <2>1, <3>1, SomebodyIsLeft DEF Crash
    <3>2. CASE Exit(s)
      BY <2>1, <3>2 DEF Exit, SomebodyRuns
    <3> QED
      BY <1>3, <3>1, <3>2
  <2>6. SweeperHoldsTheLock'
    BY <2>1, SweepersKept DEF Sweeping
  <2> QED
    BY <2>2, <2>3, <2>4, <2>5, <2>6
<1> QED
  BY <1>1, <1>2, <1>3 DEF Stopping

LEMMA ElapseKeepsInv ==
    ASSUME LeadershipInv, Elapse, faults' = faults
    PROVE  LeadershipInv'
<1> USE DEF LeadershipInv
<1>1. TypeOK'
  <2>1. ttl' \in 0..Ttl /\ key' \in MaybeToken
    BY LeadershipAssumption DEF TypeOK, Elapse, Minus1, MaybeToken
  <2>2. timer' \in [Schedulers -> 0..Interval]
    BY LeadershipAssumption DEF TypeOK, Elapse, Minus1
  <2>3. idle' \in 0..LongIdle
    BY LeadershipNumbers DEF TypeOK, Elapse
  <2> QED
    BY <2>1, <2>2, <2>3 DEF TypeOK, Elapse
<1>2. TokensAreDistinct' /\ SomebodyRuns'
  BY DEF Elapse, TokensAreDistinct, Held, SomebodyRuns
<1>3. LockEnds'
  BY LeadershipAssumption DEF TypeOK, Elapse, Minus1, LockEnds
<1>4. SweeperHoldsTheLock'
  BY DEF Elapse, AtRest, SweeperHoldsTheLock, Sweeping
<1> QED
  BY <1>1, <1>2, <1>3, <1>4

LEMMA LeadershipInvNext == LeadershipInv /\ [Next]_vars => LeadershipInv'
<1>1. ASSUME LeadershipInv, UNCHANGED vars PROVE LeadershipInv'
  BY <1>1 DEF LeadershipInv, TypeOK, TokensAreDistinct, Held, LockEnds, SomebodyRuns,
              SweeperHoldsTheLock, Sweeping, vars
<1>2. ASSUME LeadershipInv, Next PROVE LeadershipInv'
  <2>1. faults' = faults
    BY <1>2 DEF Next
  <2>2. ASSUME NEW s \in Schedulers, Tick(s) \/ TickFails(s) \/ Stopping(s)
        PROVE  LeadershipInv'
    BY <1>2, <2>1, <2>2, AskKeepsInv, FollowKeepsInv, PromoteKeepsInv, ReapKeepsInv,
       TickFailsKeepsInv, StoppingKeepsInv DEF Tick
  <2>3. CASE Elapse
    BY <1>2, <2>1, <2>3, ElapseKeepsInv
  <2> QED
    BY <1>2, <2>2, <2>3 DEF Next
<1> QED
  BY <1>1, <1>2

LEMMA LeadershipInvariant == Spec => []LeadershipInv
  BY LeadershipInvInit, LeadershipInvNext, PTL DEF Spec

\* Whatever dies, throws or is told to stop, a scheduler that sweeps has its own
\* token in the key, as long as no process pauses longer than a lock lives: there
\* is one leader at most (scheduler.ts:15-16).
THEOREM OneLeader == Spec => []SweeperHoldsTheLock
  BY LeadershipInvariant, PTL DEF LeadershipInv

\* renewLock and releaseLock compare the token first (lock.ts:24-27): the key is
\* deleted or prolonged only by the scheduler that holds it.
THEOREM OnlyTheOwner == Spec => OwnersOnly
<1> DEFINE A == /\ key # NoToken /\ key' # key =>
                      ttl <= 1 \/ \E s \in Schedulers : lock[s] = key /\ stop'[s] # stop[s]
                /\ key # NoToken /\ key' = key /\ ttl' > ttl =>
                      \E s \in Schedulers : lock[s] = key /\ Awake(s)
<1>1. ASSUME LeadershipInv, Next PROVE A
  <2> USE <1>1 DEF LeadershipInv
  <2>1. ttl \in Nat /\ ttl' \in Nat
    BY LeadershipInvNext, LeadershipAssumption DEF TypeOK
  <2>2. ASSUME NEW s \in Schedulers, NEW answer \in MaybeToken, AskRedis(s, answer), Awake(s)
        PROVE  A
    BY <2>1, <2>2, LockAnswers
  <2>3. ASSUME UNCHANGED <<key, ttl>> PROVE A
    BY <2>1, <2>3
  <2>4. ASSUME NEW s \in Schedulers, Shutdown(s) PROVE A
    <3>1. stop'[s] # stop[s]
      BY <2>4 DEF Shutdown, TypeOK, Set
    <3> QED
      BY <2>3, <2>4, <3>1 DEF Shutdown, ReleaseKey
  <2>5. ASSUME NEW s \in Schedulers, Tick(s) PROVE A
    BY <2>2, <2>3, <2>5 DEF Tick, Ask, Follow, Promote, Reap
  <2>6. ASSUME NEW s \in Schedulers, TickFails(s) PROVE A
    BY <2>2, <2>3, <2>6 DEF TickFails
  <2>7. ASSUME NEW s \in Schedulers, Stopping(s) PROVE A
    BY <2>3, <2>4, <2>7 DEF Stopping, Released, Exit, Crash, End
  <2>8. CASE Elapse
    BY <2>1, <2>8 DEF Elapse, Minus1
  <2> QED
    BY <2>5, <2>6, <2>7, <2>8 DEF Next
<1>2. ASSUME UNCHANGED vars PROVE [A]_vars
  BY <1>2
<1> QED
  BY <1>1, <1>2, LeadershipInvariant, PTL DEF Spec, OwnersOnly

-----------------------------------------------------------------------------
(* How long the schedulers can be without a sweep.                         *)

LEMMA BudgetType ==
    /\ IsFiniteSet(Stopped) /\ Cardinality(Stopped) \in Nat /\ Budget \in Nat
<1>1. IsFiniteSet(Stopped) /\ Cardinality(Stopped) \in Nat
  BY FS_Subset, FS_CardinalityType, LeadershipAssumption DEF Stopped
<1> QED
  BY <1>1, LeadershipNumbers DEF Budget

\* A scheduler that is told to stop or dies adds a handover to the budget.
LEMMA BudgetGrows ==
    ASSUME NEW s \in Schedulers, stop[s] = "running", stop'[s] # "running",
           \A t \in Schedulers : t # s => stop'[t] = stop[t]
    PROVE  Budget' = Budget + Handover
<1>1. Stopped' = Stopped \cup {s} /\ s \notin Stopped
  BY DEF Stopped
<1>2. Cardinality(Stopped') = Cardinality(Stopped) + 1
  BY <1>1, BudgetType, FS_AddElement
<1>3. (Cardinality(Stopped) + 1) * Handover = Cardinality(Stopped) * Handover + Handover
  BY BudgetType, LeadershipNumbers
<1> QED
  BY <1>2, <1>3 DEF Budget, Handover

LEMMA BudgetStays ==
    ASSUME \A t \in Schedulers : stop'[t] = "running" <=> stop[t] = "running"
    PROVE  Budget' = Budget
  BY DEF Budget, Stopped, Handover

LEMMA TimeTypes ==
    ASSUME TypeOK
    PROVE  /\ Interval \in Nat \ {0} /\ Ttl \in Nat /\ Ttl > Interval
           /\ Handover = Ttl + Interval /\ Budget \in Nat
           /\ idle \in Nat /\ ttl \in 0..Ttl
           /\ \A s \in Schedulers : timer[s] \in 0..Interval
  BY BudgetType, LeadershipNumbers, LeadershipAssumption DEF TypeOK

\* The bound follows: a leader, an orphaned lock or a free one, each has its own.
LEMMA OnTimeIsShort ==
    ASSUME LeadershipInv, LeaderIsInTime, OrphanRunsOut, FreeLockIsTaken,
           \A s \in Schedulers : AtRest(s)
    PROVE  idle < Interval + Budget \/ Schedulers = {}
<1> USE DEF LeadershipInv
<1>1. /\ Interval \in Nat /\ Budget \in Nat /\ idle \in Nat /\ ttl \in Nat
      /\ \A s \in Schedulers : timer[s] \in Nat
  BY BudgetType, LeadershipNumbers, LeadershipAssumption DEF TypeOK
<1>2. ASSUME NEW s \in Schedulers, stop[s] = "running"
      PROVE  at[s] = "asleep" /\ timer[s] > 0
  BY <1>2 DEF AtRest
<1>3. CASE key = NoToken
  BY <1>1, <1>2, <1>3 DEF SomebodyRuns, FreeLockIsTaken
<1>4. CASE key # NoToken /\ \A s \in Schedulers : ~Leads(s)
  BY <1>1, <1>4, LeadershipAssumption DEF OrphanRunsOut, LockEnds
<1>5. ASSUME NEW s \in Schedulers, Leads(s) PROVE idle < Interval + Budget
  BY <1>1, <1>2, <1>5 DEF Leads, LeaderIsInTime
<1> QED
  BY <1>3, <1>4, <1>5

LEMMA AskOnTime ==
    ASSUME LeadershipInv, OnTime, NEW s \in Schedulers, Ask(s)
    PROVE  OnTime'
<1> USE TimeTypes DEF LeadershipInv, OnTime
<1>1. PICK answer \in MaybeToken : AskRedis(s, answer) /\ reply' = Set(reply, s, answer)
  BY DEF Ask
<1>2. /\ at[s] = "asleep" /\ stop[s] = "running" /\ UNCHANGED <<timer, lock, stop, idle>>
      /\ at'[s] = "asked" /\ reply'[s] = answer
      /\ \A t \in Schedulers : t # s => at'[t] = at[t] /\ reply'[t] = reply[t]
  BY <1>1 DEF Ask, Awake, TypeOK, Set
<1>3. Budget' = Budget
  BY <1>2, BudgetStays
<1>4. CASE lock[s] # NoToken /\ key = lock[s] /\ answer = key /\ key' = key /\ ttl' = Ttl
  <2>1. LeaderIsInTime'
    <3>1. \A t \in Schedulers : t # s => lock[t] # key
      BY <1>4 DEF TokensAreDistinct, Held
    <3> QED
      BY <1>2, <1>4, <3>1 DEF LeaderIsInTime, Sweeping
  <2>2. Leads(s)'
    BY <1>2, <1>4 DEF Leads
  <2> QED
    BY <1>2, <1>3, <1>4, <2>1, <2>2 DEF OrphanRunsOut, FreeLockIsTaken
<1>5. CASE /\ IF lock[s] = NoToken THEN key # NoToken ELSE key # lock[s]
           /\ answer = NoToken /\ UNCHANGED <<key, ttl>>
  <2>1. lock[s] = NoToken /\ key # NoToken
    BY <1>2, <1>5 DEF LeaderIsInTime
  <2>2. LeaderIsInTime'
    BY <1>2, <1>5, <2>1 DEF LeaderIsInTime, Sweeping
  <2>3. \A t \in Schedulers : Leads(t)' <=> Leads(t)
    BY <1>2, <1>5, <2>1 DEF Leads
  <2> QED
    BY <1>2, <1>3, <1>5, <2>1, <2>2, <2>3 DEF OrphanRunsOut, FreeLockIsTaken
<1>6. CASE /\ lock[s] = NoToken /\ key = NoToken
           /\ answer = key' /\ key' \in Tokens \ InUse /\ ttl' = Ttl
  <2>1. key' # NoToken
    BY <1>6, LeadershipAssumption
  <2>2. LeaderIsInTime'
    BY <1>2, <1>6, <2>1 DEF LeaderIsInTime, Sweeping
  <2>3. Leads(s)'
    BY <1>2, <1>6, <2>1 DEF Leads
  <2> QED
    BY <1>2, <1>3, <2>1, <2>2, <2>3 DEF OrphanRunsOut, FreeLockIsTaken
<1> QED
  BY <1>1, <1>4, <1>5, <1>6, LockAnswers

LEMMA FollowOnTime ==
    ASSUME LeadershipInv, OnTime, NEW s \in Schedulers, Follow(s)
    PROVE  OnTime'
<1> USE TimeTypes DEF LeadershipInv, OnTime
<1>1. /\ at[s] = "asked" /\ reply[s] = NoToken
      /\ at'[s] = "asleep" /\ lock'[s] = NoToken /\ timer'[s] = Interval
      /\ \A t \in Schedulers : t # s => at'[t] = at[t] /\ lock'[t] = lock[t] /\ timer'[t] = timer[t]
      /\ UNCHANGED <<key, ttl, reply, stop, idle>>
  BY DEF Follow, Sleep, TypeOK, Set
<1>2. Budget' = Budget
  BY <1>1, BudgetStays
<1>3. LeaderIsInTime'
  BY <1>1 DEF LeaderIsInTime, Sweeping
<1>4. \A t \in Schedulers : Leads(t)' <=> Leads(t)
  BY <1>1 DEF Leads
<1>5. OrphanRunsOut'
  BY <1>1, <1>2, <1>4 DEF OrphanRunsOut
<1>6. FreeLockIsTaken'
  BY <1>1, <1>2 DEF FreeLockIsTaken
<1> QED
  BY <1>1, <1>2, <1>3, <1>5, <1>6

\* What a scheduler that is told to stop has already sent counts like any other.
LEMMA PromoteOnTime ==
    ASSUME LeadershipInv, OnTime, NEW s \in Schedulers, Promote(s), faults = {}
    PROVE  OnTime'
<1> USE TimeTypes DEF LeadershipInv, OnTime
<1>1. /\ at[s] = "asked" /\ reply[s] # NoToken
      /\ at'[s] = "promoted" /\ lock'[s] = reply[s]
      /\ \A t \in Schedulers : t # s =>
            at'[t] = at[t] /\ lock'[t] = lock[t] /\ reply'[t] = reply[t]
      /\ UNCHANGED <<key, ttl, timer, idle>>
  BY DEF Promote, TypeOK, Set
<1>2. \A t \in Schedulers : stop'[t] = "running" <=> stop[t] = "running"
  BY DEF Promote, TypeOK, Sent, Set, CanSend
<1>3. Budget' = Budget
  BY <1>2, BudgetStays
<1>4. LeaderIsInTime'
  BY <1>1, <1>2 DEF LeaderIsInTime, Sweeping
<1>5. \A t \in Schedulers : Leads(t)' <=> Leads(t)
  BY <1>1, <1>2 DEF Leads
<1>6. OrphanRunsOut'
  BY <1>1, <1>3, <1>5 DEF OrphanRunsOut
<1>7. stop[s] = "running" => key # NoToken
  BY <1>1 DEF SweeperHoldsTheLock, Sweeping
<1>8. FreeLockIsTaken'
  BY <1>1, <1>2, <1>3, <1>7 DEF FreeLockIsTaken
<1> QED
  BY <1>1, <1>3, <1>4, <1>6, <1>8

LEMMA ReapOnTime ==
    ASSUME LeadershipInv, OnTime, NEW s \in Schedulers, Reap(s), faults = {}
    PROVE  OnTime'
<1> USE TimeTypes DEF LeadershipInv, OnTime
<1>1. /\ at[s] = "promoted" /\ at'[s] = "asleep" /\ timer'[s] = Interval /\ idle' = 0
      /\ \A t \in Schedulers : t # s => at'[t] = at[t] /\ timer'[t] = timer[t]
      /\ UNCHANGED <<key, ttl, lock, reply>>
  BY DEF Reap, Sleep, TypeOK, Set
<1>2. \A t \in Schedulers : stop'[t] = "running" <=> stop[t] = "running"
  BY DEF Reap, TypeOK, Sent, Set, CanSend
<1>3. Budget' = Budget
  BY <1>2, BudgetStays
<1>4. stop[s] = "running" => key = lock[s] /\ key # NoToken /\ ttl = Ttl
  BY <1>1 DEF SweeperHoldsTheLock, Sweeping, TokensAreDistinct, LeaderIsInTime
<1>5. LeaderIsInTime'
  BY <1>1, <1>2, <1>4 DEF LeaderIsInTime, Sweeping
<1>6. \A t \in Schedulers : Leads(t)' <=> Leads(t)
  BY <1>1, <1>2 DEF Leads
<1>7. OrphanRunsOut'
  BY <1>1, <1>3, <1>6 DEF OrphanRunsOut
<1>8. FreeLockIsTaken'
  BY <1>1, <1>2, <1>3, <1>4 DEF FreeLockIsTaken
<1> QED
  BY <1>1, <1>3, <1>5, <1>7, <1>8

\* However a running scheduler stops, the handover it adds to the budget is enough
\* for the lock it leaves behind, and for a free lock.
LEMMA HandoverOnTime ==
    ASSUME LeadershipInv, OnTime, NEW s \in Schedulers, faults = {},
           stop[s] = "running", stop'[s] # "running", idle' = idle,
           \A t \in Schedulers : t # s =>
               /\ at'[t] = at[t] /\ timer'[t] = timer[t] /\ lock'[t] = lock[t]
               /\ reply'[t] = reply[t] /\ stop'[t] = stop[t],
           \/ UNCHANGED <<key, ttl>>
           \/ key' = NoToken /\ key = lock[s] /\ key # NoToken
    PROVE  OnTime'
<1> USE TimeTypes DEF LeadershipInv, OnTime
<1>1. Budget' = Budget + Handover
  BY BudgetGrows
<1>2. LeaderIsInTime'
  <2> SUFFICES ASSUME NEW t \in Schedulers, t # s, stop[t] = "running"
               PROVE  /\ Sweeping(t) => ttl' = Ttl
                      /\ at[t] = "asked" /\ lock[t] # NoToken => reply[t] = lock[t]
                      /\ at[t] = "asleep" /\ lock[t] # NoToken =>
                            lock[t] = key' /\ timer[t] < ttl' /\ idle + timer[t] <= Interval
    BY DEF LeaderIsInTime, Sweeping
  <2>1. Sweeping(t) \/ (at[t] = "asleep" /\ lock[t] # NoToken) => key \in Held(t)
    BY DEF SweeperHoldsTheLock, Sweeping, LeaderIsInTime, TokensAreDistinct, Held
  <2>2. key \in Held(t) => UNCHANGED <<key, ttl>>
    BY DEF TokensAreDistinct, Held
  <2> QED
    BY <2>1, <2>2 DEF LeaderIsInTime
<1>3. OrphanRunsOut'
  BY <1>1 DEF OrphanRunsOut
<1>4. FreeLockIsTaken'
  BY <1>1 DEF FreeLockIsTaken
<1> QED
  BY <1>1, <1>2, <1>3, <1>4

LEMMA StoppingOnTime ==
    ASSUME LeadershipInv, OnTime, NEW s \in Schedulers, Stopping(s), faults = {}
    PROVE  OnTime'
<1> USE DEF LeadershipInv
<1>1. CASE Shutdown(s)
  <2>1. /\ stop[s] = "running" /\ stop'[s] # "running" /\ UNCHANGED <<at, timer, lock, reply, idle>>
        /\ \A t \in Schedulers : t # s => stop'[t] = stop[t]
    BY <1>1 DEF Shutdown, TypeOK, Set
  <2>2. \/ UNCHANGED <<key, ttl>>
        \/ key' = NoToken /\ key = lock[s] /\ key # NoToken
    BY <1>1 DEF Shutdown, ReleaseKey
  <2> QED
    BY <2>1, <2>2, HandoverOnTime
<1>2. ASSUME End(s), stop[s] = "running" PROVE OnTime'
  <2>1. /\ stop'[s] # "running" /\ idle' = idle /\ UNCHANGED <<key, ttl>>
        /\ \A t \in Schedulers : t # s =>
               /\ at'[t] = at[t] /\ timer'[t] = timer[t] /\ lock'[t] = lock[t]
               /\ reply'[t] = reply[t] /\ stop'[t] = stop[t]
    BY <1>2 DEF End, TypeOK, Set
  <2> QED
    BY <1>2, <2>1, HandoverOnTime
<1>3. ASSUME End(s) \/ Released(s), stop[s] # "running" PROVE OnTime'
  <2>1. /\ stop'[s] # "running" /\ UNCHANGED <<key, ttl, idle>>
        /\ \A t \in Schedulers : t # s =>
               /\ at'[t] = at[t] /\ timer'[t] = timer[t] /\ lock'[t] = lock[t]
               /\ reply'[t] = reply[t] /\ stop'[t] = stop[t]
    BY <1>3 DEF End, Released, TypeOK, Set
  <2>2. Budget' = Budget
    BY <1>3, <2>1, BudgetStays
  <2>3. LeaderIsInTime' /\ \A t \in Schedulers : Leads(t)' <=> Leads(t)
    BY <1>3, <2>1 DEF OnTime, LeaderIsInTime, Sweeping, Leads
  <2> QED
    BY <1>3, <2>1, <2>2, <2>3 DEF OnTime, OrphanRunsOut, FreeLockIsTaken
<1> QED
  BY <1>1, <1>2, <1>3 DEF Stopping, Released, Exit, Crash

LEMMA ElapseOnTime ==
    ASSUME LeadershipInv, OnTime, Elapse, faults = {}
    PROVE  OnTime'
<1> USE TimeTypes DEF LeadershipInv, OnTime
<1>1. /\ UNCHANGED <<at, lock, reply, stop>> /\ idle' <= idle + 1 /\ idle' \in Nat
      /\ ttl' = Minus1(ttl) /\ key' = IF ttl = 1 THEN NoToken ELSE key
      /\ \A s \in Schedulers : timer'[s] = Minus1(timer[s])
  BY LeadershipNumbers DEF Elapse
<1>2. \A s \in Schedulers : AtRest(s)
  BY DEF Elapse
<1>3. ASSUME NEW s \in Schedulers, stop[s] = "running"
      PROVE  at[s] = "asleep" /\ timer[s] > 0 /\ timer'[s] = timer[s] - 1
  BY <1>1, <1>2, <1>3 DEF AtRest, Minus1
<1>4. Budget' = Budget
  BY <1>1, BudgetStays
<1>5. LeaderIsInTime'
  BY <1>1, <1>3 DEF LeaderIsInTime, Sweeping, Minus1
<1>6. OrphanRunsOut'
  BY <1>1, <1>4 DEF OrphanRunsOut, LockEnds, Leads, Minus1
<1>7. FreeLockIsTaken'
  <2>1. CASE key = NoToken
    BY <1>1, <1>3, <1>4, <2>1 DEF FreeLockIsTaken
  <2>2. CASE key # NoToken /\ ttl = 1
    <3>1. \A s \in Schedulers : ~Leads(s)
      BY <1>3, <2>2 DEF LeaderIsInTime, Leads
    <3>2. idle + 1 <= Budget
      BY <2>2, <3>1 DEF OrphanRunsOut
    <3> QED
      BY <1>1, <1>3, <1>4, <3>2 DEF FreeLockIsTaken
  <2> QED
    BY <1>1, <2>1, <2>2 DEF FreeLockIsTaken
<1>8. idle' <= Interval + Budget'
  <2>1. CASE Schedulers = {}
    <3>1. Cardinality(Schedulers) = 0
      BY <2>1, FS_EmptySet
    <3>2. LongIdle = Interval
      BY <3>1, LeadershipNumbers DEF LongIdle
    <3>3. idle' <= LongIdle
      BY <3>2, LeadershipNumbers DEF Elapse, TypeOK
    <3> QED
      BY <1>1, <1>4, <3>2, <3>3
  <2>2. CASE Schedulers # {}
    BY <1>1, <1>2, <1>4, <2>2, OnTimeIsShort
  <2> QED
    BY <2>1, <2>2
<1> QED
  BY <1>5, <1>6, <1>7, <1>8

LEMMA OnTimeInit == Init => OnTime
<1> SUFFICES ASSUME Init PROVE OnTime
  OBVIOUS
<1>1. LeadershipInv
  BY LeadershipInvInit
<1>2. /\ Interval \in Nat /\ Budget \in Nat /\ \A s \in Schedulers : timer[s] \in 0..Interval
  BY <1>1, TimeTypes DEF LeadershipInv
<1> QED
  BY <1>2 DEF OnTime, Init, LeaderIsInTime, OrphanRunsOut, FreeLockIsTaken, Sweeping

\* The inductive invariant: with no faults, every sweep is on time.
OnTimeInv == LeadershipInv /\ (faults = {} => OnTime)

LEMMA OnTimeInvNext == OnTimeInv /\ [Next]_vars => OnTimeInv'
<1>1. ASSUME OnTimeInv, UNCHANGED vars PROVE OnTimeInv'
  <2>1. LeadershipInv' /\ faults' = faults
    BY <1>1, LeadershipInvNext DEF OnTimeInv, vars
  <2>2. Budget' = Budget
    BY <1>1, BudgetStays DEF vars
  <2>3. OnTime => OnTime'
    BY <1>1, <2>2 DEF OnTime, LeaderIsInTime, OrphanRunsOut, FreeLockIsTaken,
                      Sweeping, Leads, vars
  <2> QED
    BY <1>1, <2>1, <2>3 DEF OnTimeInv
<1>2. ASSUME OnTimeInv, Next PROVE OnTimeInv'
  <2>1. LeadershipInv' /\ faults' = faults
    BY <1>2, LeadershipInvNext DEF OnTimeInv, Next
  <2>2. ASSUME faults = {} PROVE OnTime'
    <3> USE <1>2, <2>2 DEF OnTimeInv
    <3>1. ASSUME NEW s \in Schedulers, Tick(s) PROVE OnTime'
      BY <3>1, AskOnTime, FollowOnTime, PromoteOnTime, ReapOnTime DEF Tick
    <3>2. ASSUME NEW s \in Schedulers, TickFails(s) PROVE OnTime'
      BY <3>2 DEF TickFails
    <3>3. ASSUME NEW s \in Schedulers, Stopping(s) PROVE OnTime'
      BY <3>3, StoppingOnTime
    <3>4. CASE Elapse
      BY <3>4, ElapseOnTime
    <3> QED
      BY <3>1, <3>2, <3>3, <3>4 DEF Next
  <2> QED
    BY <2>1, <2>2 DEF OnTimeInv
<1> QED
  BY <1>1, <1>2

\* Without stalls and failing commands, sweeps are an interval apart, and each
\* crash or shutdown delays them by a TTL and an interval at most, whenever it
\* comes and whatever lock it leaves behind (scheduler.ts:43, lock.ts:20-22).
THEOREM SweepsComeInTime == Spec => []NeverLongUnswept
<1>1. Init => OnTimeInv
  BY LeadershipInvInit, OnTimeInit DEF OnTimeInv
<1>2. OnTimeInv => NeverLongUnswept
  BY DEF OnTimeInv, OnTime, NeverLongUnswept, Budget
<1> QED
  BY <1>1, <1>2, OnTimeInvNext, PTL DEF Spec

-----------------------------------------------------------------------------
(* The three programs together.                                            *)

\* The run of MCPrograms takes the steps of one program and leaves the others
\* alone, so that each is what its own module says, and so are their types.
THEOREM ProgramsAreTyped == ProgramsSpec => []ProgramsTypeOK
<1>1. ProgramsInit => Init /\ MigrateInit /\ DashboardInit
  BY DEF ProgramsInit
<1>2. [ProgramsNext]_programsVars =>
        [Next]_vars /\ [MigrateNext]_migrateVars /\ [DashboardNext]_dashboardVars
  BY DEF ProgramsNext, programsVars, Schedule, Deploy, Operate
<1>3. LeadershipInv /\ MigrateInv /\ DashboardInv => ProgramsTypeOK
  BY DEF LeadershipInv, MigrateInv, DashboardInv, ProgramsTypeOK
<1> QED
  BY <1>1, <1>2, <1>3, LeadershipInvariant, MigrateInvariant, DashboardInvariant, PTL
     DEF ProgramsSpec, Spec, MigrateSpec, DashboardSpec
=============================================================================
