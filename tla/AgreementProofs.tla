-------------------------- MODULE AgreementProofs --------------------------
(***************************************************************************)
(* Because a job has one owner, Postgres and Redis agree about it, and     *)
(* what a worker read before an await is true when it writes: the table's  *)
(* constraints never reject a worker.                                      *)
(***************************************************************************)
EXTENDS CustodyProofs

\* The owner of a job is the only one to see what it writes.
LEMMA WorkerAlone ==
    ASSUME TypeOK, Custody, NEW w \in Workers, worker[w].at # "idle"
    PROVE  /\ worker[w].job \in Jobs
           /\ \A v \in Workers \ {w} : worker[v].job # worker[w].job
           /\ delayed[worker[w].job] = "none"
           /\ worker[w].job \notin Range(dlq)
           /\ \A o \in Operators : operator[o].job # worker[w].job
           /\ row[worker[w].job] # "absent"
           /\ submission[worker[w].job] \notin {"none", "inserted"}
<1>1. worker[w].job \in Jobs /\ InFlight(worker[w].job)
  BY DEF TypeOK, WorkerStates, Custody, Employed, Claims
<1>2. \A v \in Workers \ {w} : worker[v].job # worker[w].job
  BY <1>1, DeliveryAssumption DEF Custody, OwnedByOneWorker
<1>3. ~InDelayed(worker[w].job) /\ ~InDlq(worker[w].job) /\ ~InHand(worker[w].job)
  BY <1>1 DEF Custody, OnePlace
<1>4. /\ row[worker[w].job] # "absent"
      /\ submission[worker[w].job] \notin {"none", "inserted"}
  BY <1>1 DEF Custody, NotPushedYet
<1> QED
  BY <1>1, <1>2, <1>3, <1>4 DEF InDelayed, InDlq, InHand

\* So is an operator with a dead job in its hands.
LEMMA OperatorAlone ==
    ASSUME TypeOK, Custody, NEW o \in Operators, operator[o].at # "idle"
    PROVE  /\ operator[o].job \in Jobs
           /\ \A p \in Operators \ {o} : operator[p].job # operator[o].job
           /\ delayed[operator[o].job] = "none"
           /\ operator[o].job \notin Range(dlq)
           /\ \A w \in Workers : worker[w].job # operator[o].job
<1>1. operator[o].job \in Jobs
  BY DEF TypeOK, OperatorStates, Custody, Employed
<1>2. InHand(operator[o].job)
  BY DEF InHand
<1>3. \A p \in Operators \ {o} : operator[p].job # operator[o].job
  BY <1>1, DeliveryAssumption DEF Custody, NoCopies
<1>4. ~InReady(operator[o].job) /\ ~InFlight(operator[o].job)
      /\ ~InDelayed(operator[o].job) /\ ~InDlq(operator[o].job)
  BY <1>1, <1>2 DEF Custody, OnePlace
<1>5. \A w \in Workers : worker[w].job # operator[o].job
  BY <1>1, <1>4, DeliveryAssumption DEF Custody, Claims, Employed
<1> QED
  BY <1>1, <1>3, <1>4, <1>5 DEF InDelayed, InDlq

\* A job nobody has pushed yet has no owner and is in neither set.
LEMMA UnpushedAlone ==
    ASSUME TypeOK, Custody, NEW j \in Jobs, submission[j] \in {"none", "inserted"}
    PROVE  /\ \A w \in Workers : worker[w].job # j
           /\ \A o \in Operators : operator[o].job # j
           /\ delayed[j] = "none"
           /\ j \notin Range(dlq)
<1>1. ~InFlight(j) /\ ~InDelayed(j) /\ ~InDlq(j) /\ ~InHand(j)
  BY DEF Custody, NotPushedYet
<1>2. \A w \in Workers : worker[w].job # j
  BY <1>1, DeliveryAssumption DEF Custody, Claims, Employed
<1> QED
  BY <1>1, <1>2 DEF InDelayed, InDlq, InHand

-----------------------------------------------------------------------------
(* The invariant one process at a time.                                    *)

WorkerAgrees(w) ==
    LET at == worker[w].at
        j == worker[w].job IN
    /\ at = "gates" => row[j] \in Live \cup {"deleted"}
    /\ at \in Delivering => row[j] \in {"in_flight", "deleted"}
    /\ at = "ack" => row[j] \in Terminal \cup {"deleted"}
    /\ at = "retry" => row[j] \in {"queued", "deleted"}
    /\ at = "bury" => row[j] \in {"dead", "deleted"}
    /\ at \in Delivering \cup {"gates"} /\ Exists(j) => worker[w].seen = attempts[j]
    /\ at \in {"post", "record"} /\ Exists(j) => worker[w].number = audit[j] + 1
    /\ at \in {"record", "settle"} =>
          worker[w].outcome # "none" /\ (worker[w].outcome = "ok" => confirmed[j] > 0)

OperatorAgrees(o) ==
    /\ operator[o].at = "reset" => row[operator[o].job] \in {"dead", "deleted"}
    /\ operator[o].at = "push" => row[operator[o].job] \in {"queued", "deleted"}

JobAgrees(j) ==
    /\ delayed[j] # "none" => row[j] \in {"queued", "deleted"}
    /\ j \in Range(dlq) => row[j] \in {"dead", "deleted"}
    /\ row[j] \in Live \cup {"absent"} => attempts[j] < MaxAttempts
    /\ submission[j] = "inserted" => row[j] \in {"queued", "deleted"}

\* Agreement, taken apart by the process or job it speaks of.
LEMMA AgreementByParts ==
    Agreement <=> /\ \A w \in Workers : WorkerAgrees(w)
                  /\ \A o \in Operators : OperatorAgrees(o)
                  /\ \A j \in Jobs : JobAgrees(j)
<1>1. (\A w \in Workers : WorkerAgrees(w)) <=> RowMatchesStep /\ ReadsAreFresh /\ OutcomeKnown
  BY DEF WorkerAgrees, RowMatchesStep, ReadsAreFresh, OutcomeKnown
<1>2. (\A o \in Operators : OperatorAgrees(o)) /\ (\A j \in Jobs : JobAgrees(j))
         <=> StoresAgree /\ BudgetLeft /\ InsertedIsQueued
  BY DEF OperatorAgrees, JobAgrees, StoresAgree, BudgetLeft, InsertedIsQueued
<1> QED
  BY <1>1, <1>2 DEF Agreement

\* The same of the next state, as the lemmas of the steps need it.
LEMMA AgreementFromParts ==
    ASSUME \A w \in Workers : WorkerAgrees(w)',
           \A o \in Operators : OperatorAgrees(o)',
           \A j \in Jobs : JobAgrees(j)'
    PROVE  Agreement'
<1>1. RowMatchesStep' /\ ReadsAreFresh' /\ OutcomeKnown'
  BY DEF WorkerAgrees, RowMatchesStep, ReadsAreFresh, OutcomeKnown
<1>2. StoresAgree' /\ BudgetLeft' /\ InsertedIsQueued'
  BY DEF OperatorAgrees, JobAgrees, StoresAgree, BudgetLeft, InsertedIsQueued
<1> QED
  BY <1>1, <1>2 DEF Agreement

\* A process whose own state and whose job's row did not change still agrees.
LEMMA WorkerFrame ==
    ASSUME NEW w \in Workers, WorkerAgrees(w), worker'[w] = worker[w],
           LET j == worker[w].job IN
              worker[w].at # "idle" => /\ row'[j] = row[j] \/ row'[j] = "deleted"
                                       /\ row'[j] # "deleted" => attempts'[j] = attempts[j]
                                       /\ row'[j] # "deleted" => audit'[j] = audit[j]
                                       /\ confirmed'[j] = confirmed[j]
    PROVE  WorkerAgrees(w)'
  BY DEF WorkerAgrees, Exists, Delivering

\* At the start no row exists and no process has read one.
LEMMA AgreementInit == Init => Agreement
<1> SUFFICES ASSUME Init PROVE Agreement
  OBVIOUS
<1>1. Range(dlq) = {}
  BY DEF Init, QueueInit, Range
<1>2. \A w \in Workers : WorkerAgrees(w)
  BY DEF Init, IdleWorker, WorkerAgrees, Delivering
<1>3. \A o \in Operators : OperatorAgrees(o)
  BY DEF Init, IdleOperator, OperatorAgrees
<1>4. \A j \in Jobs : JobAgrees(j)
  BY <1>1, DeliveryAssumption DEF Init, QueueInit, JobAgrees
<1> QED
  BY <1>2, <1>3, <1>4, AgreementByParts

-----------------------------------------------------------------------------
(* A step of a worker concerns its own job only.                           *)

SameJob(k) ==
    /\ row'[k] = row[k] /\ attempts'[k] = attempts[k]
    /\ audit'[k] = audit[k] /\ confirmed'[k] = confirmed[k]
    /\ submission'[k] = submission[k]

SamePlaces(k) ==
    /\ delayed'[k] = delayed[k]
    /\ k \in Range(dlq') <=> k \in Range(dlq)

\* A step of a worker touches its own job only, and nobody else has that job.
LEMMA OwnerStep ==
    ASSUME TypeOK, Custody, Agreement, NEW w \in Workers, worker[w].at # "idle",
           UNCHANGED operator,
           \A v \in Workers \ {w} : worker'[v] = worker[v],
           \A k \in Jobs \ {worker[w].job} : SameJob(k) /\ SamePlaces(k),
           WorkerAgrees(w)',
           NEW j \in Jobs, j = worker[w].job, JobAgrees(j)'
    PROVE  Agreement'
<1>1. \A v \in Workers : WorkerAgrees(v)'
  <2> SUFFICES ASSUME NEW v \in Workers \ {w} PROVE WorkerAgrees(v)'
    OBVIOUS
  <2>1. WorkerAgrees(v) /\ worker'[v] = worker[v]
    BY AgreementByParts
  <2>2. worker[v].at # "idle" => worker[v].job \in Jobs \ {j}
    BY WorkerAlone
  <2> QED
    BY <2>1, <2>2, WorkerFrame DEF SameJob
<1>2. \A o \in Operators : OperatorAgrees(o)'
  <2> SUFFICES ASSUME NEW o \in Operators PROVE OperatorAgrees(o)'
    OBVIOUS
  <2>1. OperatorAgrees(o)
    BY AgreementByParts
  <2>2. operator[o].at # "idle" => operator[o].job \in Jobs \ {j}
    BY OperatorAlone
  <2> QED
    BY <2>1, <2>2 DEF OperatorAgrees, SameJob
<1>3. \A k \in Jobs : JobAgrees(k)'
  <2> SUFFICES ASSUME NEW k \in Jobs \ {j} PROVE JobAgrees(k)'
    OBVIOUS
  <2>1. JobAgrees(k) /\ SameJob(k) /\ SamePlaces(k)
    BY AgreementByParts
  <2> QED
    BY <2>1 DEF JobAgrees, SameJob, SamePlaces
<1> QED
  BY <1>1, <1>2, <1>3, AgreementFromParts

\* Each step of a delivery leaves the row as its next step expects it.
LEMMA WorkKeepsAgreement ==
    ASSUME TypeOK, Custody, Agreement, NEW w \in Workers, Process(w) \/ Abandon(w)
    PROVE  Agreement'
<1>1. worker[w] \in WorkerStates /\ worker[w].at # "idle"
  BY DEF TypeOK, Process, Lease, Load, Defer, Proceed, Number, Post, Record, Settle,
         Release, Abandon
<1>0. PICK j \in Jobs : j = worker[w].job
  BY <1>1, WorkerAlone
<1>2. /\ j = worker[w].job /\ worker[w].job \in Jobs
      /\ \A v \in Workers \ {w} : worker[v].job # j
      /\ delayed[j] = "none" /\ j \notin Range(dlq)
      /\ row[j] # "absent" /\ submission[j] \notin {"none", "inserted"}
  BY <1>0, <1>1, WorkerAlone
<1>3. WorkerAgrees(w) /\ JobAgrees(j)
  BY <1>2, AgreementByParts
<1>4. \A s : Become(w, s) =>
         worker'[w] = s /\ \A v \in Workers \ {w} : worker'[v] = worker[v]
  BY DEF Become, TypeOK
<1>5. UNCHANGED <<operator, submission>> /\ \A v \in Workers \ {w} : worker'[v] = worker[v]
  BY <1>4 DEF Process, Lease, Load, Defer, Proceed, Number, Post, Record, Settle,
              Release, Abandon, GoIdle, Goto
<1>6. /\ row \in [Jobs -> RowStates] /\ attempts \in [Jobs -> 0..MaxAttempts]
      /\ audit \in [Jobs -> Nat] /\ confirmed \in [Jobs -> Nat]
  BY DEF TypeOK
<1>7. ASSUME GoIdle(w) PROVE WorkerAgrees(w)'
  BY <1>4, <1>7 DEF GoIdle, WorkerAgrees, IdleWorker, Delivering
\* What remains of each case once the other jobs are seen to be untouched.
<1>8. ASSUME \A k \in Jobs \ {j} : SameJob(k) /\ SamePlaces(k),
             WorkerAgrees(w)', JobAgrees(j)'
      PROVE  Agreement'
  BY <1>1, <1>2, <1>5, <1>8, OwnerStep
<1>9. ASSUME UNCHANGED redisVars PROVE \A k \in Jobs : SamePlaces(k)
  BY <1>9 DEF SamePlaces, redisVars
<1>10. ASSUME UNCHANGED <<pgVars, confirmed>> PROVE \A k \in Jobs : SameJob(k)
  BY <1>5, <1>10 DEF SameJob, pgVars
<1>11. ASSUME SameJob(j), SamePlaces(j) PROVE JobAgrees(j)'
  BY <1>2, <1>5, <1>3, <1>11 DEF JobAgrees, SameJob, SamePlaces
<1>12. CASE Lease(w)
  <2>1. WorkerAgrees(w)'
    BY <1>1, <1>4, <1>12 DEF Lease, Goto, WorkerAgrees, WorkerStates, Delivering
  <2>2. \A k \in Jobs : SameJob(k) /\ SamePlaces(k)
    BY <1>10, <1>12 DEF Lease, TakeLease, SamePlaces
  <2> QED
    BY <1>2, <1>8, <1>11, <2>1, <2>2
<1>13. CASE Load(w)
  <2>1. \A k \in Jobs : SameJob(k) /\ SamePlaces(k)
    BY <1>9, <1>10, <1>13 DEF Load
  <2>2. CASE row[j] \in Live
    <3>1. worker'[w] = [worker[w] EXCEPT !.at = "gates", !.seen = attempts[j]]
      BY <1>0, <1>4, <1>13, <2>2 DEF Load
    <3>2. worker'[w].at = "gates" /\ worker'[w].job = j /\ worker'[w].seen = attempts[j]
      BY <1>0, <1>1, <3>1 DEF WorkerStates
    <3>3. WorkerAgrees(w)'
      BY <1>2, <2>1, <2>2, <3>2 DEF WorkerAgrees, Delivering, SameJob
    <3> QED
      BY <1>2, <1>8, <1>11, <2>1, <3>3
  <2>3. CASE row[j] \notin Live
    <3>1. worker'[w].at = "ack" /\ worker'[w].job = j
      BY <1>0, <1>1, <1>4, <1>13, <2>3 DEF Load, Goto, WorkerStates
    <3>2. row[j] \in Terminal \cup {"deleted"}
      BY <1>2, <1>6, <2>3 DEF RowStates
    <3>3. WorkerAgrees(w)'
      BY <1>2, <2>1, <3>1, <3>2 DEF WorkerAgrees, Delivering, SameJob
    <3> QED
      BY <1>2, <1>8, <1>11, <2>1, <3>3
  <2> QED
    BY <2>2, <2>3
<1>14. CASE Defer(w)
  <2>1. /\ worker[w].at = "gates" /\ worker'[w].at = "retry" /\ worker'[w].job = j
        /\ UpdateState(j, "queued")
        /\ UNCHANGED <<redisVars, attempts, audit, confirmed>>
    <3>1. worker'[w] = [worker[w] EXCEPT !.at = "retry", !.seen = 0]
      BY <1>4, <1>14 DEF Defer
    <3>2. /\ worker[w].at = "gates" /\ UpdateState(j, "queued")
          /\ UNCHANGED <<redisVars, attempts, audit, confirmed>>
      BY <1>0, <1>14 DEF Defer
    <3> QED
      BY <1>0, <1>1, <3>1, <3>2 DEF WorkerStates
  <2>2. row'[j] = (IF row[j] = "deleted" THEN "deleted" ELSE "queued")
    BY <1>2, <1>6, <2>1 DEF UpdateState, Exists
  <2>3. \A k \in Jobs \ {j} : SameJob(k) /\ SamePlaces(k)
    BY <1>5, <1>6, <1>9, <2>1 DEF UpdateState, SameJob
  <2>4. WorkerAgrees(w)'
    BY <2>1, <2>2 DEF WorkerAgrees, Delivering
  <2>5. row[j] # "deleted" => row[j] \in Live
    BY <1>0, <1>3, <2>1 DEF WorkerAgrees
  <2>6. JobAgrees(j)'
    BY <1>2, <1>5, <1>3, <2>1, <2>2, <2>5 DEF JobAgrees, redisVars, Live
  <2> QED
    BY <1>8, <2>3, <2>4, <2>6
<1>15. CASE Proceed(w)
  <2>1. /\ worker[w].at = "gates" /\ worker'[w].at = "number" /\ worker'[w].job = j
        /\ worker'[w].seen = worker[w].seen
        /\ UpdateState(j, "in_flight")
        /\ UNCHANGED <<redisVars, attempts, audit, confirmed>>
    BY <1>0, <1>1, <1>4, <1>15 DEF Proceed, Goto, WorkerStates
  <2>2. row'[j] = (IF row[j] = "deleted" THEN "deleted" ELSE "in_flight")
    BY <1>2, <1>6, <2>1 DEF UpdateState, Exists
  <2>3. \A k \in Jobs \ {j} : SameJob(k) /\ SamePlaces(k)
    BY <1>5, <1>6, <1>9, <2>1 DEF UpdateState, SameJob
  <2>4. row[j] # "deleted" => row[j] \in Live /\ worker[w].seen = attempts[j]
    BY <1>0, <1>2, <1>3, <2>1 DEF WorkerAgrees, Exists
  <2>5. WorkerAgrees(w)'
    BY <2>1, <2>2, <2>4 DEF WorkerAgrees, Delivering, Exists
  <2>6. JobAgrees(j)'
    BY <1>2, <1>5, <1>3, <2>1, <2>2, <2>4 DEF JobAgrees, redisVars, Live
  <2> QED
    BY <1>8, <2>3, <2>5, <2>6
<1>16. CASE Number(w)
  <2>1. \A k \in Jobs : SameJob(k) /\ SamePlaces(k)
    BY <1>9, <1>10, <1>16 DEF Number
  <2>2. WorkerAgrees(w)'
    <3>1. CASE GoIdle(w)
      BY <1>7, <3>1
    <3>2. CASE ~GoIdle(w)
      <4>1. /\ worker[w].at = "number" /\ worker'[w].at = "post" /\ worker'[w].job = j
            /\ worker'[w].seen = worker[w].seen /\ worker'[w].number = audit[j] + 1
        <5>1. worker'[w] = [worker[w] EXCEPT !.at = "post", !.number = audit[j] + 1]
          BY <1>0, <1>4, <1>16, <3>2 DEF Number
        <5>2. worker[w].at = "number"
          BY <1>16 DEF Number
        <5> QED
          BY <1>0, <1>1, <5>1, <5>2 DEF WorkerStates
      <4>2. UNCHANGED <<row, attempts, audit>>
        BY <1>16 DEF Number, pgVars
      <4> QED
        BY <1>0, <1>3, <4>1, <4>2 DEF WorkerAgrees, Delivering, Exists
    <3> QED
      BY <3>1, <3>2
  <2> QED
    BY <1>2, <1>8, <1>11, <2>1, <2>2
<1>17. CASE Post(w)
  <2>1. PICK o \in Outcomes \ {"none"} :
          /\ Become(w, [worker[w] EXCEPT !.at = "record", !.outcome = o])
          /\ confirmed' = IF o = "ok" THEN [confirmed EXCEPT ![j] = @ + 1] ELSE confirmed
    BY <1>0, <1>17 DEF Post
  <2>2. /\ worker[w].at = "post" /\ worker'[w].at = "record" /\ worker'[w].job = j
        /\ worker'[w].seen = worker[w].seen /\ worker'[w].number = worker[w].number
        /\ worker'[w].outcome = o
    <3>1. worker'[w] = [worker[w] EXCEPT !.at = "record", !.outcome = o]
      BY <1>4, <2>1
    <3>2. worker[w].at = "post"
      BY <1>17 DEF Post
    <3> QED
      BY <1>0, <1>1, <3>1, <3>2 DEF WorkerStates
  <2>3. UNCHANGED <<row, attempts, audit>> /\ UNCHANGED redisVars
    BY <1>17 DEF Post, pgVars
  <2>4. o = "ok" => confirmed'[j] > 0
    BY <1>2, <1>6, <2>1
  <2>5. WorkerAgrees(w)'
    BY <1>0, <1>3, <2>1, <2>2, <2>3, <2>4 DEF WorkerAgrees, Delivering, Exists
  <2>6. \A k \in Jobs \ {j} : SameJob(k) /\ SamePlaces(k)
    BY <1>5, <1>6, <1>9, <2>1, <2>3 DEF SameJob
  <2>7. JobAgrees(j)'
    BY <1>2, <1>5, <1>3, <2>3 DEF JobAgrees, redisVars
  <2> QED
    BY <1>8, <2>5, <2>6, <2>7
<1>18. CASE Record(w)
  <2>1. /\ worker[w].at = "record"
        /\ UNCHANGED <<row, attempts, confirmed>> /\ UNCHANGED redisVars
    BY <1>18 DEF Record
  <2>2. \A k \in Jobs \ {j} : SameJob(k) /\ SamePlaces(k)
    BY <1>0, <1>5, <1>6, <1>9, <1>18, <2>1 DEF Record, SameJob
  <2>3. JobAgrees(j)'
    BY <1>2, <1>5, <1>3, <2>1 DEF JobAgrees, redisVars
  <2>4. WorkerAgrees(w)'
    <3>1. CASE GoIdle(w)
      BY <1>7, <3>1
    <3>2. CASE ~GoIdle(w)
      <4>1. /\ worker'[w].at = "settle" /\ worker'[w].job = j
            /\ worker'[w].seen = worker[w].seen /\ worker'[w].outcome = worker[w].outcome
        <5>1. worker'[w] = [worker[w] EXCEPT !.at = "settle", !.number = 0]
          BY <1>4, <1>18, <3>2 DEF Record
        <5> QED
          BY <1>0, <1>1, <5>1 DEF WorkerStates
      <4> QED
        BY <1>0, <1>3, <2>1, <4>1 DEF WorkerAgrees, Delivering, Exists
    <3> QED
      BY <3>1, <3>2
  <2> QED
    BY <1>8, <2>2, <2>3, <2>4
<1>19. CASE Settle(w)
  <2>1. /\ worker[w].at = "settle"
        /\ UNCHANGED <<audit, confirmed>> /\ UNCHANGED redisVars
    BY <1>19 DEF Settle
  <2>2. /\ row[j] \in {"in_flight", "deleted"}
        /\ row[j] = "in_flight" => worker[w].seen = attempts[j] /\ attempts[j] < MaxAttempts
        /\ worker[w].outcome # "none"
    BY <1>0, <1>3, <2>1 DEF WorkerAgrees, JobAgrees, Delivering, Exists, Live
  <2>3. ~BudgetSpent(j)
    BY <1>2, <1>6, <2>2, DeliveryAssumption DEF BudgetSpent, Exists
  <2>4. /\ UpdateState(j, Verdict(w).state)
        /\ attempts' = [attempts EXCEPT ![j] = IF Exists(j) THEN @ + 1 ELSE @]
        /\ Become(w, [IdleWorker EXCEPT !.at = Verdict(w).next, !.job = j])
    BY <1>0, <1>19, <2>3 DEF Settle
  <2>5. worker'[w].at = Verdict(w).next /\ worker'[w].job = j
    <3>1. worker'[w] = [IdleWorker EXCEPT !.at = Verdict(w).next, !.job = j]
      BY <1>4, <2>4
    <3> QED
      BY <3>1 DEF IdleWorker
  <2>6. row'[j] = IF row[j] = "deleted" THEN "deleted" ELSE Verdict(w).state
    BY <1>2, <1>6, <2>2, <2>4 DEF UpdateState, Exists
  <2>7. \/ Verdict(w).state = "succeeded" /\ Verdict(w).next = "ack"
        \/ Verdict(w).state = "dead" /\ Verdict(w).next = "bury"
        \/ Verdict(w).state = "queued" /\ Verdict(w).next = "retry" /\ ~Exhausted(w)
    <3>1. worker[w].outcome \in {"ok", "permanent", "retryable"}
      BY <1>1, <2>2 DEF WorkerStates, Outcomes
    <3>2. CASE worker[w].outcome = "retryable" /\ ~Exhausted(w)
      BY <3>2 DEF Verdict
    <3>3. CASE worker[w].outcome = "retryable" /\ Exhausted(w)
      BY <3>3 DEF Verdict
    <3>4. CASE worker[w].outcome \in {"ok", "permanent"}
      BY <3>4 DEF Verdict
    <3> QED
      BY <3>1, <3>2, <3>3, <3>4
  <2>8. \A k \in Jobs \ {j} : SameJob(k) /\ SamePlaces(k)
    BY <1>5, <1>6, <1>9, <2>1, <2>4 DEF UpdateState, SameJob
  <2>9. WorkerAgrees(w)'
    BY <2>5, <2>6, <2>7 DEF WorkerAgrees, Delivering, Terminal
  <2>10. JobAgrees(j)'
    <3>1. row[j] = "in_flight" => attempts'[j] = worker[w].seen + 1
      BY <1>2, <1>6, <2>2, <2>4 DEF Exists
    <3>2. row'[j] \in Live => row[j] = "in_flight" /\ ~(worker[w].seen + 1 >= MaxAttempts)
      BY <2>2, <2>6, <2>7 DEF Live, Exhausted
    <3>3. row'[j] \in Live => attempts'[j] < MaxAttempts
      BY <1>2, <1>6, <2>2, <3>1, <3>2, DeliveryAssumption
    <3>4. row'[j] # "absent"
      BY <2>2, <2>6, <2>7
    <3> QED
      BY <1>2, <1>5, <2>1, <3>3, <3>4 DEF JobAgrees, redisVars
  <2> QED
    BY <1>8, <2>8, <2>9, <2>10
<1>20. CASE Release(w)
  <2>1. WorkerAgrees(w)' /\ \A k \in Jobs : SameJob(k)
    BY <1>7, <1>10, <1>20 DEF Release
  <2>2. CASE worker[w].at = "ack" /\ Ack(j)
    BY <1>2, <1>8, <1>11, <2>1, <2>2 DEF Ack, SamePlaces
  <2>3. CASE worker[w].at = "retry" /\ RetryLater(j)
    <3>1. /\ dlq' = dlq /\ delayed'[j] = "waiting"
          /\ \A k \in Jobs \ {j} : delayed'[k] = delayed[k]
      BY <1>2, <2>3 DEF RetryLater, TypeOK, QueueTypeOK
    <3>2. row[j] \in {"queued", "deleted"}
      BY <1>0, <1>3, <2>3 DEF WorkerAgrees
    <3>3. JobAgrees(j)'
      BY <1>2, <1>5, <1>3, <2>1, <3>1, <3>2 DEF JobAgrees, SameJob
    <3> QED
      BY <1>8, <2>1, <3>1, <3>3 DEF SamePlaces
  <2>4. CASE worker[w].at = "bury" /\ DeadLetter(j)
    <3>1. delayed' = delayed /\ Range(dlq') = Range(dlq) \cup {j}
      BY <1>2, <2>4, AppendList DEF DeadLetter, TypeOK, QueueTypeOK
    <3>2. row[j] \in {"dead", "deleted"}
      BY <1>0, <1>3, <2>4 DEF WorkerAgrees
    <3>3. JobAgrees(j)'
      BY <1>2, <1>5, <1>3, <2>1, <3>1, <3>2 DEF JobAgrees, SameJob
    <3> QED
      BY <1>8, <2>1, <3>1, <3>3 DEF SamePlaces
  <2> QED
    BY <1>0, <1>20, <2>2, <2>3, <2>4 DEF Release
<1>21. CASE Abandon(w)
  <2>1. WorkerAgrees(w)' /\ \A k \in Jobs : SameJob(k) /\ SamePlaces(k)
    BY <1>7, <1>9, <1>10, <1>21 DEF Abandon
  <2> QED
    BY <1>2, <1>8, <1>11, <2>1
<1> QED
  BY <1>12, <1>13, <1>14, <1>15, <1>16, <1>17, <1>18, <1>19, <1>20, <1>21 DEF Process

-----------------------------------------------------------------------------
(* The other processes.                                                    *)

\* A step that leaves Postgres alone and adds nothing to the delayed set, to
\* the DLQ or to an operator's hands disturbs no agreement, if a worker it
\* changes is one that is only just claiming.
LEMMA NothingNew ==
    ASSUME Agreement, UNCHANGED <<row, attempts, audit, confirmed, submission>>,
           \A k \in Jobs : /\ delayed'[k] # "none" => delayed[k] # "none"
                           /\ k \in Range(dlq') => k \in Range(dlq),
           \A o \in Operators : operator'[o] = operator[o] \/ operator'[o] = IdleOperator,
           \A w \in Workers : worker'[w] = worker[w] \/ worker'[w].at = "lease"
    PROVE  Agreement'
<1>1. \A w \in Workers : WorkerAgrees(w) => WorkerAgrees(w)'
  BY DEF WorkerAgrees, Delivering, Exists
<1>2. \A o \in Operators : OperatorAgrees(o) => OperatorAgrees(o)'
  BY DEF OperatorAgrees, IdleOperator
<1>3. \A k \in Jobs : JobAgrees(k) => JobAgrees(k)'
  BY DEF JobAgrees
<1> QED
  BY <1>1, <1>2, <1>3, AgreementByParts, AgreementFromParts

\* A step about a job that no worker holds.
LEMMA OwnerlessStep ==
    ASSUME Agreement, NEW j \in Jobs, UNCHANGED worker,
           \A w \in Workers : worker[w].at # "idle" => worker[w].job \in Jobs \ {j},
           \A k \in Jobs \ {j} : SameJob(k) /\ SamePlaces(k),
           \A o \in Operators : OperatorAgrees(o)',
           JobAgrees(j)'
    PROVE  Agreement'
<1>1. \A w \in Workers : WorkerAgrees(w)'
  BY AgreementByParts, WorkerFrame DEF SameJob
<1>2. \A k \in Jobs : JobAgrees(k)'
  <2> SUFFICES ASSUME NEW k \in Jobs \ {j} PROVE JobAgrees(k)'
    OBVIOUS
  <2> QED
    BY AgreementByParts DEF JobAgrees, SameJob, SamePlaces
<1> QED
  BY <1>1, <1>2, AgreementFromParts

\* The api writes rows that nobody has read and pushes ids that nobody holds.
LEMMA ApiKeepsAgreement ==
    ASSUME TypeOK, Custody, Agreement, NEW j \in Jobs, Api(j)
    PROVE  Agreement'
<1>1. /\ \A w \in Workers : worker[w].job # j
      /\ \A o \in Operators : operator[o].job # j
      /\ delayed[j] = "none" /\ j \notin Range(dlq)
  BY UnpushedAlone DEF Api, InsertJob, PushJob, PushFails
<1>2. /\ UNCHANGED <<worker, operator, attempts, audit, confirmed, dlq>>
      /\ \A k \in Jobs \ {j} : /\ row'[k] = row[k] /\ delayed'[k] = delayed[k]
                               /\ submission'[k] = submission[k]
  BY DEF Api, InsertJob, PushJob, PushFails, Push, PushDelayed, pgVars, redisVars,
         TypeOK, QueueTypeOK
<1>3. \A w \in Workers : worker[w].at # "idle" => worker[w].job \in Jobs \ {j}
  BY <1>1, WorkerAlone
<1>4. \A k \in Jobs \ {j} : SameJob(k) /\ SamePlaces(k)
  BY <1>2 DEF SameJob, SamePlaces
<1>5. \A o \in Operators : OperatorAgrees(o)'
  BY <1>1, <1>2, AgreementByParts, OperatorAlone DEF OperatorAgrees
<1>6. JobAgrees(j)'
  <2>1. CASE InsertJob(j)
    <3>1. delayed' = delayed
      BY <2>1 DEF InsertJob, redisVars
    <3>2. attempts[j] < MaxAttempts /\ row'[j] = "queued"
      <4>1. row[j] = "absent"
        BY <2>1 DEF InsertJob, Custody, NotPushedYet
      <4> QED
        BY <2>1, <4>1, AgreementByParts DEF JobAgrees, InsertJob, TypeOK
    <3> QED
      BY <1>1, <1>2, <3>1, <3>2 DEF JobAgrees
  <2>2. CASE PushJob(j)
    <3>1. row'[j] = row[j] /\ row[j] \in {"queued", "deleted"} /\ submission'[j] = "accepted"
      BY <2>2, AgreementByParts DEF JobAgrees, PushJob, pgVars, TypeOK
    <3> QED
      BY <1>1, <1>2, <3>1, AgreementByParts DEF JobAgrees
  <2>3. CASE PushFails(j)
    BY <1>1, <1>2, <2>3, AgreementByParts
       DEF JobAgrees, PushFails, pgVars, redisVars, TypeOK
  <2> QED
    BY <2>1, <2>2, <2>3 DEF Api
<1> QED
  BY <1>2, <1>3, <1>4, <1>5, <1>6, OwnerlessStep

\* Nothing is asked of a deleted row.
LEMMA CascadeKeepsAgreement ==
    ASSUME TypeOK, Custody, Agreement, NEW j \in Jobs, Cascade(j)
    PROVE  Agreement'
<1>1. /\ UNCHANGED <<worker, operator, confirmed, submission, delayed, dlq>>
      /\ row'[j] = "deleted"
      /\ \A k \in Jobs \ {j} : SameJob(k)
  BY DEF Cascade, redisVars, TypeOK, SameJob
<1>2. \A w \in Workers : WorkerAgrees(w)'
  <2> SUFFICES ASSUME NEW w \in Workers PROVE WorkerAgrees(w)'
    OBVIOUS
  <2>1. WorkerAgrees(w) /\ (worker[w].at # "idle" => worker[w].job \in Jobs)
    BY AgreementByParts, WorkerAlone
  <2> QED
    BY <1>1, <2>1, WorkerFrame DEF SameJob
<1>3. \A o \in Operators : OperatorAgrees(o)'
  <2> SUFFICES ASSUME NEW o \in Operators PROVE OperatorAgrees(o)'
    OBVIOUS
  <2>1. OperatorAgrees(o) /\ (operator[o].at # "idle" => operator[o].job \in Jobs)
    BY AgreementByParts, OperatorAlone
  <2> QED
    BY <1>1, <2>1 DEF OperatorAgrees, SameJob
<1>4. \A k \in Jobs : JobAgrees(k)'
  <2>1. JobAgrees(j)'
    BY <1>1 DEF JobAgrees, Live
  <2>2. ASSUME NEW k \in Jobs \ {j} PROVE JobAgrees(k)'
    BY <1>1, <2>2, AgreementByParts DEF JobAgrees, SameJob
  <2> QED
    BY <2>1, <2>2
<1> QED
  BY <1>2, <1>3, <1>4, AgreementFromParts

\* An id comes to an operator from the DLQ, so its row is dead until the reset.
LEMMA ReplayKeepsAgreement ==
    ASSUME TypeOK, Custody, Agreement, NEW o \in Operators, Replay(o)
    PROVE  Agreement'
<1>1. \A p \in Operators \ {o} : operator'[p] = operator[p]
  BY DEF Replay, PopDead, ResetDead, PushReplayed, ReplayStops, TypeOK
<1>2. UNCHANGED <<worker, submission, audit, confirmed>>
  BY DEF Replay, PopDead, ResetDead, PushReplayed, ReplayStops, pgVars
<1>3. CASE PopDead(o)
  <2>1. PICK j \in Jobs : PopDlq(j) /\ operator'[o] = [at |-> "reset", job |-> j]
    BY <1>3 DEF PopDead, TypeOK
  <2>2. Range(dlq') \subseteq Range(dlq) /\ j \in Range(dlq) /\ delayed' = delayed
    BY <2>1, PopList DEF PopDlq, TypeOK, QueueTypeOK, Custody, NoCopies
  <2>3. UNCHANGED <<row, attempts>>
    BY <1>3 DEF PopDead, pgVars
  <2>4. \A w \in Workers : WorkerAgrees(w)'
    BY <1>2, <2>3, AgreementByParts, WorkerFrame
  <2>5. OperatorAgrees(o)'
    <3>1. row[j] \in {"dead", "deleted"}
      BY <2>2, AgreementByParts DEF JobAgrees
    <3> QED
      BY <2>1, <2>3, <3>1 DEF OperatorAgrees
  <2>6. ASSUME NEW p \in Operators \ {o} PROVE OperatorAgrees(p)'
    BY <1>1, <2>3, <2>6, AgreementByParts DEF OperatorAgrees
  <2>7. \A k \in Jobs : JobAgrees(k)'
    BY <1>2, <2>2, <2>3, AgreementByParts DEF JobAgrees
  <2> QED
    BY <2>4, <2>5, <2>6, <2>7, AgreementFromParts
<1>4. CASE ResetDead(o)
  <2>1. PICK j \in Jobs : j = operator[o].job
    BY <1>4, OperatorAlone DEF ResetDead
  <2>2. /\ \A p \in Operators \ {o} : operator[p].job # j
        /\ \A w \in Workers : worker[w].job # j
        /\ delayed[j] = "none" /\ j \notin Range(dlq)
    BY <1>4, <2>1, OperatorAlone DEF ResetDead
  <2>3. /\ row[j] \in {"dead", "deleted"}
        /\ UpdateState(j, "queued")
        /\ attempts' = [attempts EXCEPT ![j] = 0]
        /\ operator' = [operator EXCEPT ![o] =
                           IF Exists(j) THEN [at |-> "push", job |-> j] ELSE IdleOperator]
        /\ UNCHANGED redisVars
    BY <1>4, <2>1, AgreementByParts DEF ResetDead, OperatorAgrees
  <2>4. /\ row'[j] = IF row[j] = "dead" THEN "queued" ELSE "deleted"
        /\ attempts'[j] = 0
        /\ \A k \in Jobs \ {j} : row'[k] = row[k] /\ attempts'[k] = attempts[k]
    BY <2>3 DEF UpdateState, Exists, TypeOK
  <2>5. \A k \in Jobs \ {j} : SameJob(k) /\ SamePlaces(k)
    BY <1>2, <2>3, <2>4 DEF SameJob, SamePlaces, redisVars
  <2>6. \A w \in Workers : worker[w].at # "idle" => worker[w].job \in Jobs \ {j}
    BY <2>2, WorkerAlone
  <2>7. OperatorAgrees(o)'
    <3>1. operator'[o] = IF row[j] = "dead" THEN [at |-> "push", job |-> j] ELSE IdleOperator
      BY <2>3 DEF Exists, TypeOK
    <3> QED
      BY <2>4, <3>1 DEF OperatorAgrees, IdleOperator
  <2>8. ASSUME NEW p \in Operators \ {o} PROVE OperatorAgrees(p)'
    <3>1. operator[p].at # "idle" => operator[p].job \in Jobs \ {j}
      BY <2>2, OperatorAlone
    <3> QED
      BY <1>1, <2>4, <3>1, AgreementByParts DEF OperatorAgrees
  <2>9. JobAgrees(j)'
    <3>1. delayed'[j] = "none" /\ j \notin Range(dlq')
      BY <2>2, <2>3 DEF redisVars
    <3> QED
      BY <2>4, <3>1, DeliveryAssumption DEF JobAgrees
  <2> QED
    BY <1>2, <2>5, <2>6, <2>7, <2>8, <2>9, OwnerlessStep
<1>5. CASE PushReplayed(o) \/ ReplayStops(o)
  <2>1. /\ UNCHANGED <<row, attempts, delayed, dlq>>
        /\ operator'[o] = IdleOperator
    BY <1>5 DEF PushReplayed, ReplayStops, Push, pgVars, redisVars, TypeOK
  <2> QED
    BY <1>1, <1>2, <2>1, NothingNew
<1> QED
  BY <1>3, <1>4, <1>5 DEF Replay

\* The sweeps of the scheduler touch no row and delay nothing.
LEMMA SweepKeepsAgreement ==
    ASSUME TypeOK, Agreement, Promote \/ Reap PROVE Agreement'
<1>1. /\ UNCHANGED <<row, attempts, audit, confirmed, submission, worker, operator, dlq>>
      /\ \A k \in Jobs : delayed'[k] # "none" => delayed[k] # "none"
  BY DEF Promote, Reap, PromoteDue, ReapExpired, pgVars
<1> QED
  BY <1>1, NothingNew

\* Neither do the delays and leases that run out.
LEMMA TimeKeepsAgreement ==
    ASSUME TypeOK, Agreement, NEW j \in Jobs, Time(j) PROVE Agreement'
<1>1. /\ UNCHANGED <<row, attempts, audit, confirmed, submission, worker, operator, dlq>>
      /\ \A k \in Jobs : delayed'[k] # "none" => delayed[k] # "none"
  BY DEF Time, DelayElapses, LeaseLapses, DelayPasses, LeasePasses, pgVars,
         TypeOK, QueueTypeOK
<1> QED
  BY <1>1, NothingNew

\* A worker that claims a job has read nothing yet.
LEMMA ClaimKeepsAgreement ==
    ASSUME TypeOK, Agreement, NEW w \in Workers, Claim(w) PROVE Agreement'
<1>1. UNCHANGED <<row, attempts, audit, confirmed, submission, operator, delayed, dlq>>
  BY DEF Claim, ClaimMove, pgVars
<1>2. \A v \in Workers \ {w} : worker'[v] = worker[v]
  BY DEF Claim, Become, TypeOK
<1>3. worker'[w].at = "lease"
  <2>1. worker[w] \in WorkerStates
    BY DEF TypeOK
  <2>2. PICK j \in Jobs : worker'[w] = [worker[w] EXCEPT !.at = "lease", !.job = j]
    BY DEF Claim, Become, TypeOK
  <2> QED
    BY <2>1, <2>2 DEF WorkerStates
<1> QED
  BY <1>1, <1>2, <1>3, NothingNew

-----------------------------------------------------------------------------
\* Every step keeps Agreement.
LEMMA AgreementNext ==
    TypeOK /\ Custody /\ Agreement /\ OneCopy /\ [Next]_vars => Agreement'
<1> SUFFICES ASSUME TypeOK, Custody, Agreement, OneCopy, [Next]_vars PROVE Agreement'
  OBVIOUS
<1>1. CASE UNCHANGED vars
  BY <1>1, NothingNew DEF vars, redisVars, pgVars
<1>2. ASSUME NEW j \in Jobs, Api(j) \/ Time(j) \/ Cascade(j) PROVE Agreement'
  BY <1>2, ApiKeepsAgreement, TimeKeepsAgreement, CascadeKeepsAgreement
<1>3. ASSUME NEW w \in Workers, Claim(w) \/ Process(w) \/ Abandon(w) PROVE Agreement'
  BY <1>3, ClaimKeepsAgreement, WorkKeepsAgreement
<1>4. ASSUME NEW o \in Operators, Replay(o) PROVE Agreement'
  BY <1>4, ReplayKeepsAgreement
<1>5. CASE Promote \/ Reap
  BY <1>5, SweepKeepsAgreement
<1>6. \A j \in Jobs : ~Resent(j)
  BY DEF OneCopy, Resent
<1> QED
  BY <1>1, <1>2, <1>3, <1>4, <1>5, <1>6 DEF Next

\* So it holds for ever.
LEMMA AgreementInvariant ==
    OneCopy => (Spec => [](TypeOK /\ Custody /\ Agreement))
<1> SUFFICES ASSUME OneCopy PROVE Spec => [](TypeOK /\ Custody /\ Agreement)
  OBVIOUS
<1>1. Init => TypeOK /\ Custody /\ Agreement
  BY TypeInit, CustodyInit, AgreementInit
<1>2. TypeOK /\ Custody /\ Agreement /\ [Next]_vars => TypeOK' /\ Custody' /\ Agreement'
  BY TypeNext, CustodyNext, AgreementNext DEF Custody
<1> QED
  BY <1>1, <1>2, PTL DEF Spec

\* What it is for: no constraint of Postgres rejects a write.
LEMMA AgreementAcceptsWrites ==
    TypeOK /\ Custody /\ Agreement => AuditNeverCollides /\ BudgetNeverOverdrawn /\ StoresAgree
<1> SUFFICES ASSUME TypeOK, Custody, Agreement
             PROVE  AuditNeverCollides /\ BudgetNeverOverdrawn
  BY DEF Agreement
<1>1. ASSUME NEW w \in Workers, worker[w].at = "record", Exists(worker[w].job)
      PROVE  ~NumberTaken(w)
  <2>1. worker[w].number = audit[worker[w].job] + 1 /\ audit[worker[w].job] \in Nat
    BY <1>1, WorkerAlone DEF Agreement, ReadsAreFresh, TypeOK
  <2> QED
    BY <2>1 DEF NumberTaken
<1>2. ASSUME NEW w \in Workers, worker[w].at = "settle" PROVE ~BudgetSpent(worker[w].job)
  <2>1. /\ worker[w].job \in Jobs
        /\ row[worker[w].job] \in {"in_flight", "deleted"}
    BY <1>2, WorkerAlone DEF Agreement, RowMatchesStep, Delivering
  <2>2. /\ Exists(worker[w].job) => attempts[worker[w].job] < MaxAttempts
        /\ attempts[worker[w].job] \in Nat
    BY <2>1 DEF Agreement, BudgetLeft, Live, Exists, TypeOK
  <2> QED
    BY <2>2, DeliveryAssumption DEF BudgetSpent
<1> QED
  BY <1>1, <1>2 DEF AuditNeverCollides, BudgetNeverOverdrawn

\* While workers keep to their visibility timeout and no command is executed
\* twice, the unique (jobId, attemptNumber) never rejects the record of a request
\* that was made: numbering attempts by a COUNT without a lock is safe
\* (delivery.repository.ts:33).
THEOREM AuditAcceptsAttempts == OneCopy => (Spec => []AuditNeverCollides)
  BY AgreementInvariant, AgreementAcceptsWrites, PTL

\* Under the same assumption the CHECK on attempts never rejects the outcome of a
\* delivery: whoever settles a job has budget left to spend.
THEOREM CheckAcceptsOutcomes == OneCopy => (Spec => []BudgetNeverOverdrawn)
  BY AgreementInvariant, AgreementAcceptsWrites, PTL

\* And a job that Redis treats as waiting, dead or being replayed is so in Postgres
\* too, wherever processes stop between a row's update and its script.
THEOREM RowsAndListsAgree == OneCopy => (Spec => []StoresAgree)
  BY AgreementInvariant, PTL DEF Agreement
=============================================================================
