-------------------------- MODULE DuplicateProofs --------------------------
(***************************************************************************)
(* Proof that a job whose request was answered 2xx is requested and        *)
(* answered again only if a worker drops it (SecondAnswerNeedsADrop), for  *)
(* workers that keep to their visibility timeout and whatever else         *)
(* happens: replays, deferrals, reaped claims, rows deleted under a        *)
(* delivery.  The answers are those that workers have received.            *)
(*                                                                         *)
(* The bound is not inductive: a job that was answered once must also be   *)
(* one that nobody will deliver again.  Duplicates says so: beyond one     *)
(* answer for each abandonment there is one at most, and none before the   *)
(* job is answered in a way that the next worker will know of.             *)
(*                                                                         *)
(* With workers that are told to stop, the abandonments are then counted   *)
(* by the signals, and so are the claims that no lease will return.        *)
(***************************************************************************)
EXTENDS AgreementProofs, Shutdown

\* The worker has sent the request of its job, or is about to.
Requesting == {"post", "record", "settle"}

\* The job had a 2xx that will not be followed by another request: its worker is
\* about to write it down, or its row says so, or is gone, and nobody is past the
\* point where the row is looked at.
Answered(j) ==
    \/ \E w \in Workers : /\ Holds(w, j)
                          /\ worker[w].at \in {"record", "settle"}
                          /\ worker[w].outcome = "ok"
    \/ /\ row[j] \in {"succeeded", "deleted"}
       /\ \A w \in Workers : Holds(w, j) => worker[w].at \notin Requesting

DuplicatesOf(j) == confirmed[j] <= abandons[j] + (IF Answered(j) THEN 1 ELSE 0)
Duplicates == \A j \in Jobs : DuplicatesOf(j)

\* At the start nothing was answered.
LEMMA DuplicatesInit == Init => Duplicates
  BY DEF Init, Duplicates, DuplicatesOf, Answered, Holds, IdleWorker

\* A step that answers nothing and loses no answer keeps the bound.
LEMMA NothingAnswered ==
    ASSUME TypeOK, NEW j \in Jobs, DuplicatesOf(j),
           confirmed'[j] = confirmed[j], abandons'[j] = abandons[j],
           Answered(j) => Answered(j)'
    PROVE  DuplicatesOf(j)'
<1>1. confirmed[j] \in Nat /\ abandons[j] \in Nat
  BY DeliveryAssumption DEF TypeOK
<1> QED
  BY <1>1 DEF DuplicatesOf

\* What a step does not touch stays answered or unanswered.
LEMMA AnsweredFrame ==
    ASSUME NEW j \in Jobs, row'[j] = row[j],
           \A w \in Workers : Holds(w, j) \/ Holds(w, j)' => worker'[w] = worker[w]
    PROVE  Answered(j)' <=> Answered(j)
  BY DEF Answered, Holds

\* Steps that are not a worker's make no row less settled than it was.
LEMMA OthersKeepDuplicates ==
    ASSUME TypeOK, Duplicates, UNCHANGED <<worker, confirmed, abandons>>,
           \A j \in Jobs : row[j] \in {"succeeded", "deleted"}
                              => row'[j] \in {"succeeded", "deleted"}
    PROVE  Duplicates'
<1> SUFFICES ASSUME NEW j \in Jobs PROVE DuplicatesOf(j)'
  BY DEF Duplicates
<1>1. Answered(j) => Answered(j)'
  BY DEF Answered, Holds
<1> QED
  BY <1>1, NothingAnswered DEF Duplicates

\* A step of a worker on its own job leaves the other jobs as they were.
LEMMA WorkerDuplicates ==
    ASSUME TypeOK, Duplicates, NEW w \in Workers,
           \A v \in Workers \ {w} : worker'[v] = worker[v],
           NEW j \in Jobs,
           worker[w].job \in {j, NoJob}, worker'[w].job \in {j, NoJob},
           \A k \in Jobs \ {j} : /\ row'[k] = row[k]
                                 /\ confirmed'[k] = confirmed[k]
                                 /\ abandons'[k] = abandons[k],
           DuplicatesOf(j)'
    PROVE  Duplicates'
<1> SUFFICES ASSUME NEW k \in Jobs \ {j} PROVE DuplicatesOf(k)'
  BY DEF Duplicates
<1>1. \A v \in Workers : Holds(v, k) \/ Holds(v, k)' => v # w
  BY DeliveryAssumption DEF Holds
<1>2. Answered(k)' <=> Answered(k)
  BY <1>1, AnsweredFrame
<1> QED
  BY <1>2, NothingAnswered DEF Duplicates

-----------------------------------------------------------------------------
(* Steps of a worker.                                                      *)

\* Whether the job of a worker in that state, with that row, is answered.
IsAnswered(state, inRow) ==
    IF state.at \in Requesting THEN state.at # "post" /\ state.outcome = "ok"
                               ELSE inRow \in {"succeeded", "deleted"}

\* Of a job with one owner, the owner and the row tell.
LEMMA AnsweredByOwner ==
    ASSUME NEW w \in Workers, NEW j \in Jobs
    PROVE  /\ /\ \A v \in Workers \ {w} : worker[v].job # j
              /\ worker[w].job = j \/ worker[w].at = "idle"
              => (Answered(j) <=> IsAnswered(worker[w], row[j]))
           /\ /\ \A v \in Workers \ {w} : worker'[v].job # j
              /\ worker'[w].job = j \/ worker'[w].at = "idle"
              => (Answered(j)' <=> IsAnswered(worker'[w], row'[j]))
<1>1. ASSUME \A v \in Workers \ {w} : worker[v].job # j,
             worker[w].job = j \/ worker[w].at = "idle"
      PROVE  Answered(j) <=> IsAnswered(worker[w], row[j])
  <2>1. CASE worker[w].at \in Requesting
    BY <1>1, <2>1 DEF Answered, IsAnswered, Holds, Requesting
  <2>2. CASE worker[w].at \notin Requesting
    BY <1>1, <2>2 DEF Answered, IsAnswered, Holds, Requesting
  <2> QED
    BY <2>1, <2>2
<1>2. ASSUME \A v \in Workers \ {w} : worker'[v].job # j,
             worker'[w].job = j \/ worker'[w].at = "idle"
      PROVE  Answered(j)' <=> IsAnswered(worker'[w], row'[j])
  <2>1. CASE worker'[w].at \in Requesting
    BY <1>2, <2>1 DEF Answered, IsAnswered, Holds, Requesting
  <2>2. CASE worker'[w].at \notin Requesting
    BY <1>2, <2>2 DEF Answered, IsAnswered, Holds, Requesting
  <2> QED
    BY <2>1, <2>2
<1> QED
  BY <1>1, <1>2

\* Each step of a delivery: the one that receives a 2xx finds none before it, and
\* the one that throws the answer away is an abandonment.
LEMMA WorkKeepsDuplicates ==
    ASSUME TypeOK, Custody, Agreement, Duplicates, NEW w \in Workers,
           Claim(w) \/ Process(w) \/ Abandon(w)
    PROVE  Duplicates'
<1>1. \A s : Become(w, s) =>
         worker'[w] = s /\ \A v \in Workers \ {w} : worker'[v] = worker[v]
  BY DEF Become, TypeOK
<1>2. worker[w] \in WorkerStates
  BY DEF TypeOK
<1>3. CASE Claim(w)
  <2>1. PICK j \in Jobs : ClaimMove(j) /\ Become(w, [worker[w] EXCEPT !.at = "lease", !.job = j])
    BY <1>3 DEF Claim
  <2>2. worker[w].at = "idle" /\ UNCHANGED <<row, confirmed, abandons>>
    BY <1>3 DEF Claim, pgVars, boundVars
  <2>3. worker'[w].at = "lease" /\ worker'[w].job = j
    <3>1. worker'[w] = [worker[w] EXCEPT !.at = "lease", !.job = j]
      BY <1>1, <2>1
    <3> QED
      BY <1>2, <3>1 DEF WorkerStates
  <2>4. worker[w].job = NoJob /\ \A v \in Workers \ {w} : worker'[v] = worker[v]
    BY <1>1, <2>1, <2>2 DEF Custody, Employed
  <2>5. Answered(j) => Answered(j)'
    BY <2>2, <2>3, <2>4, DeliveryAssumption DEF Answered, Holds, Requesting
  <2>6. DuplicatesOf(j)'
    BY <2>2, <2>5, NothingAnswered DEF Duplicates
  <2> QED
    BY <2>2, <2>3, <2>4, <2>6, WorkerDuplicates
<1>4. CASE Process(w) \/ Abandon(w)
  <2>1. worker[w].at # "idle"
    BY <1>4 DEF Process, Lease, Load, Defer, Proceed, Number, Post, Record, Settle,
                Release, Abandon
  <2>2. PICK j \in Jobs : j = worker[w].job
    BY <2>1, WorkerAlone
  <2>3. /\ \A v \in Workers \ {w} : worker[v].job # j
        /\ row[j] # "absent"
    BY <2>1, <2>2, WorkerAlone
  <2>4. /\ worker[w].at \in Delivering => row[j] \in {"in_flight", "deleted"}
        /\ worker[w].at = "gates" => row[j] \in Live \cup {"deleted"}
        /\ worker[w].at \in {"record", "settle"} => worker[w].outcome # "none"
    <3>1. worker[w].at \in Delivering => row[j] \in {"in_flight", "deleted"}
      BY <2>2 DEF Agreement, RowMatchesStep
    <3>2. worker[w].at = "gates" => row[j] \in Live \cup {"deleted"}
      BY <2>2 DEF Agreement, RowMatchesStep
    <3>3. worker[w].at \in {"record", "settle"} => worker[w].outcome # "none"
      BY DEF Agreement, OutcomeKnown
    <3> QED
      BY <3>1, <3>2, <3>3
  <2>5. \A v \in Workers \ {w} : worker'[v] = worker[v]
    BY <1>4, OneWorkerMoves
  <2>6. /\ row \in [Jobs -> RowStates] /\ confirmed \in [Jobs -> Nat]
        /\ abandons \in [Jobs -> Nat]
    BY DeliveryAssumption DEF TypeOK
  <2>7. confirmed[j] <= abandons[j] + (IF IsAnswered(worker[w], row[j]) THEN 1 ELSE 0)
    <3>1. Answered(j) <=> IsAnswered(worker[w], row[j])
      BY <2>2, <2>3, AnsweredByOwner
    <3> QED
      BY <3>1 DEF Duplicates, DuplicatesOf
  \* What remains of each case: the new state of the worker, of the row, the counts.
  <2>8. ASSUME worker'[w].job = j \/ worker'[w] = IdleWorker,
               \A k \in Jobs \ {j} : /\ row'[k] = row[k]
                                     /\ confirmed'[k] = confirmed[k]
                                     /\ abandons'[k] = abandons[k],
               confirmed'[j] <= abandons'[j]
                                  + (IF IsAnswered(worker'[w], row'[j]) THEN 1 ELSE 0)
        PROVE  Duplicates'
    <3>1. worker'[w].job \in {j, NoJob} /\ (worker'[w].job = j \/ worker'[w].at = "idle")
      BY <2>8 DEF IdleWorker
    <3>2. \A v \in Workers \ {w} : worker'[v].job # j
      BY <2>3, <2>5
    <3>3. Answered(j)' <=> IsAnswered(worker'[w], row'[j])
      BY <3>1, <3>2, AnsweredByOwner
    <3>4. DuplicatesOf(j)'
      BY <2>8, <3>3 DEF DuplicatesOf
    <3> QED
      BY <2>2, <2>5, <2>8, <3>1, <3>4, WorkerDuplicates
  <2>9. CASE Lease(w)
    <3>1. worker[w].at = "lease" /\ worker'[w].at = "load" /\ worker'[w].job = j
      BY <1>1, <1>2, <2>2, <2>9 DEF Lease, Goto, WorkerStates
    <3>2. UNCHANGED <<row, confirmed, abandons>>
      BY <2>9 DEF Lease, pgVars, boundVars
    <3> QED
      BY <2>7, <2>8, <3>1, <3>2 DEF IsAnswered, Requesting
  <2>10. CASE Load(w)
    <3>1. /\ worker[w].at = "load" /\ worker'[w].at \in {"ack", "gates"}
          /\ worker'[w].job = j
      <4>1. /\ worker[w].at = "load"
            /\ \/ worker'[w] = [worker[w] EXCEPT !.at = "ack"]
               \/ worker'[w] = [worker[w] EXCEPT !.at = "gates", !.seen = attempts[j]]
        BY <1>1, <2>2, <2>10 DEF Load, Goto
      <4> QED
        BY <1>2, <2>2, <4>1 DEF WorkerStates
    <3>2. UNCHANGED <<row, confirmed, abandons>>
      BY <2>10 DEF Load, pgVars, boundVars
    <3> QED
      BY <2>7, <2>8, <3>1, <3>2 DEF IsAnswered, Requesting
  <2>11. CASE Defer(w)
    <3>1. /\ worker[w].at = "gates" /\ worker'[w].at = "retry" /\ worker'[w].job = j
          /\ UpdateState(j, "queued")
      <4>1. /\ worker[w].at = "gates" /\ UpdateState(j, "queued")
            /\ worker'[w] = [worker[w] EXCEPT !.at = "retry", !.seen = 0]
        BY <1>1, <2>2, <2>11 DEF Defer
      <4> QED
        BY <1>2, <2>2, <4>1 DEF WorkerStates
    <3>2. UNCHANGED <<confirmed, abandons>>
      BY <2>11 DEF Defer, boundVars
    <3>3. row[j] \in {"succeeded", "deleted"} => row'[j] = "deleted"
      BY <2>4, <2>6, <3>1 DEF UpdateState, Exists, Live
    <3>4. \A k \in Jobs \ {j} : row'[k] = row[k]
      BY <2>6, <3>1 DEF UpdateState
    <3> QED
      BY <2>6, <2>7, <2>8, <3>1, <3>2, <3>3, <3>4 DEF IsAnswered, Requesting
  <2>12. CASE Proceed(w)
    <3>1. /\ worker[w].at = "gates" /\ worker'[w].at = "number" /\ worker'[w].job = j
          /\ UpdateState(j, "in_flight")
      BY <1>1, <1>2, <2>2, <2>12 DEF Proceed, Goto, WorkerStates
    <3>2. UNCHANGED <<confirmed, abandons>>
      BY <2>12 DEF Proceed, boundVars
    <3>3. row[j] \in {"succeeded", "deleted"} => row'[j] = "deleted"
      BY <2>4, <2>6, <3>1 DEF UpdateState, Exists, Live
    <3>4. \A k \in Jobs \ {j} : row'[k] = row[k]
      BY <2>6, <3>1 DEF UpdateState
    <3> QED
      BY <2>6, <2>7, <2>8, <3>1, <3>2, <3>3, <3>4 DEF IsAnswered, Requesting
  <2>13. CASE Number(w)
    <3>1. UNCHANGED <<row, confirmed, abandons>> /\ worker[w].at = "number"
      BY <2>13 DEF Number, pgVars, boundVars
    <3>2. CASE GoIdle(w)
      <4>1. worker'[w] = IdleWorker
        BY <1>1, <3>2 DEF GoIdle
      <4> QED
        BY <2>7, <2>8, <3>1, <4>1 DEF IsAnswered, Requesting, IdleWorker
    <3>3. CASE ~GoIdle(w)
      <4>1. worker'[w].at = "post" /\ worker'[w].job = j /\ Exists(j)
        <5>1. worker'[w] = [worker[w] EXCEPT !.at = "post", !.number = audit[j] + 1] /\ Exists(j)
          BY <1>1, <2>2, <2>13, <3>3 DEF Number
        <5> QED
          BY <1>2, <2>2, <5>1 DEF WorkerStates
      <4>2. ~IsAnswered(worker[w], row[j])
        BY <2>4, <3>1, <4>1 DEF IsAnswered, Requesting, Exists, Delivering
      <4> QED
        BY <2>6, <2>7, <2>8, <3>1, <4>1, <4>2 DEF IsAnswered, Requesting
    <3> QED
      BY <3>2, <3>3
  <2>14. CASE Post(w)
    <3>1. PICK o \in Outcomes \ {"none"} :
            /\ Become(w, [worker[w] EXCEPT !.at = "record", !.outcome = o])
            /\ confirmed' = IF o = "ok" THEN [confirmed EXCEPT ![j] = @ + 1] ELSE confirmed
      BY <2>2, <2>14 DEF Post
    <3>2. /\ worker[w].at = "post" /\ worker'[w].at = "record" /\ worker'[w].job = j
          /\ worker'[w].outcome = o
      <4>1. worker[w].at = "post" /\ worker'[w] = [worker[w] EXCEPT !.at = "record", !.outcome = o]
        BY <1>1, <2>14, <3>1 DEF Post
      <4> QED
        BY <1>2, <2>2, <4>1 DEF WorkerStates
    <3>3. UNCHANGED <<row, abandons>>
      BY <2>14 DEF Post, pgVars, boundVars
    <3>4. confirmed[j] <= abandons[j] /\ confirmed[j] \in Nat /\ abandons[j] \in Nat
      BY <2>6, <2>7, <3>2 DEF IsAnswered, Requesting
    <3>5. IsAnswered(worker'[w], row'[j]) <=> o = "ok"
      BY <3>2 DEF IsAnswered, Requesting
    <3>6. /\ confirmed'[j] = IF o = "ok" THEN confirmed[j] + 1 ELSE confirmed[j]
          /\ \A k \in Jobs \ {j} : confirmed'[k] = confirmed[k]
      BY <2>6, <3>1
    <3>7. confirmed'[j] <= abandons'[j]
                             + (IF IsAnswered(worker'[w], row'[j]) THEN 1 ELSE 0)
      BY <3>3, <3>4, <3>5, <3>6
    <3> QED
      BY <2>8, <3>2, <3>3, <3>6, <3>7
  <2>15. CASE Record(w)
    <3>1. UNCHANGED <<row, confirmed, abandons>> /\ worker[w].at = "record"
      BY <2>15 DEF Record, boundVars
    <3>2. CASE GoIdle(w)
      <4>1. worker'[w] = IdleWorker
        BY <1>1, <3>2 DEF GoIdle
      <4>2. row[j] = "deleted"
        <5>1. ~Exists(j) \/ NumberTaken(w)
          <6> SUFFICES ASSUME Exists(j), ~NumberTaken(w) PROVE FALSE
            OBVIOUS
          <6>1. worker'[w] = [worker[w] EXCEPT !.at = "settle", !.number = 0]
            BY <1>1, <2>2, <2>15 DEF Record
          <6>2. worker'[w].at = "settle"
            BY <1>2, <6>1 DEF WorkerStates
          <6> QED
            BY <4>1, <6>2 DEF IdleWorker
        <5>2. AuditNeverCollides
          BY AgreementAcceptsWrites
        <5> QED
          BY <2>2, <2>3, <3>1, <5>1, <5>2 DEF AuditNeverCollides, Exists
      <4> QED
        BY <2>6, <2>7, <2>8, <3>1, <4>1, <4>2 DEF IsAnswered, Requesting, IdleWorker
    <3>3. CASE ~GoIdle(w)
      <4>1. /\ worker'[w].at = "settle" /\ worker'[w].job = j
            /\ worker'[w].outcome = worker[w].outcome
        <5>1. worker'[w] = [worker[w] EXCEPT !.at = "settle", !.number = 0]
          BY <1>1, <2>15, <3>3 DEF Record
        <5> QED
          BY <1>2, <2>2, <5>1 DEF WorkerStates
      <4> QED
        BY <2>6, <2>7, <2>8, <3>1, <4>1 DEF IsAnswered, Requesting
    <3> QED
      BY <3>2, <3>3
  <2>16. CASE Settle(w)
    <3>1. UNCHANGED <<confirmed, abandons>> /\ worker[w].at = "settle"
      BY <2>16 DEF Settle, boundVars
    <3>2. ~BudgetSpent(j)
      BY <2>2, <3>1, AgreementAcceptsWrites DEF BudgetNeverOverdrawn
    <3>3. /\ UpdateState(j, Verdict(w).state)
          /\ Become(w, [IdleWorker EXCEPT !.at = Verdict(w).next, !.job = j])
      BY <2>2, <2>16, <3>2 DEF Settle
    <3>4. worker'[w].at = Verdict(w).next /\ worker'[w].job = j
      <4>1. worker'[w] = [IdleWorker EXCEPT !.at = Verdict(w).next, !.job = j]
        BY <1>1, <3>3
      <4> QED
        BY <4>1 DEF IdleWorker
    <3>5. /\ Verdict(w).next \in {"ack", "retry", "bury"}
          /\ worker[w].outcome = "ok" => Verdict(w).state = "succeeded"
      BY DEF Verdict
    <3>6. \A k \in Jobs \ {j} : row'[k] = row[k]
      BY <2>6, <3>3 DEF UpdateState
    <3>7. worker[w].outcome = "ok" => row'[j] \in {"succeeded", "deleted"}
      BY <2>3, <2>6, <3>3, <3>5 DEF UpdateState, Exists
    <3> QED
      BY <2>6, <2>7, <2>8, <3>1, <3>4, <3>5, <3>6, <3>7 DEF IsAnswered, Requesting
  <2>17. CASE Release(w)
    <3>1. UNCHANGED <<row, confirmed, abandons>> /\ worker[w].at \in {"ack", "retry", "bury"}
      BY <2>17 DEF Release, pgVars, boundVars
    <3>2. worker'[w] = IdleWorker
      BY <1>1, <2>17 DEF Release, GoIdle
    <3> QED
      BY <2>7, <2>8, <3>1, <3>2 DEF IsAnswered, Requesting, IdleWorker
  <2>18. CASE Abandon(w)
    <3>1. UNCHANGED <<row, confirmed>> /\ abandons' = [abandons EXCEPT ![j] = @ + 1]
      BY <2>2, <2>18 DEF Abandon, pgVars
    <3>2. worker'[w] = IdleWorker
      BY <1>1, <2>18 DEF Abandon, GoIdle
    <3>3. abandons'[j] = abandons[j] + 1 /\ \A k \in Jobs \ {j} : abandons'[k] = abandons[k]
      BY <2>6, <3>1
    <3> QED
      BY <2>6, <2>7, <2>8, <3>1, <3>2, <3>3
  <2>19. CASE Process(w)
    BY <2>9, <2>10, <2>11, <2>12, <2>13, <2>14, <2>15, <2>16, <2>17, <2>19, Zenon DEF Process
  <2> QED
    BY <1>4, <2>18, <2>19, Zenon
<1> QED
  BY <1>3, <1>4

-----------------------------------------------------------------------------
\* Every step keeps the bound: the api, the sweeps, time, deletions and replays
\* unsettle no row that had an answer, for a dead job had none to lose.
LEMMA DuplicatesNext ==
    TypeOK /\ Custody /\ Agreement /\ Duplicates /\ [Next]_vars => Duplicates'
<1> SUFFICES ASSUME TypeOK, Custody, Agreement, Duplicates, [Next]_vars
             PROVE  Duplicates'
  OBVIOUS
<1>1. CASE UNCHANGED vars
  BY <1>1, OthersKeepDuplicates DEF vars, pgVars, boundVars
<1>2. ASSUME NEW w \in Workers, Claim(w) \/ Process(w) \/ Abandon(w)
      PROVE  Duplicates'
  BY <1>2, WorkKeepsDuplicates
<1>3. ASSUME NEW j \in Jobs, Api(j) \/ Time(j) \/ Cascade(j) \/ Resent(j)
      PROVE  Duplicates'
  <2>1. UNCHANGED <<worker, confirmed, abandons>>
    BY <1>3 DEF Api, InsertJob, PushJob, PushFails, Time, DelayElapses, LeaseLapses,
                Cascade, Resent, boundVars
  <2>2. submission[j] = "none" => row[j] = "absent"
    BY DEF Custody, NotPushedYet
  <2>3. row \in [Jobs -> RowStates]
    BY DEF TypeOK
  <2>4. \A k \in Jobs : row[k] \in {"succeeded", "deleted"}
                           => row'[k] \in {"succeeded", "deleted"}
    BY <1>3, <2>2, <2>3 DEF Api, InsertJob, PushJob, PushFails, Time, DelayElapses,
                            LeaseLapses, Cascade, Resent, pgVars
  <2> QED
    BY <2>1, <2>4, OthersKeepDuplicates
<1>4. ASSUME NEW o \in Operators, Replay(o)
      PROVE  Duplicates'
  <2>1. UNCHANGED <<worker, confirmed, abandons>>
    BY <1>4 DEF Replay, PopDead, ResetDead, PushReplayed, ReplayStops, boundVars
  <2>2. CASE ResetDead(o)
    <3>1. operator[o].at = "reset" /\ UpdateState(operator[o].job, "queued")
      BY <2>2 DEF ResetDead
    <3>2. row[operator[o].job] \in {"dead", "deleted"} /\ row \in [Jobs -> RowStates]
      BY <3>1 DEF Agreement, StoresAgree, TypeOK
    <3>3. \A k \in Jobs : row[k] \in {"succeeded", "deleted"} => row'[k] = row[k]
      BY <3>1, <3>2 DEF UpdateState, Exists
    <3> QED
      BY <2>1, <3>3, OthersKeepDuplicates
  <2>3. CASE ~ResetDead(o)
    <3>1. row' = row
      BY <1>4, <2>3 DEF Replay, PopDead, PushReplayed, ReplayStops, pgVars
    <3> QED
      BY <2>1, <3>1, OthersKeepDuplicates
  <2> QED
    BY <2>2, <2>3
<1>5. CASE Promote \/ Reap
  BY <1>5, OthersKeepDuplicates DEF Promote, Reap, pgVars, boundVars
<1> QED
  BY <1>1, <1>2, <1>3, <1>4, <1>5 DEF Next

\* While workers keep to their visibility timeout and no command is executed
\* twice, workers receive one 2xx for a job, and one more for each time a worker
\* drops it, at most: for every number of jobs, workers, replays and deferrals.
THEOREM AnswersRepeatByDrops ==
    OneCopy => (Spec => []SecondAnswerNeedsADrop)
<1> SUFFICES ASSUME OneCopy
             PROVE  Spec => []SecondAnswerNeedsADrop
  OBVIOUS
<1>1. Spec => [](TypeOK /\ Custody /\ Agreement)
  BY AgreementInvariant
<1>2. TypeOK /\ Duplicates => SecondAnswerNeedsADrop
  <2> SUFFICES ASSUME TypeOK, Duplicates, NEW j \in Jobs
               PROVE  confirmed[j] <= 1 + abandons[j]
    BY DEF SecondAnswerNeedsADrop
  <2>1. confirmed[j] \in Nat /\ abandons[j] \in Nat
    BY DeliveryAssumption DEF TypeOK
  <2> QED
    BY <2>1 DEF Duplicates, DuplicatesOf
<1> QED
  BY <1>1, <1>2, DuplicatesInit, DuplicatesNext, PTL DEF Spec

-----------------------------------------------------------------------------
(* Workers that are told to stop (Shutdown).                               *)

\* Told and without a job, now and for ever: the loop looks at running before it
\* reserves again.
Gone == {w \in Workers : stage[w] # "running" /\ worker[w].at = "idle" /\ ahead[w] # "pop"}

\* Only those that may be told are, and only an idle loop blocks in BRPOPLPUSH.
StopShape ==
    /\ StopTypeOK
    /\ \A w \in Workers : stage[w] # "running" => w \in Stopping
    /\ \A w \in Workers : ahead[w] = "pop" => worker[w].at = "idle"

\* A worker drops a job when it is told to stop, and then it is gone: the jobs
\* that were dropped are no more than the workers that are gone.
Dropped ==
    /\ StopShape
    /\ \A j \in Jobs : abandons[j] <= Cardinality(Gone)

\* Each step of a platform whose workers are stopped is a step of Delivery.
LEMMA StopStepIsDelivery == [StopNext]_stopAllVars => [Next]_vars
  BY DEF StopNext, stopAllVars, Platform, Consume, ClaimNext, BlockEnds, Work, Rejected,
         Signal, QuitBoth, Exit, Next

LEMMA DroppedInit == StopInit => Dropped
<1> SUFFICES ASSUME StopInit PROVE Dropped
  OBVIOUS
<1>1. Gone = {}
  BY DEF StopInit, Gone
<1> QED
  BY <1>1, FS_EmptySet DEF StopInit, Init, Dropped, StopShape, StopTypeOK, Stages, Commands

\* What a step does that drops nothing.
NothingDropped ==
    \/ \E j \in Jobs : Api(j) \/ Time(j)
    \/ Promote \/ Reap
    \/ \E w \in Workers : Claim(w) \/ Process(w)
    \/ UNCHANGED vars

\* Nobody comes back, and whoever drops a job joins those that are gone.
LEMMA WhoLeaves ==
    ASSUME TypeOK, StopShape, [StopNext]_stopAllVars
    PROVE  /\ StopShape' /\ Gone \subseteq Gone'
           /\ NothingDropped \/ \E w \in Workers : Abandon(w) /\ w \in Gone'
<1>0. /\ worker \in [Workers -> WorkerStates]
      /\ stage \in [Workers -> Stages] /\ ahead \in [Workers -> Commands]
  BY DEF TypeOK, StopShape, StopTypeOK
<1> DEFINE Shape == StopShape' /\ Gone \subseteq Gone'
<1>1. ASSUME UNCHANGED <<worker, stopVars>> PROVE Shape
  BY <1>1 DEF StopShape, Gone, StopTypeOK, stopVars
<1>2. CASE UNCHANGED stopAllVars
  BY <1>1, <1>2 DEF stopAllVars, vars, NothingDropped
<1>3. CASE Platform
  <2>1. UNCHANGED <<worker, stopVars>>
    BY <1>3 DEF Platform, Api, InsertJob, PushJob, PushFails, Time, DelayElapses,
                LeaseLapses, Promote, Reap
  <2> QED
    BY <1>1, <1>3, <2>1 DEF Platform, NothingDropped
<1>4. ASSUME NEW w \in Workers, Consume(w) \/ Signal(w) \/ QuitBoth(w) \/ Exit(w)
      PROVE  Shape /\ (NothingDropped \/ (Abandon(w) /\ w \in Gone'))
  <2>1. CASE ClaimNext(w) \/ Work(w)
    <3>1. w \notin Gone
      BY <2>1 DEF ClaimNext, Work, Process, Lease, Load, Defer, Proceed, Number, Post, Record,
                  Settle, Release, Gone
    <3>2. /\ Claim(w) \/ Process(w)
          /\ stage' = stage /\ ahead' = [ahead EXCEPT ![w] = "none"]
      BY <2>1 DEF ClaimNext, Work, Sent
    <3>3. \A v \in Workers \ {w} : worker'[v] = worker[v]
      BY <3>2, OneWorkerMoves
    <3>4. Shape
      BY <1>0, <3>1, <3>2, <3>3 DEF StopShape, StopTypeOK, Commands, Gone
    <3> QED
      BY <3>2, <3>4 DEF NothingDropped
  <2>2. CASE BlockEnds(w)
    <3>1. /\ UNCHANGED vars /\ UNCHANGED <<worker, stage>>
          /\ ahead' = [ahead EXCEPT ![w] = "none"] /\ w \notin Gone
      BY <2>2 DEF BlockEnds, Sent, Gone, vars
    <3>2. Shape
      BY <1>0, <3>1 DEF StopShape, StopTypeOK, Commands, Gone
    <3> QED
      BY <3>1, <3>2 DEF NothingDropped
  <2>3. CASE Rejected(w)
    <3>1. Abandon(w) /\ UNCHANGED <<stage, ahead>> /\ stage[w] # "running"
      BY <2>3 DEF Rejected, stopVars
    <3>2. worker[w].at # "idle" /\ ahead[w] # "pop"
      BY <3>1 DEF Abandon, StopShape
    <3>3. worker' = [worker EXCEPT ![w] = IdleWorker]
      BY <3>1 DEF Abandon, GoIdle, Become
    <3>4. worker'[w].at = "idle" /\ \A v \in Workers \ {w} : worker'[v] = worker[v]
      BY <1>0, <3>3 DEF IdleWorker
    <3>5. Shape /\ w \in Gone'
      BY <1>0, <3>1, <3>2, <3>4 DEF StopShape, StopTypeOK, Gone
    <3> QED
      BY <3>1, <3>5
  <2>4. CASE Signal(w)
    <3>1. /\ UNCHANGED vars /\ UNCHANGED worker /\ w \in Stopping
          /\ stage' = [stage EXCEPT ![w] = "consume"] /\ w \notin Gone
      BY <2>4 DEF Signal, Enter, Gone, vars
    <3>2. PICK command \in Commands :
            /\ ahead' = [ahead EXCEPT ![w] = command]
            /\ command = "pop" => worker[w].at = "idle"
      BY <1>0, <2>4 DEF Signal, Sent, Commands, StopShape
    <3>3. Shape
      BY <1>0, <3>1, <3>2 DEF StopShape, StopTypeOK, Stages, Gone
    <3> QED
      BY <3>1, <3>3 DEF NothingDropped
  <2>5. CASE QuitBoth(w)
    <3>1. /\ UNCHANGED vars /\ UNCHANGED worker /\ stage[w] # "running"
          /\ stage' = [stage EXCEPT ![w] = "command"]
      BY <2>5 DEF QuitBoth, Enter, vars
    <3>2. PICK command \in Commands \ {"pop"} : ahead' = [ahead EXCEPT ![w] = command]
      BY <1>0, <2>5 DEF QuitBoth, Sent, Commands
    <3>3. Shape
      BY <1>0, <3>1, <3>2 DEF StopShape, StopTypeOK, Stages, Gone
    <3> QED
      BY <3>1, <3>3 DEF NothingDropped
  <2>6. CASE Exit(w)
    <3>1. /\ stage[w] # "running" /\ stage' = [stage EXCEPT ![w] = "exited"]
          /\ ahead' = [ahead EXCEPT ![w] = "none"]
      BY <2>6 DEF Exit, Enter, Sent
    <3>2. CASE UNCHANGED vars
      <4>1. Shape
        BY <1>0, <3>1, <3>2 DEF StopShape, StopTypeOK, Stages, Commands, Gone, vars
      <4> QED
        BY <3>2, <4>1 DEF NothingDropped
    <3>3. CASE Abandon(w)
      <4>1. worker' = [worker EXCEPT ![w] = IdleWorker]
        BY <3>3 DEF Abandon, GoIdle, Become
      <4>2. worker'[w].at = "idle" /\ \A v \in Workers \ {w} : worker'[v] = worker[v]
        BY <1>0, <4>1 DEF IdleWorker
      <4>3. Shape /\ w \in Gone'
        BY <1>0, <3>1, <4>2 DEF StopShape, StopTypeOK, Stages, Commands, Gone
      <4> QED
        BY <3>3, <4>3
    <3> QED
      BY <2>6, <3>2, <3>3 DEF Exit
  <2> QED
    BY <1>4, <2>1, <2>2, <2>3, <2>4, <2>5, <2>6 DEF Consume
<1> QED
  BY <1>2, <1>3, <1>4 DEF StopNext

\* Those that are gone can be counted, and whoever drops a job is one more.
LEMMA OneMoreGone ==
    ASSUME StopShape, StopShape', Gone \subseteq Gone'
    PROVE  /\ IsFiniteSet(Gone) /\ Cardinality(Gone) \in Nat
           /\ IsFiniteSet(Gone') /\ Cardinality(Gone') \in Nat
           /\ Cardinality(Gone) <= Cardinality(Gone')
           /\ \A w \in Workers : Abandon(w) /\ w \in Gone' =>
                 Cardinality(Gone) + 1 <= Cardinality(Gone')
<1>1. Gone \subseteq Stopping /\ Gone' \subseteq Stopping
  BY DEF Gone, StopShape
<1>2. /\ IsFiniteSet(Gone) /\ Cardinality(Gone) \in Nat
      /\ IsFiniteSet(Gone') /\ Cardinality(Gone') \in Nat
      /\ Cardinality(Gone) <= Cardinality(Gone')
  BY <1>1, ShutdownAssumption, FS_Subset, FS_CardinalityType
<1>3. ASSUME NEW w \in Workers, Abandon(w), w \in Gone'
      PROVE  Cardinality(Gone) + 1 <= Cardinality(Gone')
  <2>1. w \notin Gone
    BY <1>3 DEF Abandon, Gone
  <2>2. Cardinality(Gone \cup {w}) = Cardinality(Gone) + 1
    BY <1>2, <2>1, FS_AddElement
  <2>3. Gone \cup {w} \subseteq Gone'
    BY <1>3
  <2> QED
    BY <1>2, <2>2, <2>3, FS_Subset
<1> QED
  BY <1>2, <1>3

LEMMA DroppedNext == TypeOK /\ Dropped /\ [StopNext]_stopAllVars => Dropped'
<1> SUFFICES ASSUME TypeOK, Dropped, [StopNext]_stopAllVars PROVE Dropped'
  OBVIOUS
<1>1. /\ StopShape /\ StopShape' /\ Gone \subseteq Gone'
      /\ NothingDropped \/ \E w \in Workers : Abandon(w) /\ w \in Gone'
  BY WhoLeaves DEF Dropped
<1>2. /\ Cardinality(Gone) \in Nat /\ Cardinality(Gone') \in Nat
      /\ Cardinality(Gone) <= Cardinality(Gone')
  BY <1>1, OneMoreGone
<1>3. abandons \in [Jobs -> Nat]
  BY DeliveryAssumption DEF TypeOK
<1>4. CASE NothingDropped
  <2>1. abandons' = abandons
    BY <1>4 DEF NothingDropped, Api, InsertJob, PushJob, PushFails, Time, DelayElapses,
                LeaseLapses, Promote, Reap, Claim, Process, Lease, Load, Defer, Proceed,
                Number, Post, Record, Settle, Release, boundVars, vars
  <2>2. ASSUME NEW j \in Jobs PROVE abandons'[j] <= Cardinality(Gone')
    <3>1. abandons[j] \in Nat /\ abandons[j] <= Cardinality(Gone)
      BY <1>3 DEF Dropped
    <3> QED
      BY <1>2, <2>1, <3>1
  <2> QED
    BY <1>1, <2>2 DEF Dropped
<1>5. ASSUME NEW w \in Workers, Abandon(w), w \in Gone' PROVE Dropped'
  <2>1. Cardinality(Gone) + 1 <= Cardinality(Gone')
    BY <1>1, <1>5, OneMoreGone
  <2>2. \A j \in Jobs : abandons'[j] \in Nat /\ abandons'[j] <= abandons[j] + 1
    BY <1>3, <1>5 DEF Abandon
  <2>3. ASSUME NEW j \in Jobs PROVE abandons'[j] <= Cardinality(Gone')
    <3>1. abandons[j] \in Nat /\ abandons[j] <= Cardinality(Gone)
      BY <1>3 DEF Dropped
    <3> QED
      BY <1>2, <2>1, <2>2, <3>1
  <2> QED
    BY <1>1, <2>3 DEF Dropped
<1> QED
  BY <1>1, <1>4, <1>5

\* Where workers are only told to stop, they receive one 2xx for a job, and one more
\* for each worker that was told, at most: shutdown does not wait for the job in hand
\* (worker.ts:83), and repeats no more of what was answered than that, for every
\* number of workers and jobs, and wherever the signals strike.
THEOREM SignalsRepeatOneEach == OneCopy => (StopSpec => []SecondAnswerNeedsASignal)
<1> SUFFICES ASSUME OneCopy PROVE StopSpec => []SecondAnswerNeedsASignal
  OBVIOUS
<1>1. StopInit => Init
  BY DEF StopInit
<1>2. StopSpec => Spec
  BY <1>1, StopStepIsDelivery, PTL DEF StopSpec, Spec
<1>3. Spec => [](TypeOK /\ SecondAnswerNeedsADrop)
  BY TypeCorrect, AnswersRepeatByDrops, PTL
<1>4. TypeOK /\ Dropped /\ SecondAnswerNeedsADrop => SecondAnswerNeedsASignal
  <2> SUFFICES ASSUME TypeOK, Dropped, SecondAnswerNeedsADrop, NEW j \in Jobs
               PROVE  confirmed[j] <= 1 + Cardinality(Told)
    BY DEF SecondAnswerNeedsASignal
  <2>1. Gone \subseteq Told /\ Told \subseteq Stopping
    BY DEF Gone, Told, Dropped, StopShape
  <2>2. /\ Cardinality(Gone) \in Nat /\ Cardinality(Told) \in Nat
        /\ Cardinality(Gone) <= Cardinality(Told)
    BY <2>1, ShutdownAssumption, FS_Subset, FS_CardinalityType
  <2>3. confirmed[j] \in Nat /\ abandons[j] \in Nat
    BY DeliveryAssumption DEF TypeOK
  <2>4. confirmed[j] <= 1 + abandons[j] /\ abandons[j] <= Cardinality(Gone)
    BY DEF SecondAnswerNeedsADrop, Dropped
  <2> QED
    BY <2>2, <2>3, <2>4
<1> QED
  BY <1>2, <1>3, <1>4, DroppedInit, DroppedNext, PTL DEF StopSpec

-----------------------------------------------------------------------------
(* What a worker that is told to stop leaves in flight.                    *)

\* Claimed, without a lease, and nobody is about to take one.
Orphans ==
    {j \in Jobs : /\ inflight[j] > 0 /\ leases[j] = "none"
                  /\ \A w \in Workers : ~(worker[w].at = "lease" /\ Holds(w, j))}

\* A claim is orphaned when its worker drops it before it is leased, and then the
\* worker is gone.
OrphansAreFew == Cardinality(Orphans) <= Cardinality(Gone)

\* Every other step that ends a lease ends the claim, and every other worker that
\* makes a claim goes on to lease it.
LEMMA NoNewOrphans ==
    ASSUME TypeOK, Custody, NothingDropped
    PROVE  Orphans' \subseteq Orphans
<1>0. /\ inflight \in [Jobs -> Nat] /\ leases \in [Jobs -> LeaseStates]
      /\ worker \in [Workers -> WorkerStates]
      /\ \A j \in Jobs : inflight[j] \in {0, 1}
  BY DEF TypeOK, QueueTypeOK, Custody, NoCopies
<1>1. ASSUME UNCHANGED <<inflight, leases, worker>> PROVE Orphans' = Orphans
  BY <1>1 DEF Orphans, Holds
<1>2. ASSUME NEW j \in Jobs, Api(j) PROVE Orphans' = Orphans
  BY <1>1, <1>2 DEF Api, InsertJob, PushJob, PushFails, Push, PushDelayed, redisVars
<1>3. ASSUME NEW j \in Jobs, Time(j) PROVE Orphans' \subseteq Orphans
  <2>1. CASE DelayElapses(j)
    BY <1>1, <2>1 DEF DelayElapses, DelayPasses
  <2>2. CASE LeaseLapses(j)
    <3>1. /\ leases[j] = "held" /\ leases' = [leases EXCEPT ![j] = "lapsed"]
          /\ UNCHANGED <<inflight, worker>>
      BY <2>2 DEF LeaseLapses, LeasePasses
    <3> QED
      BY <1>0, <3>1 DEF Orphans, Holds
  <2> QED
    BY <1>3, <2>1, <2>2 DEF Time
<1>4. CASE Promote
  BY <1>1, <1>4 DEF Promote, PromoteDue
<1>5. CASE Reap
  <2>1. PICK batch \in Batches(Expired) : ReapExpired(batch)
    BY <1>5 DEF Reap
  <2>2. Range(batch) \subseteq Expired
    BY <2>1, BatchIsList DEF Expired
  <2>3. ASSUME NEW j \in Range(batch) PROVE j \in Jobs /\ inflight'[j] = 0
    <3>1. j \in Jobs /\ leases[j] # "none"
      BY <2>2, <2>3 DEF Expired
    <3>2. inflight[j] = 1
      BY <1>0, <3>1 DEF Custody, LeasedIsInFlight
    <3> QED
      BY <2>1, <2>3, <3>1, <3>2 DEF ReapExpired
  <2>4. ASSUME NEW j \in Jobs, j \notin Range(batch)
        PROVE  inflight'[j] = inflight[j] /\ leases'[j] = leases[j]
    BY <2>1, <2>4 DEF ReapExpired
  <2>5. worker' = worker
    BY <1>5 DEF Reap
  <2> QED
    BY <2>3, <2>4, <2>5 DEF Orphans, Holds
<1>6. ASSUME NEW w \in Workers, Claim(w) PROVE Orphans' \subseteq Orphans
  <2>1. PICK j \in Jobs :
          /\ ClaimMove(j)
          /\ worker' = [worker EXCEPT ![w] = [worker[w] EXCEPT !.at = "lease", !.job = j]]
    BY <1>6 DEF Claim, Become
  <2>2. /\ \A k \in Jobs : k # j => inflight'[k] = inflight[k] /\ leases'[k] = leases[k]
    BY <1>0, <2>1 DEF ClaimMove
  <2>3. worker'[w].at = "lease" /\ worker'[w].job = j /\ worker[w].at = "idle"
    BY <1>0, <1>6, <2>1 DEF Claim, WorkerStates
  <2>4. \A v \in Workers \ {w} : worker'[v] = worker[v]
    BY <1>0, <2>1
  <2> QED
    BY <2>2, <2>3, <2>4 DEF Orphans, Holds
<1>7. ASSUME NEW w \in Workers, Process(w) PROVE Orphans' \subseteq Orphans
  <2>1. \A v \in Workers \ {w} : worker'[v] = worker[v]
    BY <1>7, OneWorkerMoves
  <2>2. worker[w].at # "idle" /\ worker[w].job \in Jobs
    <3>1. worker[w].at # "idle"
      BY <1>7 DEF Process, Lease, Load, Defer, Proceed, Number, Post, Record, Settle, Release
    <3> QED
      BY <3>1, WorkerAlone
  <2>3. CASE Lease(w)
    <3>1. /\ leases' = [leases EXCEPT ![worker[w].job] = "held"] /\ inflight' = inflight
      BY <2>3 DEF Lease, TakeLease
    <3> QED
      BY <1>0, <2>1, <2>2, <3>1 DEF Orphans, Holds
  <2>4. CASE Release(w)
    <3>1. /\ leases' = [leases EXCEPT ![worker[w].job] = "none"]
          /\ inflight' = [inflight EXCEPT ![worker[w].job] = IF @ > 0 THEN @ - 1 ELSE 0]
          /\ worker[w].at # "lease"
      BY <2>4 DEF Release, Ack, RetryLater, DeadLetter, DropClaim
    <3>2. inflight[worker[w].job] = 1
      BY <1>0, <2>2 DEF Custody, Claims, InFlight
    <3>3. inflight'[worker[w].job] = 0
      BY <1>0, <2>2, <3>1, <3>2
    <3> QED
      BY <1>0, <2>1, <2>2, <3>1, <3>3 DEF Orphans, Holds
  <2>5. CASE Load(w) \/ Defer(w) \/ Proceed(w) \/ Number(w) \/ Post(w) \/ Record(w) \/ Settle(w)
    <3>1. UNCHANGED <<inflight, leases>> /\ worker[w].at # "lease"
      BY <2>5 DEF Load, Defer, Proceed, Number, Post, Record, Settle, redisVars
    <3> QED
      BY <2>1, <3>1 DEF Orphans, Holds
  <2> QED
    BY <1>7, <2>3, <2>4, <2>5 DEF Process
<1>8. CASE UNCHANGED vars
  BY <1>1, <1>8 DEF vars, redisVars
<1> QED
  BY <1>2, <1>3, <1>4, <1>5, <1>6, <1>7, <1>8 DEF NothingDropped

LEMMA OneNewOrphan ==
    ASSUME TypeOK, Custody, NEW w \in Workers, Abandon(w)
    PROVE  Orphans' \subseteq Orphans \cup {worker[w].job}
<1>1. \A v \in Workers \ {w} : worker'[v] = worker[v]
  BY OneWorkerMoves
<1>2. UNCHANGED <<inflight, leases>>
  BY DEF Abandon, redisVars
<1> QED
  BY <1>1, <1>2 DEF Orphans, Holds

LEMMA OrphansNext ==
    TypeOK /\ Custody /\ StopShape /\ OrphansAreFew /\ [StopNext]_stopAllVars => OrphansAreFew'
<1> SUFFICES ASSUME TypeOK, Custody, StopShape, OrphansAreFew, [StopNext]_stopAllVars
             PROVE  OrphansAreFew'
  OBVIOUS
<1>1. /\ StopShape' /\ Gone \subseteq Gone'
      /\ NothingDropped \/ \E w \in Workers : Abandon(w) /\ w \in Gone'
  BY WhoLeaves
<1>2. /\ Cardinality(Gone) \in Nat /\ Cardinality(Gone') \in Nat
      /\ Cardinality(Gone) <= Cardinality(Gone')
  BY <1>1, OneMoreGone
<1>3. /\ IsFiniteSet(Orphans) /\ Cardinality(Orphans) \in Nat
      /\ IsFiniteSet(Orphans') /\ Cardinality(Orphans') \in Nat
  BY QueueAssumption, FS_Subset, FS_CardinalityType DEF Orphans
<1>4. CASE NothingDropped
  <2>1. Cardinality(Orphans') <= Cardinality(Orphans)
    BY <1>3, <1>4, NoNewOrphans, FS_Subset
  <2> QED
    BY <1>2, <1>3, <2>1 DEF OrphansAreFew
<1>5. ASSUME NEW w \in Workers, Abandon(w), w \in Gone' PROVE OrphansAreFew'
  <2>1. Cardinality(Gone) + 1 <= Cardinality(Gone')
    BY <1>1, <1>5, OneMoreGone
  <2>2. /\ IsFiniteSet(Orphans \cup {worker[w].job})
        /\ Cardinality(Orphans \cup {worker[w].job}) \in Nat
        /\ Cardinality(Orphans \cup {worker[w].job}) <= Cardinality(Orphans) + 1
    BY <1>3, FS_AddElement, FS_CardinalityType
  <2>3. Cardinality(Orphans') <= Cardinality(Orphans \cup {worker[w].job})
    BY <1>5, <2>2, OneNewOrphan, FS_Subset
  <2> QED
    BY <1>2, <1>3, <2>1, <2>2, <2>3 DEF OrphansAreFew
<1> QED
  BY <1>1, <1>4, <1>5

\* A parked job is an orphan, or in the hands of a worker that was told to stop and
\* cannot lease it any more: one each.
LEMMA ParkedAreFew ==
    TypeOK /\ Custody /\ StopShape /\ OrphansAreFew => OneParkedJobPerSignal
<1> SUFFICES ASSUME TypeOK, Custody, StopShape, OrphansAreFew PROVE OneParkedJobPerSignal
  OBVIOUS
<1> DEFINE Late == {w \in Told : worker[w].at = "lease" /\ ~Works(w)}
           InHands == {worker[w].job : w \in Late}
           AllParked == {j \in Jobs : Parked(j)}
<1>1. AllParked \subseteq Orphans \cup InHands
  <2> SUFFICES ASSUME NEW j \in Jobs, Parked(j), j \notin Orphans
               PROVE  j \in InHands
    OBVIOUS
  <2>1. PICK w \in Workers : worker[w].at = "lease" /\ Holds(w, j)
    BY DEF Parked, Orphans
  <2>2. ~Works(w)
    BY <2>1 DEF Parked
  <2>3. stage[w] # "running"
    BY <2>1, <2>2 DEF Works
  <2> QED
    BY <2>1, <2>2, <2>3 DEF Told, Holds
<1>2. Gone \subseteq Told /\ Late \subseteq Told /\ Gone \cap Late = {} /\ IsFiniteSet(Told)
  BY ShutdownAssumption, FS_Subset DEF Gone, Told, StopShape
<1>3. IsFiniteSet(Gone) /\ IsFiniteSet(Late)
  BY <1>2, FS_Subset
<1>4. IsFiniteSet(InHands) /\ Cardinality(InHands) <= Cardinality(Late)
  <2>1. [w \in Late |-> worker[w].job] \in Surjection(Late, InHands)
    BY DEF Surjection
  <2> QED
    BY <1>3, <2>1, FS_Surjection
<1>5. IsFiniteSet(Orphans)
  BY QueueAssumption, FS_Subset DEF Orphans
<1> HIDE DEF Late, InHands, AllParked
<1>6. Cardinality(Gone) + Cardinality(Late) <= Cardinality(Told)
  <2>1. Cardinality(Gone \cup Late) = Cardinality(Gone) + Cardinality(Late)
    <3>1. Cardinality(Gone \cap Late) = 0
      BY <1>2, FS_EmptySet
    <3>2. Cardinality(Gone \cup Late)
              = Cardinality(Gone) + Cardinality(Late) - Cardinality(Gone \cap Late)
      BY <1>3, FS_Union
    <3>3. Cardinality(Gone) \in Nat /\ Cardinality(Late) \in Nat
      BY <1>3, FS_CardinalityType
    <3> QED
      BY <3>1, <3>2, <3>3
  <2>2. Cardinality(Gone \cup Late) <= Cardinality(Told)
    BY <1>2, FS_Subset
  <2> QED
    BY <2>1, <2>2
<1>7. /\ IsFiniteSet(Orphans \cup InHands)
      /\ Cardinality(Orphans \cup InHands) <= Cardinality(Orphans) + Cardinality(InHands)
  <2>1. /\ IsFiniteSet(Orphans \cup InHands)
        /\ Cardinality(Orphans \cup InHands)
              = Cardinality(Orphans) + Cardinality(InHands) - Cardinality(Orphans \cap InHands)
    BY <1>4, <1>5, FS_Union
  <2>2. Cardinality(Orphans \cap InHands) \in Nat
    BY <1>5, FS_Subset, FS_CardinalityType
  <2>3. Cardinality(Orphans) \in Nat /\ Cardinality(InHands) \in Nat
    BY <1>4, <1>5, FS_CardinalityType
  <2> QED
    BY <2>1, <2>2, <2>3
<1>8. Cardinality(AllParked) <= Cardinality(Orphans \cup InHands)
  BY <1>1, <1>7, FS_Subset
<1>9. /\ Cardinality(AllParked) \in Nat /\ Cardinality(Orphans \cup InHands) \in Nat
      /\ Cardinality(Orphans) \in Nat /\ Cardinality(InHands) \in Nat
      /\ Cardinality(Gone) \in Nat /\ Cardinality(Late) \in Nat /\ Cardinality(Told) \in Nat
  BY <1>1, <1>2, <1>3, <1>4, <1>5, <1>7, FS_Subset, FS_CardinalityType
<1>10. Cardinality(AllParked) <= Cardinality(Told)
  BY <1>4, <1>6, <1>7, <1>8, <1>9 DEF OrphansAreFew
<1> QED
  BY <1>10 DEF OneParkedJobPerSignal, AllParked

\* A signal parks one claim at most: what was claimed behind the QUIT and will never
\* be leased is counted by the workers that were told to stop (worker.ts:35-36,
\* queue.ts:73-75), for every number of workers and jobs.
THEOREM SignalsParkOneEach == OneCopy => (StopSpec => []OneParkedJobPerSignal)
<1> SUFFICES ASSUME OneCopy PROVE StopSpec => []OneParkedJobPerSignal
  OBVIOUS
<1>1. StopInit => Init
  BY DEF StopInit
<1>2. StopSpec => Spec
  BY <1>1, StopStepIsDelivery, PTL DEF StopSpec, Spec
<1>3. Spec => [](TypeOK /\ Custody)
  BY CustodyInvariant
<1>4. StopInit => OrphansAreFew
  <2> SUFFICES ASSUME StopInit PROVE OrphansAreFew
    OBVIOUS
  <2>1. Orphans = {} /\ Gone = {}
    BY DEF StopInit, Init, QueueInit, Orphans, Gone
  <2> QED
    BY <2>1, FS_EmptySet DEF OrphansAreFew
<1>5. Dropped => StopShape
  BY DEF Dropped
<1> QED
  BY <1>2, <1>3, <1>4, <1>5, DroppedInit, DroppedNext, OrphansNext, ParkedAreFew, PTL
     DEF StopSpec
=============================================================================
