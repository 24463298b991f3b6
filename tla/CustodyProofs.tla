--------------------------- MODULE CustodyProofs ---------------------------
(***************************************************************************)
(* If every worker keeps to its visibility timeout, an id is in one place  *)
(* at a time and a job has one owner: for every set of jobs, workers and   *)
(* operators, and however the other faults fall.                           *)
(***************************************************************************)
EXTENDS DeliveryProofs

-----------------------------------------------------------------------------
\* At the start every list is empty and nobody holds anything.
LEMMA CustodyInit == Init => Custody
<1> SUFFICES ASSUME Init PROVE Custody
  OBVIOUS
<1>1. Range(ready) = {} /\ Range(dlq) = {} /\ IsInjective(ready) /\ IsInjective(dlq)
  BY DEF Init, QueueInit, Range, IsInjective
<1>2. Employed
  BY TypeInit
<1>3. \A o \in Operators : operator[o].job = NoJob
  BY DEF Init, IdleOperator
<1>4. \A w \in Workers : worker[w].job = NoJob /\ worker[w].at = "idle"
  BY DEF Init, IdleWorker
<1>5. \A j \in Jobs : ~InReady(j) /\ ~InFlight(j) /\ ~InDelayed(j) /\ ~InDlq(j) /\ ~InHand(j)
  BY <1>1, <1>3, DeliveryAssumption
     DEF Init, QueueInit, InReady, InFlight, InDelayed, InDlq, InHand
<1>6. NoCopies /\ OnePlace /\ NotPushedYet
  BY <1>1, <1>3, <1>5 DEF Init, QueueInit, NoCopies, OnePlace, NotPushedYet
<1>7. Claims /\ OwnedByOneWorker /\ LeasedIsInFlight
  BY <1>4 DEF Init, QueueInit, Claims, OwnedByOneWorker, LeasedIsInFlight
<1> QED
  BY <1>2, <1>6, <1>7 DEF Custody

-----------------------------------------------------------------------------
(* Steps that move no id.                                                  *)

\* Redis, the replay loops and the api stand still, and no row appears.
NothingMoves ==
    /\ UNCHANGED <<redisVars, operator, submission>>
    /\ \A j \in Jobs : row'[j] = "absent" <=> row[j] = "absent"

\* Such a step leaves the places of every id as they are.
LEMMA PlacesKept ==
    ASSUME NothingMoves
    PROVE  /\ NoCopies => NoCopies'
           /\ OnePlace => OnePlace'
           /\ NotPushedYet => NotPushedYet'
           /\ LeasedIsInFlight => LeasedIsInFlight'
           /\ \A j \in Jobs : InFlight(j)' <=> InFlight(j)
<1> USE DEF NothingMoves, redisVars, InReady, InFlight, InDelayed, InDlq, InHand
<1>1. NoCopies => NoCopies'
  BY DEF NoCopies
<1>2. OnePlace => OnePlace'
  BY DEF OnePlace
<1>3. NotPushedYet => NotPushedYet'
  BY DEF NotPushedYet
<1>4. LeasedIsInFlight => LeasedIsInFlight'
  BY DEF LeasedIsInFlight
<1>5. \A j \in Jobs : InFlight(j)' <=> InFlight(j)
  OBVIOUS
<1> QED
  BY <1>1, <1>2, <1>3, <1>4, <1>5

\* A worker past reserve goes on to another step of the same job, or throws.
LEMMA WorkerGoesOn ==
    ASSUME TypeOK, Custody, NothingMoves, Employed',
           NEW w \in Workers, NEW s \in WorkerStates, Become(w, s),
           worker[w].at # "idle",
           \/ s = IdleWorker
           \/ worker[w].at # "lease" /\ s.at \notin {"idle", "lease"} /\ s.job = worker[w].job
    PROVE  Custody'
<1>1. \A v \in Workers : worker'[v] = IF v = w THEN s ELSE worker[v]
  BY DEF Become, TypeOK
<1>2. Claims'
  <2> SUFFICES ASSUME NEW v \in Workers, worker'[v].at # "idle"
               PROVE  /\ InFlight(worker[v].job)'
                      /\ leases'[worker'[v].job] =
                            IF worker'[v].at = "lease" THEN "none" ELSE "held"
    BY DEF Claims
  <2>1. /\ worker[v].at # "idle" /\ worker'[v].job = worker[v].job
        /\ worker'[v].at = "lease" <=> worker[v].at = "lease"
    BY <1>1 DEF IdleWorker
  <2>2. worker[v].job \in Jobs
    BY <2>1 DEF TypeOK, WorkerStates, Custody, Employed
  <2> QED
    BY <2>1, <2>2, PlacesKept DEF Claims, Custody, NothingMoves, redisVars
<1>3. OwnedByOneWorker'
  BY <1>1 DEF Custody, OwnedByOneWorker, IdleWorker
<1> QED
  BY <1>2, <1>3, PlacesKept DEF Custody

-----------------------------------------------------------------------------
(* Steps of the api and of time.                                           *)

\* The id that the api pushes was nowhere before.
LEMMA ApiKeepsCustody ==
    ASSUME TypeOK, Custody, Employed', NEW j \in Jobs, Api(j)
    PROVE  Custody'
<1> USE DEF InReady, InFlight, InDelayed, InDlq, InHand
<1>1. UNCHANGED <<worker, operator>>
  BY DEF Api, InsertJob, PushJob, PushFails
<1>2. OwnedByOneWorker'
  BY <1>1 DEF Custody, OwnedByOneWorker
<1>3. CASE InsertJob(j) \/ PushFails(j)
  <2>1. UNCHANGED redisVars
    BY <1>3 DEF InsertJob, PushFails
  <2>2. NotPushedYet'
    BY <1>1, <1>3, <2>1
       DEF InsertJob, PushFails, redisVars, pgVars, NotPushedYet, Custody, TypeOK
  <2>3. NoCopies' /\ OnePlace' /\ Claims' /\ LeasedIsInFlight'
    BY <1>1, <2>1 DEF redisVars, Custody, NoCopies, OnePlace, Claims, LeasedIsInFlight
  <2> QED
    BY <1>2, <2>2, <2>3 DEF Custody
<1>4. CASE PushJob(j)
  <2>1. ~InReady(j) /\ ~InFlight(j) /\ ~InDelayed(j) /\ ~InDlq(j) /\ ~InHand(j)
    BY <1>4 DEF PushJob, Custody, NotPushedYet
  <2>2. /\ submission[j] = "inserted" /\ submission'[j] = "accepted"
        /\ \A k \in Jobs \ {j} : submission'[k] = submission[k]
        /\ row' = row
    BY <1>4 DEF PushJob, pgVars, TypeOK
  <2>3. CASE Push(j)
    <3>1. Range(ready') = Range(ready) \cup {j} /\ IsInjective(ready')
      BY <2>1, <2>3, AppendList DEF Push, TypeOK, QueueTypeOK, Custody, NoCopies
    <3>2. UNCHANGED <<inflight, leases, delayed, dlq>>
      BY <2>3 DEF Push
    <3>3. NoCopies' /\ OnePlace'
      BY <1>1, <2>1, <3>1, <3>2 DEF Custody, NoCopies, OnePlace
    <3>4. NotPushedYet'
      BY <1>1, <2>2, <3>1, <3>2 DEF Custody, NotPushedYet
    <3>5. Claims' /\ LeasedIsInFlight'
      BY <1>1, <3>2 DEF Custody, Claims, LeasedIsInFlight
    <3> QED
      BY <1>2, <3>3, <3>4, <3>5 DEF Custody
  <2>4. CASE PushDelayed(j)
    <3>1. /\ delayed' = [delayed EXCEPT ![j] = "waiting"]
          /\ UNCHANGED <<ready, inflight, leases, dlq>>
      BY <2>4 DEF PushDelayed
    <3>2. NoCopies' /\ OnePlace'
      BY <1>1, <2>1, <3>1 DEF Custody, NoCopies, OnePlace, TypeOK, QueueTypeOK
    <3>3. NotPushedYet'
      <4>1. \A k \in Jobs \ {j} : delayed'[k] = delayed[k]
        BY <3>1 DEF TypeOK, QueueTypeOK
      <4> QED
        BY <1>1, <2>2, <3>1, <4>1 DEF Custody, NotPushedYet
    <3>4. Claims' /\ LeasedIsInFlight'
      BY <1>1, <3>1 DEF Custody, Claims, LeasedIsInFlight
    <3> QED
      BY <1>2, <3>2, <3>3, <3>4 DEF Custody
  <2> QED
    BY <1>4, <2>3, <2>4 DEF PushJob
<1> QED
  BY <1>3, <1>4 DEF Api

\* A delay changes state inside the delayed set.  A lease lapses under nobody:
\* this is the one place where "slow" matters.
LEMMA TimeKeepsCustody ==
    ASSUME TypeOK, Custody, Employed', "slow" \notin Faults, NEW j \in Jobs, Time(j)
    PROVE  Custody'
<1> USE DEF InReady, InFlight, InDelayed, InDlq, InHand
<1>1. UNCHANGED <<worker, operator, submission, row, ready, inflight, dlq>>
  BY DEF Time, DelayElapses, LeaseLapses, DelayPasses, LeasePasses, pgVars
<1>2. OwnedByOneWorker' /\ NoCopies'
  BY <1>1 DEF Custody, OwnedByOneWorker, NoCopies
<1>3. \A k \in Jobs : delayed'[k] # "none" <=> delayed[k] # "none"
  BY DEF Time, DelayElapses, LeaseLapses, DelayPasses, LeasePasses, TypeOK, QueueTypeOK
<1>4. OnePlace' /\ NotPushedYet'
  BY <1>1, <1>3 DEF Custody, OnePlace, NotPushedYet
<1>5. CASE DelayElapses(j)
  <2>1. Claims' /\ LeasedIsInFlight'
    BY <1>1, <1>5 DEF DelayElapses, DelayPasses, Custody, Claims, LeasedIsInFlight
  <2> QED
    BY <1>2, <1>4, <2>1 DEF Custody
<1>6. CASE LeaseLapses(j)
  <2>1. /\ leases[j] = "held" /\ leases' = [leases EXCEPT ![j] = "lapsed"]
        /\ \A w \in Workers : worker[w].job # j
    BY <1>6 DEF LeaseLapses, LeasePasses, Holds
  <2>2. Claims' /\ LeasedIsInFlight'
    BY <1>1, <2>1 DEF Custody, Claims, LeasedIsInFlight, TypeOK, QueueTypeOK
  <2> QED
    BY <1>2, <1>4, <2>2 DEF Custody
<1> QED
  BY <1>5, <1>6 DEF Time

-----------------------------------------------------------------------------
(* Steps that move an id between a worker and the lists.                   *)

\* BRPOPLPUSH moves an id from ready into the hands of one idle worker.
LEMMA ClaimKeepsCustody ==
    ASSUME TypeOK, Custody, Employed', NEW w \in Workers, Claim(w)
    PROVE  Custody'
<1> USE DEF InReady, InFlight, InDelayed, InDlq, InHand
<1>1. PICK j \in Jobs : ClaimMove(j) /\ Become(w, [worker[w] EXCEPT !.at = "lease", !.job = j])
  BY DEF Claim
<1>2. worker[w].at = "idle" /\ UNCHANGED <<row, submission, operator>>
  BY DEF Claim, pgVars
<1>3. InReady(j) /\ IsInjective(ready') /\ Range(ready') = Range(ready) \ {j}
  BY <1>1, PopList DEF ClaimMove, Custody, NoCopies, TypeOK, QueueTypeOK
<1>4. UNCHANGED <<leases, delayed, dlq>>
  BY <1>1 DEF ClaimMove
<1>5. ~InFlight(j) /\ ~InDelayed(j) /\ ~InDlq(j) /\ ~InHand(j)
  BY <1>3 DEF Custody, OnePlace
<1>6. /\ inflight[j] = 0 /\ inflight'[j] = 1
      /\ \A k \in Jobs \ {j} : inflight'[k] = inflight[k]
  <2>1. inflight \in [Jobs -> Nat]
    BY DEF TypeOK, QueueTypeOK
  <2>2. inflight' = [inflight EXCEPT ![j] = @ + 1]
    BY <1>1 DEF ClaimMove
  <2>3. inflight[j] = 0
    BY <1>5
  <2> QED
    BY <2>1, <2>2, <2>3
<1>7. leases[j] = "none"
  BY <1>6 DEF Custody, LeasedIsInFlight
<1>8. /\ worker'[w].at = "lease" /\ worker'[w].job = j
      /\ \A v \in Workers \ {w} : worker'[v] = worker[v]
  BY <1>1 DEF Become, TypeOK, WorkerStates
<1>9. \A v \in Workers : worker[v].job # j
  BY <1>6, DeliveryAssumption DEF Custody, Claims, Employed
<1>10. NoCopies' /\ OnePlace'
  BY <1>2, <1>3, <1>4, <1>5, <1>6 DEF Custody, NoCopies, OnePlace
<1>11. NotPushedYet'
  BY <1>2, <1>3, <1>4, <1>6 DEF Custody, NotPushedYet
<1>12. Claims'
  <2> SUFFICES ASSUME NEW v \in Workers, worker'[v].at # "idle"
               PROVE  /\ InFlight(worker[v].job)'
                      /\ leases'[worker'[v].job] =
                            IF worker'[v].at = "lease" THEN "none" ELSE "held"
    BY DEF Claims
  <2>1. CASE v = w
    BY <1>4, <1>6, <1>7, <1>8, <2>1
  <2>2. CASE v # w
    <3>1. worker'[v] = worker[v] /\ worker[v].job \in Jobs \ {j}
      BY <1>8, <1>9, <2>2 DEF TypeOK, WorkerStates, Custody, Employed
    <3> QED
      BY <1>4, <1>6, <3>1 DEF Custody, Claims
  <2> QED
    BY <2>1, <2>2
<1>13. OwnedByOneWorker' /\ LeasedIsInFlight'
  BY <1>4, <1>6, <1>8, <1>9 DEF Custody, OwnedByOneWorker, LeasedIsInFlight
<1> QED
  BY <1>10, <1>11, <1>12, <1>13 DEF Custody

\* ZADD leases a claim that has been the worker's since BRPOPLPUSH.
LEMMA LeaseKeepsCustody ==
    ASSUME TypeOK, Custody, Employed', NEW w \in Workers, Lease(w)
    PROVE  Custody'
<1> USE DEF InReady, InFlight, InDelayed, InDlq, InHand
<1> DEFINE j == worker[w].job
<1>1. /\ worker[w].at = "lease" /\ j \in Jobs
      /\ UNCHANGED <<row, submission, operator, ready, inflight, delayed, dlq>>
  BY DEF Lease, TakeLease, pgVars, Custody, Employed, TypeOK, WorkerStates
<1>2. leases'[j] = "held" /\ \A k \in Jobs \ {j} : leases'[k] = leases[k]
  BY <1>1 DEF Lease, TakeLease, TypeOK, QueueTypeOK
<1>3. /\ worker'[w].at = "load" /\ worker'[w].job = j
      /\ \A v \in Workers \ {w} : worker'[v] = worker[v]
  BY DEF Lease, Goto, Become, TypeOK, WorkerStates
<1>4. \A v \in Workers \ {w} : worker[v].job # j
  BY <1>1, DeliveryAssumption DEF Custody, OwnedByOneWorker
<1>5. inflight[j] # 0
  BY <1>1 DEF Custody, Claims
<1> HIDE DEF j
<1>6. NoCopies' /\ OnePlace' /\ NotPushedYet' /\ LeasedIsInFlight'
  BY <1>1, <1>2, <1>5 DEF Custody, NoCopies, OnePlace, NotPushedYet, LeasedIsInFlight
<1>7. Claims'
  <2> SUFFICES ASSUME NEW v \in Workers, worker'[v].at # "idle"
               PROVE  /\ InFlight(worker[v].job)'
                      /\ leases'[worker'[v].job] =
                            IF worker'[v].at = "lease" THEN "none" ELSE "held"
    BY DEF Claims
  <2>1. CASE v = w
    BY <1>1, <1>2, <1>3, <1>5, <2>1
  <2>2. CASE v # w
    <3>1. worker'[v] = worker[v] /\ worker[v].job \in Jobs \ {j}
      BY <1>3, <1>4, <2>2 DEF TypeOK, WorkerStates, Custody, Employed
    <3> QED
      BY <1>1, <1>2, <3>1 DEF Custody, Claims
  <2> QED
    BY <2>1, <2>2
<1>8. OwnedByOneWorker'
  BY <1>3, <1>4 DEF Custody, OwnedByOneWorker, j
<1> QED
  BY <1>6, <1>7, <1>8 DEF Custody

\* ack, retryLater and deadLetter: the id leaves inflight with its lease, and
\* joins at most one other place.
LEMMA ReleaseKeepsCustody ==
    ASSUME TypeOK, Custody, Employed', NEW w \in Workers, Release(w)
    PROVE  Custody'
<1> USE DEF InReady, InFlight, InDelayed, InDlq, InHand
<1> DEFINE j == worker[w].job
<1>1. /\ worker[w].at \notin {"idle", "lease"} /\ j \in Jobs
      /\ UNCHANGED <<row, submission, operator, ready>>
      /\ DropClaim(j)
  BY DEF Release, Ack, RetryLater, DeadLetter, pgVars, Custody, Employed, TypeOK, WorkerStates
<1>2. InFlight(j) /\ inflight[j] = 1
  BY <1>1 DEF Custody, Claims, NoCopies
<1>3. /\ inflight'[j] = 0 /\ leases'[j] = "none"
      /\ \A k \in Jobs \ {j} : inflight'[k] = inflight[k] /\ leases'[k] = leases[k]
  BY <1>1, <1>2 DEF DropClaim, TypeOK, QueueTypeOK
<1>4. ~InReady(j) /\ ~InDelayed(j) /\ ~InDlq(j) /\ ~InHand(j)
  BY <1>1, <1>2 DEF Custody, OnePlace
<1>5. submission[j] \notin {"none", "inserted"}
  BY <1>1, <1>2 DEF Custody, NotPushedYet
<1>6. worker'[w] = IdleWorker /\ \A v \in Workers \ {w} : worker'[v] = worker[v]
  BY DEF Release, GoIdle, Become, TypeOK
<1>7. \A v \in Workers \ {w} : worker[v].job # j
  BY <1>1, DeliveryAssumption DEF Custody, OwnedByOneWorker
<1>8. \/ UNCHANGED <<delayed, dlq>>
      \/ /\ UNCHANGED dlq
         /\ \A k \in Jobs \ {j} : delayed'[k] = delayed[k]
      \/ /\ UNCHANGED delayed
         /\ Range(dlq') = Range(dlq) \cup {j} /\ IsInjective(dlq')
  <2>1. CASE Ack(j)
    BY <2>1 DEF Ack
  <2>2. CASE RetryLater(j)
    BY <2>2 DEF RetryLater, TypeOK, QueueTypeOK
  <2>3. CASE DeadLetter(j)
    BY <1>1, <1>4, <2>3, AppendList DEF DeadLetter, TypeOK, QueueTypeOK, Custody, NoCopies
  <2> QED
    BY <2>1, <2>2, <2>3 DEF Release
<1> HIDE DEF j
<1>9. NoCopies'
  BY <1>1, <1>3, <1>8 DEF Custody, NoCopies
<1>10. OnePlace'
  BY <1>1, <1>3, <1>4, <1>8 DEF Custody, OnePlace
<1>11. NotPushedYet'
  BY <1>1, <1>3, <1>5, <1>8 DEF Custody, NotPushedYet
<1>12. Claims'
  <2> SUFFICES ASSUME NEW v \in Workers, worker'[v].at # "idle"
               PROVE  /\ InFlight(worker[v].job)'
                      /\ leases'[worker'[v].job] =
                            IF worker'[v].at = "lease" THEN "none" ELSE "held"
    BY DEF Claims
  <2>1. v # w /\ worker'[v] = worker[v]
    BY <1>6 DEF IdleWorker
  <2>2. worker[v].job \in Jobs \ {j}
    BY <1>7, <2>1 DEF TypeOK, WorkerStates, Custody, Employed
  <2> QED
    BY <1>3, <2>1, <2>2 DEF Custody, Claims
<1>13. OwnedByOneWorker' /\ LeasedIsInFlight'
  BY <1>3, <1>6 DEF Custody, OwnedByOneWorker, LeasedIsInFlight, IdleWorker
<1> QED
  BY <1>9, <1>10, <1>11, <1>12, <1>13 DEF Custody

-----------------------------------------------------------------------------
(* The scheduler's sweeps.                                                 *)

\* Promotion moves ids from delayed to ready, each once.
LEMMA PromoteKeepsCustody ==
    ASSUME TypeOK, Custody, Employed', Promote
    PROVE  Custody'
<1> USE DEF InReady, InFlight, InDelayed, InDlq, InHand
<1>1. PICK batch \in Batches(Due) : PromoteDue(batch)
  BY DEF Promote
<1>2. UNCHANGED <<row, submission, operator, worker, inflight, leases, dlq>>
  BY <1>1 DEF Promote, PromoteDue, pgVars
<1>3. batch \in Seq(Jobs) /\ Range(batch) \subseteq Due /\ IsInjective(batch)
  BY BatchIsList DEF Due
<1> DEFINE B == Range(batch)
<1>4. \A j \in B : InDelayed(j) /\ j \in Jobs
  BY <1>3 DEF Due
<1>5. Range(ready') = Range(ready) \cup B /\ IsInjective(ready')
  <2>1. Range(ready) \cap Range(batch) = {}
    BY <1>4 DEF Custody, OnePlace
  <2> QED
    BY <1>1, <1>3, <2>1, ConcatList DEF PromoteDue, Custody, NoCopies, TypeOK, QueueTypeOK
<1>6. \A j \in Jobs : delayed'[j] = IF j \in B THEN "none" ELSE delayed[j]
  BY <1>1 DEF PromoteDue
<1> HIDE DEF B
<1>7. NoCopies' /\ Claims' /\ OwnedByOneWorker' /\ LeasedIsInFlight'
  BY <1>2, <1>5 DEF Custody, NoCopies, Claims, OwnedByOneWorker, LeasedIsInFlight
<1>8. OnePlace'
  BY <1>2, <1>4, <1>5, <1>6 DEF Custody, OnePlace
<1>9. NotPushedYet'
  BY <1>2, <1>4, <1>5, <1>6 DEF Custody, NotPushedYet
<1> QED
  BY <1>7, <1>8, <1>9 DEF Custody

\* A lapsed lease belongs to nobody: the reaper takes no job from a worker.
LEMMA ReapKeepsCustody ==
    ASSUME TypeOK, Custody, Employed', Reap
    PROVE  Custody'
<1> USE DEF InReady, InFlight, InDelayed, InDlq, InHand
<1>1. PICK batch \in Batches(Expired) : ReapExpired(batch)
  BY DEF Reap
<1>2. UNCHANGED <<row, submission, operator, worker, delayed, dlq>>
  BY <1>1 DEF Reap, ReapExpired, pgVars
<1>3. batch \in Seq(Jobs) /\ Range(batch) \subseteq Expired /\ IsInjective(batch)
  BY BatchIsList DEF Expired
<1> DEFINE B == Range(batch)
<1>4. \A j \in B : j \in Jobs /\ leases[j] = "lapsed" /\ InFlight(j) /\ inflight[j] = 1
  <2>1. ASSUME NEW j \in B PROVE j \in Jobs /\ leases[j] = "lapsed"
    BY <1>3 DEF Expired
  <2>2. ASSUME NEW j \in B PROVE inflight[j] = 1
    BY <2>1 DEF Custody, LeasedIsInFlight, NoCopies
  <2> QED
    BY <2>1, <2>2
<1>5. Range(ready') = Range(ready) \cup B /\ IsInjective(ready')
  <2>1. Range(ready) \cap Range(batch) = {}
    BY <1>4 DEF Custody, OnePlace
  <2> QED
    BY <1>1, <1>3, <2>1, ConcatList DEF ReapExpired, Custody, NoCopies, TypeOK, QueueTypeOK
<1>6. \A j \in Jobs : /\ leases'[j] = IF j \in B THEN "none" ELSE leases[j]
                      /\ inflight'[j] = IF j \in B THEN 0 ELSE inflight[j]
  BY <1>1, <1>4 DEF ReapExpired
<1> HIDE DEF B
<1>7. NoCopies' /\ OwnedByOneWorker' /\ LeasedIsInFlight'
  BY <1>2, <1>5, <1>6 DEF Custody, NoCopies, OwnedByOneWorker, LeasedIsInFlight
<1>8. OnePlace'
  BY <1>2, <1>4, <1>5, <1>6 DEF Custody, OnePlace
<1>9. NotPushedYet'
  BY <1>2, <1>4, <1>5, <1>6 DEF Custody, NotPushedYet
<1>10. Claims'
  <2>1. \A w \in Workers : worker[w].at # "idle" => worker[w].job \in Jobs \ B
    BY <1>4 DEF Custody, Claims, Employed, TypeOK, WorkerStates
  <2> QED
    BY <1>2, <1>6, <2>1 DEF Custody, Claims
<1> QED
  BY <1>7, <1>8, <1>9, <1>10 DEF Custody

-----------------------------------------------------------------------------
(* The operators' replay, and deletion.                                    *)

\* UpdateState neither creates a row nor removes one.
LEMMA UpdateKeepsRows ==
    ASSUME TypeOK, NEW j \in Jobs, NEW s \in RowStates \ {"absent"}, UpdateState(j, s)
    PROVE  \A k \in Jobs : row'[k] = "absent" <=> row[k] = "absent"
  BY DEF UpdateState, Exists, TypeOK

\* A replay moves an id from the DLQ through its own hands to ready.
LEMMA ReplayKeepsCustody ==
    ASSUME TypeOK, Custody, Employed', NEW o \in Operators, Replay(o)
    PROVE  Custody'
<1> USE DEF InReady, InFlight, InDelayed, InDlq, InHand
<1>1. UNCHANGED <<worker, submission, inflight, leases, delayed>>
  BY DEF Replay, PopDead, ResetDead, PushReplayed, ReplayStops, PopDlq, Push, redisVars
<1>2. \A k \in Jobs : row'[k] = "absent" <=> row[k] = "absent"
  <2>1. CASE ResetDead(o)
    <3>1. operator[o].job \in Jobs
      BY <2>1 DEF ResetDead, Custody, Employed, TypeOK, OperatorStates
    <3> QED
      BY <2>1, <3>1, UpdateKeepsRows DEF ResetDead, RowStates, Live
  <2>2. CASE ~ResetDead(o)
    BY <2>2 DEF Replay, PopDead, PushReplayed, ReplayStops, pgVars
  <2> QED
    BY <2>1, <2>2
<1>3. Claims' /\ OwnedByOneWorker' /\ LeasedIsInFlight'
  BY <1>1 DEF Custody, Claims, OwnedByOneWorker, LeasedIsInFlight
<1>4. operator[o] \in OperatorStates
  BY DEF TypeOK
<1>5. CASE PopDead(o)
  <2>1. PICK j \in Jobs : /\ PopDlq(j)
                          /\ operator' = [operator EXCEPT ![o] = [at |-> "reset", job |-> j]]
    BY <1>5 DEF PopDead
  <2>2. /\ InDlq(j) /\ IsInjective(dlq') /\ Range(dlq') = Range(dlq) \ {j}
        /\ ready' = ready
    BY <2>1, PopList DEF PopDlq, Custody, NoCopies, TypeOK, QueueTypeOK
  <2>3. ~InReady(j) /\ ~InFlight(j) /\ ~InDelayed(j) /\ ~InHand(j)
    BY <2>2 DEF Custody, OnePlace
  <2>4. /\ operator'[o].job = j
        /\ \A p \in Operators \ {o} : operator'[p] = operator[p]
    BY <2>1 DEF TypeOK
  <2>5. operator[o].job = NoJob
    BY <1>5 DEF PopDead, Custody, Employed
  <2>6. \A k \in Jobs : InHand(k)' <=> InHand(k) \/ k = j
    BY <2>4, <2>5, DeliveryAssumption
  <2>7. NoCopies'
    BY <1>1, <2>2, <2>3, <2>4 DEF Custody, NoCopies
  <2>8. OnePlace'
    BY <1>1, <2>2, <2>3, <2>6 DEF Custody, OnePlace
  <2>9. NotPushedYet'
    BY <1>1, <1>2, <2>2, <2>6 DEF Custody, NotPushedYet
  <2> QED
    BY <1>3, <2>7, <2>8, <2>9 DEF Custody
<1>6. CASE ResetDead(o) \/ ReplayStops(o)
  <2>1. /\ UNCHANGED <<ready, dlq>>
        /\ operator'[o].job \in {operator[o].job, NoJob}
        /\ \A p \in Operators \ {o} : operator'[p] = operator[p]
    BY <1>6 DEF ResetDead, ReplayStops, redisVars, IdleOperator, TypeOK
  <2>2. \A k \in Jobs : InHand(k)' => InHand(k)
    BY <2>1, DeliveryAssumption
  <2>3. NoCopies'
    BY <1>1, <2>1 DEF Custody, NoCopies
  <2>4. OnePlace' /\ NotPushedYet'
    BY <1>1, <1>2, <2>1, <2>2 DEF Custody, OnePlace, NotPushedYet
  <2> QED
    BY <1>3, <2>3, <2>4 DEF Custody
<1>7. CASE PushReplayed(o)
  <2> DEFINE j == operator[o].job
  <2>1. j \in Jobs /\ Push(j) /\ dlq' = dlq
    BY <1>4, <1>7 DEF PushReplayed, Custody, Employed, OperatorStates, Push
  <2>2. InHand(j)
    OBVIOUS
  <2>3. ~InReady(j) /\ ~InFlight(j) /\ ~InDelayed(j) /\ ~InDlq(j)
    BY <2>1, <2>2 DEF Custody, OnePlace
  <2>4. Range(ready') = Range(ready) \cup {j} /\ IsInjective(ready')
    BY <2>1, <2>3, AppendList DEF Push, Custody, NoCopies, TypeOK, QueueTypeOK
  <2>5. /\ operator'[o].job = NoJob
        /\ \A p \in Operators \ {o} : operator'[p] = operator[p] /\ operator[p].job # j
    BY <1>7, <2>1, DeliveryAssumption
       DEF PushReplayed, IdleOperator, TypeOK, Custody, NoCopies
  <2>6. submission[j] \notin {"none", "inserted"}
    BY <2>1, <2>2 DEF Custody, NotPushedYet
  <2>7. \A k \in Jobs : InHand(k)' <=> InHand(k) /\ k # j
    BY <2>5, DeliveryAssumption
  <2> HIDE DEF j
  <2>8. NoCopies'
    BY <1>1, <2>1, <2>4, <2>5 DEF Custody, NoCopies
  <2>9. OnePlace'
    BY <1>1, <2>1, <2>3, <2>4, <2>7 DEF Custody, OnePlace
  <2>10. NotPushedYet'
    BY <1>1, <1>2, <2>1, <2>4, <2>6, <2>7 DEF Custody, NotPushedYet
  <2> QED
    BY <1>3, <2>8, <2>9, <2>10 DEF Custody
<1> QED
  BY <1>5, <1>6, <1>7 DEF Replay

\* Deleting a row moves no id.
LEMMA CascadeKeepsCustody ==
    ASSUME TypeOK, Custody, Employed', NEW j \in Jobs, Cascade(j)
    PROVE  Custody'
<1>1. NothingMoves /\ UNCHANGED worker
  BY DEF Cascade, NothingMoves, Exists, TypeOK
<1>2. Claims' /\ OwnedByOneWorker'
  BY <1>1 DEF NothingMoves, redisVars, Custody, Claims, OwnedByOneWorker, InFlight
<1> QED
  BY <1>1, <1>2, PlacesKept DEF Custody

-----------------------------------------------------------------------------
(* A worker between reserve and release.                                   *)

\* Between reserve and release a worker's id stays in flight and leased.
LEMMA WorkKeepsCustody ==
    ASSUME TypeOK, Custody, Employed', NEW w \in Workers,
           \/ Load(w) \/ Defer(w) \/ Proceed(w) \/ Number(w) \/ Post(w)
           \/ Record(w) \/ Settle(w) \/ Abandon(w)
    PROVE  Custody'
<1>1. worker[w] \in WorkerStates /\ worker[w].at # "idle" /\ worker[w].job \in Jobs
  <2>1. worker[w] \in WorkerStates /\ worker[w].at # "idle"
    BY DEF TypeOK, Load, Defer, Proceed, Number, Post, Record, Settle, Abandon
  <2> QED
    BY <2>1 DEF Custody, Employed, WorkerStates
<1>2. UNCHANGED <<redisVars, operator, submission>>
  BY DEF Load, Defer, Proceed, Number, Post, Record, Settle, Abandon
<1>3. NothingMoves
  <2>1. CASE UNCHANGED row
    BY <1>2, <2>1 DEF NothingMoves
  <2>2. CASE \E s \in RowStates \ {"absent"} : UpdateState(worker[w].job, s)
    BY <1>1, <1>2, <2>2, UpdateKeepsRows DEF NothingMoves
  <2>3. CASE Defer(w) \/ Proceed(w)
    BY <2>2, <2>3 DEF Defer, Proceed, RowStates, Live
  <2>4. CASE Settle(w)
    <3>1. Verdict(w).state \in RowStates \ {"absent"}
      BY DEF Verdict, RowStates, Live, Terminal
    <3> QED
      BY <2>1, <2>2, <2>4, <3>1 DEF Settle
  <2> QED
    BY <2>1, <2>3, <2>4 DEF Load, Number, Post, Record, Abandon, pgVars
<1>4. IdleWorker \in WorkerStates
  BY DEF IdleWorker, WorkerStates, WorkerSteps, Outcomes
<1>5. \/ GoIdle(w)
      \/ /\ worker[w].at # "lease"
         /\ \E s \in WorkerStates : /\ Become(w, s)
                                    /\ s.at \notin {"idle", "lease"}
                                    /\ s.job = worker[w].job
  <2>1. worker' \in [Workers -> WorkerStates] /\ worker'[w] \in WorkerStates
    <3>1. TypeOK'
      BY TypeNext DEF Next, Process, Custody
    <3> QED
      BY <3>1 DEF TypeOK
  <2>2. \A s : Become(w, s) => worker'[w] = s
    BY DEF Become, TypeOK
  <2>3. CASE Load(w)
    BY <1>1, <2>1, <2>2, <2>3 DEF Load, Goto, WorkerStates
  <2>4. CASE Defer(w)
    BY <1>1, <2>1, <2>2, <2>4 DEF Defer, WorkerStates
  <2>5. CASE Proceed(w)
    BY <1>1, <2>1, <2>2, <2>5 DEF Proceed, Goto, WorkerStates
  <2>6. CASE Number(w)
    BY <1>1, <2>1, <2>2, <2>6 DEF Number, WorkerStates
  <2>7. CASE Post(w)
    BY <1>1, <2>1, <2>2, <2>7 DEF Post, WorkerStates
  <2>8. CASE Record(w)
    BY <1>1, <2>1, <2>2, <2>8 DEF Record, WorkerStates
  <2>9. CASE Settle(w)
    <3>1. Verdict(w).next \in {"ack", "bury", "retry"}
      BY DEF Verdict
    <3> QED
      BY <1>1, <2>1, <2>2, <2>9, <3>1 DEF Settle, WorkerStates, IdleWorker
  <2>10. CASE Abandon(w)
    BY <2>10 DEF Abandon
  <2> QED
    BY <2>3, <2>4, <2>5, <2>6, <2>7, <2>8, <2>9, <2>10
<1> QED
  BY <1>1, <1>3, <1>4, <1>5, WorkerGoesOn DEF GoIdle

\* Every step keeps Custody, when no lease lapses under a live worker and no
\* command is executed twice.
LEMMA CustodyNext ==
    TypeOK /\ Custody /\ OneCopy /\ [Next]_vars => Custody'
<1> SUFFICES ASSUME TypeOK, Custody, OneCopy, [Next]_vars
             PROVE  Custody'
  OBVIOUS
<1>0. "slow" \notin Faults /\ \A j \in Jobs : ~Resent(j)
  BY DEF OneCopy, Resent
<1>1. Employed'
  BY TypeNext DEF Custody
<1>2. CASE UNCHANGED vars
  <2>1. NothingMoves /\ UNCHANGED worker
    BY <1>2 DEF vars, NothingMoves, pgVars
  <2>2. Claims' /\ OwnedByOneWorker'
    BY <2>1 DEF NothingMoves, redisVars, Custody, Claims, OwnedByOneWorker, InFlight
  <2> QED
    BY <1>1, <2>1, <2>2, PlacesKept DEF Custody
<1>3. ASSUME NEW j \in Jobs, Api(j) \/ Time(j) \/ Cascade(j) PROVE Custody'
  BY <1>0, <1>1, <1>3, ApiKeepsCustody, TimeKeepsCustody, CascadeKeepsCustody
<1>4. ASSUME NEW w \in Workers, Claim(w) \/ Process(w) \/ Abandon(w) PROVE Custody'
  BY <1>1, <1>4, ClaimKeepsCustody, LeaseKeepsCustody, WorkKeepsCustody,
     ReleaseKeepsCustody DEF Process
<1>5. ASSUME NEW o \in Operators, Replay(o) PROVE Custody'
  BY <1>1, <1>5, ReplayKeepsCustody
<1>6. CASE Promote \/ Reap
  BY <1>1, <1>6, PromoteKeepsCustody, ReapKeepsCustody
<1> QED
  BY <1>0, <1>2, <1>3, <1>4, <1>5, <1>6 DEF Next

-----------------------------------------------------------------------------
(* The properties.                                                         *)

\* So it holds for ever.
LEMMA CustodyInvariant == OneCopy => (Spec => [](TypeOK /\ Custody))
<1> SUFFICES ASSUME OneCopy PROVE Spec => [](TypeOK /\ Custody)
  OBVIOUS
<1>1. Init => TypeOK /\ Custody
  BY TypeInit, CustodyInit
<1>2. TypeOK /\ Custody /\ [Next]_vars => TypeOK' /\ Custody'
  BY TypeNext, CustodyNext DEF Custody
<1> QED
  BY <1>1, <1>2, PTL DEF Spec

\* What it is for: a job has one owner, and the owner keeps its claim.
LEMMA CustodyOwnership ==
    TypeOK /\ Custody => OwnedByOneWorker /\ ClaimIsKept /\ LeasedIsInFlight
<1> SUFFICES ASSUME TypeOK, Custody PROVE ClaimIsKept
  BY DEF Custody
<1>1. \A w \in Workers : worker[w].at # "idle" => worker[w].job \in Jobs
  BY DEF TypeOK, WorkerStates, Custody, Employed
<1> QED
  BY <1>1 DEF Custody, Claims, NoCopies, InFlight, ClaimIsKept

\* What it is for: an id has one custodian.
LEMMA CustodySingle == TypeOK /\ Custody => SingleCustody
<1> SUFFICES ASSUME TypeOK, Custody, NEW j \in Jobs,
                    NEW p \in Custodians(j), NEW q \in Custodians(j)
             PROVE  p = q
  BY DEF SingleCustody
<1> DEFINE Readys == {<<"ready", i>> : i \in Positions(ready, j)}
           Flights == {<<"inflight", n>> : n \in 1..inflight[j]}
           Delays == {<<"delayed", d>> : d \in {delayed[j]} \ {"none"}}
           Deads == {<<"dlq", i>> : i \in Positions(dlq, j)}
           Hands == {<<"operator", o>> : o \in {o \in Operators : operator[o].job = j}}
<1>1. /\ \A x, y \in Readys : x = y
      /\ Readys # {} => InReady(j)
  BY DEF Positions, Custody, NoCopies, IsInjective, InReady, Range
<1>2. /\ \A x, y \in Deads : x = y
      /\ Deads # {} => InDlq(j)
  BY DEF Positions, Custody, NoCopies, IsInjective, InDlq, Range
<1>3. /\ \A x, y \in Flights : x = y
      /\ Flights # {} => InFlight(j)
  <2>1. inflight[j] \in {0, 1}
    BY DEF Custody, NoCopies
  <2> QED
    BY <2>1 DEF InFlight
<1>4. /\ \A x, y \in Delays : x = y
      /\ Delays # {} => InDelayed(j)
  BY DEF InDelayed
<1>5. /\ \A x, y \in Hands : x = y
      /\ Hands # {} => InHand(j)
  BY DeliveryAssumption DEF Custody, NoCopies, InHand
<1>6. Custodians(j) = Readys \cup Flights \cup Delays \cup Deads \cup Hands
  BY DEF Custodians
<1> HIDE DEF Readys, Flights, Delays, Deads, Hands
<1> QED
  BY <1>1, <1>2, <1>3, <1>4, <1>5, <1>6 DEF Custody, OnePlace

\* While workers keep to their visibility timeout and no command is executed
\* twice, no two workers ever work on the same job, nobody takes a claim or a
\* lease from the one that does, and no lease outlives its claim; whatever else
\* fails.
THEOREM JobHasOneOwner ==
    OneCopy =>
        (Spec => [](OwnedByOneWorker /\ ClaimIsKept /\ LeasedIsInFlight))
  BY CustodyInvariant, CustodyOwnership, PTL

\* Under the same assumption a job id is in one place at a time, and there
\* once: ready, inflight, delayed, the DLQ, or an operator's hands.
THEOREM JobIsInOnePlace == OneCopy => (Spec => []SingleCustody)
  BY CustodyInvariant, CustodySingle, PTL
=============================================================================
