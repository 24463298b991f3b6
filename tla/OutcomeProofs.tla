--------------------------- MODULE OutcomeProofs ---------------------------
(***************************************************************************)
(* Proofs of what becomes of a job, for workers that keep to their         *)
(* visibility timeout.  Both parts rest on Custody and Agreement.          *)
(*                                                                         *)
(* Recovery: no accepted job is lost (NoJobStranded) and every claim can   *)
(* be reaped (EveryClaimIsReapable), if workers stop anywhere but between  *)
(* the two commands of reserve and replays are not cut off.  Given Custody *)
(* and Agreement both are inductive: whoever takes an id from where it     *)
(* could be found leaves it somewhere else, or has made its row one that   *)
(* asks for no delivery.                                                   *)
(*                                                                         *)
(* Lifecycle: Delivery implements it.  Each step maps to a step of the job *)
(* it is about or to none; what the mapped step needs of the state comes   *)
(* from Agreement: that the row a worker writes is still the live one it   *)
(* read, with the budget it read, and that a row that becomes succeeded    *)
(* was answered.                                                           *)
(***************************************************************************)
EXTENDS AgreementProofs

-----------------------------------------------------------------------------
(* Recovery.                                                               *)

\* What is accepted can be delivered, and what is claimed can be given back.
Recovery == NoJobStranded /\ EveryClaimIsReapable

\* The job's claim can be given back.
Reapable(j) == leases[j] # "none" \/ \E w \in Workers : worker[w].at = "lease" /\ Holds(w, j)

\* What the steps must not take away from a job they are not about.
Kept(j) ==
    /\ Recoverable(j) => Recoverable(j)'
    /\ Reapable(j) => Reapable(j)'
    /\ inflight'[j] = inflight[j]

\* What they must leave behind of a job they are about.
Found(j) ==
    /\ submission'[j] = "accepted" /\ row'[j] \in Live => Recoverable(j)'
    /\ inflight'[j] > 0 => Reapable(j)'

\* A step that leaves every job either found or as it was loses none.
LEMMA RecoveryByJob ==
    ASSUME Recovery,
           \A j \in Jobs :
              \/ Found(j)
              \/ /\ Kept(j)
                 /\ submission'[j] = "accepted" /\ row'[j] \in Live
                       => submission[j] = "accepted" /\ row[j] \in Live
    PROVE  Recovery'
<1> SUFFICES ASSUME NEW j \in Jobs
             PROVE  Found(j)
  BY DEF Recovery, NoJobStranded, EveryClaimIsReapable, Found, Reapable
<1>1. CASE Found(j)
  BY <1>1
<1>2. CASE /\ Kept(j)
           /\ submission'[j] = "accepted" /\ row'[j] \in Live
                 => submission[j] = "accepted" /\ row[j] \in Live
  <2>1. submission[j] = "accepted" /\ row[j] \in Live => Recoverable(j)
    BY DEF Recovery, NoJobStranded
  <2>2. inflight[j] > 0 => Reapable(j)
    BY DEF Recovery, EveryClaimIsReapable, Reapable
  <2> QED
    BY <1>2, <2>1, <2>2 DEF Kept, Found
<1> QED
  BY <1>1, <1>2

\* At the start nothing has been accepted and nothing is in flight.
LEMMA RecoveryInit == Init => Recovery
  BY DEF Init, QueueInit, Recovery, NoJobStranded, EveryClaimIsReapable

-----------------------------------------------------------------------------
(* Steps of a worker.                                                      *)

\* A worker that is past reserve holds a lease that will lapse if it stops.
LEMMA WorkKeepsRecovery ==
    ASSUME TypeOK, Custody, Recovery, NEW w \in Workers,
           worker[w].at \notin {"idle", "lease"},
           UNCHANGED <<redisVars, submission, operator>>,
           \A v \in Workers \ {w} : worker'[v] = worker[v],
           \A k \in Jobs \ {worker[w].job} : row'[k] = row[k]
    PROVE  Recovery'
<1>1. PICK j \in Jobs : j = worker[w].job
  BY DeliveryAssumption DEF Custody, Employed, TypeOK, WorkerStates
<1>2. UNCHANGED <<ready, inflight, leases, delayed, dlq, submission, operator>>
  BY DEF redisVars
<1>3. leases[j] = "held"
  BY <1>1 DEF Custody, Claims
<1>4. Found(j)
  BY <1>2, <1>3 DEF Found, Recoverable, Reapable
<1>5. ASSUME NEW k \in Jobs \ {j}
      PROVE  Kept(k)
  <2>1. \A v \in Workers : worker[v].at = "lease" => worker'[v] = worker[v]
    OBVIOUS
  <2> QED
    BY <1>2, <2>1 DEF Kept, Recoverable, Reapable, Holds
<1> QED
  BY <1>1, <1>2, <1>4, <1>5, RecoveryByJob

\* The id that BRPOPLPUSH takes from ready is in the hands of a worker about to
\* lease it.
LEMMA ClaimKeepsRecovery ==
    ASSUME TypeOK, Custody, Recovery, NEW w \in Workers, Claim(w)
    PROVE  Recovery'
<1>1. PICK j \in Jobs : ClaimMove(j) /\ Become(w, [worker[w] EXCEPT !.at = "lease", !.job = j])
  BY DEF Claim
<1>2. worker[w].at = "idle" /\ UNCHANGED <<row, submission, operator, leases, delayed>>
  BY <1>1 DEF Claim, ClaimMove, pgVars
<1>3. Range(ready') = Range(ready) \ {j}
  BY <1>1, PopList DEF ClaimMove, Custody, NoCopies, TypeOK, QueueTypeOK
<1>4. /\ worker'[w].at = "lease" /\ worker'[w].job = j
      /\ \A v \in Workers \ {w} : worker'[v] = worker[v]
  BY <1>1 DEF Become, TypeOK, WorkerStates
<1>5. Found(j)
  BY <1>4 DEF Found, Recoverable, Reapable, Holds
<1>6. ASSUME NEW k \in Jobs \ {j}
      PROVE  Kept(k)
  <2>1. inflight'[k] = inflight[k]
    BY <1>1 DEF ClaimMove, TypeOK, QueueTypeOK
  <2>2. \A v \in Workers : worker[v].at = "lease" => worker'[v] = worker[v]
    BY <1>2, <1>4
  <2> QED
    BY <1>2, <1>3, <2>1, <2>2 DEF Kept, Recoverable, Reapable, Holds
<1> QED
  BY <1>2, <1>5, <1>6, RecoveryByJob

\* From then on the lease stands for it, also when the worker stops.
LEMMA LeaseKeepsRecovery ==
    ASSUME TypeOK, Custody, Recovery, NEW w \in Workers, Lease(w)
    PROVE  Recovery'
<1>0. PICK j \in Jobs : j = worker[w].job
  BY DeliveryAssumption DEF Lease, Custody, Employed, TypeOK, WorkerStates
<1>1. /\ worker[w].at = "lease"
      /\ leases' = [leases EXCEPT ![j] = "held"]
      /\ UNCHANGED <<ready, inflight, delayed, row, submission, operator>>
      /\ Goto(w, "load")
  BY <1>0 DEF Lease, TakeLease, pgVars
<1>3. \A v \in Workers \ {w} : worker'[v] = worker[v]
  BY <1>1 DEF Goto, Become, TypeOK
<1>4. leases'[j] = "held" /\ \A k \in Jobs \ {j} : leases'[k] = leases[k]
  BY <1>1 DEF TypeOK, QueueTypeOK
<1>5. Found(j)
  BY <1>4 DEF Found, Recoverable, Reapable
<1>6. ASSUME NEW k \in Jobs \ {j}
      PROVE  Kept(k)
  <2>1. \A v \in Workers : Holds(v, k) => worker'[v] = worker[v]
    BY <1>0, <1>3 DEF Holds
  <2> QED
    BY <1>1, <1>4, <2>1 DEF Kept, Recoverable, Reapable, Holds
<1> QED
  BY <1>1, <1>5, <1>6, RecoveryByJob

\* A script that gives up the claim leaves the id in delayed, or a row that
\* asks for no delivery.
LEMMA ReleaseKeepsRecovery ==
    ASSUME TypeOK, Custody, Agreement, Recovery, NEW w \in Workers, Release(w)
    PROVE  Recovery'
<1>0. PICK j \in Jobs : j = worker[w].job
  BY DeliveryAssumption DEF Release, Custody, Employed, TypeOK, WorkerStates
<1>1. /\ worker[w].at \in {"ack", "retry", "bury"}
      /\ DropClaim(j)
      /\ worker[w].at = "retry" => delayed' = [delayed EXCEPT ![j] = "waiting"]
      /\ worker[w].at # "retry" => UNCHANGED delayed
      /\ UNCHANGED <<ready, row, submission, operator>>
      /\ worker' = [worker EXCEPT ![w] = IdleWorker]
  BY <1>0 DEF Release, Ack, RetryLater, DeadLetter, pgVars, GoIdle, Become
<1>3. inflight[j] \in {0, 1} /\ inflight \in [Jobs -> Nat] /\ leases \in [Jobs -> LeaseStates]
  BY DEF Custody, NoCopies, TypeOK, QueueTypeOK
<1>4. /\ inflight'[j] = 0
      /\ \A k \in Jobs \ {j} : inflight'[k] = inflight[k] /\ leases'[k] = leases[k]
  BY <1>1, <1>3 DEF DropClaim
<1>5. row[j] \in Live => worker[w].at = "retry"
  BY <1>0, <1>1 DEF Agreement, RowMatchesStep, Live, Terminal
<1>6. worker[w].at = "retry" => delayed'[j] = "waiting"
  BY <1>1 DEF TypeOK, QueueTypeOK
<1>7. \A k \in Jobs \ {j} : delayed'[k] = delayed[k]
  BY <1>1 DEF TypeOK, QueueTypeOK
<1>8. \A v \in Workers : worker[v].at = "lease" => worker'[v] = worker[v]
  BY <1>1 DEF TypeOK
<1>9. Found(j)
  BY <1>1, <1>4, <1>5, <1>6 DEF Found, Recoverable
<1>10. ASSUME NEW k \in Jobs \ {j}
       PROVE  Kept(k)
  BY <1>1, <1>4, <1>7, <1>8 DEF Kept, Recoverable, Reapable, Holds
<1> QED
  BY <1>1, <1>9, <1>10, RecoveryByJob

-----------------------------------------------------------------------------
(* Steps of the others.                                                    *)

\* The client sees 202 only after the push.
LEMMA ApiKeepsRecovery ==
    ASSUME TypeOK, Custody, Recovery, NEW j \in Jobs, Api(j)
    PROVE  Recovery'
<1>1. UNCHANGED <<inflight, leases, worker, operator>>
  BY DEF Api, InsertJob, PushJob, PushFails, Push, PushDelayed, redisVars
<1>2. \A k \in Jobs \ {j} : submission'[k] = submission[k] /\ row'[k] = row[k]
  BY DEF Api, InsertJob, PushJob, PushFails, pgVars, TypeOK
<1>3. \/ UNCHANGED <<ready, delayed>> /\ submission'[j] # "accepted"
      \/ ready' = Append(ready, j) /\ UNCHANGED delayed
      \/ delayed' = [delayed EXCEPT ![j] = "waiting"] /\ UNCHANGED ready
  BY DEF Api, InsertJob, PushJob, PushFails, Push, PushDelayed, redisVars, TypeOK
<1>4. Range(ready) \subseteq Range(ready') /\ (ready' # ready => j \in Range(ready'))
  <2>1. ready \in Seq(Jobs)
    BY DEF TypeOK, QueueTypeOK
  <2>2. Range(Append(ready, j)) = Range(ready) \cup {j}
    BY <2>1, AppendList
  <2> QED
    BY <1>3, <2>2
<1>5. /\ \A k \in Jobs : delayed[k] # "none" => delayed'[k] # "none"
      /\ submission'[j] = "accepted" => j \in Range(ready') \/ delayed'[j] # "none"
  <2>1. ready \in Seq(Jobs) /\ delayed \in [Jobs -> DelayStates]
    BY DEF TypeOK, QueueTypeOK
  <2>2. ready' = Append(ready, j) => j \in Range(ready')
    BY <2>1, AppendList
  <2> QED
    BY <1>3, <2>1, <2>2
<1>6. \A k \in Jobs : Kept(k)
  BY <1>1, <1>4, <1>5 DEF Kept, Recoverable, Reapable, Holds
<1>7. Found(j)
  <2>1. inflight[j] > 0 => Reapable(j)
    BY DEF Recovery, EveryClaimIsReapable, Reapable
  <2> QED
    BY <1>5, <1>6, <2>1 DEF Found, Kept, Recoverable
<1> QED
  BY <1>2, <1>6, <1>7, RecoveryByJob

\* A replay makes a row live only with the id in its hands, and pushes it.
LEMMA ReplayKeepsRecovery ==
    ASSUME TypeOK, Custody, Agreement, Recovery, "replay" \notin Faults,
           NEW o \in Operators, Replay(o)
    PROVE  Recovery'
<1>1. UNCHANGED <<inflight, leases, delayed, worker, submission>>
  BY DEF Replay, PopDead, ResetDead, PushReplayed, ReplayStops, PopDlq, Push, redisVars
<1>2. CASE PopDead(o)
  <2>1. UNCHANGED <<ready, row>> /\ operator[o].at = "idle"
    BY <1>2 DEF PopDead, PopDlq, pgVars
  <2>2. \A p \in Operators : operator[p].at = "push" => operator'[p] = operator[p]
    BY <1>2, <2>1 DEF PopDead, TypeOK
  <2>3. \A k \in Jobs : Kept(k)
    BY <1>1, <2>1, <2>2 DEF Kept, Recoverable, Reapable, Holds
  <2> QED
    BY <1>1, <2>1, <2>3, RecoveryByJob
<1>3. CASE ResetDead(o)
  <2>0. PICK j \in Jobs : j = operator[o].job
    BY <1>3, DeliveryAssumption DEF ResetDead, Custody, Employed, TypeOK, OperatorStates
  <2>1. /\ operator[o].at = "reset" /\ UNCHANGED ready
        /\ UpdateState(j, "queued")
        /\ operator' = [operator EXCEPT ![o] =
                           IF Exists(j) THEN [at |-> "push", job |-> j] ELSE IdleOperator]
    BY <1>3, <2>0 DEF ResetDead, redisVars
  <2>3. \A k \in Jobs \ {j} : row'[k] = row[k]
    BY <2>1 DEF UpdateState, TypeOK
  <2>4. \A p \in Operators : operator[p].at = "push" => operator'[p] = operator[p]
    BY <2>1 DEF TypeOK
  <2>5. row'[j] \in Live => operator'[o].at = "push" /\ operator'[o].job = j
    BY <2>1 DEF UpdateState, Exists, Live, TypeOK
  <2>6. \A k \in Jobs : Kept(k)
    BY <1>1, <2>1, <2>4 DEF Kept, Recoverable, Reapable, Holds
  <2>7. Found(j)
    <3>1. inflight[j] > 0 => Reapable(j)
      BY DEF Recovery, EveryClaimIsReapable, Reapable
    <3> QED
      BY <2>5, <2>6, <3>1 DEF Found, Kept, Recoverable
  <2> QED
    BY <1>1, <2>3, <2>6, <2>7, RecoveryByJob
<1>4. CASE PushReplayed(o)
  <2>0. PICK j \in Jobs : j = operator[o].job
    BY <1>4, DeliveryAssumption DEF PushReplayed, Custody, Employed, TypeOK, OperatorStates
  <2>1. /\ operator[o].at = "push" /\ UNCHANGED row
        /\ ready' = Append(ready, j)
        /\ operator' = [operator EXCEPT ![o] = IdleOperator]
    BY <1>4, <2>0 DEF PushReplayed, Push, pgVars
  <2>3. Range(ready') = Range(ready) \cup {j}
    BY <2>1, AppendList DEF TypeOK, QueueTypeOK
  <2>4. \A p \in Operators : operator[p].job # j => operator'[p] = operator[p]
    BY <2>0, <2>1 DEF TypeOK
  <2>5. \A k \in Jobs : Kept(k)
    BY <1>1, <2>3, <2>4 DEF Kept, Recoverable, Reapable, Holds
  <2> QED
    BY <1>1, <2>1, <2>5, RecoveryByJob
<1> QED
  BY <1>2, <1>3, <1>4 DEF Replay, ReplayStops

\* What promotion takes from delayed it puts on ready.
LEMMA PromoteKeepsRecovery ==
    ASSUME TypeOK, Recovery, Promote
    PROVE  Recovery'
<1>1. PICK batch \in Batches(Due) : PromoteDue(batch)
  BY DEF Promote
<1>2. UNCHANGED <<row, submission, operator, worker, inflight, leases>>
  BY <1>1 DEF Promote, PromoteDue, pgVars
<1>3. batch \in Seq(Jobs)
  BY BatchIsList DEF Due
<1>4. Range(ready') = Range(ready) \cup Range(batch)
  BY <1>1, <1>3, ConcatList DEF PromoteDue, TypeOK, QueueTypeOK
<1>5. \A k \in Jobs : delayed'[k] = IF k \in Range(batch) THEN "none" ELSE delayed[k]
  BY <1>1 DEF PromoteDue
<1>6. \A k \in Jobs : Kept(k)
  BY <1>2, <1>4, <1>5 DEF Kept, Recoverable, Reapable, Holds
<1> QED
  BY <1>2, <1>6, RecoveryByJob

\* What the reaper takes from inflight it puts on ready.
LEMMA ReapKeepsRecovery ==
    ASSUME TypeOK, Custody, Recovery, Reap
    PROVE  Recovery'
<1>1. PICK batch \in Batches(Expired) : ReapExpired(batch)
  BY DEF Reap
<1>2. UNCHANGED <<row, submission, operator, worker, delayed>>
  BY <1>1 DEF Reap, ReapExpired, pgVars
<1>3. batch \in Seq(Jobs)
  BY BatchIsList DEF Expired
<1>4. Range(ready') = Range(ready) \cup Range(batch)
  BY <1>1, <1>3, ConcatList DEF ReapExpired, TypeOK, QueueTypeOK
<1>5. \A k \in Jobs : leases'[k] = IF k \in Range(batch) THEN "none" ELSE leases[k]
  BY <1>1 DEF ReapExpired
<1>6. \A k \in Jobs : inflight[k] \in {0, 1}
  BY DEF Custody, NoCopies
<1>7. \A k \in Jobs : inflight'[k] = IF k \in Range(batch) THEN 0 ELSE inflight[k]
  BY <1>1, <1>6 DEF ReapExpired
<1>8. \A k \in Jobs : k \in Range(batch) => Found(k)
  BY <1>4, <1>7 DEF Found, Recoverable
<1>9. \A k \in Jobs : k \notin Range(batch) => Kept(k)
  BY <1>2, <1>4, <1>5, <1>7 DEF Kept, Recoverable, Reapable, Holds
<1> QED
  BY <1>2, <1>8, <1>9, RecoveryByJob

\* A delay or a lease that has run out is still there to be found.
LEMMA TimeKeepsRecovery ==
    ASSUME TypeOK, Recovery, NEW j \in Jobs, Time(j)
    PROVE  Recovery'
<1>1. UNCHANGED <<row, submission, operator, worker, inflight, ready>>
  BY DEF Time, DelayElapses, LeaseLapses, DelayPasses, LeasePasses, pgVars
<1>2. \A k \in Jobs : (delayed[k] # "none" => delayed'[k] # "none")
                   /\ (leases[k] # "none" => leases'[k] # "none")
  BY DEF Time, DelayElapses, LeaseLapses, DelayPasses, LeasePasses, TypeOK, QueueTypeOK
<1>3. \A k \in Jobs : Kept(k)
  BY <1>1, <1>2 DEF Kept, Recoverable, Reapable, Holds
<1> QED
  BY <1>1, <1>3, RecoveryByJob

\* A deleted row asks for no delivery.
LEMMA CascadeKeepsRecovery ==
    ASSUME TypeOK, Recovery, NEW j \in Jobs, Cascade(j)
    PROVE  Recovery'
<1>1. UNCHANGED <<ready, inflight, leases, delayed, submission, operator, worker>>
  BY DEF Cascade, redisVars
<1>2. row'[j] = "deleted" /\ \A k \in Jobs \ {j} : row'[k] = row[k]
  BY DEF Cascade, TypeOK
<1>3. \A k \in Jobs : Kept(k)
  BY <1>1 DEF Kept, Recoverable, Reapable, Holds
<1>4. \A k \in Jobs : row'[k] \in Live => row[k] \in Live
  BY <1>2 DEF Live
<1> QED
  BY <1>1, <1>3, <1>4, RecoveryByJob

-----------------------------------------------------------------------------
\* Every step keeps Recovery, when nobody stops halfway through reserve or replay.
LEMMA RecoveryNext ==
    ASSUME Faults \cap {"reserve", "replay", "resend"} = {}
    PROVE  TypeOK /\ Custody /\ Agreement /\ Recovery /\ [Next]_vars => Recovery'
<1> SUFFICES ASSUME TypeOK, Custody, Agreement, Recovery, [Next]_vars
             PROVE  Recovery'
  OBVIOUS
<1>1. ASSUME NEW w \in Workers,
             \/ Load(w) \/ Defer(w) \/ Proceed(w) \/ Number(w) \/ Post(w)
             \/ Record(w) \/ Settle(w) \/ Abandon(w)
      PROVE  Recovery'
  <2>1. worker[w].at \notin {"idle", "lease"}
    BY <1>1 DEF Load, Defer, Proceed, Number, Post, Record, Settle, Abandon
  <2>2. UNCHANGED <<redisVars, submission, operator>>
    BY <1>1 DEF Load, Defer, Proceed, Number, Post, Record, Settle, Abandon
  <2>3. \A k \in Jobs \ {worker[w].job} : row'[k] = row[k]
    BY <1>1 DEF Load, Defer, Proceed, Number, Post, Record, Settle, Abandon, UpdateState,
                pgVars, TypeOK
  <2>4. \A v \in Workers \ {w} : worker'[v] = worker[v]
    BY <1>1 DEF Load, Defer, Proceed, Number, Post, Record, Settle, Abandon, GoIdle, Goto,
                Become, TypeOK
  <2> QED
    BY <2>1, <2>2, <2>3, <2>4, WorkKeepsRecovery
<1>2. CASE UNCHANGED vars
  <2>1. UNCHANGED <<ready, inflight, leases, delayed, row, submission, operator, worker>>
    BY <1>2 DEF vars, redisVars, pgVars
  <2>2. \A k \in Jobs : Kept(k)
    BY <2>1 DEF Kept, Recoverable, Reapable, Holds
  <2> QED
    BY <2>1, <2>2, RecoveryByJob
<1>3. \A j \in Jobs : ~Resent(j)
  BY DEF Resent
<1> QED
  BY <1>1, <1>2, <1>3, ClaimKeepsRecovery, LeaseKeepsRecovery, ReleaseKeepsRecovery,
     ApiKeepsRecovery, ReplayKeepsRecovery, PromoteKeepsRecovery, ReapKeepsRecovery,
     TimeKeepsRecovery, CascadeKeepsRecovery DEF Next, Process

\* So it is an invariant while nobody stops halfway through reserve or replay.
LEMMA RecoveryInvariant == Faults \subseteq {"cascade"} => (Spec => []Recovery)
<1> SUFFICES ASSUME Faults \subseteq {"cascade"}
             PROVE  Spec => []Recovery
  OBVIOUS
<1>1. OneCopy /\ Faults \cap {"reserve", "replay", "resend"} = {}
  BY DEF OneCopy
<1>2. Spec => [](TypeOK /\ Custody /\ Agreement)
  BY <1>1, AgreementInvariant
<1>3. Init => Recovery
  BY RecoveryInit
<1>4. TypeOK /\ Custody /\ Agreement /\ Recovery /\ [Next]_vars => Recovery'
  BY <1>1, RecoveryNext
<1> QED
  BY <1>2, <1>3, <1>4, PTL DEF Spec

\* An event whose 202 the client has seen is never lost (queue.ts:22-26): whatever
\* deliveries fail, claims are reaped, jobs are replayed and rows are deleted, and
\* wherever workers stop but between BRPOPLPUSH and ZADD.
THEOREM NothingIsLost == Faults \subseteq {"cascade"} => (Spec => []NoJobStranded)
  BY RecoveryInvariant, PTL DEF Recovery

\* And every claim can be given back: what is in flight has a lease that the reaper
\* finds, or a worker about to take one (queue.ts:73-75).
THEOREM ClaimsCanBeReaped == Faults \subseteq {"cascade"} => (Spec => []EveryClaimIsReapable)
  BY RecoveryInvariant, PTL DEF Recovery

-----------------------------------------------------------------------------
(* Lifecycle.                                                              *)

\* The refinement mapping of Lifecycle, for one job.
LifeOf(j) == IF row[j] \in Live THEN "pending" ELSE row[j]

\* A deleted row has spent nothing: a step that starts the budget of one anew, or
\* deletes it, changes nothing that can be seen.
DeletedSpentNothing == \A j \in Jobs : row[j] = "deleted" => attempts[j] = 0

\* Rows are created, and spend, only where they exist.
LEMMA DeletedSpentNothingNext ==
    TypeOK /\ DeletedSpentNothing /\ [Next]_vars => DeletedSpentNothing'
<1> SUFFICES ASSUME TypeOK, DeletedSpentNothing, [Next]_vars,
                    NEW j \in Jobs, row'[j] = "deleted"
             PROVE  attempts'[j] = 0
  BY DEF DeletedSpentNothing
<1>1. row \in [Jobs -> RowStates] /\ attempts \in [Jobs -> 0..MaxAttempts]
  BY DEF TypeOK
<1>2. row[j] = "deleted" => attempts[j] = 0
  BY DEF DeletedSpentNothing
<1>3. ASSUME UNCHANGED <<row, attempts>> PROVE attempts'[j] = 0
  BY <1>2, <1>3
<1>4. ASSUME NEW s \in RowStates \ {"deleted"}, NEW k \in Jobs, UpdateState(k, s)
      PROVE  row[j] = "deleted"
  BY <1>1, <1>4 DEF UpdateState
<1>5. CASE UNCHANGED vars
  BY <1>3, <1>5 DEF vars, pgVars
<1>6. ASSUME NEW k \in Jobs, Api(k) \/ Time(k) \/ Cascade(k) \/ Resent(k)
      PROVE  attempts'[j] = 0
  BY <1>1, <1>2, <1>6 DEF Api, InsertJob, PushJob, PushFails, Time, DelayElapses,
                          LeaseLapses, Cascade, Resent, pgVars
<1>7. ASSUME NEW w \in Workers, Claim(w) \/ Process(w) \/ Abandon(w) PROVE attempts'[j] = 0
  <2>1. CASE Defer(w) \/ Proceed(w)
    <3>1. attempts' = attempts
      BY <2>1 DEF Defer, Proceed
    <3>2. \E s \in {"queued", "in_flight"} : UpdateState(worker[w].job, s)
      BY <2>1 DEF Defer, Proceed
    <3>3. row[j] = "deleted"
      BY <1>1, <3>2 DEF UpdateState
    <3> QED
      BY <1>2, <3>1, <3>3
  <2>2. CASE Settle(w)
    <3>1. CASE UNCHANGED <<row, attempts>>
      BY <1>3, <3>1
    <3>2. CASE ~UNCHANGED <<row, attempts>>
      <4>1. /\ UpdateState(worker[w].job, Verdict(w).state)
            /\ attempts' = [attempts EXCEPT ![worker[w].job] =
                               IF Exists(worker[w].job) THEN @ + 1 ELSE @]
        BY <2>2, <3>2 DEF Settle
      <4>2. Verdict(w).state # "deleted"
        BY DEF Verdict
      <4>3. row[j] = "deleted"
        BY <1>1, <4>1, <4>2 DEF UpdateState
      <4> QED
        BY <1>1, <1>2, <4>1, <4>3 DEF Exists
    <3> QED
      BY <3>1, <3>2
  <2>3. CASE ~(Defer(w) \/ Proceed(w) \/ Settle(w))
    BY <1>3, <1>7, <2>3 DEF Claim, Process, Lease, Load, Number, Post, Record, Release,
                            Abandon, pgVars
  <2> QED
    BY <2>1, <2>2, <2>3
<1>8. ASSUME NEW o \in Operators, Replay(o) PROVE attempts'[j] = 0
  <2>1. CASE ResetDead(o)
    <3>1. /\ UpdateState(operator[o].job, "queued")
          /\ attempts' = [attempts EXCEPT ![operator[o].job] = 0]
      BY <2>1 DEF ResetDead
    <3>2. row[j] = "deleted"
      BY <1>1, <3>1 DEF UpdateState
    <3> QED
      BY <1>1, <1>2, <3>1, <3>2
  <2>2. CASE ~ResetDead(o)
    BY <1>3, <1>8, <2>2 DEF Replay, PopDead, PushReplayed, ReplayStops, pgVars
  <2> QED
    BY <2>1, <2>2
<1>9. CASE Promote \/ Reap
  BY <1>3, <1>9 DEF Promote, Reap, pgVars
<1> QED
  BY <1>5, <1>6, <1>7, <1>8, <1>9 DEF Next

-----------------------------------------------------------------------------
(* The mapped steps.                                                       *)

\* The initial states map to initial states.
LEMMA LifecycleInit == Init => Lifecycle!Init
<1> SUFFICES ASSUME Init PROVE Lifecycle!Init
  OBVIOUS
<1> QED
  BY DEF Init, Lifecycle!Init, Live

\* A step that changes neither the life of a job, nor its budget, nor its answers.
LEMMA LifecycleStutters ==
    ASSUME UNCHANGED <<attempts, confirmed>>, \A j \in Jobs : LifeOf(j)' = LifeOf(j)
    PROVE  UNCHANGED Lifecycle!lifeVars
  BY DEF Lifecycle!lifeVars, LifeOf

\* A row that changes changes the life of its job alone.
LEMMA LifeMoves ==
    ASSUME NEW j \in Jobs, \A k \in Jobs \ {j} : row'[k] = row[k]
    PROVE  [k \in Jobs |-> LifeOf(k)]'
              = [[k \in Jobs |-> LifeOf(k)] EXCEPT ![j] = LifeOf(j)']
  BY DEF LifeOf

\* A delivery is seen when it is answered and when it is written down; its other
\* steps keep a live row live.
LEMMA WorkImplementsLifecycle ==
    ASSUME TypeOK, Custody, Agreement, NEW w \in Workers, Process(w)
    PROVE  [Lifecycle!Next]_(Lifecycle!lifeVars)
<1>1. worker[w].at # "idle"
  BY DEF Process, Lease, Load, Defer, Proceed, Number, Post, Record, Settle, Release
<1>2. PICK j \in Jobs : j = worker[w].job
  BY <1>1, WorkerAlone
<1>3. row[j] # "absent"
  BY <1>1, <1>2, WorkerAlone
<1>4. /\ row \in [Jobs -> RowStates] /\ attempts \in [Jobs -> 0..MaxAttempts]
      /\ confirmed \in [Jobs -> Nat] /\ MaxAttempts \in Nat
  BY DeliveryAssumption DEF TypeOK
<1>5. /\ worker[w].at \in Delivering => row[j] \in {"in_flight", "deleted"}
      /\ worker[w].at = "gates" => row[j] \in Live \cup {"deleted"}
  BY <1>2 DEF Agreement, RowMatchesStep
<1>6. CASE Defer(w) \/ Proceed(w)
  <2>1. worker[w].at = "gates" /\ UNCHANGED <<attempts, confirmed>>
    BY <1>6 DEF Defer, Proceed
  <2>2. PICK s \in Live : UpdateState(j, s)
    BY <1>2, <1>6 DEF Defer, Proceed, Live
  <2>3. row[j] \in Live => row'[j] \in Live
    BY <1>4, <2>2 DEF UpdateState
  <2>4. row[j] = "deleted" => row'[j] = "deleted"
    BY <1>4, <2>2 DEF UpdateState, Exists
  <2>5. \A k \in Jobs \ {j} : row'[k] = row[k]
    BY <1>4, <2>2 DEF UpdateState
  <2>6. \A k \in Jobs : LifeOf(k)' = LifeOf(k)
    BY <1>5, <2>1, <2>3, <2>4, <2>5 DEF LifeOf
  <2> QED
    BY <2>1, <2>6, LifecycleStutters
<1>7. CASE Post(w)
  <2>1. PICK o \in Outcomes \ {"none"} :
          confirmed' = IF o = "ok" THEN [confirmed EXCEPT ![j] = @ + 1] ELSE confirmed
    BY <1>2, <1>7 DEF Post
  <2>2. worker[w].at = "post" /\ UNCHANGED <<row, attempts>>
    BY <1>7 DEF Post, pgVars
  <2>3. CASE o = "ok"
    <3>1. LifeOf(j) \in {"pending", "deleted"}
      BY <1>5, <2>2 DEF LifeOf, Delivering, Live
    <3>2. Lifecycle!Answer(j)
      BY <2>1, <2>2, <2>3, <3>1 DEF Lifecycle!Answer, LifeOf
    <3> QED
      BY <3>2 DEF Lifecycle!Next
  <2>4. CASE o # "ok"
    <3>1. UNCHANGED <<row, attempts, confirmed>>
      BY <2>1, <2>2, <2>4
    <3> QED
      BY <3>1, LifecycleStutters DEF LifeOf
  <2> QED
    BY <2>3, <2>4
<1>8. CASE Settle(w)
  <2>1. worker[w].at = "settle" /\ confirmed' = confirmed
    BY <1>8 DEF Settle
  <2>2. ~BudgetSpent(j)
    BY <1>2, <2>1, AgreementAcceptsWrites DEF BudgetNeverOverdrawn
  <2>3. /\ UpdateState(j, Verdict(w).state)
        /\ attempts' = [attempts EXCEPT ![j] = IF Exists(j) THEN @ + 1 ELSE @]
    BY <1>2, <1>8, <2>2 DEF Settle
  <2>4. CASE ~Exists(j)
    <3>1. row' = row /\ attempts' = attempts
      BY <1>4, <2>3, <2>4 DEF UpdateState
    <3> QED
      BY <2>1, <3>1, LifecycleStutters DEF LifeOf
  <2>5. CASE Exists(j)
    <3>1. /\ row[j] = "in_flight" /\ attempts[j] < MaxAttempts
          /\ worker[w].seen = attempts[j]
      BY <1>2, <1>4, <1>5, <2>1, <2>2, <2>5
         DEF Agreement, ReadsAreFresh, Exists, Delivering, BudgetSpent
    <3>2. /\ worker[w].outcome \in {"ok", "permanent", "retryable"}
          /\ worker[w].outcome = "ok" => confirmed[j] > 0
      BY <1>2, <2>1 DEF Agreement, OutcomeKnown, TypeOK, WorkerStates, Outcomes
    <3>3. row' = [row EXCEPT ![j] = Verdict(w).state] /\ attempts' = [attempts EXCEPT ![j] = @ + 1]
      BY <2>3, <2>5 DEF UpdateState
    <3>4. [k \in Jobs |-> LifeOf(k)]'
             = [[k \in Jobs |-> LifeOf(k)] EXCEPT ![j] = LifeOf(j)']
      BY <1>4, <3>3, LifeMoves
    <3>5. LifeOf(j) = "pending" /\ row'[j] = Verdict(w).state
      BY <1>4, <3>1, <3>3 DEF LifeOf, Live
    <3>6. ASSUME NEW next, LifeOf(j)' = next PROVE Lifecycle!Spend(j, next)
      BY <2>1, <3>3, <3>4, <3>5, <3>6 DEF Lifecycle!Spend, LifeOf
    <3>7. CASE worker[w].outcome = "ok"
      <4>1. LifeOf(j)' = "succeeded"
        BY <3>5, <3>7 DEF LifeOf, Verdict, Live
      <4>2. Lifecycle!Succeed(j)
        BY <3>1, <3>2, <3>6, <3>7, <4>1 DEF Lifecycle!Succeed
      <4> QED
        BY <4>2 DEF Lifecycle!Next
    <3>8. CASE worker[w].outcome = "permanent" \/ (worker[w].outcome = "retryable" /\ Exhausted(w))
      <4>1. LifeOf(j)' = "dead"
        BY <3>5, <3>8 DEF LifeOf, Verdict, Live
      <4>2. Lifecycle!GiveUp(j)
        BY <3>1, <3>6, <4>1 DEF Lifecycle!GiveUp
      <4> QED
        BY <4>2 DEF Lifecycle!Next
    <3>9. CASE worker[w].outcome = "retryable" /\ ~Exhausted(w)
      <4>1. LifeOf(j)' = "pending"
        BY <3>5, <3>9 DEF LifeOf, Verdict, Live
      <4>2. attempts[j] + 1 < MaxAttempts
        BY <1>4, <3>1, <3>9 DEF Exhausted
      <4>3. Lifecycle!TryAgain(j)
        BY <3>6, <4>1, <4>2 DEF Lifecycle!TryAgain
      <4> QED
        BY <4>3 DEF Lifecycle!Next
    <3> QED
      BY <3>2, <3>7, <3>8, <3>9
  <2> QED
    BY <2>4, <2>5
<1>9. CASE ~(Defer(w) \/ Proceed(w) \/ Post(w) \/ Settle(w))
  <2>1. UNCHANGED <<row, attempts, confirmed>>
    BY <1>9 DEF Process, Lease, Load, Number, Record, Release, pgVars
  <2> QED
    BY <2>1, LifecycleStutters DEF LifeOf
<1> QED
  BY <1>6, <1>7, <1>8, <1>9

\* The api creates a job, a replay revives a dead one, a deletion makes it vanish.
LEMMA OthersImplementLifecycle ==
    ASSUME TypeOK, Custody, Agreement, DeletedSpentNothing,
           \/ \E j \in Jobs : Api(j) \/ Cascade(j)
           \/ \E o \in Operators : Replay(o)
    PROVE  [Lifecycle!Next]_(Lifecycle!lifeVars)
<1>1. row \in [Jobs -> RowStates] /\ attempts \in [Jobs -> 0..MaxAttempts]
  BY DEF TypeOK
<1>2. ASSUME NEW j \in Jobs, InsertJob(j)
      PROVE  [Lifecycle!Next]_(Lifecycle!lifeVars)
  <2>1. row[j] = "absent" /\ row' = [row EXCEPT ![j] = "queued"] /\ UNCHANGED <<attempts, confirmed>>
    BY <1>2 DEF InsertJob, Custody, NotPushedYet
  <2>2. [k \in Jobs |-> LifeOf(k)]'
           = [[k \in Jobs |-> LifeOf(k)] EXCEPT ![j] = LifeOf(j)']
    BY <1>1, <2>1, LifeMoves
  <2>3. LifeOf(j) = "absent" /\ LifeOf(j)' = "pending"
    BY <1>1, <2>1 DEF LifeOf, Live
  <2>4. Lifecycle!Create(j)
    BY <2>1, <2>2, <2>3 DEF Lifecycle!Create, LifeOf
  <2> QED
    BY <2>4 DEF Lifecycle!Next
<1>3. ASSUME NEW j \in Jobs, Cascade(j)
      PROVE  [Lifecycle!Next]_(Lifecycle!lifeVars)
  <2>1. /\ Exists(j) /\ row' = [row EXCEPT ![j] = "deleted"]
        /\ attempts' = [attempts EXCEPT ![j] = 0] /\ UNCHANGED confirmed
    BY <1>3 DEF Cascade
  <2>2. [k \in Jobs |-> LifeOf(k)]'
           = [[k \in Jobs |-> LifeOf(k)] EXCEPT ![j] = LifeOf(j)']
    BY <1>1, <2>1, LifeMoves
  <2>3. LifeOf(j) \notin {"absent", "deleted"} /\ LifeOf(j)' = "deleted"
    BY <1>1, <2>1 DEF LifeOf, Live, Exists
  <2>4. Lifecycle!Vanish(j)
    BY <2>1, <2>2, <2>3 DEF Lifecycle!Vanish, LifeOf
  <2> QED
    BY <2>4 DEF Lifecycle!Next
<1>4. ASSUME NEW o \in Operators, ResetDead(o)
      PROVE  [Lifecycle!Next]_(Lifecycle!lifeVars)
  <2>1. operator[o].at = "reset"
    BY <1>4 DEF ResetDead
  <2>2. PICK j \in Jobs : j = operator[o].job
    BY <2>1, OperatorAlone
  <2>3. /\ UpdateState(j, "queued") /\ attempts' = [attempts EXCEPT ![j] = 0]
        /\ UNCHANGED confirmed
    BY <1>4, <2>2 DEF ResetDead
  <2>4. row[j] \in {"dead", "deleted"}
    BY <2>1, <2>2 DEF Agreement, StoresAgree
  <2>5. CASE row[j] = "deleted"
    <3>1. attempts[j] = 0
      BY <2>5 DEF DeletedSpentNothing
    <3>2. UNCHANGED <<row, attempts>>
      BY <1>1, <2>3, <2>5, <3>1 DEF UpdateState, Exists
    <3> QED
      BY <2>3, <3>2, LifecycleStutters DEF LifeOf
  <2>6. CASE row[j] = "dead"
    <3>1. row' = [row EXCEPT ![j] = "queued"]
      BY <2>3, <2>6 DEF UpdateState, Exists
    <3>2. [k \in Jobs |-> LifeOf(k)]'
             = [[k \in Jobs |-> LifeOf(k)] EXCEPT ![j] = LifeOf(j)']
      BY <1>1, <3>1, LifeMoves
    <3>3. LifeOf(j) = "dead" /\ LifeOf(j)' = "pending"
      BY <1>1, <2>6, <3>1 DEF LifeOf, Live
    <3>4. Lifecycle!Revive(j)
      BY <2>3, <3>2, <3>3 DEF Lifecycle!Revive, LifeOf
    <3> QED
      BY <3>4 DEF Lifecycle!Next
  <2> QED
    BY <2>4, <2>5, <2>6
<1>5. ASSUME UNCHANGED <<row, attempts, confirmed>>
      PROVE  [Lifecycle!Next]_(Lifecycle!lifeVars)
  BY <1>5, LifecycleStutters DEF LifeOf
<1>6. ASSUME NEW j \in Jobs, PushJob(j) \/ PushFails(j)
      PROVE  [Lifecycle!Next]_(Lifecycle!lifeVars)
  BY <1>5, <1>6 DEF PushJob, PushFails, pgVars
<1>7. ASSUME NEW o \in Operators, PopDead(o) \/ PushReplayed(o) \/ ReplayStops(o)
      PROVE  [Lifecycle!Next]_(Lifecycle!lifeVars)
  BY <1>5, <1>7 DEF PopDead, PushReplayed, ReplayStops, pgVars
<1> QED
  BY <1>2, <1>3, <1>4, <1>6, <1>7 DEF Api, Replay

\* Every step of the system maps to a step of one job, or to none.
LEMMA StepImplementsLifecycle ==
    TypeOK /\ Custody /\ Agreement /\ DeletedSpentNothing /\ [Next]_vars
       => [Lifecycle!Next]_(Lifecycle!lifeVars)
<1> SUFFICES ASSUME TypeOK, Custody, Agreement, DeletedSpentNothing, [Next]_vars
             PROVE  [Lifecycle!Next]_(Lifecycle!lifeVars)
  OBVIOUS
<1>1. CASE \E w \in Workers : Process(w)
  BY <1>1, WorkImplementsLifecycle
<1>2. CASE \/ \E j \in Jobs : Api(j) \/ Cascade(j)
           \/ \E o \in Operators : Replay(o)
  BY <1>2, OthersImplementLifecycle
<1>3. CASE \/ UNCHANGED vars \/ Promote \/ Reap
           \/ \E j \in Jobs : Time(j) \/ Resent(j)
           \/ \E w \in Workers : Claim(w) \/ Abandon(w)
  <2>1. UNCHANGED <<row, attempts, confirmed>>
    BY <1>3 DEF vars, pgVars, Promote, Reap, Time, DelayElapses, LeaseLapses, Resent, Claim,
                Abandon
  <2> QED
    BY <2>1, LifecycleStutters DEF LifeOf
<1> QED
  BY <1>1, <1>2, <1>3 DEF Next

\* While workers keep to their visibility timeout and no command is executed
\* twice, the platform is Lifecycle to whoever sees rows and answers only: a row
\* moves along the state diagram, is succeeded only when it was answered, and
\* each attempt spends its budget once, for every number of jobs, workers and
\* operators and wherever they stop.
THEOREM PlatformIsLifecycle ==
    OneCopy => (Spec => ImplementsLifecycle)
<1> SUFFICES ASSUME OneCopy
             PROVE  Spec => Lifecycle!Spec
  BY DEF ImplementsLifecycle
<1>1. Spec => [](TypeOK /\ Custody /\ Agreement)
  BY AgreementInvariant
<1>2. Init => DeletedSpentNothing
  BY DEF Init, DeletedSpentNothing
<1>3. TypeOK /\ DeletedSpentNothing /\ [Next]_vars => DeletedSpentNothing'
  BY DeletedSpentNothingNext
<1>4. Init => Lifecycle!Init
  BY LifecycleInit
<1>5. TypeOK /\ Custody /\ Agreement /\ DeletedSpentNothing /\ [Next]_vars
         => [Lifecycle!Next]_(Lifecycle!lifeVars)
  BY StepImplementsLifecycle
<1> QED
  BY <1>1, <1>2, <1>3, <1>4, <1>5, PTL DEF Spec, Lifecycle!Spec
=============================================================================
