--------------------------- MODULE DeliveryProofs ---------------------------
(***************************************************************************)
(* Theorems about Delivery for every set of jobs, workers and operators,   *)
(* every bound and every set of faults: the types, and the two guarantees  *)
(* that survive workers who share a job.                                   *)
(***************************************************************************)
EXTENDS DeliveryInvariant, FiniteSetTheorems, TLAPS

-----------------------------------------------------------------------------
(* Lists of job ids: what a command leaves in them.                        *)

\* LPUSH adds its argument, and keeps a list of distinct ids distinct if the
\* argument is a new one.
LEMMA AppendList ==
    ASSUME NEW S, NEW s \in Seq(S), NEW e \in S
    PROVE  /\ Append(s, e) \in Seq(S)
           /\ Range(Append(s, e)) = Range(s) \cup {e}
           /\ IsInjective(s) /\ e \notin Range(s) => IsInjective(Append(s, e))
<1>1. Append(s, e) \in Seq(S)
  OBVIOUS
<1>2. /\ DOMAIN Append(s, e) = 1..(Len(s) + 1)
      /\ DOMAIN s = 1..Len(s)
      /\ Len(s) \in Nat
      /\ \A i \in 1..Len(s) : Append(s, e)[i] = s[i]
      /\ Append(s, e)[Len(s) + 1] = e
  OBVIOUS
<1>3. Range(Append(s, e)) = Range(s) \cup {e}
  BY <1>2 DEF Range
<1>4. IsInjective(s) /\ e \notin Range(s) => IsInjective(Append(s, e))
  BY <1>2 DEF Range, IsInjective
<1> QED
  BY <1>1, <1>3, <1>4

\* RPOP takes one id out of a list of distinct ids.
LEMMA PopList ==
    ASSUME NEW S, NEW s \in Seq(S), s # << >>
    PROVE  /\ Head(s) \in S
           /\ Head(s) \in Range(s)
           /\ Tail(s) \in Seq(S)
           /\ IsInjective(s) => /\ IsInjective(Tail(s))
                                /\ Range(Tail(s)) = Range(s) \ {Head(s)}
<1>1. /\ Len(s) \in Nat \ {0}
      /\ DOMAIN s = 1..Len(s)
      /\ Head(s) = s[1]
      /\ Tail(s) \in Seq(S)
      /\ DOMAIN Tail(s) = 1..(Len(s) - 1)
      /\ \A i \in 1..(Len(s) - 1) : Tail(s)[i] = s[i + 1]
  OBVIOUS
<1>2. Head(s) \in S /\ Head(s) \in Range(s)
  BY <1>1 DEF Range
<1>3. ASSUME IsInjective(s)
      PROVE  IsInjective(Tail(s)) /\ Range(Tail(s)) = Range(s) \ {Head(s)}
  <2>1. IsInjective(Tail(s))
    BY <1>1, <1>3 DEF IsInjective
  <2>2. ASSUME NEW x \in Range(s) \ {Head(s)}
        PROVE  x \in Range(Tail(s))
    <3>1. PICK i \in 1..Len(s) : s[i] = x /\ i # 1
      BY <1>1 DEF Range
    <3>2. i - 1 \in 1..(Len(s) - 1) /\ Tail(s)[i - 1] = x
      BY <1>1, <3>1
    <3> QED
      BY <1>1, <3>2 DEF Range
  <2>3. ASSUME NEW x \in Range(Tail(s))
        PROVE  x \in Range(s) \ {Head(s)}
    BY <1>1, <1>3 DEF Range, IsInjective
  <2> QED
    BY <2>1, <2>2, <2>3
<1> QED
  BY <1>1, <1>2, <1>3

\* A sweep pushes a batch of distinct ids: they join the list, which stays one
\* of distinct ids if none of them was in it.
LEMMA ConcatList ==
    ASSUME NEW S, NEW s \in Seq(S), NEW t \in Seq(S)
    PROVE  /\ s \o t \in Seq(S)
           /\ Range(s \o t) = Range(s) \cup Range(t)
           /\ IsInjective(s) /\ IsInjective(t) /\ Range(s) \cap Range(t) = {}
                => IsInjective(s \o t)
<1>1. /\ s \o t \in Seq(S)
      /\ Len(s) \in Nat /\ Len(t) \in Nat
      /\ DOMAIN s = 1..Len(s) /\ DOMAIN t = 1..Len(t)
      /\ DOMAIN (s \o t) = 1..(Len(s) + Len(t))
      /\ \A i \in 1..(Len(s) + Len(t)) :
            (s \o t)[i] = IF i <= Len(s) THEN s[i] ELSE t[i - Len(s)]
  OBVIOUS
<1>2. Range(s \o t) = Range(s) \cup Range(t)
  <2>1. ASSUME NEW x \in Range(t)
        PROVE  x \in Range(s \o t)
    <3>1. PICK i \in 1..Len(t) : t[i] = x
      BY <1>1 DEF Range
    <3>2. /\ Len(s) + i \in 1..(Len(s) + Len(t)) /\ ~(Len(s) + i <= Len(s))
          /\ (Len(s) + i) - Len(s) = i
      BY <1>1, <3>1
    <3> QED
      BY <1>1, <3>1, <3>2 DEF Range
  <2>2. ASSUME NEW x \in Range(s)
        PROVE  x \in Range(s \o t)
    BY <1>1 DEF Range
  <2>3. ASSUME NEW x \in Range(s \o t)
        PROVE  x \in Range(s) \cup Range(t)
    <3>1. PICK i \in 1..(Len(s) + Len(t)) : (s \o t)[i] = x
      BY <1>1 DEF Range
    <3>2. CASE i <= Len(s)
      BY <1>1, <3>1, <3>2 DEF Range
    <3>3. CASE ~(i <= Len(s))
      <4>1. i - Len(s) \in 1..Len(t) /\ t[i - Len(s)] = x
        BY <1>1, <3>1, <3>3
      <4> QED
        BY <1>1, <4>1 DEF Range
    <3> QED
      BY <3>2, <3>3
  <2> QED
    BY <2>1, <2>2, <2>3
<1>3. ASSUME IsInjective(s), IsInjective(t), Range(s) \cap Range(t) = {}
      PROVE  IsInjective(s \o t)
  <2> SUFFICES ASSUME NEW a \in DOMAIN (s \o t), NEW b \in DOMAIN (s \o t),
                      (s \o t)[a] = (s \o t)[b]
               PROVE  a = b
    BY DEF IsInjective
  <2>1. CASE a <= Len(s) /\ b <= Len(s)
    BY <1>1, <1>3, <2>1 DEF IsInjective
  <2>2. CASE ~(a <= Len(s)) /\ ~(b <= Len(s))
    <3>1. a - Len(s) \in DOMAIN t /\ b - Len(s) \in DOMAIN t
      BY <1>1, <2>2
    <3> QED
      BY <1>1, <1>3, <2>2, <3>1 DEF IsInjective
  <2>3. CASE a <= Len(s) /\ ~(b <= Len(s))
    <3>1. b - Len(s) \in DOMAIN t /\ a \in DOMAIN s /\ s[a] = t[b - Len(s)]
      BY <1>1, <2>3
    <3> QED
      BY <1>3, <3>1 DEF Range
  <2>4. CASE ~(a <= Len(s)) /\ b <= Len(s)
    <3>1. a - Len(s) \in DOMAIN t /\ b \in DOMAIN s /\ s[b] = t[a - Len(s)]
      BY <1>1, <2>4
    <3> QED
      BY <1>3, <3>1 DEF Range
  <2> QED
    BY <2>1, <2>2, <2>3, <2>4
<1> QED
  BY <1>1, <1>2, <1>3

\* What ZRANGEBYSCORE returns is a list of distinct members of the set.
LEMMA BatchIsList ==
    ASSUME NEW S \in SUBSET Jobs, NEW batch \in Batches(S)
    PROVE  /\ batch \in Seq(S)
           /\ batch \in Seq(Jobs)
           /\ Range(batch) \subseteq S
           /\ IsInjective(batch)
<1>1. Cardinality(S) \in Nat
  BY QueueAssumption, FS_Subset, FS_CardinalityType
<1> DEFINE size == IF Cardinality(S) < BatchSize THEN Cardinality(S) ELSE BatchSize
<1>2. size \in Nat
  BY <1>1, QueueAssumption
<1>3. batch \in [1..size -> S] /\ IsInjective(batch)
  BY DEF Batches
<1> HIDE DEF size
<1>4. batch \in Seq(S) /\ batch \in Seq(Jobs)
  BY <1>2, <1>3
<1> QED
  BY <1>3, <1>4 DEF Range

-----------------------------------------------------------------------------
(* Type correctness.                                                       *)

\* Every command and script of queue.ts leaves lists of job ids and sets
\* scored by time.
LEMMA QueueOperationsTyped ==
    ASSUME QueueTypeOK, NEW j \in Jobs
    PROVE  \/ Push(j) \/ PushDelayed(j) \/ ClaimMove(j) \/ TakeLease(j)
           \/ Ack(j) \/ RetryLater(j) \/ DeadLetter(j) \/ PopDlq(j)
           \/ DelayPasses(j) \/ LeasePasses(j)
           => QueueTypeOK'
<1> USE DEF QueueTypeOK, LeaseStates, DelayStates
<1>1. ASSUME Push(j) PROVE QueueTypeOK'
  BY <1>1, AppendList DEF Push
<1>2. ASSUME ClaimMove(j) PROVE QueueTypeOK'
  BY <1>2, PopList DEF ClaimMove
<1>3. ASSUME DeadLetter(j) PROVE QueueTypeOK'
  BY <1>3, AppendList DEF DeadLetter, DropClaim
<1>4. ASSUME PopDlq(j) PROVE QueueTypeOK'
  BY <1>4, PopList DEF PopDlq
<1>5. ASSUME Ack(j) PROVE QueueTypeOK'
  BY <1>5 DEF Ack, DropClaim
<1>6. ASSUME RetryLater(j) PROVE QueueTypeOK'
  BY <1>6 DEF RetryLater, DropClaim
<1>7. ASSUME PushDelayed(j) \/ TakeLease(j) \/ DelayPasses(j) \/ LeasePasses(j)
      PROVE  QueueTypeOK'
  BY <1>7 DEF PushDelayed, TakeLease, DelayPasses, LeasePasses
<1> QED
  BY <1>1, <1>2, <1>3, <1>4, <1>5, <1>6, <1>7

\* So do the two sweeps of the scheduler.
LEMMA SweepsTyped ==
    ASSUME QueueTypeOK
    PROVE  /\ \A batch \in Batches(Due) : PromoteDue(batch) => QueueTypeOK'
           /\ \A batch \in Batches(Expired) : ReapExpired(batch) => QueueTypeOK'
<1> USE DEF QueueTypeOK, LeaseStates, DelayStates
<1>1. ASSUME NEW batch \in Batches(Due), PromoteDue(batch) PROVE QueueTypeOK'
  <2>1. batch \in Seq(Jobs)
    BY BatchIsList DEF Due
  <2>2. ready' \in Seq(Jobs)
    BY <1>1, <2>1 DEF PromoteDue
  <2> QED
    BY <1>1, <2>2 DEF PromoteDue
<1>2. ASSUME NEW batch \in Batches(Expired), ReapExpired(batch) PROVE QueueTypeOK'
  <2>1. batch \in Seq(Jobs)
    BY BatchIsList DEF Expired
  <2>2. ready' \in Seq(Jobs)
    BY <1>2, <2>1 DEF ReapExpired
  <2> QED
    BY <1>2, <2>2 DEF ReapExpired
<1> QED
  BY <1>1, <1>2

\* Nothing is anywhere yet, and nobody is working.
LEMMA TypeInit == Init => TypeOK /\ Employed
<1> SUFFICES ASSUME Init PROVE TypeOK /\ Employed
  OBVIOUS
<1>1. QueueTypeOK
  BY DEF Init, QueueInit, QueueTypeOK, LeaseStates, DelayStates
<1>2. IdleWorker \in WorkerStates /\ IdleOperator \in OperatorStates
  BY DEF IdleWorker, WorkerStates, WorkerSteps, Outcomes, IdleOperator, OperatorStates
<1>3. TypeOK
  BY <1>1, <1>2, DeliveryAssumption DEF Init, TypeOK, RowStates, Submissions
<1>4. Employed
  BY DEF Init, Employed, IdleWorker, IdleOperator
<1> QED
  BY <1>3, <1>4

\* A worker moves to a typed state, and only it does.
LEMMA WorkerMoves ==
    ASSUME TypeOK, Employed, NEW w \in Workers, NEW s \in WorkerStates,
           s.at = "idle" <=> s.job = NoJob, Become(w, s), UNCHANGED operator
    PROVE  worker' \in [Workers -> WorkerStates] /\ Employed'
  BY DEF TypeOK, Employed, Become

\* Every step keeps the types: one step per action of Next.
LEMMA TypeNext == TypeOK /\ Employed /\ [Next]_vars => TypeOK' /\ Employed'
<1> SUFFICES ASSUME TypeOK, Employed, [Next]_vars PROVE TypeOK' /\ Employed'
  OBVIOUS
<1> USE DeliveryAssumption
<1> USE DEF pgVars, boundVars, redisVars
<1>0. QueueTypeOK
  BY DEF TypeOK
<1>1. CASE UNCHANGED vars
  BY <1>1 DEF vars, TypeOK, Employed, QueueTypeOK
<1>2. ASSUME NEW j \in Jobs, Api(j) PROVE TypeOK' /\ Employed'
  <2>1. QueueTypeOK'
    BY <1>0, <1>2, QueueOperationsTyped
       DEF Api, InsertJob, PushJob, PushFails, QueueTypeOK
  <2> QED
    BY <1>2, <2>1 DEF Api, InsertJob, PushJob, PushFails, TypeOK, Employed,
                      RowStates, Live, Submissions
<1>3. ASSUME NEW j \in Jobs, Time(j) PROVE TypeOK' /\ Employed'
  <2>1. QueueTypeOK'
    BY <1>0, <1>3, QueueOperationsTyped DEF Time, DelayElapses, LeaseLapses
  <2> QED
    BY <1>3, <2>1 DEF Time, DelayElapses, LeaseLapses, TypeOK, Employed
<1>4. ASSUME NEW j \in Jobs, Cascade(j) PROVE TypeOK' /\ Employed'
  BY <1>4 DEF Cascade, TypeOK, Employed, QueueTypeOK, RowStates
<1>5. ASSUME NEW w \in Workers, Claim(w) PROVE TypeOK' /\ Employed'
  <2>1. PICK j \in Jobs :
          ClaimMove(j) /\ Become(w, [worker[w] EXCEPT !.at = "lease", !.job = j])
    BY <1>5 DEF Claim
  <2>2. QueueTypeOK'
    BY <1>0, <2>1, QueueOperationsTyped
  <2>3. worker[w] \in WorkerStates
    BY DEF TypeOK
  <2>4. [worker[w] EXCEPT !.at = "lease", !.job = j] \in WorkerStates
    BY <2>3 DEF WorkerStates, WorkerSteps
  <2>5. worker' \in [Workers -> WorkerStates] /\ Employed'
    BY <1>5, <2>1, <2>3, <2>4, WorkerMoves DEF Claim, WorkerStates
  <2> QED
    BY <1>5, <2>2, <2>5 DEF Claim, TypeOK
<1>6. ASSUME NEW w \in Workers, Process(w) \/ Abandon(w) PROVE TypeOK' /\ Employed'
  <2>1. worker[w] \in WorkerStates
    BY DEF TypeOK
  <2>2. /\ worker[w].at # "idle"
        /\ worker[w].job \in Jobs
    BY <1>6, <2>1 DEF Process, Abandon, Lease, Load, Defer, Proceed, Number, Post,
                      Record, Settle, Release, Employed, WorkerStates
  <2> DEFINE WorkersTyped == worker' \in [Workers -> WorkerStates] /\ Employed'
  <2>3. ASSUME GoIdle(w), UNCHANGED operator PROVE WorkersTyped
    <3>1. IdleWorker \in WorkerStates /\ (IdleWorker.at = "idle" <=> IdleWorker.job = NoJob)
      BY DEF IdleWorker, WorkerStates, WorkerSteps, Outcomes
    <3> QED
      BY <2>3, <3>1, WorkerMoves DEF GoIdle
  <2>4. ASSUME NEW s \in WorkerStates, s.at # "idle", s.job = worker[w].job,
               Become(w, s), UNCHANGED operator
        PROVE  WorkersTyped
    BY <2>2, <2>4, WorkerMoves
  <2>5. ASSUME NEW step \in WorkerSteps \ {"idle"}, Goto(w, step), UNCHANGED operator
        PROVE  WorkersTyped
    <3>1. /\ [worker[w] EXCEPT !.at = step] \in WorkerStates
          /\ [worker[w] EXCEPT !.at = step].at = step
          /\ [worker[w] EXCEPT !.at = step].job = worker[w].job
      BY <2>1 DEF WorkerStates
    <3> QED
      BY <2>4, <2>5, <3>1 DEF Goto
  <2> HIDE DEF WorkersTyped
  <2>6. \A s \in {"lease", "load", "gates", "number", "post", "record", "settle",
                  "ack", "retry", "bury"} : s \in WorkerSteps \ {"idle"}
    BY DEF WorkerSteps
  <2>7. CASE Lease(w)
    <3>1. QueueTypeOK'
      BY <1>0, <2>2, <2>7, QueueOperationsTyped DEF Lease
    <3>2. WorkersTyped
      BY <2>5, <2>6, <2>7 DEF Lease
    <3> QED
      BY <2>7, <3>1, <3>2 DEF Lease, TypeOK, WorkersTyped
  <2>8. CASE Load(w)
    <3>1. attempts[worker[w].job] \in Nat
      BY <2>2 DEF TypeOK
    <3> DEFINE s == [worker[w] EXCEPT !.at = "gates", !.seen = attempts[worker[w].job]]
    <3>2. s \in WorkerStates /\ s.at = "gates" /\ s.job = worker[w].job
      BY <2>1, <3>1 DEF WorkerStates, WorkerSteps
    <3>3. Become(w, s) \/ Goto(w, "ack")
      BY <2>8 DEF Load
    <3>4. WorkersTyped
      <4> HIDE DEF s
      <4> QED
        BY <2>4, <2>5, <2>6, <2>8, <3>2, <3>3 DEF Load
    <3> QED
      BY <2>8, <3>4 DEF Load, TypeOK, QueueTypeOK, WorkersTyped
  <2>9. CASE Defer(w)
    <3> DEFINE s == [worker[w] EXCEPT !.at = "retry", !.seen = 0]
    <3>1. s \in WorkerStates /\ s.at = "retry" /\ s.job = worker[w].job
      BY <2>1 DEF WorkerStates, WorkerSteps
    <3>2. WorkersTyped
      <4>1. Become(w, s) /\ UNCHANGED operator
        BY <2>9 DEF Defer
      <4> HIDE DEF s
      <4> QED
        BY <2>4, <3>1, <4>1
    <3> QED
      BY <2>9, <3>2 DEF Defer, UpdateState, TypeOK, QueueTypeOK, RowStates, Live, WorkersTyped
  <2>10. CASE Proceed(w)
    <3>1. WorkersTyped
      BY <2>5, <2>6, <2>10 DEF Proceed
    <3> QED
      BY <2>10, <3>1 DEF Proceed, UpdateState, TypeOK, QueueTypeOK, RowStates, Live, WorkersTyped
  <2>11. CASE Number(w)
    <3>1. audit[worker[w].job] + 1 \in Nat
      BY <2>2 DEF TypeOK
    <3> DEFINE s == [worker[w] EXCEPT !.at = "post", !.number = audit[worker[w].job] + 1]
    <3>2. s \in WorkerStates /\ s.at = "post" /\ s.job = worker[w].job
      BY <2>1, <3>1 DEF WorkerStates, WorkerSteps
    <3>3. UNCHANGED operator /\ (Become(w, s) \/ GoIdle(w))
      BY <2>11 DEF Number
    <3>4. WorkersTyped
      <4> HIDE DEF s
      <4> QED
        BY <2>3, <2>4, <3>2, <3>3
    <3> QED
      BY <2>11, <3>4 DEF Number, TypeOK, QueueTypeOK, WorkersTyped
  <2>12. CASE Post(w)
    <3>1. PICK o \in Outcomes \ {"none"} :
            Become(w, [worker[w] EXCEPT !.at = "record", !.outcome = o])
      BY <2>12 DEF Post
    <3> DEFINE s == [worker[w] EXCEPT !.at = "record", !.outcome = o]
    <3>2. s \in WorkerStates /\ s.at = "record" /\ s.job = worker[w].job
      BY <2>1 DEF WorkerStates, WorkerSteps
    <3>3. WorkersTyped
      <4>1. Become(w, s) /\ UNCHANGED operator
        BY <2>12, <3>1 DEF Post
      <4> HIDE DEF s
      <4> QED
        BY <2>4, <3>2, <4>1
    <3>4. confirmed' \in [Jobs -> Nat]
      BY <2>2, <2>12 DEF Post, TypeOK
    <3> QED
      BY <2>12, <3>3, <3>4 DEF Post, TypeOK, QueueTypeOK, WorkersTyped
  <2>13. CASE Record(w)
    <3> DEFINE s == [worker[w] EXCEPT !.at = "settle", !.number = 0]
    <3>1. s \in WorkerStates /\ s.at = "settle" /\ s.job = worker[w].job
      BY <2>1 DEF WorkerStates, WorkerSteps
    <3>2. UNCHANGED operator /\ (Become(w, s) \/ GoIdle(w))
      BY <2>13 DEF Record
    <3>3. WorkersTyped
      <4> HIDE DEF s
      <4> QED
        BY <2>3, <2>4, <3>1, <3>2
    <3>4. audit' \in [Jobs -> Nat]
      BY <2>1, <2>13 DEF Record, TypeOK, WorkerStates
    <3> QED
      BY <2>13, <3>3, <3>4 DEF Record, TypeOK, QueueTypeOK, WorkersTyped
  <2>14. CASE Settle(w)
    <3>1. /\ Verdict(w).state \in RowStates
          /\ Verdict(w).next \in WorkerSteps \ {"idle"}
      BY DEF Verdict, RowStates, Live, Terminal, WorkerSteps
    <3> DEFINE s == [IdleWorker EXCEPT !.at = Verdict(w).next, !.job = worker[w].job]
    <3>2. s \in WorkerStates /\ s.at = Verdict(w).next /\ s.job = worker[w].job
      BY <2>2, <3>1 DEF WorkerStates, WorkerSteps, IdleWorker, Outcomes
    <3>3. UNCHANGED operator /\ (Become(w, s) \/ GoIdle(w))
      BY <2>14 DEF Settle
    <3>4. WorkersTyped
      <4> HIDE DEF s
      <4> QED
        BY <2>3, <2>4, <3>1, <3>2, <3>3
    <3>5. row' \in [Jobs -> RowStates]
      BY <2>14, <3>1 DEF Settle, UpdateState, TypeOK
    <3>6. attempts' \in [Jobs -> 0..MaxAttempts]
      BY <2>2, <2>14 DEF Settle, BudgetSpent, TypeOK
    <3> QED
      BY <2>14, <3>4, <3>5, <3>6 DEF Settle, TypeOK, QueueTypeOK, WorkersTyped
  <2>15. CASE Release(w)
    <3>1. QueueTypeOK'
      BY <1>0, <2>2, <2>15, QueueOperationsTyped DEF Release
    <3>2. WorkersTyped
      BY <2>3, <2>15 DEF Release
    <3> QED
      BY <2>15, <3>1, <3>2 DEF Release, TypeOK, WorkersTyped
  <2>16. CASE Abandon(w)
    <3>1. WorkersTyped
      BY <2>3, <2>16 DEF Abandon
    <3>2. abandons' \in [Jobs -> 0..MaxAbandons]
      <4>1. abandons \in [Jobs -> 0..MaxAbandons]
        BY DEF TypeOK
      <4>2. PICK j \in Jobs :
              abandons[j] < MaxAbandons /\ abandons' = [abandons EXCEPT ![j] = @ + 1]
        BY <2>2, <2>16 DEF Abandon
      <4> QED
        BY <4>1, <4>2
    <3> QED
      BY <2>16, <3>1, <3>2 DEF Abandon, TypeOK, QueueTypeOK, WorkersTyped
  <2> QED
    BY <1>6, <2>7, <2>8, <2>9, <2>10, <2>11, <2>12, <2>13, <2>14, <2>15, <2>16 DEF Process
<1>7. ASSUME NEW o \in Operators, Replay(o) PROVE TypeOK' /\ Employed'
  <2>1. IdleOperator \in OperatorStates /\ operator[o] \in OperatorStates
    BY DEF IdleOperator, OperatorStates, TypeOK
  <2>2. CASE PopDead(o)
    <3>1. PICK j \in Jobs :
            PopDlq(j) /\ operator' = [operator EXCEPT ![o] = [at |-> "reset", job |-> j]]
      BY <2>2 DEF PopDead
    <3>2. QueueTypeOK'
      BY <1>0, <3>1, QueueOperationsTyped
    <3>3. operator' \in [Operators -> OperatorStates]
      BY <3>1 DEF TypeOK, OperatorStates
    <3> QED
      BY <2>2, <3>1, <3>2, <3>3 DEF PopDead, TypeOK, Employed
  <2>3. CASE ResetDead(o)
    <3>1. operator[o].job \in Jobs
      BY <2>1, <2>3 DEF ResetDead, Employed, OperatorStates
    <3>2. operator' \in [Operators -> OperatorStates] /\ Employed'
      BY <2>1, <2>3, <3>1 DEF ResetDead, TypeOK, Employed, OperatorStates, IdleOperator
    <3>3. row' \in [Jobs -> RowStates]
      BY <2>3 DEF ResetDead, UpdateState, TypeOK, RowStates, Live
    <3>4. attempts' \in [Jobs -> 0..MaxAttempts]
      BY <2>3, <3>1 DEF ResetDead, TypeOK
    <3> QED
      BY <2>3, <3>2, <3>3, <3>4 DEF ResetDead, TypeOK, QueueTypeOK
  <2>4. CASE PushReplayed(o)
    <3>1. operator[o].job \in Jobs
      BY <2>1, <2>4 DEF PushReplayed, Employed, OperatorStates
    <3>2. QueueTypeOK'
      BY <1>0, <2>4, <3>1, QueueOperationsTyped DEF PushReplayed
    <3> QED
      BY <2>1, <2>4, <3>2 DEF PushReplayed, TypeOK, Employed, IdleOperator
  <2>5. CASE ReplayStops(o)
    BY <2>1, <2>5 DEF ReplayStops, TypeOK, Employed, QueueTypeOK, IdleOperator
  <2> QED
    BY <1>7, <2>2, <2>3, <2>4, <2>5 DEF Replay
<1>8. ASSUME Promote \/ Reap PROVE TypeOK' /\ Employed'
  <2>1. QueueTypeOK'
    BY <1>0, <1>8, SweepsTyped DEF Promote, Reap
  <2> QED
    BY <1>8, <2>1 DEF Promote, Reap, TypeOK, Employed
<1>9. ASSUME NEW j \in Jobs, Resent(j) PROVE TypeOK' /\ Employed'
  <2>1. QueueTypeOK'
    BY <1>0, <1>9, QueueOperationsTyped DEF Resent
  <2>2. slips' \in 0..MaxSlips
    BY <1>9, DeliveryAssumption DEF Resent, TypeOK
  <2> QED
    BY <1>9, <2>1, <2>2 DEF Resent, pgVars, TypeOK, Employed
<1> QED
  BY <1>1, <1>2, <1>3, <1>4, <1>5, <1>6, <1>7, <1>8, <1>9 DEF Next

\* The state of both stores and of every process keeps its type, for all
\* values of the constants and all faults: in particular the attempts counter
\* stays within the CHECK of the jobs table.
THEOREM TypeCorrect == Spec => []TypeOK
<1>1. Init => TypeOK /\ Employed
  BY TypeInit
<1>2. TypeOK /\ Employed /\ [Next]_vars => TypeOK' /\ Employed'
  BY TypeNext
<1> QED
  BY <1>1, <1>2, PTL DEF Spec

-----------------------------------------------------------------------------
(* Whatever the faults, lapsed leases and resent commands included.        *)

\* A worker goes to another step of its job, or drops the job.
LEMMA OneWorkerMoves ==
    ASSUME TypeOK, NEW w \in Workers, Claim(w) \/ Process(w) \/ Abandon(w)
    PROVE  /\ \A v \in Workers \ {w} : worker'[v] = worker[v]
           /\ worker[w] \in WorkerStates
<1>1. worker \in [Workers -> WorkerStates]
  BY DEF TypeOK
<1>2. PICK s : worker' = [worker EXCEPT ![w] = s]
  BY DEF Claim, Process, Lease, Load, Defer, Proceed, Number, Post, Record, Settle, Release,
         Abandon, Become, Goto, GoIdle
<1> QED
  BY <1>1, <1>2

\* Who carries a 2xx is about to write it down, and its job did get one.
AnswerWasGiven ==
    \A w \in Workers : worker[w].outcome = "ok" =>
        /\ worker[w].at \in {"record", "settle"}
        /\ confirmed[worker[w].job] > 0

\* Answers are counted up only, and only a worker that got one carries one.
LEMMA AnswersNext ==
    TypeOK /\ Employed /\ AnswerWasGiven /\ SucceededWasAnswered /\ [Next]_vars
       => AnswerWasGiven' /\ SucceededWasAnswered'
<1> SUFFICES ASSUME TypeOK, Employed, AnswerWasGiven, SucceededWasAnswered, [Next]_vars
             PROVE  AnswerWasGiven' /\ SucceededWasAnswered'
  OBVIOUS
<1>0. /\ row \in [Jobs -> RowStates] /\ confirmed \in [Jobs -> Nat]
      /\ worker \in [Workers -> WorkerStates]
  BY DEF TypeOK
<1>1. ASSUME UNCHANGED <<worker, confirmed>>,
             \A j \in Jobs : row'[j] = "succeeded" => row[j] = "succeeded"
      PROVE  AnswerWasGiven' /\ SucceededWasAnswered'
  BY <1>1 DEF AnswerWasGiven, SucceededWasAnswered
<1>2. CASE UNCHANGED vars
  BY <1>1, <1>2 DEF vars, pgVars
<1>3. ASSUME NEW j \in Jobs, Api(j) \/ Time(j) \/ Cascade(j) \/ Resent(j)
      PROVE  AnswerWasGiven' /\ SucceededWasAnswered'
  BY <1>0, <1>1, <1>3 DEF Api, InsertJob, PushJob, PushFails, Time, DelayElapses,
                          LeaseLapses, Cascade, Resent, pgVars
<1>4. ASSUME NEW o \in Operators, Replay(o) PROVE AnswerWasGiven' /\ SucceededWasAnswered'
  BY <1>0, <1>1, <1>4 DEF Replay, PopDead, ResetDead, PushReplayed, ReplayStops, UpdateState,
                          pgVars
<1>5. CASE Promote \/ Reap
  BY <1>1, <1>5 DEF Promote, Reap, pgVars
<1>6. ASSUME NEW w \in Workers, Claim(w) \/ Process(w) \/ Abandon(w)
      PROVE  AnswerWasGiven' /\ SucceededWasAnswered'
  <2>0. \A s : Become(w, s) => worker'[w] = s
    BY <1>0 DEF Become
  <2>1. (\A v \in Workers \ {w} : worker'[v] = worker[v]) /\ worker[w] \in WorkerStates
    BY <1>6, OneWorkerMoves
  <2>2. ASSUME worker'[w].outcome # "ok", confirmed' = confirmed,
               \A j \in Jobs : row'[j] = "succeeded" => row[j] = "succeeded"
        PROVE  AnswerWasGiven' /\ SucceededWasAnswered'
    BY <1>0, <2>1, <2>2 DEF AnswerWasGiven, SucceededWasAnswered
  <2>3. CASE Claim(w) \/ Lease(w) \/ Load(w) \/ Number(w) \/ Release(w) \/ Abandon(w)
    <3>1. worker'[w].outcome # "ok"
      <4>1. CASE GoIdle(w)
        BY <2>0, <4>1 DEF GoIdle, IdleWorker
      <4>2. CASE ~GoIdle(w)
        <5>1. worker[w].at \notin {"record", "settle"}
          BY <2>3, <4>2 DEF Claim, Lease, Load, Number, Release, Abandon
        <5>2. worker'[w].outcome = worker[w].outcome
          BY <2>0, <2>1, <2>3, <4>2
             DEF Claim, Lease, Load, Number, Release, Abandon, Goto, WorkerStates
        <5> QED
          BY <5>1, <5>2 DEF AnswerWasGiven
      <4> QED
        BY <4>1, <4>2
    <3>2. UNCHANGED <<row, confirmed>>
      BY <2>3 DEF Claim, Lease, Load, Number, Release, Abandon, pgVars
    <3> QED
      BY <2>2, <3>1, <3>2
  <2>4. CASE Defer(w) \/ Proceed(w)
    <3>1. worker[w].at = "gates" /\ confirmed' = confirmed
      BY <2>4 DEF Defer, Proceed
    <3>2. worker'[w].outcome = worker[w].outcome
      BY <2>0, <2>1, <2>4 DEF Defer, Proceed, Goto, WorkerStates
    <3>3. \A j \in Jobs : row'[j] = "succeeded" => row[j] = "succeeded"
      BY <1>0, <2>4 DEF Defer, Proceed, UpdateState
    <3> QED
      BY <2>2, <3>1, <3>2, <3>3 DEF AnswerWasGiven
  <2>5. CASE Post(w)
    <3>1. PICK o \in Outcomes \ {"none"} :
            /\ worker' = [worker EXCEPT ![w] = [worker[w] EXCEPT !.at = "record", !.outcome = o]]
            /\ confirmed' = IF o = "ok" THEN [confirmed EXCEPT ![worker[w].job] = @ + 1]
                                        ELSE confirmed
      BY <2>5 DEF Post, Become
    <3>2. row' = row /\ worker[w].job \in Jobs
      BY <2>1, <2>5 DEF Post, pgVars, Employed, WorkerStates
    <3>3. /\ \A j \in Jobs : confirmed[j] > 0 => confirmed'[j] > 0
          /\ o = "ok" => confirmed'[worker[w].job] > 0
      BY <1>0, <3>1, <3>2
    <3>4. SucceededWasAnswered'
      BY <3>2, <3>3 DEF SucceededWasAnswered
    <3>5. ASSUME NEW v \in Workers, worker'[v].outcome = "ok"
          PROVE  worker'[v].at \in {"record", "settle"} /\ confirmed'[worker'[v].job] > 0
      <4>1. CASE v = w
        <5>1. /\ worker'[v].at = "record" /\ worker'[v].job = worker[w].job
              /\ worker'[v].outcome = o
          BY <1>0, <2>1, <3>1, <4>1 DEF WorkerStates
        <5> QED
          BY <3>3, <3>5, <5>1
      <4>2. CASE v # w
        <5>1. worker'[v] = worker[v] /\ worker[v] \in WorkerStates
          BY <1>0, <2>1, <4>2
        <5>2. worker[v].at \in {"record", "settle"} /\ confirmed[worker[v].job] > 0
          BY <3>5, <5>1 DEF AnswerWasGiven
        <5>3. worker[v].job \in Jobs
          BY <5>1, <5>2 DEF Employed, WorkerStates
        <5> QED
          BY <3>3, <5>1, <5>2, <5>3
      <4> QED
        BY <4>1, <4>2
    <3> QED
      BY <3>4, <3>5 DEF AnswerWasGiven
  <2>6. CASE Record(w)
    <3>1. UNCHANGED <<row, confirmed>>
      BY <2>6 DEF Record
    <3>2. CASE GoIdle(w)
      BY <2>0, <2>2, <3>1, <3>2 DEF GoIdle, IdleWorker
    <3>3. CASE ~GoIdle(w)
      <4>1. worker'[w] = [worker[w] EXCEPT !.at = "settle", !.number = 0]
        BY <2>0, <2>6, <3>3 DEF Record
      <4>2. /\ worker'[w].outcome = worker[w].outcome /\ worker'[w].at = "settle"
            /\ worker'[w].job = worker[w].job
        BY <2>1, <4>1 DEF WorkerStates
      <4> QED
        BY <2>1, <3>1, <4>2 DEF AnswerWasGiven, SucceededWasAnswered
    <3> QED
      BY <3>2, <3>3
  <2>7. CASE Settle(w)
    <3>1. worker'[w].outcome # "ok" /\ confirmed' = confirmed
      <4>1. CASE GoIdle(w)
        BY <2>0, <2>7, <4>1 DEF Settle, GoIdle, IdleWorker
      <4>2. CASE ~GoIdle(w)
        <5>1. worker'[w] = [IdleWorker EXCEPT !.at = Verdict(w).next, !.job = worker[w].job]
          BY <2>0, <2>7, <4>2 DEF Settle
        <5>2. worker'[w].outcome = "none"
          BY <5>1 DEF IdleWorker
        <5> QED
          BY <2>7, <5>2 DEF Settle
      <4> QED
        BY <4>1, <4>2
    <3>2. AnswerWasGiven'
      BY <1>0, <2>1, <3>1 DEF AnswerWasGiven
    <3>3. row' = row \/ UpdateState(worker[w].job, Verdict(w).state)
      BY <2>7 DEF Settle
    <3>4. Verdict(w).state = "succeeded" => confirmed[worker[w].job] > 0
      BY DEF Verdict, AnswerWasGiven
    <3>5. \A j \in Jobs : row'[j] = "succeeded" => row[j] = "succeeded" \/ confirmed[j] > 0
      BY <1>0, <3>3, <3>4 DEF UpdateState
    <3> QED
      BY <3>1, <3>2, <3>5 DEF SucceededWasAnswered
  <2> QED
    BY <1>6, <2>3, <2>4, <2>5, <2>6, <2>7 DEF Process
<1> QED
  BY <1>2, <1>3, <1>4, <1>5, <1>6 DEF Next

\* A job is succeeded only when its own endpoint answered 2xx: whatever the
\* faults, no worker settles a job on another delivery's account, for every
\* number of workers, of lapsed leases and of commands executed twice.
THEOREM SuccessIsAnswered == Spec => []SucceededWasAnswered
<1>1. Init => TypeOK /\ Employed
  BY TypeInit
<1>2. Init => AnswerWasGiven /\ SucceededWasAnswered
  BY DEF Init, AnswerWasGiven, SucceededWasAnswered, IdleWorker
<1> QED
  BY <1>1, <1>2, TypeNext, AnswersNext, PTL DEF Spec

-----------------------------------------------------------------------------
\* The workers that have recorded a request of j and not spent the budget for it.
Settling(j) == {w \in Workers : worker[w].at = "settle" /\ Holds(w, j)}

\* Each request is recorded before it is paid for, once, and the budget of a row
\* that is not there was never spent.
PaidFor(j) ==
    /\ submission[j] = "none" => row[j] = "absent"
    /\ row[j] = "absent" => Settling(j) = {}
    /\ ~Exists(j) => attempts[j] = 0
    /\ IsFiniteSet(Settling(j))
    /\ Exists(j) => attempts[j] + Cardinality(Settling(j)) <= audit[j]

Paid == \A j \in Jobs : PaidFor(j)

LEMMA PaidInit == Init => Paid
<1> SUFFICES ASSUME Init, NEW j \in Jobs PROVE PaidFor(j)
  BY DEF Paid
<1>1. Settling(j) = {}
  BY DEF Init, Settling, IdleWorker
<1> QED
  BY <1>1, FS_EmptySet DEF Init, PaidFor, Exists

\* A step that spends nothing and records nothing on j, whoever drops the job.
LEMMA PaidFrame ==
    ASSUME TypeOK, NEW j \in Jobs, PaidFor(j),
           Exists(j)' <=> Exists(j), row'[j] = "absent" <=> row[j] = "absent",
           attempts'[j] \in Nat, attempts'[j] <= attempts[j], audit'[j] = audit[j],
           Settling(j)' \subseteq Settling(j),
           submission'[j] = "none" => submission[j] = "none"
    PROVE  PaidFor(j)'
<1>1. attempts[j] \in Nat /\ audit[j] \in Nat
  BY DeliveryAssumption DEF TypeOK
<1>2. /\ IsFiniteSet(Settling(j)')
      /\ Cardinality(Settling(j)) \in Nat /\ Cardinality(Settling(j)') \in Nat
      /\ Cardinality(Settling(j)') <= Cardinality(Settling(j))
  BY FS_Subset, FS_CardinalityType DEF PaidFor
<1> QED
  BY <1>1, <1>2 DEF PaidFor

\* Nobody begins or ends a delivery of j where no worker of j moves.
LEMMA SettlingFrame ==
    ASSUME NEW j \in Jobs, worker' = worker
    PROVE  Settling(j)' = Settling(j)
  BY DEF Settling, Holds

\* Number, Post, deferrals and deletions pay for nothing; an attempt is paid for
\* when it is settled, by whoever recorded it.
LEMMA PaidNext == TypeOK /\ Employed /\ Paid /\ [Next]_vars => Paid'
<1> SUFFICES ASSUME TypeOK, Employed, Paid, [Next]_vars, NEW j \in Jobs
             PROVE  PaidFor(j)'
  BY DEF Paid
<1>0. /\ row \in [Jobs -> RowStates] /\ attempts \in [Jobs -> 0..MaxAttempts]
      /\ audit \in [Jobs -> Nat] /\ worker \in [Workers -> WorkerStates]
      /\ attempts[j] \in Nat /\ audit[j] \in Nat /\ MaxAttempts \in Nat /\ PaidFor(j)
      /\ submission \in [Jobs -> Submissions]
  BY DeliveryAssumption DEF TypeOK, Paid
<1>1. ASSUME UNCHANGED <<row, attempts, audit, submission>>, Settling(j)' \subseteq Settling(j)
      PROVE  PaidFor(j)'
  BY <1>0, <1>1, PaidFrame DEF Exists
<1>2. CASE UNCHANGED vars
  BY <1>1, <1>2, SettlingFrame DEF vars, pgVars
<1>3. CASE Promote \/ Reap \/ \E k \in Jobs : Time(k) \/ Resent(k)
  BY <1>1, <1>3, SettlingFrame DEF Promote, Reap, Time, DelayElapses, LeaseLapses, Resent, pgVars
<1>4. ASSUME NEW k \in Jobs, Api(k) PROVE PaidFor(j)'
  <2>1. Settling(j)' = Settling(j) /\ UNCHANGED <<attempts, audit>>
    BY <1>4, SettlingFrame DEF Api, InsertJob, PushJob, PushFails, pgVars
  <2>2. CASE k # j \/ ~InsertJob(k)
    <3>1. row'[j] = row[j] /\ (submission'[j] = "none" => submission[j] = "none")
      BY <1>0, <1>4, <2>2 DEF Api, InsertJob, PushJob, PushFails, pgVars
    <3> QED
      BY <1>0, <2>1, <3>1, PaidFrame DEF Exists
  <2>3. CASE k = j /\ InsertJob(k)
    <3>1. row[j] = "absent" /\ attempts[j] = 0 /\ Settling(j) = {}
      BY <1>0, <2>3 DEF InsertJob, PaidFor, Exists
    <3>2. row'[j] = "queued" /\ submission'[j] = "inserted"
      BY <1>0, <2>3 DEF InsertJob
    <3> QED
      BY <1>0, <2>1, <3>1, <3>2, FS_EmptySet DEF PaidFor, Exists
  <2> QED
    BY <2>2, <2>3
<1>5. ASSUME NEW k \in Jobs, Cascade(k) PROVE PaidFor(j)'
  <2>1. Settling(j)' = Settling(j) /\ submission' = submission
    BY <1>5, SettlingFrame DEF Cascade
  <2>2. CASE k # j
    <3>1. row'[j] = row[j] /\ attempts'[j] = attempts[j] /\ audit'[j] = audit[j]
      BY <1>0, <1>5, <2>2 DEF Cascade
    <3> QED
      BY <1>0, <2>1, <3>1, PaidFrame DEF Exists
  <2>3. CASE k = j
    <3>1. row'[j] = "deleted" /\ attempts'[j] = 0 /\ row[j] # "absent"
      BY <1>0, <1>5, <2>3 DEF Cascade, Exists
    <3> QED
      BY <1>0, <2>1, <3>1 DEF PaidFor, Exists
  <2> QED
    BY <2>2, <2>3
<1>6. ASSUME NEW o \in Operators, Replay(o) PROVE PaidFor(j)'
  <2>1. Settling(j)' = Settling(j) /\ UNCHANGED <<submission, audit>>
    BY <1>6, SettlingFrame DEF Replay, PopDead, ResetDead, PushReplayed, ReplayStops, pgVars
  <2>2. CASE ResetDead(o)
    <3>1. /\ Exists(j)' <=> Exists(j)
          /\ row'[j] = "absent" <=> row[j] = "absent"
      BY <1>0, <2>2 DEF ResetDead, UpdateState, Exists
    <3>2. attempts'[j] \in Nat /\ attempts'[j] <= attempts[j]
      BY <1>0, <2>2 DEF ResetDead
    <3> QED
      BY <1>0, <2>1, <3>1, <3>2, PaidFrame
  <2>3. CASE ~ResetDead(o)
    BY <1>1, <1>6, <2>1, <2>3 DEF Replay, PopDead, PushReplayed, ReplayStops, pgVars
  <2> QED
    BY <2>2, <2>3
<1>7. ASSUME NEW w \in Workers, Claim(w) \/ Process(w) \/ Abandon(w) PROVE PaidFor(j)'
  <2>0. \A s : Become(w, s) => worker'[w] = s
    BY <1>0 DEF Become
  <2>1. (\A v \in Workers \ {w} : worker'[v] = worker[v]) /\ worker[w] \in WorkerStates
    BY <1>7, OneWorkerMoves
  <2>2. worker'[w].at # "settle" => Settling(j)' = Settling(j) \ {w}
    BY <2>1 DEF Settling, Holds
  <2>3. CASE Claim(w) \/ Lease(w) \/ Load(w) \/ Number(w) \/ Post(w) \/ Release(w) \/ Abandon(w)
    <3>1. worker'[w].at # "settle"
      <4>1. CASE GoIdle(w)
        BY <2>0, <4>1 DEF GoIdle, IdleWorker
      <4>2. CASE Post(w)
        BY <2>0, <2>1, <4>2 DEF Post, WorkerStates
      <4>3. CASE ~GoIdle(w) /\ ~Post(w)
        BY <2>0, <2>1, <2>3, <4>3
           DEF Claim, Lease, Load, Number, Release, Abandon, Goto, WorkerStates
      <4> QED
        BY <4>1, <4>2, <4>3
    <3>2. UNCHANGED <<row, attempts, audit, submission>>
      BY <2>3 DEF Claim, Lease, Load, Number, Post, Release, Abandon, pgVars
    <3> QED
      BY <1>1, <2>2, <3>1, <3>2
  <2>4. CASE Defer(w) \/ Proceed(w)
    <3>1. worker'[w].at # "settle"
      BY <2>0, <2>1, <2>4 DEF Defer, Proceed, Goto, WorkerStates
    <3>2. /\ Exists(j)' <=> Exists(j)
          /\ row'[j] = "absent" <=> row[j] = "absent"
          /\ UNCHANGED <<attempts, audit, submission>>
      BY <1>0, <2>4 DEF Defer, Proceed, UpdateState, Exists
    <3> QED
      BY <1>0, <2>2, <3>1, <3>2, PaidFrame
  <2>5. CASE Record(w)
    <3>1. worker[w].at = "record" /\ UNCHANGED <<row, attempts, submission>>
      BY <2>5 DEF Record
    <3>2. CASE GoIdle(w) /\ UNCHANGED audit
      BY <1>1, <2>0, <2>2, <3>1, <3>2 DEF GoIdle, IdleWorker
    <3>3. CASE ~(GoIdle(w) /\ UNCHANGED audit)
      <4>1. /\ Exists(worker[w].job) /\ worker[w].number > audit[worker[w].job]
            /\ worker[w].job \in Jobs /\ worker[w].number \in Nat
            /\ audit' = [audit EXCEPT ![worker[w].job] = worker[w].number]
            /\ worker'[w] = [worker[w] EXCEPT !.at = "settle", !.number = 0]
        BY <1>0, <2>0, <2>1, <2>5, <3>1, <3>3
           DEF Record, NumberTaken, Employed, WorkerStates
      <4>2. worker'[w].at = "settle" /\ worker'[w].job = worker[w].job
        BY <2>1, <4>1 DEF WorkerStates
      <4>3. CASE worker[w].job # j
        <5>1. audit'[j] = audit[j]
          BY <1>0, <4>1, <4>3
        <5>2. Settling(j)' = Settling(j)
          BY <2>1, <3>1, <4>2, <4>3 DEF Settling, Holds
        <5> QED
          BY <1>0, <3>1, <5>1, <5>2, PaidFrame DEF Exists
      <4>4. CASE worker[w].job = j
        <5>1. Settling(j)' = Settling(j) \cup {w} /\ w \notin Settling(j)
          BY <2>1, <3>1, <4>2, <4>4 DEF Settling, Holds
        <5>2. /\ IsFiniteSet(Settling(j)') /\ Cardinality(Settling(j)) \in Nat
              /\ Cardinality(Settling(j)') = Cardinality(Settling(j)) + 1
          BY <1>0, <5>1, FS_AddElement, FS_CardinalityType DEF PaidFor
        <5>3. audit'[j] \in Nat /\ audit'[j] > audit[j]
          BY <1>0, <4>1, <4>4
        <5> QED
          BY <1>0, <3>1, <4>1, <4>4, <5>2, <5>3 DEF PaidFor, Exists
      <4> QED
        BY <4>3, <4>4
    <3> QED
      BY <3>2, <3>3
  <2>6. CASE Settle(w)
    <3>1. worker[w].at = "settle" /\ worker[w].job \in Jobs /\ UNCHANGED <<audit, submission>>
      BY <2>1, <2>6 DEF Settle, Employed, WorkerStates
    <3>2. worker'[w].at # "settle"
      <4>1. CASE GoIdle(w)
        BY <2>0, <4>1 DEF GoIdle, IdleWorker
      <4>2. CASE ~GoIdle(w)
        <5>1. worker'[w] = [IdleWorker EXCEPT !.at = Verdict(w).next, !.job = worker[w].job]
          BY <2>0, <2>6, <4>2 DEF Settle
        <5>2. Verdict(w).next # "settle"
          BY DEF Verdict
        <5> QED
          BY <5>1, <5>2 DEF IdleWorker
      <4> QED
        BY <4>1, <4>2
    <3>3. CASE UNCHANGED <<row, attempts>>
      BY <1>1, <2>2, <3>1, <3>2, <3>3
    <3>4. CASE ~UNCHANGED <<row, attempts>>
      <4>1. /\ UpdateState(worker[w].job, Verdict(w).state)
            /\ attempts' = [attempts EXCEPT ![worker[w].job] =
                               IF Exists(worker[w].job) THEN @ + 1 ELSE @]
        BY <2>6, <3>4 DEF Settle
      <4>2. Verdict(w).state \notin {"absent", "deleted"}
        BY DEF Verdict
      <4>3. /\ Exists(j)' <=> Exists(j)
            /\ row'[j] = "absent" <=> row[j] = "absent"
        BY <1>0, <4>1, <4>2 DEF UpdateState, Exists
      <4>4. CASE worker[w].job # j \/ ~Exists(j)
        <5>1. attempts'[j] = attempts[j]
          BY <1>0, <4>1, <4>4
        <5> QED
          BY <1>0, <2>2, <3>1, <3>2, <4>3, <5>1, PaidFrame
      <4>5. CASE worker[w].job = j /\ Exists(j)
        <5>1. attempts'[j] = attempts[j] + 1
          BY <1>0, <4>1, <4>5
        <5>2. w \in Settling(j) /\ Settling(j)' = Settling(j) \ {w}
          BY <2>2, <3>1, <3>2, <4>5 DEF Settling, Holds
        <5>3. /\ IsFiniteSet(Settling(j)') /\ Cardinality(Settling(j)) \in Nat
              /\ Cardinality(Settling(j)') = Cardinality(Settling(j)) - 1
          BY <1>0, <5>2, FS_RemoveElement, FS_CardinalityType DEF PaidFor
        <5> QED
          BY <1>0, <3>1, <4>3, <4>5, <5>1, <5>3 DEF PaidFor, Exists
      <4> QED
        BY <4>4, <4>5
    <3> QED
      BY <3>3, <3>4
  <2> QED
    BY <1>7, <2>3, <2>4, <2>5, <2>6 DEF Process
<1> QED
  BY <1>2, <1>3, <1>4, <1>5, <1>6, <1>7 DEF Next

\* The budget pays for recorded requests only: whatever the faults, deferrals,
\* redeliveries and several workers that settle one job do not shorten it
\* (job.service.ts:151-154).
THEOREM BudgetPaysRequests == Spec => []BudgetSpentOnAttempts
<1>1. Init => TypeOK /\ Employed
  BY TypeInit
<1>2. TypeOK /\ Paid => BudgetSpentOnAttempts
  <2> SUFFICES ASSUME TypeOK, NEW j \in Jobs, PaidFor(j)
               PROVE  attempts[j] <= audit[j]
    BY DEF Paid, BudgetSpentOnAttempts
  <2>1. attempts[j] \in Nat /\ audit[j] \in Nat
    BY DeliveryAssumption DEF TypeOK
  <2>2. IsFiniteSet(Settling(j)) => Cardinality(Settling(j)) \in Nat
    BY FS_CardinalityType
  <2> QED
    BY <2>1, <2>2 DEF PaidFor
<1> QED
  BY <1>1, <1>2, TypeNext, PaidInit, PaidNext, PTL DEF Spec
=============================================================================
