---------------------------- MODULE GatesProofs ----------------------------
(***************************************************************************)
(* Proofs about the two gates, for any number of jobs and any settings of  *)
(* the breaker and the bucket.                                             *)
(*                                                                         *)
(* The products with Rate make these proofs nonlinear; the lemmas about    *)
(* the refill keep them in one place, and the steps below are linear.      *)
(***************************************************************************)
EXTENDS Gates, TLAPS

USE CircuitAssumption, RateLimitAssumption, GatesAssumption

-----------------------------------------------------------------------------
(* The arithmetic of the bucket.                                           *)

\* What a bucket b holds at a time: Refilled of whichever bucket there is.
Level(b, clock) == Least(Burst, b.tokens + Most(0, clock - b.ts) * Rate)

Buckets == [tokens: 0..Burst, short: BOOLEAN, ts: Nat, touched: Nat]

\* A wait of CeilDiv(n, Rate) accrues n at least.
LEMMA CeilDivSuffices ==
    ASSUME NEW n \in Nat
    PROVE  CeilDiv(n, Rate) \in Nat /\ CeilDiv(n, Rate) * Rate >= n
<1> DEFINE m == n + Rate - 1
           q == m \div Rate
<1>1. m \in Nat
  OBVIOUS
<1>2. q \in Nat /\ m = q * Rate + (m % Rate) /\ m % Rate \in 0..(Rate - 1)
  BY <1>1
<1>3. q * Rate \in Nat
  BY <1>2
<1> QED
  BY <1>2, <1>3 DEF CeilDiv

\* Products with Rate add up, and are natural numbers.
LEMMA Accrual ==
    ASSUME NEW m \in Nat, NEW n \in Nat
    PROVE  /\ m * Rate \in Nat
           /\ (m + n) * Rate = m * Rate + n * Rate
  OBVIOUS

\* A level lies within the capacity and never falls.
LEMMA LevelBounds ==
    ASSUME NEW b \in Buckets, NEW t \in Nat, NEW d \in Nat
    PROVE  /\ Level(b, t) \in 0..Burst
           /\ Level(b, t) <= Level(b, t + d)
           /\ Level(b, t + d) <= Level(b, t) + d * Rate
<1> DEFINE past == Most(0, t - b.ts)
           more == Most(0, (t + d) - b.ts)
<1>1. past \in Nat /\ more \in Nat /\ past <= more /\ more <= past + d
  BY DEF Most, Buckets
<1>2. PICK e \in Nat : more = past + e /\ e <= d
  <2>1. more - past \in Nat /\ more = past + (more - past) /\ more - past <= d
    BY <1>1
  <2> QED
    BY <2>1
<1>3. PICK f \in Nat : d = e + f
  <2>1. d - e \in Nat /\ d = e + (d - e)
    BY <1>2
  <2> QED
    BY <2>1
<1>4. /\ past * Rate \in Nat /\ e * Rate \in Nat /\ f * Rate \in Nat
      /\ more * Rate = past * Rate + e * Rate
      /\ d * Rate = e * Rate + f * Rate
  BY <1>1, <1>2, <1>3, Accrual
<1>5. b.tokens \in 0..Burst
  BY DEF Buckets
<1>6. /\ Level(b, t) = Least(Burst, b.tokens + past * Rate)
      /\ Level(b, t + d) = Least(Burst, b.tokens + more * Rate)
  BY DEF Level
<1> HIDE DEF past, more
<1> QED
  BY <1>4, <1>5, <1>6 DEF Least

\* Writing back what the refill found, at the time it was found, changes no
\* later level.
LEMMA LevelRebased ==
    ASSUME NEW b \in Buckets, NEW t \in Nat, NEW d \in Nat, b.ts <= t,
           NEW c \in Buckets, c.ts = t, c.tokens = Level(b, t)
    PROVE  Level(c, t + d) = Level(b, t + d)
<1> DEFINE past == t - b.ts
<1>1. past \in Nat /\ b.tokens \in 0..Burst
  BY DEF Buckets
<1>2. past * Rate \in Nat /\ d * Rate \in Nat /\ (past + d) * Rate = past * Rate + d * Rate
  BY <1>1, Accrual
<1>3. /\ Most(0, t - b.ts) = past
      /\ Most(0, (t + d) - b.ts) = past + d
      /\ Most(0, (t + d) - c.ts) = d
  BY DEF Most, Buckets
<1>4. /\ Level(b, t) = Least(Burst, b.tokens + past * Rate)
      /\ Level(b, t + d) = Least(Burst, b.tokens + (past + d) * Rate)
      /\ Level(c, t + d) = Least(Burst, c.tokens + d * Rate)
  BY <1>3 DEF Level
<1> HIDE DEF past
<1> QED
  BY <1>1, <1>2, <1>4 DEF Least

\* A full bucket stays full.
LEMMA LevelFull ==
    ASSUME NEW b \in Buckets, b.tokens = Burst, NEW t \in Nat
    PROVE  Level(b, t) = Burst
<1>1. Most(0, t - b.ts) \in Nat
  BY DEF Most, Buckets
<1>2. Most(0, t - b.ts) * Rate \in Nat
  BY <1>1, Accrual
<1> QED
  BY <1>2 DEF Level, Least

-----------------------------------------------------------------------------
(* Types.                                                                  *)

\* Refilled is the level of the bucket there is, whatever its rounding.
LEMMA RefilledIsLevel ==
    ASSUME bucket \in Buckets, NEW t \in Nat
    PROVE  Refilled(t) = Level(bucket, t) /\ Refilled(t) \in 0..Burst
<1>1. Refilled(t) = Level(bucket, t)
  BY DEF Refilled, Accrued, Level
<1>2. Level(bucket, t) \in 0..Burst
  BY LevelBounds, 0 \in Nat
<1> QED
  BY <1>1, <1>2

\* Who is refused waits for a natural number of units, in which the rest of a token
\* accrues, whichever way the quotient is rounded.
LEMMA WaitSuffices ==
    ASSUME bucket \in Buckets, NEW t \in Nat, NEW short, ~Covers(Refilled(t), short),
           NEW wait \in RetryAfters(t)
    PROVE  wait \in Nat /\ wait * Rate >= Cost - Refilled(t)
<1> DEFINE deficit == Cost - Refilled(t)
<1>1. deficit \in Nat
  <2>1. Refilled(t) \in Int /\ ~(Refilled(t) > Cost)
    BY RefilledIsLevel DEF Covers
  <2> QED
    BY <2>1
<1>2. wait = CeilDiv(deficit, Rate) \/ wait = deficit \div Rate + 1
  BY DEF RetryAfters
<1> HIDE DEF deficit
<1>3. CeilDiv(deficit, Rate) \in Nat /\ CeilDiv(deficit, Rate) * Rate >= deficit
  BY <1>1, CeilDivSuffices
<1>4. deficit \div Rate + 1 \in Nat /\ (deficit \div Rate + 1) * Rate >= deficit
  <2> DEFINE q == deficit \div Rate
  <2>1. q \in Nat /\ deficit = q * Rate + (deficit % Rate) /\ deficit % Rate \in 0..(Rate - 1)
    BY <1>1
  <2> HIDE DEF q
  <2>2. q * Rate \in Nat /\ (q + 1) * Rate = q * Rate + 1 * Rate /\ 1 * Rate = Rate
    BY <2>1, Accrual
  <2>3. q + 1 \in Nat /\ (q + 1) * Rate >= deficit
    BY <2>1, <2>2
  <2> QED
    BY <2>3 DEF q
<1>5. wait \in Nat /\ wait * Rate >= deficit
  BY <1>2, <1>3, <1>4
<1> QED
  BY <1>5 DEF deficit

JobStates == [at: {"away", "take", "deliver"}, until: Nat, found: Nat]
Breakers == [state: {"closed", "open", "half_open"}, failures: Nat,
             openedAt: Nat, touched: Nat]

\* TypeOK without the bound on time.
Typed ==
    /\ breaker \in Breakers
    /\ bucket \in Buckets
    /\ now \in Nat /\ job \in [Jobs -> JobStates]
    /\ spent \in Nat /\ streak \in Nat /\ trippedAt \in Nat

\* TypeOK says as much.
LEMMA TypedFromTypeOK == TypeOK => Typed
  BY DEF TypeOK, Typed, Breakers, Buckets, JobStates

\* What the scripts of the breaker leave behind.
LEMMA BreakerTyped ==
    ASSUME TypeOK, NEW clock \in Nat,
           \/ Check(Gate(clock), clock, now)
           \/ RecordSuccess(now)
           \/ RecordFailure(clock, now)
           \/ BreakerLapses(now)
    PROVE  breaker' \in [state: {"closed", "open", "half_open"}, failures: Nat,
                         openedAt: Nat, touched: 0..MaxNow]
<1>1. CASE Check(Gate(clock), clock, now)
  BY <1>1 DEF TypeOK, Check, Gate
<1>2. CASE RecordSuccess(now)
  BY <1>2 DEF TypeOK, RecordSuccess
<1>3. CASE RecordFailure(clock, now)
  <2> DEFINE failures == IF breaker.state = "half_open" THEN Threshold ELSE breaker.failures + 1
             counted == [breaker EXCEPT !.failures = failures]
  <2>1. failures \in Nat
    BY DEF TypeOK
  <2> HIDE DEF failures
  <2>2. counted \in [state: {"closed", "open", "half_open"}, failures: Nat,
                     openedAt: Nat, touched: 0..MaxNow]
    BY <2>1 DEF TypeOK
  <2>3. \/ breaker' = [state |-> "open", failures |-> failures,
                      openedAt |-> clock, touched |-> now]
        \/ breaker' = [counted EXCEPT !.touched = now]
    BY <1>3 DEF RecordFailure, failures
  <2> HIDE DEF counted
  <2> QED
    BY <2>1, <2>2, <2>3 DEF TypeOK
<1>4. CASE BreakerLapses(now)
  BY <1>4 DEF TypeOK, BreakerLapses, NewBreaker
<1> QED
  BY <1>1, <1>2, <1>3, <1>4

\* What a call of take does, its refill being rounded one way.
Takes(j, clock, short) ==
    /\ Take(Refilled(clock), short, clock, now)
    /\ \/ /\ Covers(Refilled(clock), short)
          /\ job' = [job EXCEPT ![j] = [at |-> "deliver", until |-> now + Timeout, found |-> 0]]
          /\ spent' = spent + 1
       \/ /\ ~Covers(Refilled(clock), short)
          /\ \E wait \in RetryAfters(clock) :
                job' = [job EXCEPT ![j] = Away(now + Most(wait, 1), spent + 1)]
          /\ UNCHANGED spent

\* What it leaves in the bucket.
LEMMA TakeTyped ==
    ASSUME bucket \in Buckets, NEW clock \in Nat, NEW short \in Roundings(clock),
           NEW j \in Jobs, Takes(j, clock, short), NEW last, now \in 0..last, last \in Nat
    PROVE  bucket' \in [tokens: 0..Burst, short: BOOLEAN, ts: Nat, touched: 0..last]
<1> DEFINE tokens == Refilled(clock)
           left == IF Covers(tokens, short) THEN tokens - Cost ELSE tokens
<1>1. tokens \in 0..Burst
  BY RefilledIsLevel
<1>2. bucket' = [tokens |-> left, short |-> short, ts |-> clock, touched |-> now]
  BY DEF Takes, Take
<1> HIDE DEF tokens
<1>3. left \in 0..Burst
  <2>1. CASE Covers(tokens, short)
    <3>1. tokens >= Cost
      BY <1>1, <2>1 DEF Covers
    <3> QED
      BY <1>1, <2>1, <3>1
  <2>2. CASE ~Covers(tokens, short)
    BY <1>1, <2>2
  <2> QED
    BY <2>1, <2>2
<1> HIDE DEF left
<1>4. short \in BOOLEAN
  BY DEF Roundings
<1> QED
  BY <1>2, <1>3, <1>4, Zenon

\* The gates start with their types.
LEMMA TypeInit == Init => TypeOK
  BY DEF Init, TypeOK, NewBreaker, NewBucket, Away

\* Every step keeps the types, whatever the clock of the worker that sends it.
LEMMA TypeNext == TypeOK /\ [Next]_vars => TypeOK'
<1> SUFFICES ASSUME TypeOK, [Next]_vars
             PROVE  TypeOK'
  OBVIOUS
<1>t. Typed
  BY TypedFromTypeOK
<1>1. ASSUME NEW j \in Jobs, AskCircuit(j)
      PROVE  TypeOK'
  <2>1. PICK skew \in Skews :
          /\ Check(Gate(now + skew), now + skew, now)
          /\ job' = [job EXCEPT ![j] = IF Gate(now + skew) = "open"
                                       THEN Away(now + Cooldown, 0)
                                       ELSE [at |-> "take", until |-> 0, found |-> 0]]
    BY <1>1 DEF AskCircuit, Move
  <2>2. now + skew \in Nat
    BY <1>t DEF Typed
  <2>3. breaker' \in [state: {"closed", "open", "half_open"}, failures: Nat,
                      openedAt: Nat, touched: 0..MaxNow]
    BY <2>1, <2>2, BreakerTyped
  <2>4. job' \in [Jobs -> JobStates]
    BY <2>1, <1>t DEF Typed, JobStates, Away
  <2> QED
    BY <1>1, <2>3, <2>4 DEF AskCircuit, TypeOK, JobStates
<1>2. ASSUME NEW j \in Jobs, TakeToken(j)
      PROVE  TypeOK'
  <2>1. PICK skew \in Skews :
          \E short \in Roundings(now + skew) : Takes(j, now + skew, short)
    BY <1>2 DEF TakeToken, Takes, Move
  <2>2. now + skew \in Nat
    BY <1>t DEF Typed
  <2>3. PICK short \in Roundings(now + skew) : Takes(j, now + skew, short)
    BY <2>1
  <2>4. bucket' \in [tokens: 0..Burst, short: BOOLEAN, ts: Nat, touched: 0..MaxNow]
    <3>1. bucket \in Buckets /\ now \in 0..MaxNow /\ MaxNow \in Nat
      BY <1>t DEF Typed, TypeOK
    <3> QED
      BY <2>2, <2>3, <3>1, TakeTyped
  <2>5. job' \in [Jobs -> JobStates] /\ spent' \in Nat
    <3>1. CASE /\ job' = [job EXCEPT ![j] = [at |-> "deliver", until |-> now + Timeout, found |-> 0]]
               /\ spent' = spent + 1
      BY <3>1, <1>t DEF Typed, JobStates
    <3>2. ASSUME NEW wait \in Nat,
                 job' = [job EXCEPT ![j] = Away(now + Most(wait, 1), spent + 1)], UNCHANGED spent
          PROVE  job' \in [Jobs -> JobStates] /\ spent' \in Nat
      BY <3>2, <1>t DEF Typed, JobStates, Away, Most
    <3> QED
      BY <2>2, <2>3, <3>1, <3>2, <1>t, WaitSuffices DEF Takes, Typed
  <2> QED
    BY <1>2, <2>4, <2>5 DEF TakeToken, TypeOK, JobStates
<1>3. ASSUME NEW j \in Jobs, Succeed(j)
      PROVE  TypeOK'
  <2>1. breaker' \in [state: {"closed", "open", "half_open"}, failures: Nat,
                      openedAt: Nat, touched: 0..MaxNow]
    BY <1>3, BreakerTyped, 0 \in Nat DEF Succeed
  <2> QED
    BY <1>3, <2>1 DEF Succeed, TypeOK, Move, Away
<1>4. ASSUME NEW j \in Jobs, Fail(j)
      PROVE  TypeOK'
  <2>1. PICK skew \in Skews : RecordFailure(now + skew, now)
    BY <1>4 DEF Fail
  <2>2. now + skew \in Nat
    BY <1>t DEF Typed
  <2>3. breaker' \in [state: {"closed", "open", "half_open"}, failures: Nat,
                      openedAt: Nat, touched: 0..MaxNow]
    BY <2>1, <2>2, BreakerTyped
  <2> QED
    BY <1>4, <2>3 DEF Fail, TypeOK, Move, Away
<1>5. ASSUME NEW j \in Jobs, Vanish(j)
      PROVE  TypeOK'
  BY <1>5 DEF Vanish, TypeOK, Move, Away
<1>6. CASE Elapse
  BY <1>6 DEF Elapse, TypeOK
<1>7. CASE Expire
  <2>1. CASE BreakerLapses(now) /\ streak' = 0 /\ UNCHANGED <<bucket, now, job, spent, trippedAt>>
    BY <2>1 DEF BreakerLapses, NewBreaker, TypeOK
  <2>2. CASE BucketLapses(now) /\ UNCHANGED <<breaker, now, job, spent, streak, trippedAt>>
    BY <2>2 DEF BucketLapses, NewBucket, TypeOK
  <2> QED
    BY <1>7, <2>1, <2>2 DEF Expire
<1>8. CASE UNCHANGED vars
  BY <1>8 DEF vars, TypeOK
<1> QED
  BY <1>1, <1>2, <1>3, <1>4, <1>5, <1>6, <1>7, <1>8 DEF Next

\* The gates keep their types, whatever the clocks of the workers: no bucket
\* is ever below zero or above its capacity.
THEOREM GatesTypeCorrect == Spec => []TypeOK
  BY TypeInit, TypeNext, PTL DEF Spec

-----------------------------------------------------------------------------
(* The breaker.                                                            *)

\* State and count move together, and no failure is counted that was not
\* recorded since the last success.
Counted ==
    /\ CountMatchesState
    /\ breaker.failures <= streak

\* A new breaker is closed and has counted nothing.
LEMMA CountedInit == Init => Counted
  BY DEF Init, Counted, CountMatchesState, NewBreaker

\* Every result, early or late, keeps state and count together.
LEMMA CountedNext == TypeOK /\ Counted /\ [Next]_vars => Counted'
<1> SUFFICES ASSUME TypeOK, Counted, [Next]_vars
             PROVE  Counted'
  OBVIOUS
<1>t. Typed
  BY TypedFromTypeOK
<1> USE DEF Counted, CountMatchesState
<1>1. ASSUME NEW j \in Jobs, AskCircuit(j)
      PROVE  Counted'
  <2>1. PICK skew \in Skews : Check(Gate(now + skew), now + skew, now)
    BY <1>1 DEF AskCircuit
  <2>2. /\ breaker'.failures = breaker.failures
        /\ breaker'.state = "closed" <=> breaker.state = "closed"
    BY <2>1, <1>t DEF Check, Gate, Typed, Breakers
  <2> QED
    BY <1>1, <2>2 DEF AskCircuit
<1>2. ASSUME NEW j \in Jobs, Succeed(j)
      PROVE  Counted'
  <2>1. breaker'.failures = 0 /\ breaker'.state = "closed"
    BY <1>2, <1>t DEF Succeed, RecordSuccess, Typed, Breakers
  <2> QED
    BY <1>2, <2>1 DEF Succeed
<1>3. ASSUME NEW j \in Jobs, Fail(j)
      PROVE  Counted'
  <2>1. PICK skew \in Skews : RecordFailure(now + skew, now)
    BY <1>3 DEF Fail
  <2>2. streak' = streak + 1
    BY <1>3 DEF Fail
  <2>3. CASE breaker.state = "half_open" \/ Trips(breaker.failures + 1)
    <3>1. /\ breaker'.state = "open"
          /\ breaker'.failures = IF breaker.state = "half_open" THEN Threshold
                                                               ELSE breaker.failures + 1
      BY <2>1, <2>3, <1>t DEF RecordFailure, Trips, Typed, Breakers
    <3> QED
      BY <2>2, <2>3, <3>1, <1>t DEF Trips, Typed, Breakers
  <2>4. CASE breaker.state # "half_open" /\ ~Trips(breaker.failures + 1)
    <3>1. breaker'.state = breaker.state /\ breaker'.failures = breaker.failures + 1
      BY <2>1, <2>4, <1>t DEF RecordFailure, Trips, Typed, Breakers
    <3> QED
      BY <2>2, <2>4, <3>1, <1>t DEF Trips, Typed, Breakers
  <2> QED
    BY <2>3, <2>4
<1>4. ASSUME BreakerLapses(now), streak' = 0
      PROVE  Counted'
  BY <1>4 DEF BreakerLapses, NewBreaker
<1>5. ASSUME UNCHANGED <<breaker, streak>>
      PROVE  Counted'
  BY <1>5
<1> QED
  BY <1>1, <1>2, <1>3, <1>4, <1>5 DEF Next, TakeToken, Vanish, Elapse, Expire, vars

\* So they are together for ever.
LEMMA CountedInvariant == Spec => [](TypeOK /\ Counted)
<1>1. Init => TypeOK /\ Counted
  BY TypeInit, CountedInit
<1>2. TypeOK /\ Counted /\ [Next]_vars => (TypeOK /\ Counted)'
  BY TypeNext, CountedNext
<1> QED
  BY <1>1, <1>2, PTL DEF Spec

\* The circuit is closed exactly while the count is below the threshold, whatever
\* the clocks of the workers and however many results race (circuit.ts).
THEOREM StateFollowsCount == Spec => []CountMatchesState
<1>1. TypeOK /\ Counted => CountMatchesState
  BY TypedFromTypeOK DEF Counted, CountMatchesState, Typed, Breakers
<1> QED
  BY <1>1, CountedInvariant, PTL

\* It is open or half-open only after as many consecutive failures as the threshold
\* says, whatever the clocks of the workers.
THEOREM BreakerCountsFailures == Spec => []OpenWasEarned
<1>1. TypeOK /\ Counted => OpenWasEarned
  BY TypedFromTypeOK DEF Counted, CountMatchesState, OpenWasEarned, Typed, Breakers
<1> QED
  BY <1>1, CountedInvariant, PTL

\* Where a job is when the circuit is open: between the gates only at the very
\* moment of the trip, delivering only since before it.
Windowed ==
    /\ trippedAt <= now
    /\ \A j \in Jobs : job[j].at = "deliver" => now <= job[j].until /\ job[j].until <= now + Timeout
    /\ breaker.state = "open" =>
        /\ breaker.openedAt <= trippedAt + Timeout
        /\ \A j \in Jobs :
            /\ job[j].at = "take" => now = trippedAt
            /\ job[j].at = "deliver" => job[j].until <= trippedAt + Timeout

\* A new breaker is not open.
LEMMA WindowedInit == Init => Windowed
  BY DEF Init, Windowed, NewBreaker, Away

\* Whoever reports to an open circuit began before it tripped, or at that moment.
LEMMA WindowedNext ==
    ASSUME Skews = {0}
    PROVE  TypeOK /\ Windowed /\ [Next]_vars => Windowed'
<1> SUFFICES ASSUME TypeOK, Windowed, [Next]_vars
             PROVE  Windowed'
  OBVIOUS
<1>t. Typed
  BY TypedFromTypeOK
<1>0. now + 0 = now
  BY <1>t DEF Typed
<1> USE DEF Windowed
<1>1. ASSUME NEW j \in Jobs, AskCircuit(j)
      PROVE  Windowed'
  <2>1. /\ Check(Gate(now), now, now)
        /\ job' = [job EXCEPT ![j] = IF Gate(now) = "open"
                                     THEN Away(now + Cooldown, 0)
                                     ELSE [at |-> "take", until |-> 0, found |-> 0]]
        /\ UNCHANGED <<now, trippedAt>>
    BY <1>1, <1>0 DEF AskCircuit, Move
  <2>2. /\ breaker'.state = Gate(now)
        /\ breaker'.openedAt = breaker.openedAt
        /\ Gate(now) = "open" => breaker.state = "open"
    BY <2>1, <1>t DEF Check, Gate, Typed, Breakers
  <2> QED
    BY <2>1, <2>2, <1>t DEF Typed, JobStates, Away
<1>2. ASSUME NEW j \in Jobs, TakeToken(j)
      PROVE  Windowed'
  <2>1. /\ job[j].at = "take"
        /\ UNCHANGED <<breaker, now, trippedAt>>
        /\ \/ job' = [job EXCEPT ![j] = [at |-> "deliver", until |-> now + Timeout, found |-> 0]]
           \/ \E until, found : job' = [job EXCEPT ![j] = Away(until, found)]
    BY <1>2 DEF TakeToken, Move
  <2>2. CASE job' = [job EXCEPT ![j] = [at |-> "deliver", until |-> now + Timeout, found |-> 0]]
    BY <2>1, <2>2, <1>t DEF Typed, JobStates
  <2>3. CASE \E until, found : job' = [job EXCEPT ![j] = Away(until, found)]
    BY <2>1, <2>3, <1>t DEF Typed, JobStates, Away
  <2> QED
    BY <2>1, <2>2, <2>3
<1>3. ASSUME NEW j \in Jobs, Succeed(j) \/ Vanish(j)
      PROVE  Windowed'
  <2>1. /\ job' = [job EXCEPT ![j] = Away(now, 0)]
        /\ UNCHANGED <<now, trippedAt>>
        /\ breaker' = breaker \/ breaker'.state = "closed"
    BY <1>3, <1>t DEF Succeed, Vanish, Move, RecordSuccess, Typed, Breakers
  <2> QED
    BY <2>1, <1>t DEF Typed, JobStates, Away
<1>4. ASSUME NEW j \in Jobs, Fail(j)
      PROVE  Windowed'
  <2>1. /\ job[j].at = "deliver"
        /\ RecordFailure(now, now)
        /\ trippedAt' = IF breaker.state # "open" /\ breaker'.state = "open" THEN now ELSE trippedAt
        /\ job' = [job EXCEPT ![j] = Away(now, 0)]
        /\ UNCHANGED now
    BY <1>4, <1>0 DEF Fail, Move
  <2>2. \/ breaker'.state = "open" /\ breaker'.openedAt = now
        \/ breaker'.state = breaker.state /\ breaker'.openedAt = breaker.openedAt
    BY <2>1, <1>t DEF RecordFailure, Trips, Typed, Breakers
  <2>3. CASE breaker.state = "open"
    BY <2>1, <2>2, <2>3, <1>t DEF Typed, JobStates, Away
  <2>4. CASE breaker.state # "open" /\ breaker'.state = "open"
    BY <2>1, <2>2, <2>4, <1>t DEF Typed, JobStates, Breakers, Away
  <2>5. CASE breaker.state # "open" /\ breaker'.state # "open"
    BY <2>1, <2>2, <2>5, <1>t DEF Typed, JobStates, Away
  <2> QED
    BY <2>3, <2>4, <2>5
<1>5. CASE Elapse
  BY <1>5, <1>t DEF Elapse, Typed, JobStates
<1>6. CASE Expire
  BY <1>6 DEF Expire, BreakerLapses, NewBreaker
<1>7. CASE UNCHANGED vars
  BY <1>7 DEF vars
<1> QED
  BY <1>1, <1>2, <1>3, <1>4, <1>5, <1>6, <1>7 DEF Next

\* With one clock, an open circuit's window ends a cooldown and one request after
\* the trip at the latest, whatever results still come in.
THEOREM CooldownEnds == Skews = {0} => (Spec => []WindowIsBounded)
<1> SUFFICES ASSUME Skews = {0}
             PROVE  Spec => []WindowIsBounded
  OBVIOUS
<1>1. Init => TypeOK /\ Windowed
  BY TypeInit, WindowedInit
<1>2. TypeOK /\ Windowed /\ [Next]_vars => (TypeOK /\ Windowed)'
  BY TypeNext, WindowedNext
<1>3. Windowed => WindowIsBounded
  BY DEF Windowed, WindowIsBounded
<1> QED
  BY <1>1, <1>2, <1>3, PTL DEF Spec

-----------------------------------------------------------------------------
(* The bucket.                                                             *)

\* How the refill of a bucket b may be rounded: Roundings of whichever there is.
RoundingsOf(b, t) ==
    {short \in BOOLEAN : /\ t <= b.ts => short = b.short
                         /\ b.tokens + Most(0, t - b.ts) * Rate > Burst => ~short}

\* A bucket holds a token, however its doubles are rounded.
Certain(b, t) == \A short \in RoundingsOf(b, t) : Covers(Level(b, t), short)

\* One unit of time after there was a token there is one for certain.
LEMMA CertainLater ==
    ASSUME NEW b \in Buckets, NEW t \in Nat, b.ts <= t, Level(b, t) >= Cost
    PROVE  Certain(b, t + 1)
<1> DEFINE past == t - b.ts
           before == b.tokens + past * Rate
           after == b.tokens + (past + 1) * Rate
<1>1. past \in Nat /\ b.tokens \in 0..Burst /\ b.ts \in Nat
  BY DEF Buckets
<1>2. Most(0, t - b.ts) = past /\ Most(0, (t + 1) - b.ts) = past + 1
  BY <1>1 DEF Most
<1>3. before \in Nat /\ after = before + Rate
  BY <1>1, Accrual
<1>4. Level(b, t) = Least(Burst, before) /\ Level(b, t + 1) = Least(Burst, after)
  BY <1>2 DEF Level
<1>5. ASSUME NEW short \in RoundingsOf(b, t + 1)
      PROVE  after > Burst => ~short
  BY <1>2 DEF RoundingsOf
<1> HIDE DEF past, before, after
<1>6. CASE after > Burst
  <2>1. Level(b, t + 1) = Burst
    BY <1>3, <1>4, <1>6 DEF Least
  <2> QED
    BY <1>5, <1>6, <2>1 DEF Certain, Covers
<1>7. CASE ~(after > Burst)
  <2>1. Level(b, t + 1) > Cost
    BY <1>3, <1>4, <1>7 DEF Least
  <2> QED
    BY <2>1 DEF Certain, Covers
<1> QED
  BY <1>6, <1>7

\* A deferred job finds a token when it comes back, unless one was spent: up to a
\* rounding error at the time it was told, for certain after that.
FindsToken(j) ==
    /\ job[j].found <= spent + 1
    /\ job[j].at = "away" /\ job[j].found = spent + 1 =>
          /\ Level(bucket, Most(job[j].until, now)) >= Cost
          /\ now > job[j].until => Certain(bucket, now)

\* The bucket was last written at its ts, and what was spent and what is left
\* stay within what has accrued.
Written == bucket.ts <= now /\ bucket.touched = bucket.ts
WithinPace == spent * Cost + Level(bucket, now) <= Burst + now * Rate

Accounted ==
    /\ Written
    /\ WithinPace
    /\ \A j \in Jobs : FindsToken(j)

\* A new bucket is full and nothing has been spent.
LEMMA AccountedInit == Init => Accounted
<1> SUFFICES ASSUME Init
             PROVE  Accounted
  OBVIOUS
<1>1. bucket \in Buckets /\ bucket.tokens = Burst
  BY DEF Init, NewBucket, Buckets
<1>2. Level(bucket, now) = Burst
  BY <1>1, LevelFull DEF Init
<1> QED
  BY <1>2 DEF Init, Accounted, Written, WithinPace, FindsToken, NewBucket, Away

\* Steps that leave the bucket alone.
LEMMA BucketUntouched ==
    ASSUME Typed, Accounted, UNCHANGED <<bucket, now, spent>>,
           \A j \in Jobs : \/ job'[j] = job[j]
                           \/ job'[j].found = 0
    PROVE  Accounted'
<1>1. Level(bucket, now)' = Level(bucket, now)
  BY DEF Level
<1>2. ASSUME NEW j \in Jobs
      PROVE  FindsToken(j)'
  <2>1. CASE job'[j] = job[j]
    <3>1. Level(bucket, Most(job[j].until, now))' = Level(bucket, Most(job[j].until, now))
      BY <2>1 DEF Level
    <3>2. Certain(bucket, now)' = Certain(bucket, now)
      BY DEF Certain, RoundingsOf, Level
    <3> QED
      BY <2>1, <3>1, <3>2 DEF Accounted, FindsToken
  <2>2. CASE job'[j].found = 0
    BY <2>2 DEF FindsToken, Typed
  <2> QED
    BY <2>1, <2>2
<1> QED
  BY <1>1, <1>2 DEF Accounted, Written, WithinPace

\* Time adds to the level at most what it adds to the pace.
LEMMA ElapseAccounted == Typed /\ Accounted /\ Elapse => Accounted'
<1> SUFFICES ASSUME Typed, Accounted, Elapse
             PROVE  Accounted'
  OBVIOUS
<1>1. now' = now + 1 /\ UNCHANGED <<bucket, job, spent>>
  BY DEF Elapse
<1>2. bucket \in Buckets /\ now \in Nat /\ spent * Cost \in Int
  BY DEF Typed
<1>3. Level(bucket, now + 1) <= Level(bucket, now) + 1 * Rate
  BY <1>2, LevelBounds
<1>4. /\ Level(bucket, now) \in 0..Burst /\ Level(bucket, now + 1) \in 0..Burst
      /\ now * Rate \in Nat /\ (now + 1) * Rate = now * Rate + Rate /\ 1 * Rate = Rate
  BY <1>2, LevelBounds, Accrual
<1>5. spent * Cost + Level(bucket, now + 1) <= Burst + (now + 1) * Rate
  BY <1>2, <1>3, <1>4 DEF Accounted, WithinPace
<1>6. ASSUME NEW j \in Jobs
      PROVE  FindsToken(j)'
  <2> DEFINE u == Most(job[j].until, now)
             v == Most(job[j].until, now + 1)
  <2>1. job[j].until \in Nat
    BY DEF Typed, JobStates
  <2>2. u \in Nat /\ v - u \in Nat /\ v = u + (v - u)
    BY <1>2, <2>1 DEF Most
  <2>3. Level(bucket, u) <= Level(bucket, v) /\ Level(bucket, u) \in Int /\ Level(bucket, v) \in Int
    <3> HIDE DEF u, v
    <3>1. Level(bucket, u) <= Level(bucket, u + (v - u)) /\ Level(bucket, u) \in 0..Burst
      BY <1>2, <2>2, LevelBounds
    <3>2. Level(bucket, v) \in 0..Burst
      <4>1. v \in Nat
        BY <2>2
      <4> QED
        BY <1>2, <4>1, LevelBounds, 0 \in Nat
    <3> QED
      BY <2>2, <3>1, <3>2
  <2>4. Level(bucket, Most(job[j].until, now))' = Level(bucket, v)
    BY <1>1 DEF Level, Most
  <2>5. Certain(bucket, now)' <=> Certain(bucket, now + 1)
    BY <1>1 DEF Certain, RoundingsOf, Level
  <2>6. ASSUME job[j].at = "away", job[j].found = spent + 1, now + 1 > job[j].until
        PROVE  Certain(bucket, now + 1)
    <3>1. u = now
      BY <1>2, <2>1, <2>6 DEF Most
    <3>2. Level(bucket, now) >= Cost
      BY <2>6, <3>1 DEF Accounted, FindsToken
    <3> QED
      BY <1>2, <3>2, CertainLater DEF Accounted, Written
  <2>7. Level(bucket, u) >= Cost => Level(bucket, v) >= Cost
    BY <2>3
  <2> QED
    BY <1>1, <2>4, <2>5, <2>6, <2>7 DEF Accounted, FindsToken
<1>7. Written'
  BY <1>1, <1>2 DEF Accounted, Written, Buckets
<1>8. WithinPace'
  BY <1>1, <1>5, Zenon DEF WithinPace
<1> QED
  BY <1>6, <1>7, <1>8 DEF Accounted

\* A key that is reclaimed would have been full.
LEMMA LapseAccounted ==
    ASSUME Typed, Accounted, BucketLapses(now), UNCHANGED <<now, job, spent>>
    PROVE  Accounted'
<1>1. /\ now - bucket.ts >= CeilDiv(Burst, Rate) + Slack
      /\ bucket' = NewBucket
  BY DEF BucketLapses, BucketTtl, Accounted, Written
<1>2. CeilDiv(Burst, Rate) \in Nat /\ CeilDiv(Burst, Rate) * Rate >= Burst
  BY CeilDivSuffices
<1>3. bucket \in Buckets /\ now \in Nat /\ spent * Cost \in Int
  BY DEF Typed
<1>4. Level(bucket, now) = Burst
  <2> DEFINE wait == CeilDiv(Burst, Rate)
             rest == (now - bucket.ts) - wait
  <2>1. wait \in Nat /\ rest \in Nat /\ Most(0, now - bucket.ts) = wait + rest
    BY <1>1, <1>2, <1>3 DEF Most, Buckets
  <2>2. bucket.tokens \in Nat
    BY <1>3 DEF Buckets
  <2>3. wait * Rate >= Burst
    BY <1>2
  <2> HIDE DEF wait, rest
  <2>4. wait * Rate \in Nat /\ rest * Rate \in Nat /\ (wait + rest) * Rate = wait * Rate + rest * Rate
    BY <2>1, Accrual
  <2>5. Level(bucket, now) = Least(Burst, bucket.tokens + (wait + rest) * Rate)
    BY <2>1 DEF Level
  <2> QED
    BY <2>2, <2>3, <2>4, <2>5 DEF Least
<1>5. bucket' \in Buckets /\ bucket'.tokens = Burst /\ bucket'.ts = 0 /\ bucket'.touched = 0
  BY <1>1 DEF NewBucket, Buckets
<1>6. \A t \in Nat : Level(bucket', t) = Burst
  BY <1>5, LevelFull
<1>7. Level(bucket', now) = Burst
  BY <1>3, <1>6
<1>8. ASSUME NEW j \in Jobs
      PROVE  FindsToken(j)'
  <2>1. Most(job[j].until, now) \in Nat
    BY <1>3 DEF Most, Typed, JobStates
  <2>2. Level(bucket', Most(job[j].until, now)) = Burst
    BY <1>6, <2>1
  <2>3. Certain(bucket', now)
    <3>1. now > 0
      <4>1. CeilDiv(Burst, Rate) # 0
        BY <1>2
      <4>2. now >= CeilDiv(Burst, Rate)
        BY <1>1, <1>2, <1>3 DEF Buckets
      <4> QED
        BY <1>2, <1>3, <4>1, <4>2
    <3>2. Most(0, now - bucket'.ts) * Rate > 0
      <4>1. Most(0, now - bucket'.ts) = now
        BY <1>3, <1>5 DEF Most
      <4>2. now * Rate > 0
        BY <1>3, <3>1
      <4> QED
        BY <4>1, <4>2
    <3> DEFINE more == Most(0, now - bucket'.ts) * Rate
    <3>3. bucket'.tokens + more > Burst
      <4> HIDE DEF more
      <4>1. more > 0 /\ more \in Int
        <5>1. Most(0, now - bucket'.ts) \in Int
          BY <1>3, <1>5 DEF Most
        <5> QED
          BY <3>2, <5>1 DEF more
      <4> QED
        BY <1>5, <4>1
    <3>4. ASSUME NEW short \in RoundingsOf(bucket', now)
          PROVE  ~short
      <4>1. bucket'.tokens + more > Burst => ~short
        BY DEF RoundingsOf
      <4> QED
        BY <3>3, <4>1
    <3>5. Level(bucket', now) > Cost \/ Level(bucket', now) = Cost
      BY <1>7
    <3> QED
      BY <3>4, <3>5 DEF Certain, Covers
  <2>4. /\ Level(bucket, Most(job[j].until, now))' = Level(bucket', Most(job[j].until, now))
        /\ Certain(bucket, now)' <=> Certain(bucket', now)
    BY DEF Level, Certain, RoundingsOf
  <2> QED
    BY <2>2, <2>3, <2>4 DEF Accounted, FindsToken
<1> QED
  BY <1>3, <1>4, <1>5, <1>7, <1>8 DEF Accounted, Written, WithinPace

\* A token is paid for, and who gets none is told a time by which one accrues; nobody
\* is refused who was to find a token for certain.
LEMMA TakeAccounted ==
    ASSUME Skews = {0}, Typed, Accounted, NEW j \in Jobs, TakeToken(j)
    PROVE  Accounted'
<1> DEFINE level == Level(bucket, now)
<1>1. bucket \in Buckets /\ now \in Nat /\ now + 0 = now /\ spent \in Nat /\ spent * Cost \in Nat
  BY DEF Typed
<1>2. Refilled(now) = level /\ level \in 0..Burst
  BY <1>1, RefilledIsLevel
<1>3. PICK short \in Roundings(now) : Takes(j, now, short) /\ UNCHANGED now
  BY <1>1 DEF TakeToken, Takes, Move
<1> DEFINE covered == Covers(level, short)
<1>4. covered => level >= Cost
  BY <1>2 DEF Covers
<1>5. /\ bucket' \in Buckets /\ bucket'.ts = now /\ bucket'.touched = now
      /\ bucket'.tokens = IF covered THEN level - Cost ELSE level
  <2>1. bucket' \in Buckets
    BY <1>1, <1>3, TakeTyped DEF Buckets
  <2> QED
    BY <1>2, <1>3, <2>1 DEF Takes, Take
<1>6. \/ /\ covered
         /\ job' = [job EXCEPT ![j] = [at |-> "deliver", until |-> now + Timeout, found |-> 0]]
         /\ spent' = spent + 1
      \/ /\ ~covered
         /\ \E wait \in RetryAfters(now) :
              job' = [job EXCEPT ![j] = Away(now + Most(wait, 1), spent + 1)]
         /\ UNCHANGED spent
  BY <1>2, <1>3 DEF Takes
<1>7. ~covered => ~Certain(bucket, now)
  <2>1. short \in RoundingsOf(bucket, now)
    BY DEF Roundings, RoundingsOf, Accrued
  <2> QED
    BY <2>1 DEF Certain
<1>8. ~covered => \A wait \in RetryAfters(now) : wait \in Nat /\ wait * Rate >= Cost - level
  BY <1>1, <1>2, WaitSuffices
<1> HIDE DEF covered
<1> HIDE DEF level
<1>9. Level(bucket', now) = bucket'.tokens
  <2>1. Most(0, now - bucket'.ts) = 0 /\ 0 * Rate = 0
    BY <1>1, <1>5 DEF Most
  <2>2. bucket'.tokens \in 0..Burst
    BY <1>5 DEF Buckets
  <2> QED
    BY <2>1, <2>2 DEF Level, Least
<1>10. Level(bucket', now') = bucket'.tokens
  BY <1>3, <1>9
<1>11. now * Rate \in Nat /\ spent * Cost + level <= Burst + now * Rate
  BY <1>1, Accrual DEF Accounted, WithinPace, level
<1>12. CASE covered
  <2>1. spent' = spent + 1 /\ spent' * Cost = spent * Cost + Cost
    BY <1>1, <1>6, <1>12
  <2>2. spent' * Cost + bucket'.tokens <= Burst + now * Rate
    BY <1>1, <1>2, <1>4, <1>5, <1>11, <1>12, <2>1
  <2>3. ASSUME NEW k \in Jobs
        PROVE  FindsToken(k)'
    <3>1. job'[k].found \in Nat /\ job'[k].found <= spent + 1
      BY <1>1, <1>6, <1>12 DEF Accounted, FindsToken, Typed, JobStates
    <3> QED
      BY <1>1, <2>1, <3>1 DEF FindsToken
  <2> QED
    <3>1. Written'
      BY <1>1, <1>3, <1>5 DEF Written
    <3>2. WithinPace'
      BY <1>3, <1>10, <2>2, Zenon DEF WithinPace
    <3> QED
      BY <2>3, <3>1, <3>2 DEF Accounted
<1>13. CASE ~covered
  <2>0. PICK told \in RetryAfters(now) :
          job' = [job EXCEPT ![j] = Away(now + Most(told, 1), spent + 1)]
    BY <1>6, <1>13
  <2> DEFINE wait == Most(told, 1)
  <2>1. UNCHANGED spent /\ bucket'.tokens = level
    BY <1>5, <1>6, <1>13
  <2>2. \A d \in Nat : Level(bucket', now + d) = Level(bucket, now + d)
    BY <1>1, <1>5, <2>1, LevelRebased DEF level, Typed, Accounted, Written
  <2>3. told \in Nat /\ told * Rate >= Cost - level /\ wait \in Nat /\ wait > 0 /\ wait - told \in Nat
    BY <1>8, <1>13 DEF Most
  <2>4. wait * Rate >= Cost - level /\ wait * Rate \in Nat
    <3> DEFINE more == wait - told
    <3>1. more \in Nat /\ wait = told + more
      BY <2>3
    <3> HIDE DEF more
    <3>2. /\ more * Rate \in Nat /\ told * Rate \in Nat
          /\ (told + more) * Rate = told * Rate + more * Rate
      BY <2>3, <3>1, Accrual
    <3> HIDE DEF wait
    <3> QED
      BY <1>2, <2>3, <3>1, <3>2
  <2> HIDE DEF wait
  <2>5. Level(bucket', now + wait) >= Cost
    <3>1. Most(0, (now + wait) - bucket'.ts) = wait
      BY <1>1, <1>5, <2>3 DEF Most
    <3>2. Level(bucket', now + wait) = Least(Burst, level + wait * Rate)
      BY <2>1, <3>1 DEF Level
    <3> QED
      BY <1>2, <2>4, <3>2 DEF Least
  <2>6. ASSUME NEW k \in Jobs
        PROVE  FindsToken(k)'
    <3>1. CASE k = j
      <4>1. job'[k] = Away(now + wait, spent + 1)
        BY <1>1, <2>0, <3>1 DEF wait, Typed
      <4>2. job'[k].found = spent + 1 /\ job'[k].until = now + wait
        BY <4>1 DEF Away
      <4>3. Most(job'[k].until, now) = now + wait
        BY <1>1, <2>3, <4>2 DEF Most
      <4>4. Level(bucket, Most(job[k].until, now))' = Level(bucket', now + wait)
        BY <1>3, <4>3 DEF Level, Most
      <4> QED
        BY <1>1, <1>3, <2>1, <2>3, <2>5, <4>2, <4>4 DEF FindsToken
    <3>2. CASE k # j
      <4>1. job'[k] = job[k] /\ job[k].until \in Nat
        BY <1>1, <2>0, <3>2 DEF Typed, JobStates
      <4>2. PICK d \in Nat : Most(job[k].until, now) = now + d
        <5>1. Most(job[k].until, now) - now \in Nat
          BY <1>1, <4>1 DEF Most
        <5>2. Most(job[k].until, now) = now + (Most(job[k].until, now) - now)
          BY <1>1, <4>1 DEF Most
        <5> QED
          BY <5>1, <5>2
      <4>3. Level(bucket, Most(job[k].until, now))' = Level(bucket, Most(job[k].until, now))
        <5>1. Level(bucket, Most(job[k].until, now))' = Level(bucket', Most(job[k].until, now))
          BY <1>3, <4>1 DEF Level, Most
        <5> QED
          BY <2>2, <4>2, <5>1
      <4> QED
        BY <1>3, <1>7, <1>13, <2>1, <4>1, <4>3 DEF Accounted, FindsToken
    <3> QED
      BY <3>1, <3>2
  <2> QED
    <3>1. Written'
      BY <1>1, <1>3, <1>5 DEF Written
    <3>2. WithinPace'
      BY <1>3, <1>10, <1>11, <2>1, Zenon DEF WithinPace
    <3> QED
      BY <2>6, <3>1, <3>2 DEF Accounted
<1> QED
  BY <1>12, <1>13

\* Every step keeps the account, when all clocks agree.
LEMMA AccountedNext ==
    ASSUME Skews = {0}
    PROVE  TypeOK /\ Accounted /\ [Next]_vars => Accounted'
<1> SUFFICES ASSUME TypeOK, Accounted, [Next]_vars
             PROVE  Accounted'
  OBVIOUS
<1>t. Typed
  BY TypedFromTypeOK
<1>1. ASSUME NEW j \in Jobs, AskCircuit(j)
      PROVE  Accounted'
  <2>1. /\ UNCHANGED <<bucket, now, spent>>
        /\ \/ job' = [job EXCEPT ![j] = Away(now + Cooldown, 0)]
           \/ job' = [job EXCEPT ![j] = [at |-> "take", until |-> 0, found |-> 0]]
    BY <1>1 DEF AskCircuit, Move
  <2>2. \A k \in Jobs : job'[k] = job[k] \/ job'[k].found = 0
    BY <1>t, <2>1 DEF Typed, Away
  <2> QED
    BY <1>t, <2>1, <2>2, BucketUntouched
<1>2. ASSUME NEW j \in Jobs, Succeed(j) \/ Fail(j) \/ Vanish(j)
      PROVE  Accounted'
  <2>1. /\ UNCHANGED <<bucket, now, spent>>
        /\ job' = [job EXCEPT ![j] = Away(now, 0)]
    BY <1>2 DEF Succeed, Fail, Vanish, Move
  <2>2. \A k \in Jobs : job'[k] = job[k] \/ job'[k].found = 0
    BY <1>t, <2>1 DEF Typed, Away
  <2> QED
    BY <1>t, <2>1, <2>2, BucketUntouched
<1>3. CASE UNCHANGED <<bucket, now, job, spent>>
  BY <1>t, <1>3, BucketUntouched
<1>4. CASE BucketLapses(now) /\ UNCHANGED <<now, job, spent>>
  BY <1>t, <1>4, LapseAccounted
<1> QED
  BY <1>t, <1>1, <1>2, <1>3, <1>4, TakeAccounted, ElapseAccounted DEF Next, Expire, vars

\* So is the invariant, for every rate and capacity.
LEMMA AccountedInvariant == Skews = {0} => (Spec => [](TypeOK /\ Accounted))
<1> SUFFICES ASSUME Skews = {0}
             PROVE  Spec => [](TypeOK /\ Accounted)
  OBVIOUS
<1>1. Init => TypeOK /\ Accounted
  BY TypeInit, AccountedInit
<1>2. TypeOK /\ Accounted /\ [Next]_vars => (TypeOK /\ Accounted)'
  BY TypeNext, AccountedNext
<1> QED
  BY <1>1, <1>2, PTL DEF Spec

\* What the two bounds compare is the level of the bucket.
LEMMA RefilledNow ==
    ASSUME TypeOK
    PROVE  Typed /\ Refilled(now) = Level(bucket, now) /\ now * Rate = Rate * now
<1>1. Typed
  BY TypedFromTypeOK
<1> QED
  BY <1>1, RefilledIsLevel DEF Typed

\* With one clock the bucket is exact: what was spent and what is left never exceed
\* the capacity and what has accrued (ratelimit.ts:21-23).
THEOREM BucketIsExact == Skews = {0} => (Spec => []PaceKept)
<1>1. TypeOK /\ Accounted => PaceKept
  BY RefilledNow DEF PaceKept, Accounted, WithinPace
<1> QED
  BY <1>1, AccountedInvariant, PTL

\* And a deferral is a rounding error short at most: unless somebody took a token
\* meanwhile, one has accrued at the time that who was refused was told, and one
\* unit of time later the doubles agree, however they were rounded.
THEOREM DeferralIsLongEnough == Skews = {0} => (Spec => []RetryFindsToken)
<1>1. TypeOK /\ Accounted => RetryFindsToken
  <2> SUFFICES ASSUME TypeOK, Accounted, NEW j \in Jobs,
                      job[j].at = "away", job[j].found = spent + 1
               PROVE  /\ now >= job[j].until => Refilled(now) >= Cost
                      /\ now > job[j].until =>
                            \A short \in Roundings(now) : Covers(Refilled(now), short)
    BY DEF RetryFindsToken
  <2>1. Typed /\ Refilled(now) = Level(bucket, now) /\ now * Rate = Rate * now
    BY RefilledNow
  <2>2. /\ Level(bucket, Most(job[j].until, now)) >= Cost
        /\ now > job[j].until => Certain(bucket, now)
    BY DEF Accounted, FindsToken
  <2>3. now >= job[j].until => Most(job[j].until, now) = now
    BY <2>1 DEF Most, Typed, JobStates
  <2>4. Roundings(now) = RoundingsOf(bucket, now)
    BY DEF Roundings, RoundingsOf, Accrued
  <2> QED
    BY <2>1, <2>2, <2>3, <2>4 DEF Certain
<1> QED
  BY <1>1, AccountedInvariant, PTL
=============================================================================
