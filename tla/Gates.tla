------------------------------- MODULE Gates -------------------------------
(***************************************************************************)
(* The two preflight gates of process (job.service.ts:148-187) and what a  *)
(* delivery reports back to the first of them (job.service.ts:201-216):    *)
(* jobs of one webhook, each in the hands of some worker, that ask the     *)
(* breaker, then the bucket, then deliver.                                 *)
(*                                                                         *)
(* A job that is deferred or done is away, and a job that comes back may   *)
(* be another one: what the gates know of a job is that it is at them.     *)
(***************************************************************************)
EXTENDS Circuit, RateLimit, FiniteSets

CONSTANTS
    Jobs,
    Timeout,     \* TIMEOUT_MS of a request, and the commands around it
    Skews,       \* how far a worker's clock may be from that of Redis
    MaxNow       \* bound: the behaviour ends at this time

ASSUME GatesAssumption ==
    /\ IsFiniteSet(Jobs)
    /\ Timeout \in Nat \ {0} /\ MaxNow \in Nat
    /\ Skews \subseteq Nat

VARIABLES
    now,        \* the time of Redis
    job,        \* where each job is, and until when it may or must be there
    spent,      \* tokens spent since the beginning
    streak,     \* failures recorded since the last success or lapse
    trippedAt   \* when the circuit last went from not open to open

vars == <<breaker, bucket, now, job, spent, streak, trippedAt>>

TypeOK ==
    /\ breaker \in [state: {"closed", "open", "half_open"}, failures: Nat,
                    openedAt: Nat, touched: 0..MaxNow]
    /\ bucket \in [tokens: 0..Burst, short: BOOLEAN, ts: Nat, touched: 0..MaxNow]
    /\ now \in 0..MaxNow
    /\ job \in [Jobs -> [at: {"away", "take", "deliver"}, until: Nat, found: Nat]]
    /\ spent \in Nat /\ streak \in Nat /\ trippedAt \in 0..MaxNow

Away(until, found) == [at |-> "away", until |-> until, found |-> found]

Init ==
    /\ breaker = NewBreaker /\ bucket = NewBucket
    /\ now = 0
    /\ job = [j \in Jobs |-> Away(0, 0)]
    /\ spent = 0 /\ streak = 0 /\ trippedAt = 0

Move(j, where) == job' = [job EXCEPT ![j] = where]

-----------------------------------------------------------------------------
\* circuit.check: open defers the job by a cooldown, anything else is a pass.
AskCircuit(j) ==
    /\ job[j].at = "away" /\ now >= job[j].until
    /\ \E skew \in Skews : LET clock == now + skew IN
        /\ Check(Gate(clock), clock, now)
        /\ IF Gate(clock) = "open" THEN Move(j, Away(now + Cooldown, 0))
                                   ELSE Move(j, [at |-> "take", until |-> 0, found |-> 0])
    /\ UNCHANGED <<bucket, now, spent, streak, trippedAt>>

\* ratelimit.take: no token defers the job until one should be there.  "found"
\* remembers how many had been spent, counted from 1.
TakeToken(j) ==
    /\ job[j].at = "take"
    /\ \E skew \in Skews : LET clock == now + skew IN \E short \in Roundings(clock) :
        /\ Take(Refilled(clock), short, clock, now)
        /\ \/ /\ Covers(Refilled(clock), short)
              /\ Move(j, [at |-> "deliver", until |-> now + Timeout, found |-> 0])
              /\ spent' = spent + 1
           \/ /\ ~Covers(Refilled(clock), short)
              /\ \E wait \in RetryAfters(clock) : Move(j, Away(now + Most(wait, 1), spent + 1))
              /\ UNCHANGED spent
    /\ UNCHANGED <<breaker, now, streak, trippedAt>>

Succeed(j) ==
    /\ job[j].at = "deliver"
    /\ RecordSuccess(now)
    /\ streak' = 0
    /\ Move(j, Away(now, 0))
    /\ UNCHANGED <<bucket, now, spent, trippedAt>>

Fail(j) ==
    /\ job[j].at = "deliver"
    /\ \E skew \in Skews : RecordFailure(now + skew, now)
    /\ streak' = streak + 1
    /\ trippedAt' = IF breaker.state # "open" /\ breaker'.state = "open" THEN now ELSE trippedAt
    /\ Move(j, Away(now, 0))
    /\ UNCHANGED <<bucket, now, spent>>

\* The worker dies, or the delivery throws before it reports.
Vanish(j) ==
    /\ job[j].at # "away"
    /\ Move(j, Away(now, 0))
    /\ UNCHANGED <<breaker, bucket, now, spent, streak, trippedAt>>

\* Nobody is between the two gates, nor delivering for longer than the timeout,
\* when time goes on.
Elapse ==
    /\ now < MaxNow
    /\ \A j \in Jobs : job[j].at # "take" /\ (job[j].at = "deliver" => now < job[j].until)
    /\ now' = now + 1
    /\ UNCHANGED <<breaker, bucket, job, spent, streak, trippedAt>>

Expire ==
    \/ BreakerLapses(now) /\ streak' = 0 /\ UNCHANGED <<bucket, now, job, spent, trippedAt>>
    \/ BucketLapses(now) /\ UNCHANGED <<breaker, now, job, spent, streak, trippedAt>>

Next ==
    \/ \E j \in Jobs : AskCircuit(j) \/ TakeToken(j) \/ Succeed(j) \/ Fail(j) \/ Vanish(j)
    \/ Elapse \/ Expire

Spec == Init /\ [][Next]_vars

-----------------------------------------------------------------------------
\* State and count move together, however checks, late results and failures of
\* several probes interleave: a circuit that is not closed has reached the
\* threshold, and one that is has not.
CountMatchesState == breaker.state = "closed" <=> breaker.failures < Threshold

\* "After enough failures it trips" (circuit.ts:8), and they are consecutive:
\* no success was recorded between the failures that keep a circuit open.
OpenWasEarned == breaker.state # "closed" => streak >= Threshold

\* "Skipped for a cooldown window" (circuit.ts:13-14): failures of deliveries
\* that began before the trip put the end of the window off, but only by the
\* time a request can last; nothing else does.
WindowIsBounded ==
    breaker.state = "open" => breaker.openedAt <= trippedAt + Timeout

\* "The count is exact even with fifty workers" (ratelimit.ts:22-23): what was
\* spent and what is left never exceed what has accrued, also when the key was
\* reclaimed meanwhile.
PaceKept == spent * Cost + Refilled(now) <= Burst + Rate * now

\* "Roughly how long until a token is available" (ratelimit.ts:73): unless somebody
\* spent a token meanwhile, a deferral is at most a rounding error short.  At the
\* time it names a token has accrued, but the doubles may still be below it and
\* the lone job be deferred again; a millisecond later it is let through for sure.
RetryFindsToken ==
    \A j \in Jobs : job[j].at = "away" /\ job[j].found = spent + 1 =>
        /\ now >= job[j].until => Refilled(now) >= Cost
        /\ now > job[j].until => \A short \in Roundings(now) : Covers(Refilled(now), short)

\* With clocks that disagree the cap is off by what the clocks are apart.
Spread == CHOOSE d \in Skews : \A e \in Skews : d >= e
CapHolds == spent * Cost <= Burst + Rate * (now + Spread)
=============================================================================
