------------------------------ MODULE Delivery ------------------------------
(***************************************************************************)
(* The life of a job across the two stores and the processes that move it: *)
(* the api that accepts it, the workers that deliver it, the scheduler     *)
(* that promotes and reaps, and the operators who replay dead jobs.        *)
(*                                                                         *)
(* Every await of the code is a point where another process may run, so a  *)
(* handler is one action per command it sends to Redis or Postgres, and    *)
(* the process' "at" names the command it is about to send.                *)
(***************************************************************************)
EXTENDS Queue

CONSTANTS
    Workers,      \* consume loops (entrypoints/worker.ts, run many)
    Operators,    \* concurrent calls of POST /queue/dlq/replay
    NoJob,        \* what an idle process is working on
    MaxAttempts,  \* jobs.maxAttempts
    Faults,       \* which of AllFaults this instance suffers
    MaxAbandons,  \* bound: times workers drop each job half-way
    MaxSlips,     \* bound: leases that lapse under a live worker, commands sent twice
    MaxReplays,   \* bound: ids popped from the dead-letter queue
    MaxAudit      \* bound: delivery_attempts rows of one job

AllFaults ==
    { "reserve",   \* a worker stops between the two commands of reserve
      "slow",      \* a worker holds a job longer than its visibility timeout
      "resend",    \* ioredis reconnects and sends a command again that was executed
      "replay",    \* a replay stops between its commands
      "cascade" }  \* a webhook, and with it its jobs, is deleted from Postgres

ASSUME DeliveryAssumption ==
    /\ NoJob \notin Jobs
    /\ MaxAttempts \in Nat \ {0}
    /\ Faults \subseteq AllFaults
    /\ MaxAbandons \in Nat
    /\ MaxSlips \in Nat
    /\ MaxReplays \in Nat
    /\ MaxAudit \in Nat

VARIABLES
    row,        \* jobs.state, "absent" before the INSERT, "deleted" after a cascade
    attempts,   \* jobs.attempts, the retry budget spent
    audit,      \* the largest attemptNumber of the job's delivery_attempts rows
    confirmed,  \* 2xx answers that workers have received for the job
    submission, \* what the api has done with the event that became the job
    worker,     \* the local state of each consume loop
    operator,   \* the local state of each replay loop
    abandons, slips, replays    \* how much of each bound is used up

pgVars == <<row, attempts, audit>>
boundVars == <<abandons, slips, replays>>
vars == <<redisVars, pgVars, confirmed, submission, worker, operator, boundVars>>

Live == {"queued", "in_flight"}
Terminal == {"succeeded", "dead"}
RowStates == {"absent", "deleted"} \cup Live \cup Terminal

WorkerSteps ==
    { "idle",       \* blocked in BRPOPLPUSH
      "lease",      \* reserve: the ZADD of the lease
      "load",       \* findById and the branch on what it returns
      "gates",      \* the circuit breaker and the rate limiter
      "number",     \* getById, getSecret, nextAttemptNumber
      "post",       \* the HTTP request
      "record",     \* INSERT INTO delivery_attempts
      "settle",     \* updateState with incrementAttempts
      "ack", "retry", "bury" }  \* the script that releases the claim

Delivering == {"number", "post", "record", "settle"}
Outcomes == {"none", "ok", "retryable", "permanent"}

WorkerStates ==
    [at: WorkerSteps, job: Jobs \cup {NoJob}, seen: Nat, number: Nat, outcome: Outcomes]
IdleWorker == [at |-> "idle", job |-> NoJob, seen |-> 0, number |-> 0, outcome |-> "none"]

OperatorStates == [at: {"idle", "reset", "push"}, job: Jobs \cup {NoJob}]
IdleOperator == [at |-> "idle", job |-> NoJob]

\* "inserted": the row is committed and the push is still to come.
Submissions == {"none", "inserted", "accepted", "failed"}

TypeOK ==
    /\ QueueTypeOK
    /\ row \in [Jobs -> RowStates]
    /\ attempts \in [Jobs -> 0..MaxAttempts]
    /\ audit \in [Jobs -> Nat]
    /\ confirmed \in [Jobs -> Nat]
    /\ submission \in [Jobs -> Submissions]
    /\ worker \in [Workers -> WorkerStates]
    /\ operator \in [Operators -> OperatorStates]
    /\ abandons \in [Jobs -> 0..MaxAbandons]
    /\ slips \in 0..MaxSlips
    /\ replays \in 0..MaxReplays

Init ==
    /\ QueueInit
    /\ row = [j \in Jobs |-> "absent"]
    /\ attempts = [j \in Jobs |-> 0]
    /\ audit = [j \in Jobs |-> 0]
    /\ confirmed = [j \in Jobs |-> 0]
    /\ submission = [j \in Jobs |-> "none"]
    /\ worker = [w \in Workers |-> IdleWorker]
    /\ operator = [o \in Operators |-> IdleOperator]
    /\ abandons = [j \in Jobs |-> 0]
    /\ slips = 0
    /\ replays = 0

-----------------------------------------------------------------------------
(* UPDATE jobs SET state = s WHERE id = j, whatever the state was; a row   *)
(* that is gone makes it a no-op that the callers do not look at.          *)

Exists(j) == row[j] \notin {"absent", "deleted"}

UpdateState(j, s) == row' = [row EXCEPT ![j] = IF Exists(j) THEN s ELSE @]

Holds(w, j) == worker[w].job = j
Become(w, state) == worker' = [worker EXCEPT ![w] = state]
Goto(w, step) == Become(w, [worker[w] EXCEPT !.at = step])

\* process threw, or it returned: the loop goes back to reserve.  An exception
\* releases nothing, the job stays in flight until its lease lapses.
GoIdle(w) == Become(w, IdleWorker)

-----------------------------------------------------------------------------
(* Seeded mistakes, as in Queue.                                           *)

\* Without the guard on terminal states.
LoadIgnoringState(w) ==
    /\ worker[w].at = "load"
    /\ Become(w, [worker[w] EXCEPT !.at = "gates", !.seen = attempts[worker[w].job]])
    /\ UNCHANGED <<redisVars, pgVars, confirmed, submission, operator, boundVars>>

\* A job that is in_flight is taken to be another worker's, and acked.
LoadQueuedOnly(w) ==
    LET j == worker[w].job IN
    /\ worker[w].at = "load"
    /\ \/ row[j] # "queued" /\ Goto(w, "ack")
       \/ row[j] = "queued" /\ Become(w, [worker[w] EXCEPT !.at = "gates", !.seen = attempts[j]])
    /\ UNCHANGED <<redisVars, pgVars, confirmed, submission, operator, boundVars>>

\* A deferral that increments attempts, as a failed delivery does.
DeferSpendingBudget(w) ==
    LET j == worker[w].job IN
    /\ worker[w].at = "gates"
    /\ UpdateState(j, "queued")
    /\ attempts' = [attempts EXCEPT ![j] = IF @ < MaxAttempts THEN @ + 1 ELSE @]
    /\ Become(w, [worker[w] EXCEPT !.at = "retry", !.seen = 0])
    /\ UNCHANGED <<redisVars, audit, confirmed, submission, operator, boundVars>>

\* The attempt is numbered by the budget, which a replay resets.
NumberFromBudget(w) ==
    /\ worker[w].at = "number"
    /\ Become(w, [worker[w] EXCEPT !.at = "post", !.number = worker[w].seen + 1])
    /\ UNCHANGED <<redisVars, pgVars, confirmed, submission, operator, boundVars>>

ExhaustedTooLate(w) == worker[w].seen + 1 > MaxAttempts

\* The state of the enumeration that the code never writes.
VerdictFailed(w) ==
    IF worker[w].outcome = "ok" THEN [state |-> "succeeded", next |-> "ack"]
                                ELSE [state |-> "failed", next |-> "retry"]

\* Any answer counts, whatever its status.
VerdictOnAnyAnswer(w) ==
    IF worker[w].outcome = "retryable" THEN [state |-> "queued", next |-> "retry"]
                                       ELSE [state |-> "succeeded", next |-> "ack"]

\* A replay that moves the id and forgets the row.
ResetDeadInRedisOnly(o) ==
    /\ operator[o].at = "reset"
    /\ operator' = [operator EXCEPT ![o].at = "push"]
    /\ UNCHANGED <<redisVars, pgVars, confirmed, submission, worker, boundVars>>

-----------------------------------------------------------------------------
(* api: enqueue.  The row first, the id on a list second.                  *)

InsertJob(j) ==
    /\ submission[j] = "none"
    /\ submission' = [submission EXCEPT ![j] = "inserted"]
    /\ row' = [row EXCEPT ![j] = "queued"]
    /\ UNCHANGED <<redisVars, attempts, audit, confirmed, worker, operator, boundVars>>

\* A job due now goes to ready, one with a runAt in the future to delayed.
PushJob(j) ==
    /\ submission[j] = "inserted"
    /\ submission' = [submission EXCEPT ![j] = "accepted"]
    /\ Push(j) \/ PushDelayed(j)
    /\ UNCHANGED <<pgVars, confirmed, worker, operator, boundVars>>

\* The push is rejected or the api stops before it: the client gets no 202.
\* (A push whose reply is lost is a PushJob that the client is not told of.)
PushFails(j) ==
    /\ submission[j] = "inserted"
    /\ submission' = [submission EXCEPT ![j] = "failed"]
    /\ UNCHANGED <<redisVars, pgVars, confirmed, worker, operator, boundVars>>

-----------------------------------------------------------------------------
(* worker: consume, which is reserve and then process.                     *)

Claim(w) ==
    /\ worker[w].at = "idle"
    /\ \E j \in Jobs :
        /\ ClaimMove(j)
        /\ Become(w, [worker[w] EXCEPT !.at = "lease", !.job = j])
    /\ UNCHANGED <<pgVars, confirmed, submission, operator, boundVars>>

Lease(w) ==
    /\ worker[w].at = "lease"
    /\ TakeLease(worker[w].job)
    /\ Goto(w, "load")
    /\ UNCHANGED <<pgVars, confirmed, submission, operator, boundVars>>

\* A row that is gone or terminal is acked; a live one is remembered as read.
Load(w) ==
    LET j == worker[w].job IN
    /\ worker[w].at = "load"
    /\ \/ /\ row[j] \notin Live
          /\ Goto(w, "ack")
       \/ /\ row[j] \in Live
          /\ Become(w, [worker[w] EXCEPT !.at = "gates", !.seen = attempts[j]])
    /\ UNCHANGED <<redisVars, pgVars, confirmed, submission, operator, boundVars>>

\* The circuit is open, or no token is left: back to queued, no attempt spent.
Defer(w) ==
    /\ worker[w].at = "gates"
    /\ UpdateState(worker[w].job, "queued")
    /\ Become(w, [worker[w] EXCEPT !.at = "retry", !.seen = 0])
    /\ UNCHANGED <<redisVars, attempts, audit, confirmed, submission, operator, boundVars>>

\* Both gates let the delivery through.
Proceed(w) ==
    /\ worker[w].at = "gates"
    /\ UpdateState(worker[w].job, "in_flight")
    /\ Goto(w, "number")
    /\ UNCHANGED <<redisVars, attempts, audit, confirmed, submission, operator, boundVars>>

\* getById throws when the webhook was deleted; MAX(attemptNumber) + 1 if not.
Number(w) ==
    LET j == worker[w].job IN
    /\ worker[w].at = "number"
    /\ \/ /\ ~Exists(j)
          /\ GoIdle(w)
       \/ /\ Exists(j)
          /\ audit[j] < MaxAudit
          /\ Become(w, [worker[w] EXCEPT !.at = "post", !.number = audit[j] + 1])
    /\ UNCHANGED <<redisVars, pgVars, confirmed, submission, operator, boundVars>>

\* The worker receives a 2xx, a status isRetryable refuses, or anything else (408,
\* 429, 5xx, no answer within the timeout).  What the endpoint did with a request
\* whose answer is lost or late the code cannot know, and it is sent again.
Post(w) ==
    LET j == worker[w].job IN
    /\ worker[w].at = "post"
    /\ \E o \in Outcomes \ {"none"} :
        /\ Become(w, [worker[w] EXCEPT !.at = "record", !.outcome = o])
        /\ confirmed' = IF o = "ok" THEN [confirmed EXCEPT ![j] = @ + 1] ELSE confirmed
    /\ UNCHANGED <<redisVars, pgVars, submission, operator, boundVars>>

\* The INSERT breaks the foreign key if the row is gone, and the unique
\* (jobId, attemptNumber) if another delivery recorded this number meanwhile.
NumberTaken(w) == worker[w].number <= audit[worker[w].job]

Record(w) ==
    LET j == worker[w].job IN
    /\ worker[w].at = "record"
    /\ \/ /\ ~Exists(j) \/ NumberTaken(w)
          /\ GoIdle(w)
          /\ UNCHANGED audit
       \/ /\ Exists(j) /\ ~NumberTaken(w)
          /\ audit' = [audit EXCEPT ![j] = worker[w].number]
          /\ Become(w, [worker[w] EXCEPT !.at = "settle", !.number = 0])
    /\ UNCHANGED <<redisVars, row, attempts, confirmed, submission, operator, boundVars>>

\* The delivery just made was the last one that the budget read at load allows.
Exhausted(w) == worker[w].seen + 1 >= MaxAttempts

\* The verdict on a delivery: the new state of the row and the script to send.
Verdict(w) ==
    CASE worker[w].outcome = "ok" -> [state |-> "succeeded", next |-> "ack"]
      [] worker[w].outcome = "permanent" \/ (worker[w].outcome = "retryable" /\ Exhausted(w))
           -> [state |-> "dead", next |-> "bury"]
      [] OTHER -> [state |-> "queued", next |-> "retry"]

\* attempts + 1 > maxAttempts: the CHECK of the table rejects the UPDATE.
BudgetSpent(j) == Exists(j) /\ attempts[j] >= MaxAttempts

Settle(w) ==
    LET j == worker[w].job IN
    /\ worker[w].at = "settle"
    /\ \/ /\ BudgetSpent(j)
          /\ GoIdle(w)
          /\ UNCHANGED <<row, attempts>>
       \/ /\ ~BudgetSpent(j)
          /\ UpdateState(j, Verdict(w).state)
          /\ attempts' = [attempts EXCEPT ![j] = IF Exists(j) THEN @ + 1 ELSE @]
          /\ Become(w, [IdleWorker EXCEPT !.at = Verdict(w).next, !.job = j])
    /\ UNCHANGED <<redisVars, audit, confirmed, submission, operator, boundVars>>

Release(w) ==
    LET j == worker[w].job IN
    /\ \/ worker[w].at = "ack"   /\ Ack(j)
       \/ worker[w].at = "retry" /\ RetryLater(j)
       \/ worker[w].at = "bury"  /\ DeadLetter(j)
    /\ GoIdle(w)
    /\ UNCHANGED <<pgVars, confirmed, submission, operator, boundVars>>

\* The worker dies, is shut down, or a command it sent is rejected: the loop,
\* restarted or not, is back at reserve and nothing was released.
Abandon(w) ==
    LET j == worker[w].job IN
    /\ worker[w].at # "idle"
    /\ worker[w].at = "lease" => "reserve" \in Faults
    /\ abandons[j] < MaxAbandons
    /\ abandons' = [abandons EXCEPT ![j] = @ + 1]
    /\ GoIdle(w)
    /\ UNCHANGED <<redisVars, pgVars, confirmed, submission, operator, slips, replays>>

-----------------------------------------------------------------------------
(* operator: one turn of the loop in replay.                               *)

PopDead(o) ==
    /\ operator[o].at = "idle"
    /\ replays < MaxReplays
    /\ \E j \in Jobs :
        /\ PopDlq(j)
        /\ operator' = [operator EXCEPT ![o] = [at |-> "reset", job |-> j]]
    /\ replays' = replays + 1
    /\ UNCHANGED <<pgVars, confirmed, submission, worker, abandons, slips>>

\* resetForReplay; an id whose row is gone is discarded.
ResetDead(o) ==
    LET j == operator[o].job IN
    /\ operator[o].at = "reset"
    /\ UpdateState(j, "queued")
    /\ attempts' = [attempts EXCEPT ![j] = 0]
    /\ operator' = [operator EXCEPT ![o] =
                       IF Exists(j) THEN [at |-> "push", job |-> j] ELSE IdleOperator]
    /\ UNCHANGED <<redisVars, audit, confirmed, submission, worker, boundVars>>

PushReplayed(o) ==
    /\ operator[o].at = "push"
    /\ Push(operator[o].job)
    /\ operator' = [operator EXCEPT ![o] = IdleOperator]
    /\ UNCHANGED <<pgVars, confirmed, submission, worker, boundVars>>

\* The api stops, or a command is rejected, between two steps of a turn.
ReplayStops(o) ==
    /\ "replay" \in Faults
    /\ operator[o].at # "idle"
    /\ operator' = [operator EXCEPT ![o] = IdleOperator]
    /\ UNCHANGED <<redisVars, pgVars, confirmed, submission, worker, boundVars>>

-----------------------------------------------------------------------------
(* scheduler: the two sweeps of a tick; and the time they wait for.        *)

Promote ==
    /\ Due # {}
    /\ \E batch \in Batches(Due) : PromoteDue(batch)
    /\ UNCHANGED <<pgVars, confirmed, submission, worker, operator, boundVars>>

Reap ==
    /\ Expired # {}
    /\ \E batch \in Batches(Expired) : ReapExpired(batch)
    /\ UNCHANGED <<pgVars, confirmed, submission, worker, operator, boundVars>>

DelayElapses(j) ==
    /\ DelayPasses(j)
    /\ UNCHANGED <<pgVars, confirmed, submission, worker, operator, boundVars>>

\* A lease outlives a worker that keeps to the visibility timeout; it lapses
\* under one that does not only where the fault is admitted.
LeaseLapses(j) ==
    /\ LeasePasses(j)
    /\ \/ /\ \A w \in Workers : ~Holds(w, j)
          /\ UNCHANGED slips
       \/ /\ \E w \in Workers : Holds(w, j)
          /\ "slow" \in Faults /\ slips < MaxSlips
          /\ slips' = slips + 1
    /\ UNCHANGED <<pgVars, confirmed, submission, worker, operator, abandons, replays>>

\* ON DELETE CASCADE from webhooks to jobs to delivery_attempts.
Cascade(j) ==
    /\ "cascade" \in Faults
    /\ Exists(j)
    /\ row' = [row EXCEPT ![j] = "deleted"]
    /\ attempts' = [attempts EXCEPT ![j] = 0]
    /\ audit' = [audit EXCEPT ![j] = 0]
    /\ UNCHANGED <<redisVars, confirmed, submission, worker, operator, boundVars>>

\* The command was executed, but its reply is lost with the connection, and the
\* process that sent it, which waits, will send it again.
Resent(j) ==
    /\ "resend" \in Faults /\ slips < MaxSlips
    /\ \/ submission[j] = "inserted" /\ (Push(j) \/ PushDelayed(j))
       \/ (\E w \in Workers : worker[w].at = "idle") /\ ClaimMove(j)
       \/ \E w \in Workers :
           /\ Holds(w, j)
           /\ \/ worker[w].at = "lease" /\ TakeLease(j)
              \/ worker[w].at = "ack"   /\ Ack(j)
              \/ worker[w].at = "retry" /\ RetryLater(j)
              \/ worker[w].at = "bury"  /\ DeadLetter(j)
       \/ (\E o \in Operators : operator[o].at = "idle") /\ PopDlq(j)
       \/ (\E o \in Operators : operator[o].at = "push" /\ operator[o].job = j) /\ Push(j)
    /\ slips' = slips + 1
    /\ UNCHANGED <<pgVars, confirmed, submission, worker, operator, abandons, replays>>

-----------------------------------------------------------------------------
Api(j) == InsertJob(j) \/ PushJob(j) \/ PushFails(j)

Process(w) ==
    \/ Lease(w) \/ Load(w) \/ Defer(w) \/ Proceed(w) \/ Number(w)
    \/ Post(w) \/ Record(w) \/ Settle(w) \/ Release(w)

Replay(o) == PopDead(o) \/ ResetDead(o) \/ PushReplayed(o) \/ ReplayStops(o)

Time(j) == DelayElapses(j) \/ LeaseLapses(j)

Next ==
    \/ \E j \in Jobs : Api(j) \/ Time(j) \/ Cascade(j) \/ Resent(j)
    \/ \E w \in Workers : Claim(w) \/ Process(w) \/ Abandon(w)
    \/ \E o \in Operators : Replay(o)
    \/ Promote \/ Reap

Spec == Init /\ [][Next]_vars

(***************************************************************************)
(* Fairness.  A consume loop that holds a job goes on with it: each await  *)
(* resolves or throws (the request has a timeout, and Abandon is a loop    *)
(* that threw).  Some worker is always blocked in BRPOPLPUSH or becomes    *)
(* free; a scheduler ticks every second; the clock runs.  Proceed needs    *)
(* strong fairness: an open breaker lets a probe through after each        *)
(* cooldown and an empty bucket refills, so a job that comes back to the   *)
(* gates again and again is let through, though not at any given visit.    *)
(* Nothing is assumed of clients, operators or faults.                     *)
(***************************************************************************)
Fairness ==
    /\ \A w \in Workers : WF_vars(Process(w)) /\ SF_vars(Proceed(w))
    /\ WF_vars(\E w \in Workers : Claim(w))
    /\ WF_vars(Promote) /\ WF_vars(Reap)
    /\ \A j \in Jobs : WF_vars(Time(j))
    /\ \A o \in Operators : WF_vars(ResetDead(o) \/ PushReplayed(o))

FairSpec == Spec /\ Fairness
=============================================================================
