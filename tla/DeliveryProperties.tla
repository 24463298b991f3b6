------------------------- MODULE DeliveryProperties -------------------------
(***************************************************************************)
(* What must hold of Delivery.  The first group is for workers that keep   *)
(* to their visibility timeout and commands that are executed once         *)
(* (OneCopy); the second holds whatever the faults; the third states       *)
(* promises of the repository's comments that the code does not keep.      *)
(***************************************************************************)
EXTENDS Delivery

\* Nothing gives rise to a second copy of a job id.
OneCopy == {"slow", "resend"} \cap Faults = {}

Positions(list, j) == {i \in DOMAIN list : list[i] = j}

\* Everything that stands for job j on the Redis side of the platform: each
\* list entry, and each replay loop with j in its hands.
Custodians(j) ==
    {<<"ready", i>> : i \in Positions(ready, j)}
        \cup {<<"inflight", n>> : n \in 1..inflight[j]}
        \cup {<<"delayed", d>> : d \in {delayed[j]} \ {"none"}}
        \cup {<<"dlq", i>> : i \in Positions(dlq, j)}
        \cup {<<"operator", o>> : o \in {o \in Operators : operator[o].job = j}}

\* A job id is in one place at a time, and there once: not twice in ready, not
\* waiting for a retry while another copy is in flight (queue.ts:70-71).
SingleCustody == \A j \in Jobs : \A p, q \in Custodians(j) : p = q

\* No two consume loops ever work on the same job
\* (delivery.repository.ts:33-34, "owned by exactly one worker at a time").
OwnedByOneWorker ==
    \A v, w \in Workers : worker[v].job = worker[w].job /\ v # w => worker[w].job = NoJob

\* Nobody takes a claim from under a live worker: its job stays in flight, and
\* leased once reserve has returned, until its own releasing script.
ClaimIsKept ==
    \A w \in Workers : worker[w].at # "idle" =>
        /\ inflight[worker[w].job] = 1
        /\ worker[w].at # "lease" => leases[worker[w].job] = "held"

\* No lease outlives its claim: the reaper never pushes a job that nobody holds
\* and that was already released (queue.ts:96-98).
LeasedIsInFlight == \A j \in Jobs : leases[j] # "none" => inflight[j] > 0

\* The unique (jobId, attemptNumber) never rejects the record of a request that
\* was made: read-then-insert without a lock is safe (delivery.repository.ts:33).
AuditNeverCollides ==
    \A w \in Workers :
        worker[w].at = "record" /\ Exists(worker[w].job) => ~NumberTaken(w)

\* The CHECK (attempts <= maxAttempts) never rejects the outcome of a delivery,
\* which would leave the job circling between reaper and worker for ever.
BudgetNeverOverdrawn ==
    \A w \in Workers : worker[w].at = "settle" => ~BudgetSpent(worker[w].job)

\* Postgres and Redis agree on whether a job is alive: what waits for a retry
\* is queued, what sits in the DLQ is dead, and a replay never pushes an id
\* whose row the worker would ack as terminal (queue.ts:269-275).
StoresAgree ==
    /\ \A j \in Jobs :
        /\ delayed[j] # "none" => row[j] \in {"queued", "deleted"}
        /\ j \in Range(dlq) => row[j] \in {"dead", "deleted"}
    /\ \A o \in Operators :
        /\ operator[o].at = "reset" => row[operator[o].job] \in {"dead", "deleted"}
        /\ operator[o].at = "push" => row[operator[o].job] \in {"queued", "deleted"}

\* A worker that was answered 2xx is the last to send the event, unless it drops the
\* job before that is written down (ARCHITECTURE.md:116-117, "with no failures").
\* An endpoint whose answer is lost or late gets the event again without any drop,
\* as often as the budget allows: there was no answer to go by (backoff.ts:50-51).
SecondAnswerNeedsADrop == \A j \in Jobs : confirmed[j] <= 1 + abandons[j]

\* Where a job can still be delivered from: a list, a lease that will lapse, or
\* a process that is about to put it on one of them.
Recoverable(j) ==
    \/ j \in Range(ready)
    \/ delayed[j] # "none"
    \/ leases[j] # "none"
    \/ \E w \in Workers : worker[w].at = "lease" /\ Holds(w, j)
    \/ \E o \in Operators : operator[o].at = "push" /\ operator[o].job = j

\* The job whose 202 the client has seen is never lost: while its row is
\* neither terminal nor deleted it can still be delivered (queue.ts:22-26).
NoJobStranded ==
    \A j \in Jobs : submission[j] = "accepted" /\ row[j] \in Live => Recoverable(j)

\* Seen from outside, the platform is Lifecycle: whatever the interleaving and
\* the crashes, rows move along the documented state diagram only, a
\* succeeded row was answered, and only real attempts spend the budget.
Lifecycle == INSTANCE Lifecycle WITH
    life <- [j \in Jobs |-> IF row[j] \in Live THEN "pending" ELSE row[j]],
    spent <- attempts,
    answered <- confirmed

ImplementsLifecycle == Lifecycle!Spec

-----------------------------------------------------------------------------
(* Whatever the faults, slow workers and resent commands included.         *)

\* The budget pays for recorded requests only, never for a deferral by the
\* circuit breaker or the rate limiter, nor for a redelivery that was dropped
\* (job.service.ts:151-154): also when several workers settle one job.
BudgetSpentOnAttempts ==
    \A j \in Jobs : attempts[j] <= audit[j]

\* No worker declares a job succeeded on another delivery's account.
SucceededWasAnswered == \A j \in Jobs : row[j] = "succeeded" => confirmed[j] > 0

-----------------------------------------------------------------------------
(* Liveness, under FairSpec.                                               *)

\* Every event the client was told is accepted is delivered or given up,
\* through crashes, deferrals, retries and replays.
EventuallySettled ==
    \A j \in Jobs : submission[j] = "accepted" ~> row[j] \notin Live

\* No claim is for ever: a released, reaped or finished job leaves inflight.
ClaimsAreReleased == \A j \in Jobs : inflight[j] > 0 ~> inflight[j] = 0

-----------------------------------------------------------------------------
(* Promises of the comments that the code does not keep.                   *)

\* "reapExpired handles that case explicitly" (queue.ts:73-75): every id in
\* flight has a lease the reaper can find, or a worker about to take one.
EveryClaimIsReapable ==
    \A j \in Jobs : inflight[j] > 0 =>
        leases[j] # "none" \/ \E w \in Workers : worker[w].at = "lease" /\ Holds(w, j)

\* "Jobs land here when the system has given up" (queue.ts:139-141): a dead job
\* is in the DLQ, on its way there, or in an operator's hands.
DeadJobsReachTheDlq ==
    \A j \in Jobs : row[j] = "dead" => Custodians(j) # {}

\* "a slow-but-alive worker gets its job stolen and the delivery happens twice"
\* (queue.ts:40-41): a stolen lease costs one more 2xx, as a dead worker does.
SlowWorkerCostsOneDuplicate == \A j \in Jobs : confirmed[j] <= 1 + abandons[j] + slips
=============================================================================
