# A specification of the webhook delivery platform

This directory holds TLA+ models of the platform in `src/`, the TLC runs that
check them, and proofs that TLAPS checks. It says what an accepted event may
rely on, through races, crashes, retries and lapsed leases, and where the code
does not keep what its comments promise.

Paths below are relative to the repository root (`src/` in `PROJECT.json`
stands for that root, so `src/src/queue.ts` is the repository's `src/queue.ts`).

1. [The system](#1-the-system)
2. [The modules](#2-the-modules)
3. [The runs](#3-the-runs)
4. [The proofs](#4-the-proofs)
5. [Where code and comments differ](#5-where-code-and-comments-differ)
6. [What is left out](#6-what-is-left-out)
7. [The plan](#7-the-plan)

## 1. The system

A client posts an event; the platform stores it as a *job* and delivers it to
the webhook's URL until a 2xx comes back or the budget of attempts is spent.
Three kinds of process share two stores and talk through nothing else:

```
 client --POST /events--> api --INSERT--> Postgres (jobs, delivery_attempts)
                           |                  ^
                           +--LPUSH/ZADD--> Redis lists <--+--BRPOPLPUSH-- worker --HTTP--> endpoint
 operator --POST /queue/dlq/replay--> api     ^            |
                                              |            +-- gates: circuit, ratelimit
                                         scheduler (promote, reap; leader lock)
```

Postgres has the truth about a job (state, attempts, audit trail), Redis has the
order and custody of the work (which list the id is on, who holds it until
when). No transaction spans both, and each command of a handler is an await at
which every other process can run or this one can die.

| Component | State | Operations | What makes it correct |
|---|---|---|---|
| Job queue (`src/queue.ts`) | `ready`, `inflight` lists; `leases`, `delayed` sorted sets; `dlq` list | push, pushDelayed, reserve (two commands), ack, retryLater, deadLetter, promoteDue, reapExpired, popDlq | an id is in one place, once; whoever takes an id leaves behind what brings it back if it dies |
| Job service, delivering (`job.service.ts` process, `delivery.service.ts`) | `jobs.state`, `jobs.attempts`, `delivery_attempts`; what a worker read and has not yet used | load, two gates, deliver, record, settle, release | one worker per job; the two stores agree; no constraint of the schema rejects a write; only real attempts spend the budget |
| Job service, replaying (`job.service.ts` replay) | the id in the operator's hands | popDlq, resetForReplay, push | only dead jobs come back, each once, with a fresh budget |
| Job service, accepting (`job.service.ts` enqueue, `src/idempotency.ts`) | slot `idem:tenant:key`, the row, the id on a list | begin, insert, push, complete, abort | one job and one answer per key; nobody is told of a job that is not queued |
| Worker process (`entrypoints/worker.ts`) | the consume loop, `running`, two connections and a pool | consume, shutdown | a job in hand when it stops is delivered by another; who is told to stop exits |
| Scheduler and leader lock (`entrypoints/scheduler.ts`, `src/lock.ts`) | `lock:scheduler` with a TTL; `lock`, `running` of each process | acquire, renew, release; tick, sleep, shutdown | the sweeper holds the lock; nobody touches another's; a dead leader is replaced soon |
| Circuit breaker (`src/circuit.ts`) | `state`, `failures`, `openedAt` per webhook | check, recordSuccess, recordFailure | trips on consecutive failures only; the cooldown ends |
| Rate limiter (`src/ratelimit.ts`) | `tokens`, `ts` per webhook | take | never more than capacity and rate allow; a deferral is long enough, up to rounding |
| Retry backoff (`src/backoff.ts`) | none | backoffMs, isRetryable | delays stay within their bounds |
| Schema and migrations (`migrations/001_init.sql`, `src/migrate.ts`) | the schema, `schema_migrations`, the transaction of each run | apply pending files | each file once and in order, recorded exactly if applied, even if runs meet or die |
| Dashboard, dead-letter tab (`web/src/hooks.ts`, `App.tsx`, `DlqPanel.tsx`) | polls under way, the list on show, replays under way | poll, open and leave the tab, pause, Replay all | the list catches up with the DLQ; Replay all replays what it lists |
| Connections (`src/redis.ts`, `src/db.ts`) | commands sent and not answered | resend after a reconnect, quit, close | nothing worse than a duplicate comes of a command executed twice |
| Webhook registry, HTTP surface, configuration, the rest of the dashboard | rows that the code inserts and reads | CRUD, validation, display | no protocol of their own |

What is hard here, and what a unit test hardly reaches, is listed line by line
under `hazards` in `PROJECT.json`. In short: (a) two-command sequences across
one or two stores with a death in between (reserve, dead-and-bury, pop-and-reset,
insert-and-push); (b) a lease that lapses under a live worker, so that two of
them hold one job and write what they read before; (c) scripts of the scheduler,
of workers and of replays that move the same id; (d) commands whose failure says
nothing about whether they ran; (e) a leader that stalls, dies or stops at any
await; (f) late results that reach a breaker that has moved on, and clocks that
disagree; (g) progress: a chain of five processes each of which must hand a job
on; (h) commands that a client library executes twice, and answers of polls that
overtake one another; (i) two migrations at once, and one that dies at COMMIT.

## 2. The modules

```
                        (refines) Lifecycle
                            |
 Queue <- Delivery <- DeliveryProperties <- DeliveryInvariant <- MCDelivery
   |                        ^                     ^
   |                        |                     +- DeliveryProofs <- CustodyProofs <- AgreementProofs
   |                        |                            <- OutcomeProofs
   |                        +- Shutdown <- MCShutdown         DuplicateProofs
   |                              ^------------------------------'
   +--- Dashboard --.
 Migrate -----------+-- MCPrograms <- ProgramsProofs
 Leadership --------'
 Idempotency <- MCIdempotency, IdempotencyProofs
 Circuit, RateLimit <- Gates <- MCGates, GatesProofs
```

**`Queue`** is `queue.ts`: the five keys and one operator per command or script.
A script runs to its end in Redis, so it is one step, all its commands in it.
`inflight` is a count per id because only `LREM 1` is ever applied to that list;
`ready` and `dlq` are sequences because order decides who is taken next. Scores
of sorted sets are reduced to what scripts ask of them: whether they are in the
past (`held`/`lapsed`, `waiting`/`due`). `Batches` is
`ZRANGEBYSCORE ... LIMIT 0 n`: any choice of that many ids, as the scores that
would order them are not kept.

**`Delivery`** composes the queue with the rows and the processes. A process has
an `at`, the command it sends next, so an action is the code from one await to
the next:

| Action | Code |
|---|---|
| `InsertJob`, `PushJob`, `PushFails` | enqueue: INSERT, then push to ready or delayed (the key's slot is `Idempotency`'s) |
| `Claim`, `Lease` | reserve: BRPOPLPUSH, then ZADD |
| `Load` | process: findById; a row that is gone or terminal is acked |
| `Defer` / `Proceed` | a gate said no (back to queued, no attempt spent) / both said yes (in_flight) |
| `Number`, `Post`, `Record` | deliver: MAX+1, the request and its class of answer, the INSERT under its foreign key and unique number |
| `Settle`, `Release` | updateState with incrementAttempts under the CHECK, then ack, retryLater or deadLetter |
| `Abandon` | the worker dies, is shut down or process throws: nothing is released |
| `PopDead`, `ResetDead`, `PushReplayed`, `ReplayStops` | one turn of replay, and an end to it between any two |
| `Promote`, `Reap` | the scheduler's sweeps; at any moment, by any number of schedulers, so nothing here relies on the election |
| `DelayElapses`, `LeaseLapses` | time |
| `Cascade` | a webhook is deleted in Postgres and takes its jobs along |
| `Resent` | ioredis loses the reply of a command with the connection and sends it again: the pushes of a submission and of a replay, the BRPOPLPUSH and the SET of reserve, the scripts of ack, retryLater and deadLetter, and the RPOP of popDlq |

What a worker read at `load` and uses at `settle` (`job.attempts`) is its
`seen`; the attempt number it read before the request is its `number`: both can
go stale, which is what `ReadsAreFresh` is about. `confirmed` counts the 2xx answers
that workers have received for a job; no variable of the code keeps it. It is not what
the endpoint has seen: a request that was processed and whose answer is lost, or later
than `TIMEOUT_MS`, has no status (`delivery.service.ts:118-121`), is retryable
(`backoff.ts:54`) and for `Post` the same as one that never arrived.

Five kinds of failure can be switched on by `Faults`: a worker stopping inside
reserve, a worker slower than its lease, a command that is executed twice, a replay
that stops half-way and a cascade. That way a run says under which of them a
property holds. `OneCopy` names the case in which a job has one owner: no slow
workers and no resent commands.

**`Shutdown`** adds the orderly end of a worker to `Delivery`, whose actions it uses
for the consume loop and everything around it. `stage` is the await of shutdown at
which a worker is, `ahead` the command that was sent on a connection before QUIT was:
a connection executes in order, so a command in front of QUIT still takes effect and
one behind it is rejected.

| Action | Code |
|---|---|
| `ClaimNext`, `BlockEnds` | `while (running)`, reserve: the claim, also by a BRPOPLPUSH that was blocked when the signal came, or the end of BLOCK_SECONDS |
| `Work`, `Rejected` | process goes on, while its connection does / its command is rejected and the loop ends |
| `Signal` | `running = false`, QUIT on the connection of the loop |
| `QuitBoth` | that QUIT is answered, QUIT on the other connection |
| `Exit` | closePool and process.exit, whatever is in hand |

**`DeliveryProperties`** states the properties, **`DeliveryInvariant`** what makes
them inductive. **`Lifecycle`** is the abstract specification: one job, seen from
outside, is pending until it is answered or given up. `Delivery` implements it
under the refinement mapping at the end of the first group of properties: queued
and in_flight are both "pending", the lists, leases and workers are invisible.

**`Idempotency`** is one `(tenant, key)` and several executions of enqueue (the
client's retries among them). A command that throws has or has not been executed.
The faults of a behaviour are chosen at its start among all sets of six, commands
sent twice among them, and each property says which sets it survives.

**`Leadership`** is the lock and the schedulers. A process is one event loop on one
connection, so an action is a command together with the code that led to it, and
its reply comes later, when a signal may have come first. Time is a clock that
counts down the TTL and the sleeps.

**`Circuit`**, **`RateLimit`** are the scripts of the two gates; **`Gates`** drives
them with jobs of one webhook as process does, with a clock, the TTLs of both
keys, and workers whose clock may be ahead of that of Redis by a member of
`Skews`. A token is `Cost` units, so that what accrues in a millisecond is a whole
number of them. The script adds doubles instead, and a sum may come out a rounding
error below that number; the errors are far smaller than a unit, so it is enough to
know whether there is one, which is the bucket's `short`. `Roundings` says which are
possible after a refill (adding no time changes nothing, the capacity cuts off what
exceeds it) and the step may take any; `Covers` compares as the doubles would, and
`RetryAfters` has the two waits that the ceiling of a rounded quotient can give. A
double above the whole number lets nobody through who has not a token, so that there
is no field for it.

**`Migrate`** is `migrate.ts`: several runs of `pnpm migrate`, an action per query.
Statements and the row that records a file become visible together at COMMIT; until
then the primary key, and the objects that most files create, make another run of
the same file wait (`Waits`). Queries may throw, the reply of COMMIT may be lost, a
run may be killed and its session linger, a file may be added between two runs.

**`Dashboard`** is the dead-letter tab over the DLQ of `Queue`: `usePolling` with any
number of requests under way whose answers arrive in any order, the tab and the
Live button that start and stop it, and Replay all, which asks for a number of
replays. What else happens to jobs is only that they are buried. `current` and
`expected` are not data of the program: they say whether the list that was
confirmed was all of the DLQ and still is.

**`MCPrograms`** puts `Leadership`, `Migrate` and `Dashboard` into one run: they share
no state, so a behaviour chooses one of them at its start and leaves the variables
of the others alone.

Operators under "Seeded mistakes" are used by no definition. Each is a slip that
could be made in the operator its name begins with; put in its place, it makes
the property paired with it in `PROJECT.json` fail.

## 3. The runs

Each is `tlc -config <module>_<run>.cfg <module>`. Deadlock is checked only in
`programs`: elsewhere behaviours end where a bound is used up or every job is
settled.

| Run | Question | Instance |
|---|---|---|
| `custody` | Whatever dies, is replayed or deleted, is an id in one place, with one worker, do the stores agree and is `Lifecycle` implemented? | 2 jobs, 2 workers, 2 operators, batch 1, budget 2, every fault but `slow` and `resend` |
| `slow` | What holds even when two workers deliver one job? | 1 job, 2 workers, 1 operator, every fault, two slips |
| `liveness` | Is every accepted event settled, every claim released, and until then every job deliverable and every claim reapable? | 2 jobs, 1 worker, 1 operator, batch 2, cascades, deaths anywhere but inside reserve, no symmetry |
| `shutdown` | What does a SIGTERM cost, at any await, and does the worker exit? | 2 jobs, 2 workers, one of which is told to stop |
| `keys` | Which promises of an idempotency key survive which faults? | 3 executions, 3 ids, all 64 sets of faults |
| `programs` | Who sweeps, who touches the lock, how long is nobody sweeping, do sweeps go on? Do schema and record agree, and do files get applied? Does the list catch up, and is it what is replayed? | 2 schedulers, TTL 5, interval 2, all 4 sets of faults; 2 runs, 2 files, one of which creates, 2 failures; 2 jobs, a list cut at 1, 2 polls and 2 replays under way |
| `gates` | Are the breaker and the bucket exact under races, late results and TTLs? | 3 jobs, threshold 2, cooldown 3, rate 2/3 of a token, capacity 2 tokens, 7 units of time |
| `parked`, `undertaker`, `stolen`, `twice`, `skewed` | Counterexamples to five comments, see section 5 | smallest that shows each |

**What they show.**
`custody` is about workers that keep to the visibility timeout. There `SingleCustody`
and `OwnedByOneWorker` say that no interleaving of the scripts duplicates an id,
`StoresAgree` that every pair of writes across the stores is in an order that no reader
can misread, `AuditNeverCollides` and `BudgetNeverOverdrawn` that read-then-insert
without a lock and the CHECK never reject a delivery's outcome, and
`SecondAnswerNeedsADrop` that an event is sent and answered again after a worker has
received a 2xx for it only if a worker dropped the job (a replay takes no job with a 2xx
recorded). How often the endpoint sees an event is another matter: each answer that is
lost or late is followed by another request without any drop, until the budget is spent,
and the receiver has the `idempotency-key` header to dedupe on. `liveness` excludes the
one death that loses a claim, finds none else, and shows that what can be delivered is.
`slow` admits everything and keeps two safety nets: the budget pays for recorded
requests only, and success needs a 2xx. `shutdown` shows that the four awaits never wait
for one another or for the job in hand, that one signal parks at most one claim and
makes an event that was answered 2xx be sent and answered once more at most, and that
the workers left settle all that was not parked. `keys` shows that one job per key needs
creations that do not throw, while one creator at a time needs no more than slots and
rows that stay and an abort that is not sent twice, and never telling a client of an
unqueued job needs nothing at all. `programs` shows that a handover costs at most a TTL
and an interval, even when shutdown orphans a lock, and that stalls cost exclusivity but
never another's lock; that no schedule of runs, deaths and lost replies applies a file
twice, out of order or without its record, and that exit 0 means that all that was on
disk is applied; and that the list becomes the DLQ once that is at rest, whatever polls
did before, while Replay all replays a job that is not listed only if the list was cut
or somebody else replayed meanwhile. `gates` shows that failures of requests that were
on their way when the circuit opened put the end of its window off, but by no more than
one request takes, that the tokens spent never exceed what has accrued, and that at
`retryAfterMs` a token has accrued, which the doubles agree to within a millisecond.

**Bounds.** Every bound is a CONSTANT in a guard. `MaxAbandons` (a worker drops
each job once), `MaxSlips` (leases that lapse under a live worker and commands
executed twice: two, so that one can meet the other),
`MaxReplays`, `MaxAudit` (attempt rows of one job), `MaxNow`, `Stopping`,
`MaxFails` and `MaxPolls`. Two jobs are
enough for an id to be behind another in a list and for a batch to leave one
out; two workers and two operators for each pair of steps of two processes to
race; a budget of two for a first, a middle and a last attempt around a replay;
one abandonment per job for a death at each step, a redelivery, and a death at a
different job meanwhile. In `custody` the limit on attempt rows never bites: with both
replays spent on it, a job has three lives of two attempts and one dropped one, which
is seven of nine. In `slow`, `MaxAudit` does bite:
two workers can circle for ever (see `stolen`). `gates` has room for a trip, the
cooldown, a probe, a second trip and the TTL of either key within its 7 units.
`Leadership` and `Idempotency` have no bound but their sets; `idle` saturates
above anything `NeverLongUnswept` compares it with. In `shutdown` a worker that
stops and one that stays are enough for a claim to be parked, a delivery to be cut
off and another worker to take it up. In `programs` two runs meet in each pair of
queries, two failures let one run lose its COMMIT while the other dies, two files
give a later one and a directory that has it not yet; a list cut at one of two
jobs, two polls and two replays are the least with which answers overtake one
another and replays pop side by side.

**Fairness.** `Delivery`: a consume loop goes on with the job it holds, since each
await resolves or throws (requests have a timeout, and a throw is `Abandon`);
someone claims while something is ready; the scheduler ticks; the clock runs; a
replay that has an id in hand goes on. `Proceed` is strongly fair: an open breaker
lets a probe through after its cooldown and an empty bucket refills, so a job
that keeps coming back is let through at some visit, though at none in
particular. Clients, operators and faults owe nothing. `Shutdown`: the same, and
BRPOPLPUSH returns after BLOCK_SECONDS, QUIT is answered in its turn, closePool
waits for queries only. `Migrate`: a run goes on, Postgres ends the session of one
that was killed, and deployments run it again. `Dashboard`: the interval goes on, and
of the polls now and then one is answered and arrives (strong fairness: the others
may be lost or late for ever). `Leadership`: the clock
and every process's loop go on, however long it stalls; one scheduler is left
running.

## 4. The proofs

For every number of jobs, workers, operators, executions, every budget, batch
size and every value of the bounds, from the named assumptions on the constants
alone:

| Theorem | Statement |
|---|---|
| `DeliveryProofs!TypeCorrect` | `Spec => []TypeOK` |
| `DeliveryProofs!SuccessIsAnswered` | whatever the faults, `[]SucceededWasAnswered` |
| `DeliveryProofs!BudgetPaysRequests` | whatever the faults, `[]BudgetSpentOnAttempts` |
| `CustodyProofs!JobHasOneOwner` | under `OneCopy`, `[]OwnedByOneWorker`, and nobody takes a claim from under its worker |
| `CustodyProofs!JobIsInOnePlace` | under `OneCopy`, `[]SingleCustody` |
| `AgreementProofs!RowsAndListsAgree` | under `OneCopy`, `[]StoresAgree` |
| `AgreementProofs!AuditAcceptsAttempts`, `CheckAcceptsOutcomes` | under `OneCopy`, `[]AuditNeverCollides` and `[]BudgetNeverOverdrawn`: neither the unique number nor the CHECK ever rejects a write |
| `OutcomeProofs!NothingIsLost`, `ClaimsCanBeReaped` | under `OneCopy`, and if nobody stops halfway through reserve or replay, `[]NoJobStranded` and `[]EveryClaimIsReapable` |
| `OutcomeProofs!PlatformIsLifecycle` | under `OneCopy`, `Spec => ImplementsLifecycle` |
| `DuplicateProofs!AnswersRepeatByDrops` | under `OneCopy`, `[]SecondAnswerNeedsADrop`: of the 2xx that workers have received |
| `DuplicateProofs!SignalsRepeatOneEach`, `SignalsParkOneEach` | under `OneCopy`, `StopSpec => []SecondAnswerNeedsASignal` and `[]OneParkedJobPerSignal` |
| `IdempotencyProofs!KeysAreTyped` | whatever the faults, `[]TypeOK` of `Idempotency` |
| `IdempotencyProofs!AnswerIsKept` | whatever the faults, `[]AnsweredWasPushed` |
| `IdempotencyProofs!OneCreator` | `[]OneCreatorAtATime` |
| `IdempotencyProofs!OneJobPerKey`, `OneAnswerPerKey` | `[]AtMostOneJob` and `[]SameAnswer` |
| `IdempotencyProofs!PendingIsOwned` | `[]PendingHasOwner` |
| `GatesProofs!GatesTypeCorrect` | `[]TypeOK` of `Gates`, whatever the clocks |
| `GatesProofs!StateFollowsCount`, `BreakerCountsFailures` | `[]CountMatchesState` and `[]OpenWasEarned`, whatever the clocks |
| `GatesProofs!CooldownEnds` | with one clock, `[]WindowIsBounded` |
| `GatesProofs!BucketIsExact`, `DeferralIsLongEnough` | with one clock, `[]PaceKept` and `[]RetryFindsToken` |
| `ProgramsProofs!OneLeader` | `Spec => []SweeperHoldsTheLock` of `Leadership` |
| `ProgramsProofs!OnlyTheOwner` | `Spec => OwnersOnly`, what a step may never do to the lock, stalls included |
| `ProgramsProofs!SweepsComeInTime` | `Spec => []NeverLongUnswept`, for every TTL longer than the interval |
| `ProgramsProofs!SchemaMatchesRecord` | `MigrateSpec => []SchemaIsRecorded`, whatever fails |
| `ProgramsProofs!ExitZeroTellsTheTruth` | `MigrateSpec => []ExitZeroIsUpToDate`, whatever fails |
| `ProgramsProofs!ReplayKeepsToTheList` | `DashboardSpec => []CurrentListIsReplayed` |
| `ProgramsProofs!ProgramsAreTyped` | `ProgramsSpec => []ProgramsTypeOK`, for the three side by side |

Each theorem states one invariant (or action property) of a passing run, and between
them they state all of those: what TLC finds true of a small instance holds for every
value of the constants that the assumptions admit. The assumptions are what the code
needs to make sense (finite sets of processes, positive sizes, a TTL longer than the
interval at which it is renewed). Where a property is itself an implication (`Lasting`,
`Orderly`, `faults = {}`), its hypothesis is a set of faults, which `keys` and `programs`
range over, the sets that fulfil it and those that do not.

**The argument for `Delivery`.** None of the properties is inductive. "In one
place" survives a script that moves an id only if the id was where the process
that sends the script believes it to be, and that belief is right only if nobody
moved it meanwhile. So `Custody` says both at once: the five places exclude one
another (`OnePlace`), none holds an id twice (`NoCopies`), a worker's job is in
flight and leased exactly from the end of reserve (`Claims`), two workers never
have the same (`OwnedByOneWorker`), no lease outlives its claim
(`LeasedIsInFlight`), an id not yet pushed is nowhere (`NotPushedYet`). The
hypothesis `OneCopy` enters at two points: `LeaseLapses` needs that no worker holds
the job, so `Reap` takes only claims whose worker is gone, and `Resent` never
happens.

`Agreement` builds on it. Given that a job has one owner, what a worker read
stays true until it uses it (`ReadsAreFresh`), the row is what its last step left
there (`RowMatchesStep`), and a job that can still be delivered has budget left
(`BudgetLeft`); from these, `StoresAgree`, and the two constraints never fire.
`CustodyProofs` and `AgreementProofs` each have one lemma per kind of step, on top
of lemmas about the list operators (`AppendList`, `PopList`, `ConcatList` in
`DeliveryProofs`). `TypeOK` needs `Employed` only. `ClaimIsKept`, `LeasedIsInFlight`,
`Custody` and `Agreement` are in no run: they are proved, and what they are for is.

What holds with several workers on one job rests on no ownership. For
`SucceededWasAnswered`: who carries a 2xx has one that was counted, for the job it
still holds (`AnswerWasGiven`), and counts only grow. For `BudgetSpentOnAttempts`: the
attempts spent and the workers that have recorded one and not yet spent it
(`Settling`) are together no more than the attempts on record (`PaidFor`), for rows
that exist; one that is gone has spent nothing.

Given both, `Recovery` (`NoJobStranded` and `EveryClaimIsReapable` together) is
inductive: whoever takes an id from where it could be found leaves it somewhere
else, or has made its row one that asks for no delivery. The hypothesis
`Faults \subseteq {"cascade"}` excludes the two stops that `parked` and the code's
own order of replay expose: between BRPOPLPUSH and ZADD, and between RPOP of the DLQ
and the push. Stops anywhere else, deferrals and deletions are in.

`Duplicates` strengthens `SecondAnswerNeedsADrop`: the one 2xx that no abandonment
accounts for belongs to a job that nobody will request again. Its worker is about to
write the answer down, or the row is `succeeded` or gone and nobody is past the point
where the row is looked at (`Answered`). So `Post` finds none, a rejected insert
only happens to a row that is gone, and `Settle` leaves `succeeded` behind, which a
replay never touches because it takes dead rows only.

For `Shutdown`, each step is one of `Delivery` or changes none of its variables
(`StopStepIsDelivery`), so what is proved of `Delivery` holds of it too; and a worker
that dropped a job while it was told to stop never takes another (`Gone`), so that
the abandonments of a job are no more than the signals (`Dropped`).
`OneParkedJobPerSignal` counts. A parked claim is either in the hands of a worker that
was told to stop and whose ZADD will be rejected, or it is an orphan: in flight, without
a lease, and in nobody's hands. The first kind is one per such worker. The second is
what a worker leaves behind when it gives up in front of its ZADD, so that orphans are
no more than the workers that are `Gone` (`OrphansAreFew`); every other step that takes
a lease away or puts an id in flight does so where `Custody` knows the holder. A told
worker holds a claim or is gone, never both, so the two kinds together are no more than
`Told`.

For the refinement each step of `Delivery` is mapped to a step of one job of
`Lifecycle` or to none. `Agreement` supplies what the mapped step asks for: the row
that `Settle` writes is the live one that was loaded, with the budget that was
loaded, and an outcome of 2xx was counted; `ResetDead` finds a dead row or none.
`DeletedSpentNothing` makes a replay of a deleted row invisible.

**The argument for `Idempotency`** is a chain: what names a job names one that
was pushed (`NamesArePushed`, for `AnsweredWasPushed`); a slot that nobody expires
belongs to one execution from begin to the end of complete or abort
(`SlotIsOwned`, for `OneCreatorAtATime`); and if nothing throws, the job that
exists is the one its creator and the slot name (`OneJobKnown`, for
`AtMostOneJob` and `SameAnswer`).

`PendingHasOwner` is inductive as it stands. The one step that could break it is
the end of the owner, and each of its branches either takes PENDING out of the
slot or is excluded with the fault that takes that branch.

**The argument for `Gates`.** For the breaker, `Counted`: state and count move
together, and the count is at most the failures recorded since the last success.
`Windowed` then follows the deliveries that are under way: while the circuit is
open, whoever is between the gates got there at the moment of the trip, and whoever
delivers began before it, so what they report comes within one timeout. For
the bucket, `Accounted`: what was spent and what is left is within what has
accrued, and a job that was deferred finds the level high enough at the later of
its time and now, and after its time high enough for every rounding (`Certain`). Four
lemmas carry it: a level grows by at most the rate (`LevelBounds`), writing a refill
back changes no later level (`LevelRebased`), either wait is one in which the rest of
a token accrues (`WaitSuffices`), and a millisecond after a level of one token the
doubles are above it or cut off at the capacity (`CertainLater`). That a second job,
refused by a rounding, could set the first one back is excluded because it is refused
only where nobody is certain. The TTL is long enough because by then the bucket would
be full anyway. "With one clock" is the hypothesis
`Skews = {0}`, without which `skewed` refutes the cap.

**The argument for `Migrate`.** `SchemaIsRecorded` alone does not survive COMMIT. What
COMMIT needs is that the file it makes visible is recorded by nobody and being
recorded by no other run (`OneRecorder`, which is the primary key at work: `RecordFile`
waits, or fails), that it is the first that is missing, and that the transaction has
both its parts. The last two are `RunsKeepTrack`: what a run has listed and not to do is
recorded, so the least of what it has to do is the next of all files. Neither needs the
other runs to be alive, nor any file to be in `Creating`. A lost reply of COMMIT
leaves the run in front of a ROLLBACK with nothing in its transaction. `ExitZeroIsUpToDate`
is `RunsKeepTrack` of a run that has nothing left to do.

**The argument for `Dashboard`.** That a job in hand is `expected` rests on the past
of the list that was confirmed. The invariant says what such a list promises: an answer
that is still current names every id that as many pops as it has rows will find
(`IsTrue`, for the view and every answer under way), because the DLQ has only grown
behind them since; a replay that keeps to a list will find the rest of its ids there
(`ReplaysKeepToTheirList`). `ReplayPops` of one click is what spoils the promise for all
answers and all other clicks, which is why it sets `current` and `expected` as it does.
A ghost is never listed and still counts as a pop, hence `rows \cup ghosts`.

**The argument for `Leadership`** has two layers. A token is known to one process at
most, as its `lock` or as a reply under way (`TokensAreDistinct`), and as there are more
tokens than schedulers one is always fresh. From that, a TTL that every lock has
(`LockEnds`), and `SweeperHoldsTheLock` itself, which the three together make
inductive, follows `OwnersOnly`: the key that a step deletes or prolongs is that of
the process whose step it is, or has run out.
The second layer is time. `NeverLongUnswept` bounds `idle` from above, and its
invariant `OnTime` says how much of the bound is left in each of the three states
the lock can be in: a live leader holds it, and sweeps before the sweep is late and
before the TTL ends (`LeaderIsInTime`); one that stopped left it behind, and it runs
out while the budget covers it (`OrphanRunsOut`); or it is free, and whoever wakes up
next takes it (`FreeLockIsTaken`). `Budget` is what the stops so far pay for: a crash
or a signal, at any await, adds a TTL and an interval to it, which is what the lock it
leaves behind can cost (`HandoverOnTime`). That a scheduler is left to wake up
(`SomebodyRuns`) is what the model asks of crashes and shutdowns.

**Model-checked only.** Liveness (`EventuallySettled`, `ClaimsAreReleased`,
`ToldWorkersExit`, `SettledUnlessParked`, `SchedulersSweepOn`, `MigrationsGetThere`,
`DashboardCatchesUp`), which is beyond the prover, as it needs ENABLED of the fair
actions. The refinement is of safety: no fairness of `Lifecycle` is stated, and progress
is `EventuallySettled`.

## 5. Where code and comments differ

Five runs end in a counterexample, each to a sentence of the repository:

- `parked`: an idle worker that is told to stop waits in BRPOPLPUSH with QUIT behind
  it (`worker.ts:88`). If a job comes, it is claimed (`queue.ts:81`) and the ZADD of its
  lease (`queue.ts:89`) comes too late. `queue.ts:73-75` says that reapExpired handles
  a claim without a lease; reapExpired reads leases only, so the job stays in flight
  for ever. A worker that dies between the two commands leaves the same.
- `undertaker`: a worker that stops between the UPDATE to dead
  (`job.service.ts:229`) and deadLetter (`:235`) has its job redelivered, found
  terminal and acked. The dead job is in no DLQ (`queue.ts:139-141`).
- `stolen`: after one lapsed lease two workers spend the budget together; the
  CHECK then rejects each later UPDATE, process throws, and the job is delivered
  again after every lease. `queue.ts:40-41` puts the cost at one duplicate.
- `twice`: a push or complete that throws after Redis ran it makes the catch free
  the slot (`job.service.ts:108-116`), and the retry queues the event again, which
  is what `idempotency.ts:5-9` says the keys prevent.
- `skewed`: `ts` is set from the caller's clock even when that is behind
  (`ratelimit.ts:67`), so two workers whose clocks differ mint tokens each time
  they alternate. `ratelimit.ts:21-23` calls the count exact.

Others that the models show and that have no run of their own:

- Two slow workers can read the same attempt number, and the second INSERT is
  rejected after its request was sent; `delivery.repository.ts:33-34` excludes it
  by ownership, which a lapsed lease breaks.
- A replay that stops between popDlq and resetForReplay (`job.service.ts:286-289`)
  loses the id; the row stays dead and on no list.
- Two duplicates of a key whose row was deleted both create a job
  (`job.service.ts:50-66`), which is why `OneCreatorAtATime` asks for rows that stay.
- A scheduler told to stop while acquire is under way has no `lock` to release
  and orphans the one it gets until the TTL, despite "hand off leadership
  immediately" (`scheduler.ts:112-113`); told to stop between its two sweeps, it
  sends one more after its release. Both are within `NeverLongUnswept`, and
  `SweeperHoldsTheLock` is stated for schedulers that run.
- "Let the in-flight job finish" (`worker.ts:83`): shutdown does not wait for process,
  and `process.exit` cuts off a request that may have been answered 2xx; hence
  `SecondAnswerNeedsASignal` allows one more answer for each signal.
- A deferred job can come back to a bucket that is a rounding error short of a token:
  at 5 tokens a second, 0.1 token and a wait of 180 ms make 0.1 + 0.18 * 5 =
  0.9999999999999999, and a lone job is deferred once more, by a millisecond. The
  comment says "roughly" (`ratelimit.ts:73`), hence the two parts of `RetryFindsToken`.
- A creation that throws and an abort that is sent twice can free the slot of
  another execution, and two create a job: `Exclusive` excludes it.
- An answer that Postgres cannot store (a NUL character in the body) makes the INSERT
  of the attempt throw after each delivery. Each time is an `Abandon` at `record`; as
  nothing is spent, nothing ends it, which is why liveness bounds abandonments.
- Replay all is told a number. It replays the oldest ids of the DLQ while the list has
  the newest 200, an id without a row uses up a turn, and leaving the tab and coming
  back enables the button beside a replay that goes on.
- A file whose name sorts before one that is applied is applied after it;
  `SchemaIsRecorded` is about files that come in the order of their names.

## 6. What is left out

- Contents: payloads, headers, signatures, log lines, the text of errors. A
  status is one of ok, retryable, permanent (`isRetryable` decides which).
- What an endpoint has processed. The code knows answers only, and so do the
  properties: duplicates from lost or late answers are not counted, each of them spends
  an attempt.
- The size of rounding errors: that they add up to less than a unit of the bucket, a
  millisecond's worth of tokens, is assumed. They start anew whenever it is full.
- `runAt` and `lastError` of a row: written, shown, read back by no decision.
- Real durations in `Delivery`: a lease or a delay is over or not. `Leadership`
  and `Gates` have clocks because their properties are about durations.
- Redis and Postgres as such: no loss of acknowledged writes, no failover.
- Second executions of other commands than those of `Resent`: a sweep run twice is two
  sweeps, and a resent acquire finds its own key and fails, which is `TickFails` of
  `Leadership` with the lock taken. Postgres statements are never sent twice.
- The order within a batch of equal standing: any order is allowed.
- Rows created by other means than the code; a webhook is deleted in Postgres only
  (there is no endpoint), which is what `cascade` stands for.
- The values of `backoffMs`: with full jitter a delay is anything from zero to its
  cap, so `DelayElapses` may come at any moment.
- Configuration, logging, errors and types: no state. The other tabs and panels of the
  dashboard only show answers of the same hook, or post an event. The load test is a
  client that measures.

## 7. The plan

In order of what each tells about the system:

1. Proofs: the lemmas about lists that `Dashboard` and `Delivery` both need are stated in
   two modules, and could be one; `OneParkedJobPerSignal` and `SecondAnswerNeedsASignal` lean
   on `OneCopy`, and how much of them survives a resent command is open.
2. *Abandonment without a bound* for a job whose step fails each time (an answer that
   cannot be stored), with what liveness is left of the others.
3. *The breaker in `Delivery`*: `Gates` and `Delivery` composed, so that strong fairness
   of `Proceed` follows from the cooldown and is not assumed.
