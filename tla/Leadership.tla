----------------------------- MODULE Leadership -----------------------------
(***************************************************************************)
(* Which scheduler sweeps: the lock with a TTL (src/lock.ts) and the loop, *)
(* tick and shutdown of entrypoints/scheduler.ts.                          *)
(*                                                                         *)
(* A process is an event loop with one Redis connection: its commands are  *)
(* executed in the order it sends them, and what it does between receiving *)
(* a reply and sending the next command nothing can come between.  So one  *)
(* action is one command together with the code that leads up to it, and   *)
(* afterwards the reply is on its way; a signal may arrive then.           *)
(*                                                                         *)
(* Time is counted in units of which Interval make a TICK_INTERVAL_MS.     *)
(***************************************************************************)
EXTENDS Naturals, FiniteSets

CONSTANTS
    Schedulers,
    Tokens,      \* random tokens; one is never used again while it is in use
    NoToken,
    Ttl,         \* LOCK_TTL_MS
    Interval,    \* TICK_INTERVAL_MS
    FaultSets    \* the sets of faults to consider, one per behaviour

AllFaults ==
    { "stall",    \* a process may pause for longer than the lock lives
      "reject" }  \* a command of a tick may throw, executed or not

ASSUME LeadershipAssumption ==
    /\ IsFiniteSet(Schedulers) /\ IsFiniteSet(Tokens)
    /\ Cardinality(Tokens) > Cardinality(Schedulers)
    /\ NoToken \notin Tokens
    /\ Interval \in Nat \ {0}
    /\ Ttl \in Nat /\ Ttl > Interval
    /\ FaultSets \subseteq SUBSET AllFaults

VARIABLES
    key, ttl,  \* lock:scheduler in Redis, and what is left of its life (0: no TTL)
    at,        \* where each loop is
    timer,     \* what is left of its sleep
    lock,      \* the module variable of the same name
    reply,     \* what renew or acquire will make of lock
    stop,      \* how far shutdown is
    idle,      \* time since somebody last completed a sweep
    faults     \* what may go wrong in this behaviour; never changes

vars == <<key, ttl, at, timer, lock, reply, stop, idle, faults>>

MaybeToken == Tokens \cup {NoToken}

\* What a leader that stops can cost: its lock lives on, and the next process
\* to wake up does so at the end of its interval.
Handover == Ttl + Interval
LongIdle == Interval + Cardinality(Schedulers) * Handover   \* bound of idle

TypeOK ==
    /\ key \in MaybeToken /\ ttl \in 0..Ttl
    /\ at \in [Schedulers -> {"asleep", "asked", "promoted", "gone"}]
    /\ timer \in [Schedulers -> 0..Interval]
    /\ lock \in [Schedulers -> MaybeToken]
    /\ reply \in [Schedulers -> MaybeToken]
    /\ stop \in [Schedulers -> {"running", "releasing", "quitting", "exited"}]
    /\ idle \in 0..LongIdle
    /\ faults \in FaultSets

\* Processes start at different moments of the interval.
Init ==
    /\ key = NoToken /\ ttl = 0
    /\ at = [s \in Schedulers |-> "asleep"]
    /\ timer \in [Schedulers -> 0..(Interval - 1)]
    /\ lock = [s \in Schedulers |-> NoToken]
    /\ reply = [s \in Schedulers |-> NoToken]
    /\ stop = [s \in Schedulers |-> "running"]
    /\ idle = 0
    /\ faults \in FaultSets

Set(f, s, value) == [f EXCEPT ![s] = value]

InUse == {key} \cup {lock[s] : s \in Schedulers} \cup {reply[s] : s \in Schedulers}
RandomUUID == CHOOSE t \in Tokens : t \notin InUse

-----------------------------------------------------------------------------
(* Seeded mistakes.  Each is a plausible slip in the operator its name     *)
(* begins with; no definition uses them.                                   *)

\* SET without NX.
AcquireWithoutNX(answer) == key' = RandomUUID /\ ttl' = Ttl /\ answer = key'

\* SET without PX.
AcquireWithoutTtl(answer) ==
    \/ key = NoToken /\ key' = RandomUUID /\ ttl' = 0 /\ answer = key'
    \/ key # NoToken /\ UNCHANGED <<key, ttl>> /\ answer = NoToken

\* The new TTL is added to what is left of the old one.
RenewAdding(token, answer) ==
    \/ key = token /\ ttl' = ttl + Ttl /\ UNCHANGED key /\ answer = token
    \/ key # token /\ UNCHANGED <<key, ttl>> /\ answer = NoToken

\* DEL without looking at the token.
ReleaseAnybodysKey(token) == key' = NoToken /\ ttl' = 0

\* A lost lock is logged and not forgotten.
FollowKeepingLock(s) ==
    /\ at[s] = "asked" /\ reply[s] = NoToken
    /\ at' = Set(at, s, "asleep") /\ timer' = Set(timer, s, Interval)
    /\ UNCHANGED <<key, ttl, lock, reply, stop, idle>>

-----------------------------------------------------------------------------
(* lock.ts: what the three commands do to the key.                         *)

\* SET NX PX; the answer is the token, or null if somebody holds the lock.
Acquire(answer) ==
    \/ key = NoToken /\ key' = RandomUUID /\ ttl' = Ttl /\ answer = key'
    \/ key # NoToken /\ UNCHANGED <<key, ttl>> /\ answer = NoToken

\* PEXPIRE if the key still holds our token.
Renew(token, answer) ==
    \/ key = token /\ ttl' = Ttl /\ UNCHANGED key /\ answer = token
    \/ key # token /\ UNCHANGED <<key, ttl>> /\ answer = NoToken

\* DEL if the key still holds our token.
ReleaseKey(token) ==
    \/ key = token /\ key' = NoToken /\ ttl' = 0
    \/ key # token /\ UNCHANGED <<key, ttl>>

-----------------------------------------------------------------------------
(* tick.                                                                   *)

Awake(s) == at[s] = "asleep" /\ timer[s] = 0

\* Renew the lock we believe we hold, or try to take it.
AskRedis(s, answer) == IF lock[s] # NoToken THEN Renew(lock[s], answer) ELSE Acquire(answer)

Ask(s) ==
    /\ Awake(s) /\ stop[s] = "running"
    /\ \E answer \in MaybeToken :
        /\ AskRedis(s, answer)
        /\ reply' = Set(reply, s, answer)
    /\ at' = Set(at, s, "asked")
    /\ UNCHANGED <<timer, lock, stop, idle>>

Sleep(s) == at' = Set(at, s, "asleep") /\ timer' = Set(timer, s, Interval)

\* The reply assigns lock, and a follower's tick is over.
Follow(s) ==
    /\ at[s] = "asked" /\ reply[s] = NoToken
    /\ lock' = Set(lock, s, NoToken)
    /\ Sleep(s)
    /\ UNCHANGED <<key, ttl, reply, stop, idle>>

\* A connection that was told to quit takes no more commands; while the release
\* is on its way, the tick can still send the one command that its next reply
\* leads to.
CanSend(s) == stop[s] \in {"running", "releasing"}
Sent(s) == stop' = Set(stop, s, IF stop[s] = "releasing" THEN "quitting" ELSE stop[s])

Promote(s) ==
    /\ at[s] = "asked" /\ reply[s] # NoToken
    /\ CanSend(s) /\ Sent(s)
    /\ lock' = Set(lock, s, reply[s])
    /\ reply' = Set(reply, s, NoToken)
    /\ at' = Set(at, s, "promoted")
    /\ UNCHANGED <<key, ttl, timer, idle>>

Reap(s) ==
    /\ at[s] = "promoted"
    /\ CanSend(s) /\ Sent(s)
    /\ Sleep(s)
    /\ idle' = 0
    /\ UNCHANGED <<key, ttl, lock, reply>>

\* tick throws: the loop logs it, and sleeps as after any other tick.  lock is
\* assigned only by a reply.
TickFails(s) ==
    /\ "reject" \in faults /\ stop[s] = "running"
    /\ \/ /\ Awake(s)
          /\ UNCHANGED <<key, ttl>> \/ \E answer \in MaybeToken : AskRedis(s, answer)
          /\ UNCHANGED <<lock, reply>>
       \/ /\ at[s] = "asked" /\ reply[s] # NoToken
          /\ lock' = Set(lock, s, reply[s])
          /\ reply' = Set(reply, s, NoToken)
          /\ UNCHANGED <<key, ttl>>
       \/ /\ at[s] = "promoted"
          /\ UNCHANGED <<key, ttl, lock, reply>>
    /\ Sleep(s)
    /\ UNCHANGED <<stop, idle>>

-----------------------------------------------------------------------------
(* shutdown, and the end of a process.                                     *)

\* Some other scheduler is left; one that never ends is what liveness asks of.
Dispensable(s) == \E t \in Schedulers \ {s} : stop[t] = "running"

\* It reads lock at once: a tick that is waiting for acquire has not set it.
Shutdown(s) ==
    /\ stop[s] = "running" /\ Dispensable(s)
    /\ \/ /\ lock[s] # NoToken
          /\ ReleaseKey(lock[s])
          /\ stop' = Set(stop, s, "releasing")
       \/ /\ lock[s] = NoToken
          /\ stop' = Set(stop, s, "quitting")
          /\ UNCHANGED <<key, ttl>>
    /\ UNCHANGED <<at, timer, lock, reply, idle>>

Released(s) ==
    /\ stop[s] = "releasing"
    /\ stop' = Set(stop, s, "quitting")
    /\ UNCHANGED <<key, ttl, at, timer, lock, reply, idle>>

End(s) ==
    /\ stop' = Set(stop, s, "exited")
    /\ at' = Set(at, s, "gone") /\ timer' = Set(timer, s, 0)
    /\ lock' = Set(lock, s, NoToken) /\ reply' = Set(reply, s, NoToken)
    /\ UNCHANGED <<key, ttl, idle>>

\* The loop has ended, or what it still wants to send is refused.
Exit(s) == stop[s] = "quitting" /\ End(s)

Crash(s) == stop[s] # "exited" /\ Dispensable(s) /\ End(s)

-----------------------------------------------------------------------------
\* Nothing of s is due: its loop sleeps on, and no shutdown is under way.
AtRest(s) ==
    \/ stop[s] = "exited"
    \/ stop[s] = "running" /\ at[s] = "asleep" /\ timer[s] > 0

Minus1(n) == IF n = 0 THEN 0 ELSE n - 1

\* A process does what is due before a unit of time has passed, unless it stalls.
Elapse ==
    /\ "stall" \in faults \/ \A s \in Schedulers : AtRest(s)
    /\ timer' = [s \in Schedulers |-> Minus1(timer[s])]
    /\ ttl' = Minus1(ttl)
    /\ key' = IF ttl = 1 THEN NoToken ELSE key
    /\ idle' = IF idle = LongIdle THEN idle ELSE idle + 1
    /\ UNCHANGED <<at, lock, reply, stop>>

Tick(s) == Ask(s) \/ Follow(s) \/ Promote(s) \/ Reap(s)
Stopping(s) == Shutdown(s) \/ Released(s) \/ Exit(s) \/ Crash(s)

Next ==
    /\ \/ \E s \in Schedulers : Tick(s) \/ TickFails(s) \/ Stopping(s)
       \/ Elapse
    /\ UNCHANGED faults

Spec == Init /\ [][Next]_vars

Goes(s) == (Tick(s) \/ Released(s) \/ Exit(s)) /\ UNCHANGED faults
Clock == Elapse /\ UNCHANGED faults

\* The clock runs and every process goes on, however long it stalls.
Fairness == WF_vars(Clock) /\ \A s \in Schedulers : WF_vars(Goes(s))

FairSpec == Spec /\ Fairness

-----------------------------------------------------------------------------
Sweeping(s) == at[s] = "promoted" \/ (at[s] = "asked" /\ reply[s] # NoToken)

\* "Only the lock holder is the leader and does the work" (scheduler.ts:15-16):
\* a scheduler that does not stall longer than the TTL, and is not told to stop,
\* sweeps with its own token in the key, whatever dies and whatever throws.
SweeperHoldsTheLock ==
    "stall" \notin faults =>
        \A s \in Schedulers : Sweeping(s) /\ stop[s] = "running" =>
            key = IF at[s] = "asked" THEN reply[s] ELSE lock[s]

\* "A can only ever delete a lock it still owns" (lock.ts:24-27), nor extend any
\* other: the key changes hands by running out or by a release of its holder,
\* and lives longer only by a renewal of its holder, also after stalls.
OwnersOnly ==
    [][ /\ key # NoToken /\ key' # key =>
              ttl <= 1 \/ \E s \in Schedulers : lock[s] = key /\ stop'[s] # stop[s]
        /\ key # NoToken /\ key' = key /\ ttl' > ttl =>
              \E s \in Schedulers : lock[s] = key /\ Awake(s) ]_vars

\* "A truly dead leader is replaced quickly" (scheduler.ts:43): without stalls
\* and failing commands, sweeps are an interval apart, and each crash or
\* shutdown delays them by a TTL and an interval at most, whenever it comes
\* and whatever lock it orphans.
Stopped == {s \in Schedulers : stop[s] # "running"}
NeverLongUnswept ==
    faults = {} => idle <= Interval + Cardinality(Stopped) * Handover

\* "A lock without a TTL held by a dead process is a deadlock forever"
\* (lock.ts:20-22): as long as one scheduler runs and its commands are not
\* rejected, sweeps go on.
SweepsGoOn == ("reject" \in faults) \/ []<>(idle = 0)

-----------------------------------------------------------------------------
(* What makes the properties inductive.                                    *)

Held(s) == {lock[s], reply[s]} \ {NoToken}

\* No two tokens in one hand and no token in two, so that there is always one to
\* spare; and nobody sweeps without.
TokensAreDistinct ==
    /\ \A s \in Schedulers :
        /\ lock[s] # NoToken /\ reply[s] # NoToken => lock[s] = reply[s]
        /\ reply[s] # NoToken => at[s] = "asked"
        /\ at[s] = "promoted" => lock[s] # NoToken
    /\ \A s, t \in Schedulers : s # t => Held(s) \cap Held(t) = {}

\* A lock always has a TTL.
LockEnds == key # NoToken => ttl > 0

\* Some scheduler is left to take over.
SomebodyRuns == Schedulers = {} \/ \E s \in Schedulers : stop[s] = "running"

Leads(s) ==
    /\ stop[s] = "running" /\ key # NoToken
    /\ key = IF at[s] = "asked" THEN reply[s] ELSE lock[s]

Budget == Cardinality(Stopped) * Handover

\* The leader wakes up before its lock runs out and before the sweep is late.
LeaderIsInTime ==
    \A s \in Schedulers : stop[s] = "running" =>
        /\ Sweeping(s) => ttl = Ttl
        /\ at[s] = "asked" /\ lock[s] # NoToken => reply[s] = lock[s]
        /\ at[s] = "asleep" /\ lock[s] # NoToken =>
              lock[s] = key /\ timer[s] < ttl /\ idle + timer[s] <= Interval

\* The lock of a leader that is gone runs out while the budget covers it.
OrphanRunsOut ==
    key # NoToken /\ (\A s \in Schedulers : ~Leads(s)) => idle + ttl <= Budget

\* A free lock is taken by whoever wakes up next; one who has just missed it
\* wakes up an interval later.
FreeLockIsTaken ==
    key = NoToken =>
        \A s \in Schedulers : stop[s] = "running" =>
            idle + (IF at[s] = "asked" THEN Interval ELSE timer[s]) <= Interval + Budget

\* With no faults, every sweep is on time.
OnTime == LeaderIsInTime /\ OrphanRunsOut /\ FreeLockIsTaken /\ idle <= Interval + Budget
=============================================================================
