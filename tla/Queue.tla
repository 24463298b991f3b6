------------------------------- MODULE Queue -------------------------------
(***************************************************************************)
(* The job queue that lives in Redis (src/queue.ts): five keys that hold   *)
(* job ids, and one operator per command or Lua script that moves an id.   *)
(* Redis runs a command or a script to its end before the next one, so     *)
(* each operator is one atomic step of whichever process sends it.         *)
(*                                                                         *)
(* Time is abstracted to the only question the scripts ask of it: whether  *)
(* a score is in the past.  A member of a sorted set is first in the       *)
(* future ("held", "waiting") and later in the past ("lapsed", "due").     *)
(***************************************************************************)
EXTENDS Naturals, Sequences, FiniteSets, Functions

CONSTANTS
    Jobs,       \* the job ids
    BatchSize   \* LIMIT of one promoteDue or reapExpired, 100 in the code

ASSUME QueueAssumption ==
    /\ IsFiniteSet(Jobs)
    /\ BatchSize \in Nat \ {0}

VARIABLES
    ready,      \* queue:ready, a list: LPUSH appends, RPOP takes the head
    inflight,   \* queue:inflight: only LREM 1 is applied, so copies per id
    leases,     \* queue:leases, a sorted set scored by expiry
    delayed,    \* queue:delayed, a sorted set scored by run time
    dlq         \* queue:dlq, a list used like ready

redisVars == <<ready, inflight, leases, delayed, dlq>>

LeaseStates == {"none", "held", "lapsed"}
DelayStates == {"none", "waiting", "due"}

QueueTypeOK ==
    /\ ready \in Seq(Jobs)
    /\ inflight \in [Jobs -> Nat]
    /\ leases \in [Jobs -> LeaseStates]
    /\ delayed \in [Jobs -> DelayStates]
    /\ dlq \in Seq(Jobs)

QueueInit ==
    /\ ready = << >>
    /\ inflight = [j \in Jobs |-> 0]
    /\ leases = [j \in Jobs |-> "none"]
    /\ delayed = [j \in Jobs |-> "none"]
    /\ dlq = << >>

-----------------------------------------------------------------------------
(* Seeded mistakes.  Each is a plausible slip in the operator its name     *)
(* begins with; no definition uses them.  A property that still held with  *)
(* the mistake in the operator's place would say nothing about the code.   *)

\* The ZREM is forgotten, or the process stops before it.
DropClaimKeepingLease(j) ==
    /\ inflight' = [inflight EXCEPT ![j] = IF @ > 0 THEN @ - 1 ELSE 0]
    /\ UNCHANGED leases

\* The LREM names the wrong list.
DropClaimKeepingEntry(j) ==
    /\ leases' = [leases EXCEPT ![j] = "none"]
    /\ UNCHANGED inflight

\* promoteDue without its ZREM.
PromoteDueKeepingScores(batch) ==
    /\ ready' = ready \o batch
    /\ UNCHANGED <<inflight, leases, delayed, dlq>>

\* reapExpired without its ZREM.
ReapExpiredKeepingLeases(batch) ==
    /\ inflight' = [j \in Jobs |-> IF j \in Range(batch) THEN 0 ELSE inflight[j]]
    /\ ready' = ready \o batch
    /\ UNCHANGED <<leases, delayed, dlq>>

\* reapExpired without its LPUSH.
ReapExpiredLosingJobs(batch) ==
    /\ leases' = [j \in Jobs |-> IF j \in Range(batch) THEN "none" ELSE leases[j]]
    /\ inflight' = [j \in Jobs |-> IF j \in Range(batch) THEN 0 ELSE inflight[j]]
    /\ UNCHANGED <<ready, delayed, dlq>>

\* LPOP instead of RPOP.
PopDlqNewest(j) ==
    /\ dlq # << >>
    /\ j = dlq[Len(dlq)]
    /\ dlq' = SubSeq(dlq, 1, Len(dlq) - 1)
    /\ UNCHANGED <<ready, inflight, leases, delayed>>

-----------------------------------------------------------------------------
(* Producing.                                                              *)

Push(j) ==
    /\ ready' = Append(ready, j)
    /\ UNCHANGED <<inflight, leases, delayed, dlq>>

PushDelayed(j) ==
    /\ delayed' = [delayed EXCEPT ![j] = "waiting"]
    /\ UNCHANGED <<ready, inflight, leases, dlq>>

-----------------------------------------------------------------------------
(* Consuming.  reserve is two commands: BRPOPLPUSH, then ZADD.             *)

\* BRPOPLPUSH: the oldest ready id moves to inflight.
ClaimMove(j) ==
    /\ ready # << >>
    /\ j = Head(ready)
    /\ ready' = Tail(ready)
    /\ inflight' = [inflight EXCEPT ![j] = @ + 1]
    /\ UNCHANGED <<leases, delayed, dlq>>

\* ZADD: a lease of VISIBILITY_TIMEOUT_MS, replacing whatever score was there.
TakeLease(j) ==
    /\ leases' = [leases EXCEPT ![j] = "held"]
    /\ UNCHANGED <<ready, inflight, delayed, dlq>>

\* LREM 1 then ZREM, the beginning of each of the three releasing scripts.
\* Neither command minds that there is nothing to remove.
DropClaim(j) ==
    /\ inflight' = [inflight EXCEPT ![j] = IF @ > 0 THEN @ - 1 ELSE 0]
    /\ leases' = [leases EXCEPT ![j] = "none"]

Ack(j) ==
    /\ DropClaim(j)
    /\ UNCHANGED <<ready, delayed, dlq>>

RetryLater(j) ==
    /\ DropClaim(j)
    /\ delayed' = [delayed EXCEPT ![j] = "waiting"]
    /\ UNCHANGED <<ready, dlq>>

DeadLetter(j) ==
    /\ DropClaim(j)
    /\ dlq' = Append(dlq, j)
    /\ UNCHANGED <<ready, delayed>>

-----------------------------------------------------------------------------
(* Maintenance.                                                            *)

Due == {j \in Jobs : delayed[j] = "due"}
Expired == {j \in Jobs : leases[j] = "lapsed"}

\* What ZRANGEBYSCORE -inf now LIMIT 0 BatchSize can return when S is the set
\* of members whose score is in the past: as many of them as the limit lets
\* through, each once.  Their order is that of scores the model does not keep.
Batches(S) ==
    LET size == IF Cardinality(S) < BatchSize THEN Cardinality(S) ELSE BatchSize
    IN  {batch \in [1..size -> S] : IsInjective(batch)}

PromoteDue(batch) ==
    /\ delayed' = [j \in Jobs |-> IF j \in Range(batch) THEN "none" ELSE delayed[j]]
    /\ ready' = ready \o batch
    /\ UNCHANGED <<inflight, leases, dlq>>

ReapExpired(batch) ==
    /\ leases' = [j \in Jobs |-> IF j \in Range(batch) THEN "none" ELSE leases[j]]
    /\ inflight' = [j \in Jobs |-> IF j \in Range(batch) /\ inflight[j] > 0
                                   THEN inflight[j] - 1 ELSE inflight[j]]
    /\ ready' = ready \o batch
    /\ UNCHANGED <<delayed, dlq>>

\* RPOP of the dead-letter queue: the oldest id leaves Redis altogether.
PopDlq(j) ==
    /\ dlq # << >>
    /\ j = Head(dlq)
    /\ dlq' = Tail(dlq)
    /\ UNCHANGED <<ready, inflight, leases, delayed>>

-----------------------------------------------------------------------------
(* The passage of time, as the two sorted sets see it.                     *)

DelayPasses(j) ==
    /\ delayed[j] = "waiting"
    /\ delayed' = [delayed EXCEPT ![j] = "due"]
    /\ UNCHANGED <<ready, inflight, leases, dlq>>

LeasePasses(j) ==
    /\ leases[j] = "held"
    /\ leases' = [leases EXCEPT ![j] = "lapsed"]
    /\ UNCHANGED <<ready, inflight, delayed, dlq>>
=============================================================================
