------------------------- MODULE DeliveryInvariant -------------------------
(***************************************************************************)
(* The inductive invariant of Delivery for workers that keep to their      *)
(* visibility timeout.  The properties speak of one place or one process   *)
(* each; none of them is inductive alone, because a script that moves an   *)
(* id preserves "one place" only if the id was where the process believes  *)
(* it is, and a process' belief is right only if nobody moved the id.      *)
(***************************************************************************)
EXTENDS DeliveryProperties

InReady(j) == j \in Range(ready)
InFlight(j) == inflight[j] # 0
InDelayed(j) == delayed[j] # "none"
InDlq(j) == j \in Range(dlq)
InHand(j) == \E o \in Operators : operator[o].job = j

\* A process that is not idle is working on a job, and an idle one is not.
Employed ==
    /\ \A w \in Workers : worker[w].at = "idle" <=> worker[w].job = NoJob
    /\ \A o \in Operators : operator[o].at = "idle" <=> operator[o].job = NoJob

\* No list holds an id twice, no two replay loops hold the same one.
NoCopies ==
    /\ IsInjective(ready)
    /\ IsInjective(dlq)
    /\ \A j \in Jobs : inflight[j] \in {0, 1}
    /\ \A o, p \in Operators : operator[o].job = operator[p].job /\ o # p
                                  => operator[o].job = NoJob

\* The five places exclude one another.
OnePlace ==
    \A j \in Jobs :
        /\ InReady(j) => ~InFlight(j) /\ ~InDelayed(j) /\ ~InDlq(j) /\ ~InHand(j)
        /\ InFlight(j) => ~InDelayed(j) /\ ~InDlq(j) /\ ~InHand(j)
        /\ InDelayed(j) => ~InDlq(j) /\ ~InHand(j)
        /\ InDlq(j) => ~InHand(j)

\* Until the api has pushed it, an id is nowhere in Redis.
NotPushedYet ==
    \A j \in Jobs :
        /\ submission[j] = "none" <=> row[j] = "absent"
        /\ submission[j] \in {"none", "inserted"} =>
              ~InReady(j) /\ ~InFlight(j) /\ ~InDelayed(j) /\ ~InDlq(j) /\ ~InHand(j)

\* A worker's job is in flight, and leased from the end of reserve on.
Claims ==
    \A w \in Workers : worker[w].at # "idle" =>
        /\ InFlight(worker[w].job)
        /\ leases[worker[w].job] = IF worker[w].at = "lease" THEN "none" ELSE "held"

\* What a worker finds in the row of its job is what its last step left there.
RowMatchesStep ==
    \A w \in Workers : LET at == worker[w].at
                           state == row[worker[w].job] IN
        /\ at = "gates" => state \in Live \cup {"deleted"}
        /\ at \in Delivering => state \in {"in_flight", "deleted"}
        /\ at = "ack" => state \in Terminal \cup {"deleted"}
        /\ at = "retry" => state \in {"queued", "deleted"}
        /\ at = "bury" => state \in {"dead", "deleted"}

\* What a worker read before it awaited is still true when it uses it.
ReadsAreFresh ==
    \A w \in Workers : LET at == worker[w].at
                           j == worker[w].job IN
        /\ at \in Delivering \cup {"gates"} /\ Exists(j) => worker[w].seen = attempts[j]
        /\ at \in {"post", "record"} /\ Exists(j) => worker[w].number = audit[j] + 1

\* A worker past the request has an outcome, and a 2xx was counted.
OutcomeKnown ==
    \A w \in Workers : worker[w].at \in {"record", "settle"} =>
        /\ worker[w].outcome # "none"
        /\ worker[w].outcome = "ok" => confirmed[worker[w].job] > 0

\* A job that can still be delivered has budget left.
BudgetLeft == \A j \in Jobs : row[j] \in Live \cup {"absent"} => attempts[j] < MaxAttempts

\* Nobody touches a row between its INSERT and the push, but a cascade.
InsertedIsQueued ==
    \A j \in Jobs : submission[j] = "inserted" => row[j] \in {"queued", "deleted"}

Custody ==
    /\ Employed /\ NoCopies /\ OnePlace /\ NotPushedYet
    /\ Claims /\ OwnedByOneWorker /\ LeasedIsInFlight

Agreement ==
    /\ StoresAgree /\ RowMatchesStep /\ ReadsAreFresh
    /\ OutcomeKnown /\ BudgetLeft /\ InsertedIsQueued
=============================================================================
