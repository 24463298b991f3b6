----------------------------- MODULE Lifecycle -----------------------------
(***************************************************************************)
(* What the platform promises about one job, whatever lists its id is on   *)
(* and whichever process is working on it: an accepted event is pending    *)
(* until it has been answered with a 2xx or its retry budget is spent;     *)
(* success is final; only a replay brings a dead job back, with a budget   *)
(* that starts anew.  ARCHITECTURE.md draws it as the lifecycle of a job.  *)
(***************************************************************************)
EXTENDS Naturals

CONSTANTS Jobs, MaxAttempts

VARIABLES
    life,      \* where each job is in its life
    spent,     \* delivery attempts counted against the budget of this life
    answered   \* 2xx answers received over all its lives

lifeVars == <<life, spent, answered>>

Init ==
    /\ life = [j \in Jobs |-> "absent"]
    /\ spent = [j \in Jobs |-> 0]
    /\ answered = [j \in Jobs |-> 0]

Create(j) ==
    /\ life[j] = "absent"
    /\ life' = [life EXCEPT ![j] = "pending"]
    /\ UNCHANGED <<spent, answered>>

\* A request may still be on its way when the job is deleted.
Answer(j) ==
    /\ life[j] \in {"pending", "deleted"}
    /\ answered' = [answered EXCEPT ![j] = @ + 1]
    /\ UNCHANGED <<life, spent>>

Spend(j, next) ==
    /\ life[j] = "pending"
    /\ spent' = [spent EXCEPT ![j] = @ + 1]
    /\ life' = [life EXCEPT ![j] = next]
    /\ UNCHANGED answered

Succeed(j) == answered[j] > 0 /\ spent[j] < MaxAttempts /\ Spend(j, "succeeded")
GiveUp(j) == spent[j] < MaxAttempts /\ Spend(j, "dead")
TryAgain(j) == spent[j] + 1 < MaxAttempts /\ Spend(j, "pending")

Revive(j) ==
    /\ life[j] = "dead"
    /\ life' = [life EXCEPT ![j] = "pending"]
    /\ spent' = [spent EXCEPT ![j] = 0]
    /\ UNCHANGED answered

Vanish(j) ==
    /\ life[j] \notin {"absent", "deleted"}
    /\ life' = [life EXCEPT ![j] = "deleted"]
    /\ spent' = [spent EXCEPT ![j] = 0]
    /\ UNCHANGED answered

Next ==
    \E j \in Jobs : \/ Create(j) \/ Answer(j) \/ Succeed(j) \/ GiveUp(j)
                    \/ TryAgain(j) \/ Revive(j) \/ Vanish(j)

Spec == Init /\ [][Next]_lifeVars
=============================================================================
