------------------------------ MODULE Circuit ------------------------------
(***************************************************************************)
(* The circuit breaker of one webhook (src/circuit.ts): a hash in Redis    *)
(* and the three scripts that read and write it, each atomic.  "clock" is  *)
(* the Date.now() of the worker that sends the script, "now" the time of   *)
(* Redis, by which keys expire.                                            *)
(***************************************************************************)
EXTENDS Integers

CONSTANTS
    Threshold,  \* config.circuit.failureThreshold
    Cooldown,   \* config.circuit.cooldownMs
    StateTtl    \* STATE_TTL_MS

ASSUME CircuitAssumption ==
    /\ Threshold \in Nat \ {0}
    /\ Cooldown \in Nat
    /\ StateTtl \in Nat /\ StateTtl > Cooldown

VARIABLE breaker  \* circuit:webhook:id, and when its TTL was last renewed

\* What the scripts take a missing hash, or missing fields, for.
NewBreaker == [state |-> "closed", failures |-> 0, openedAt |-> 0, touched |-> 0]

-----------------------------------------------------------------------------
(* Seeded mistakes, one in each of the operators they are named for.       *)

\* A blocked check starts the cooldown again.
CheckRefreshing(state, clock, now) ==
    breaker' = IF state = "open"
               THEN [breaker EXCEPT !.openedAt = clock, !.touched = now]
               ELSE [breaker EXCEPT !.state = state, !.touched = now]

\* A success closes the circuit and leaves the count as it is.
SuccessKeepingCount(now) == breaker' = [breaker EXCEPT !.state = "closed", !.touched = now]

\* The threshold has to be passed, not reached.
TripsTooLate(failures) == failures > Threshold

-----------------------------------------------------------------------------
\* The answer of CHECK_SCRIPT: an open circuit becomes half-open when asked
\* after the cooldown.
Gate(clock) ==
    IF breaker.state = "open" /\ clock - breaker.openedAt >= Cooldown
    THEN "half_open" ELSE breaker.state

\* A check that changes nothing does not renew the TTL either.
Check(state, clock, now) ==
    breaker' = IF state = breaker.state THEN breaker
               ELSE [breaker EXCEPT !.state = state, !.touched = now]

RecordSuccess(now) ==
    breaker' = [breaker EXCEPT !.state = "closed", !.failures = 0, !.touched = now]

Trips(failures) == failures >= Threshold

\* A failed probe reopens at once; any other failure counts, and one that comes
\* in while the circuit is open opens it anew.
RecordFailure(clock, now) ==
    LET failures == IF breaker.state = "half_open" THEN Threshold ELSE breaker.failures + 1
    IN  breaker' = IF breaker.state = "half_open" \/ Trips(failures)
                   THEN [state |-> "open", failures |-> failures,
                         openedAt |-> clock, touched |-> now]
                   ELSE [breaker EXCEPT !.failures = failures, !.touched = now]

BreakerLapses(now) ==
    /\ breaker # NewBreaker
    /\ now - breaker.touched >= StateTtl
    /\ breaker' = NewBreaker
=============================================================================
