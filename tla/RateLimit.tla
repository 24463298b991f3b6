----------------------------- MODULE RateLimit -----------------------------
(***************************************************************************)
(* The token bucket of one webhook (src/ratelimit.ts): one script, refilled*)
(* lazily from the clock of whichever worker calls it.                     *)
(*                                                                         *)
(* The code keeps a fraction of a token as a double.  Here a token is Cost *)
(* units, so that what accrues in one unit of time, a millisecond, is a    *)
(* whole number of them, and short says that the double is below that      *)
(* number: at 5 tokens a second, 0.1 + 0.18 * 5 is 0.9999999999999999.  The*)
(* errors are far smaller than a unit, so nothing else depends on them;    *)
(* which way a sum is rounded is left open.                                *)
(***************************************************************************)
EXTENDS Integers

CONSTANTS
    Rate,   \* units that accrue in one unit of time
    Burst,  \* capacity, in units
    Cost,   \* units of one token
    Slack   \* what the TTL adds to the time of a full refill

ASSUME RateLimitAssumption ==
    /\ Rate \in Nat \ {0} /\ Cost \in Nat \ {0} /\ Slack \in Nat
    /\ Burst \in Nat /\ Burst >= Cost

VARIABLE bucket  \* ratelimit:webhook:id, and when its TTL was last renewed

\* A missing bucket is a full one, since whenever.
NewBucket == [tokens |-> Burst, short |-> FALSE, ts |-> 0, touched |-> 0]

Least(m, n) == IF m < n THEN m ELSE n
Most(m, n) == IF m < n THEN n ELSE m
CeilDiv(m, n) == (m + n - 1) \div n

\* What there would be without a capacity, for the time since ts: nothing is
\* added if the clock of the caller is behind it.
Accrued(clock) == bucket.tokens + Most(0, clock - bucket.ts) * Rate

-----------------------------------------------------------------------------
(* Seeded mistakes, one in each of the operators they are named for.       *)

\* Idle time accrues beyond the capacity.
RefilledBeyondBurst(clock) == Accrued(clock)

\* The wait is rounded down.
RetryAfterRoundedDown(clock) == {(Cost - Least(Burst, Accrued(clock))) \div Rate}

\* The time of the refill is not written back.
TakeKeepingTime(tokens, short, clock, now) ==
    bucket' = [tokens |-> IF tokens >= Cost THEN tokens - Cost ELSE tokens,
               short |-> short, ts |-> bucket.ts, touched |-> now]

-----------------------------------------------------------------------------
Refilled(clock) == Least(Burst, Accrued(clock))

\* How the refill may be rounded: adding no time is exact, and what exceeds the
\* capacity is cut to it.
Roundings(clock) ==
    {short \in BOOLEAN : /\ clock <= bucket.ts => short = bucket.short
                         /\ Accrued(clock) > Burst => ~short}

\* tokens >= cost, of the doubles.
Covers(tokens, short) == tokens > Cost \/ (tokens = Cost /\ ~short)

\* A quotient that is whole may come out above it, and the ceiling one higher.
RetryAfters(clock) ==
    LET deficit == Cost - Refilled(clock) IN {CeilDiv(deficit, Rate), deficit \div Rate + 1}

\* HSET of what is left of the tokens that the refill found; ts becomes the
\* clock of the caller, be it earlier or later.
Take(tokens, short, clock, now) ==
    bucket' = [tokens |-> IF Covers(tokens, short) THEN tokens - Cost ELSE tokens,
               short |-> short, ts |-> clock, touched |-> now]

BucketTtl == CeilDiv(Burst, Rate) + Slack

BucketLapses(now) ==
    /\ bucket # NewBucket
    /\ now - bucket.touched >= BucketTtl
    /\ bucket' = NewBucket
=============================================================================
