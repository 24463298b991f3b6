------------------------------ MODULE Shutdown ------------------------------
(***************************************************************************)
(* Delivery with workers that are told to stop (entrypoints/worker.ts).    *)
(* On a signal, shutdown quits the connection of the consume loop, then    *)
(* the one that process uses, closes the pool and exits: four awaits that  *)
(* run beside whatever the loop is awaiting.  A connection executes its    *)
(* commands in order, so what a command finds depends on whether QUIT was  *)
(* sent before it or after.                                                *)
(*                                                                         *)
(* Nothing else fails here: no worker dies, and a job is dropped only by   *)
(* the orderly end of its process.                                         *)
(***************************************************************************)
EXTENDS DeliveryProperties

CONSTANT Stopping   \* bound: the workers that ever get a signal

\* A worker drops one job while it stops, so this bound is never in the way.
ASSUME ShutdownAssumption ==
    /\ Stopping \subseteq Workers
    /\ IsFiniteSet(Stopping) /\ Cardinality(Stopping) <= MaxAbandons

VARIABLES
    stage,  \* the await at which the shutdown of each worker is
    ahead   \* the command of each worker that was sent before a QUIT

stopVars == <<stage, ahead>>

Stages ==
    { "running",
      "consume",    \* await consumeRedis.quit(); running is false from here on
      "command",    \* that connection is closed; await commandRedis.quit(), then
                    \* closePool: no command is taken, queries still are
      "exited" }    \* process.exit: the pool is closed too

Commands ==
    { "none",
      "pop",        \* BRPOPLPUSH, blocked for up to BLOCK_SECONDS
      "lease",      \* the ZADD of reserve
      "check" }     \* the command on the circuit that comes before an UPDATE

StopTypeOK ==
    /\ stage \in [Workers -> Stages]
    /\ ahead \in [Workers -> Commands]

StopInit ==
    /\ Init
    /\ stage = [w \in Workers |-> "running"]
    /\ ahead = [w \in Workers |-> "none"]

Told == {w \in Workers : stage[w] # "running"}

\* What w is about to do can still be done.
Works(w) ==
    CASE worker[w].at = "idle" -> FALSE
      [] worker[w].at = "lease" -> stage[w] = "running" \/ ahead[w] = "lease"
      [] stage[w] \in {"running", "consume"} -> TRUE
      [] stage[w] = "command" /\ worker[w].at \in {"gates", "settle"} -> ahead[w] = "check"
      [] stage[w] = "command" -> worker[w].at \in {"load", "number", "post", "record"}
      [] OTHER -> FALSE

Sent(w, command) == ahead' = [ahead EXCEPT ![w] = command]
Enter(w, next) == stage' = [stage EXCEPT ![w] = next]

-----------------------------------------------------------------------------
(* Seeded mistakes, as in Queue.                                           *)

\* BRPOPLPUSH 0: the block does not end by itself.
BlockForEver(w) == FALSE /\ UNCHANGED <<vars, stopVars>>

\* The loop does not look at running, and its connection is opened again.
ClaimAlsoWhenTold(w) ==
    /\ stage[w] \in {"running", "consume"}
    /\ Claim(w)
    /\ Sent(w, "none")
    /\ UNCHANGED stage

-----------------------------------------------------------------------------
(* The consume loop.                                                       *)

\* The loop looks at running before each reserve, and running is false once a
\* signal came; a BRPOPLPUSH that was blocked then still gets its job.
ClaimNext(w) ==
    /\ stage[w] = "running" \/ ahead[w] = "pop"
    /\ Claim(w)
    /\ Sent(w, "none")
    /\ UNCHANGED stage

\* Nothing came within BLOCK_SECONDS, and the loop ends.
BlockEnds(w) ==
    /\ ahead[w] = "pop" /\ ready = << >>
    /\ Sent(w, "none")
    /\ UNCHANGED <<vars, stage>>

Work(w) ==
    /\ Works(w)
    /\ Process(w)
    /\ Sent(w, "none")
    /\ UNCHANGED stage

\* The command is rejected: reserve or process throws, and the loop ends.
Rejected(w) ==
    /\ stage[w] \in {"consume", "command"}
    /\ ~Works(w)
    /\ Abandon(w)
    /\ UNCHANGED stopVars

-----------------------------------------------------------------------------
(* shutdown.                                                               *)

\* running = false, and QUIT goes out on the connection of the loop, behind
\* BRPOPLPUSH or behind ZADD if that was sent already.
Signal(w) ==
    /\ w \in Stopping /\ stage[w] = "running"
    /\ Enter(w, "consume")
    /\ CASE worker[w].at = "idle" -> Sent(w, "pop")
         [] worker[w].at = "lease" -> \E command \in {"lease", "none"} : Sent(w, command)
         [] OTHER -> UNCHANGED ahead
    /\ UNCHANGED vars

\* QUIT was executed on the first connection and then on the second, there
\* perhaps behind the command on the circuit of a step that ends with an UPDATE.
QuitBoth(w) ==
    /\ stage[w] = "consume" /\ ahead[w] = "none"
    /\ Enter(w, "command")
    /\ \/ UNCHANGED ahead
       \/ worker[w].at \in {"gates", "settle"} /\ Sent(w, "check")
    /\ UNCHANGED vars

\* process.exit(0): a job in hand is dropped as it is.
Exit(w) ==
    /\ stage[w] = "command"
    /\ Enter(w, "exited")
    /\ Sent(w, "none")
    /\ \/ worker[w].at = "idle" /\ UNCHANGED vars
       \/ Abandon(w)

-----------------------------------------------------------------------------
Platform ==
    /\ \/ \E j \in Jobs : Api(j) \/ Time(j)
       \/ Promote \/ Reap
    /\ UNCHANGED stopVars

Consume(w) == ClaimNext(w) \/ BlockEnds(w) \/ Work(w) \/ Rejected(w)

StopNext ==
    \/ Platform
    \/ \E w \in Workers : Consume(w) \/ Signal(w) \/ QuitBoth(w) \/ Exit(w)

stopAllVars == <<vars, stopVars>>

StopSpec == StopInit /\ [][StopNext]_stopAllVars

(***************************************************************************)
(* Fairness as in Delivery, as far as a worker lives.  BRPOPLPUSH returns  *)
(* after BLOCK_SECONDS, QUIT is answered once its turn has come, and       *)
(* closePool waits for queries only, which end.                            *)
(***************************************************************************)
StopFairSpec ==
    /\ StopSpec
    /\ \A j \in Jobs : WF_stopAllVars(Time(j) /\ UNCHANGED stopVars)
    /\ WF_stopAllVars(Promote /\ UNCHANGED stopVars)
    /\ WF_stopAllVars(Reap /\ UNCHANGED stopVars)
    /\ WF_stopAllVars(\E w \in Workers : ClaimNext(w))
    /\ \A w \in Workers :
        /\ WF_stopAllVars(Work(w) \/ Rejected(w))
        /\ SF_stopAllVars(Works(w) /\ Proceed(w) /\ Sent(w, "none") /\ UNCHANGED stage)
        /\ WF_stopAllVars(ahead[w] = "pop" /\ (ClaimNext(w) \/ BlockEnds(w)))
        /\ WF_stopAllVars(QuitBoth(w)) /\ WF_stopAllVars(Exit(w))

-----------------------------------------------------------------------------
(* Properties.                                                             *)

\* Claimed behind QUIT: in flight, without a lease, and nobody will take one.
Parked(j) ==
    /\ inflight[j] > 0 /\ leases[j] = "none"
    /\ \A w \in Workers : ~(worker[w].at = "lease" /\ Holds(w, j) /\ Works(w))

\* A signal costs at most one claim: the one BRPOPLPUSH that was blocked when it
\* came, or whose ZADD had not gone out (worker.ts:35-36, BLOCK_SECONDS).
OneParkedJobPerSignal == Cardinality({j \in Jobs : Parked(j)}) <= Cardinality(Told)

\* "Let the in-flight job finish" (worker.ts:83): process.exit does not wait for
\* it, and what it cuts off may have been answered 2xx already.  An event that was
\* answered is sent and answered again only so, once for each signal.  Answers that
\* did not come in time are not in this count: they need no signal to be repeated.
SecondAnswerNeedsASignal == \A j \in Jobs : confirmed[j] <= 1 + Cardinality(Told)

\* The awaits of shutdown never wait for one another, nor for the job in hand:
\* who is told to stop, stops (worker.ts:35, "Bounds how long shutdown waits").
ToldWorkersExit == \A w \in Workers : stage[w] # "running" ~> stage[w] = "exited"

\* The workers that are left settle whatever was not parked.
SettledUnlessParked ==
    \A j \in Jobs : submission[j] = "accepted" ~> row[j] \notin Live \/ Parked(j)
=============================================================================
