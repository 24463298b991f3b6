---------------------------- MODULE Idempotency ----------------------------
(***************************************************************************)
(* The producer's side of exactly-once: POST /events with an               *)
(* Idempotency-Key (src/idempotency.ts, and enqueue in job.service.ts).    *)
(* A slot in Redis is reserved, the job is created, and the slot is then   *)
(* made to name the job.                                                   *)
(*                                                                         *)
(* One (tenant, key) is modelled: the code touches no slot but that of its *)
(* own request.  A request is one execution of enqueue; a client's retry   *)
(* is another one.  "at" names the command it is about to send.            *)
(***************************************************************************)
EXTENDS Naturals, FiniteSets

CONSTANTS
    Requests,   \* executions of enqueue that carry the key
    Jobs,       \* job ids that Postgres may generate
    NoJob,
    FaultSets   \* the sets of faults to consider, one per behaviour

AllFaults ==
    { "creation",   \* insert, push or complete throws, executed or not
      "slot",       \* a command of begin or abort throws, executed or not
      "resend",     \* ioredis reconnects and sends a command again that was executed
      "stop",       \* the api stops in the middle of a request
      "expiry",     \* the slot's TTL runs out
      "deleted" }   \* the job's row is deleted

ASSUME IdempotencyAssumption ==
    /\ NoJob \notin Jobs
    /\ {"free", "PENDING"} \cap Jobs = {}
    /\ FaultSets \subseteq SUBSET AllFaults

VARIABLES
    slot,       \* idem:tenant:key, "free" when there is no such key
    created,    \* ids of all rows ever inserted for the key
    rows,       \* those that still exist
    pushed,     \* ids put on ready or delayed
    request,    \* the local state of each execution
    faults      \* what may go wrong in this behaviour; never changes

vars == <<slot, created, rows, pushed, request, faults>>

Creating == {"insert", "push", "complete"}
Steps == {"begin", "look", "find", "abort"} \cup Creating
Answers == {"created", "refused", "failed", "stopped"}

TypeOK ==
    /\ slot \in {"free", "PENDING"} \cup Jobs
    /\ created \subseteq Jobs /\ rows \subseteq created /\ pushed \subseteq created
    /\ request \in [Requests -> [at: Steps \cup Answers, job: Jobs \cup {NoJob}]]
    /\ faults \in FaultSets

Init ==
    /\ slot = "free"
    /\ created = {} /\ rows = {} /\ pushed = {}
    /\ request = [r \in Requests |-> [at |-> "begin", job |-> NoJob]]
    /\ faults \in FaultSets

-----------------------------------------------------------------------------
(* The commands, by what they do to the stores.                            *)

TakeSlot == slot' = (IF slot = "free" THEN "PENDING" ELSE slot)
            /\ UNCHANGED <<created, rows, pushed>>
InsertRow(j) == created' = created \cup {j} /\ rows' = rows \cup {j}
                /\ UNCHANGED <<slot, pushed>>
PushId(j) == pushed' = pushed \cup {j} /\ UNCHANGED <<slot, created, rows>>
NameJob(j) == slot' = j /\ UNCHANGED <<created, rows, pushed>>
FreeSlot == slot' = "free" /\ UNCHANGED <<created, rows, pushed>>

storeVars == <<slot, created, rows, pushed>>

Goto(r, step) == request' = [request EXCEPT ![r].at = step]
GotoWith(r, step, j) == request' = [request EXCEPT ![r] = [at |-> step, job |-> j]]

-----------------------------------------------------------------------------
(* Seeded mistakes: plausible slips in the action their name begins with.  *)

\* SET without NX.
BeginWithoutNX(r) ==
    /\ request[r].at = "begin"
    /\ slot' = "PENDING" /\ UNCHANGED <<created, rows, pushed>>
    /\ Goto(r, "insert")

\* The id is pushed before its row is written.
InsertAfterPush(r) ==
    /\ request[r].at = "insert"
    /\ \E j \in Jobs \ created : PushId(j) /\ GotoWith(r, "complete", j)

\* The slot names the job before the push.
InsertNamingJob(r) ==
    /\ request[r].at = "insert"
    /\ \E j \in Jobs \ created :
        /\ created' = created \cup {j} /\ rows' = rows \cup {j}
        /\ slot' = j /\ GotoWith(r, "push", j)
    /\ UNCHANGED pushed

\* The handler of the exception forgets the slot.
AbortOnlyReporting(r) ==
    /\ request[r].at = "abort"
    /\ Goto(r, "failed") /\ UNCHANGED storeVars

\* The loser of the race treats a slot that is pending as its own.
LookIgnoringPending(r) ==
    /\ request[r].at = "look"
    /\ IF slot \in Jobs THEN GotoWith(r, "find", slot) ELSE Goto(r, "insert")
    /\ UNCHANGED storeVars

-----------------------------------------------------------------------------
(* enqueue.                                                                *)

\* SET NX: exactly one caller wins the slot.
Begin(r) ==
    /\ request[r].at = "begin"
    /\ Goto(r, IF slot = "free" THEN "insert" ELSE "look")
    /\ TakeSlot

\* GET: a job id is a duplicate; PENDING, or a key that just expired, a 409.
Look(r) ==
    /\ request[r].at = "look"
    /\ IF slot \in Jobs THEN GotoWith(r, "find", slot) ELSE Goto(r, "refused")
    /\ UNCHANGED storeVars

\* findById: the original job is the answer; if its row is gone, the request
\* goes on to create a job as though it had won the slot.
Find(r) ==
    /\ request[r].at = "find"
    /\ IF request[r].job \in rows THEN Goto(r, "created") ELSE GotoWith(r, "insert", NoJob)
    /\ UNCHANGED storeVars

Insert(r) ==
    /\ request[r].at = "insert"
    /\ \E j \in Jobs \ created : InsertRow(j) /\ GotoWith(r, "push", j)

Push(r) ==
    /\ request[r].at = "push"
    /\ PushId(request[r].job)
    /\ Goto(r, "complete")

Complete(r) ==
    /\ request[r].at = "complete"
    /\ NameJob(request[r].job)
    /\ Goto(r, "created")

\* The slot is deleted whatever it holds, and the error goes to the client.
Abort(r) ==
    /\ request[r].at = "abort"
    /\ FreeSlot
    /\ Goto(r, "failed")

Enqueue(r) ==
    Begin(r) \/ Look(r) \/ Find(r) \/ Insert(r) \/ Push(r) \/ Complete(r) \/ Abort(r)

-----------------------------------------------------------------------------
(* What goes wrong.  A command that throws may or may not have been        *)
(* executed: the connection can fail before the request or before the      *)
(* reply.                                                                  *)

CreationThrows(r) ==
    /\ "creation" \in faults
    /\ request[r].at \in Creating
    /\ \/ UNCHANGED storeVars
       \/ request[r].at = "insert" /\ \E j \in Jobs \ created : InsertRow(j)
       \/ request[r].at = "push" /\ PushId(request[r].job)
       \/ request[r].at = "complete" /\ NameJob(request[r].job)
    /\ Goto(r, "abort")

\* Neither begin nor abort is inside the try.
SlotThrows(r) ==
    /\ "slot" \in faults
    /\ request[r].at \in {"begin", "look", "find", "abort"}
    /\ \/ UNCHANGED storeVars
       \/ request[r].at = "begin" /\ TakeSlot
       \/ request[r].at = "abort" /\ FreeSlot
    /\ Goto(r, "failed")

\* The reply is lost with the connection: the same command will be sent again,
\* later, and its second reply is the one that counts.
Resent(r) ==
    /\ "resend" \in faults
    /\ \/ request[r].at = "begin" /\ TakeSlot
       \/ request[r].at = "push" /\ PushId(request[r].job)
       \/ request[r].at = "complete" /\ NameJob(request[r].job)
       \/ request[r].at = "abort" /\ FreeSlot
    /\ UNCHANGED request

Stop(r) ==
    /\ "stop" \in faults
    /\ request[r].at \in Steps \ {"begin"}
    /\ Goto(r, "stopped")
    /\ UNCHANGED storeVars

Expire ==
    /\ "expiry" \in faults
    /\ slot # "free"
    /\ FreeSlot
    /\ UNCHANGED request

Delete(j) ==
    /\ "deleted" \in faults
    /\ j \in rows
    /\ rows' = rows \ {j}
    /\ UNCHANGED <<slot, created, pushed, request>>

Next ==
    /\ \/ \E r \in Requests : Enqueue(r) \/ CreationThrows(r) \/ SlotThrows(r) \/ Resent(r) \/ Stop(r)
       \/ Expire
       \/ \E j \in Jobs : Delete(j)
    /\ UNCHANGED faults

Spec == Init /\ [][Next]_vars

-----------------------------------------------------------------------------
(* Which guarantee survives which failures.                                *)

\* The slot stays as long as its requests, and the row as long as the slot.
Lasting == {"expiry", "deleted"} \cap faults = {}

\* Nor is abort sent again, when the slot may already be another execution's.
Exclusive == Lasting /\ ~({"creation", "resend"} \subseteq faults)

\* Besides, a creation that was begun does not throw; the api may still stop
\* in the middle of one, begin may throw, and commands may be sent again.
Orderly == Lasting /\ "creation" \notin faults

\* "At most one job is ever created per (tenant, key)" (idempotency.ts:8-9).
AtMostOneJob == Orderly => Cardinality(created) <= 1

\* All the clients that are told of a job are told of the same one.
SameAnswer ==
    Orderly => \A r, s \in Requests :
                  request[r].at = "created" /\ request[s].at = "created"
                      => request[r].job = request[s].job

\* No two executions are between begin and complete, also after one of them
\* failed and aborted, or after a command was sent twice.
OneCreatorAtATime ==
    Exclusive => \A r, s \in Requests :
                  request[r].at \in Creating /\ request[s].at \in Creating => r = s

\* The catch gives the slot back: when no execution is left that will name the
\* job or abort, the slot is not PENDING and a retry is not refused
\* (job.service.ts:109-110), whatever creations do and whenever slots expire.
PendingHasOwner ==
    {"slot", "stop", "resend"} \cap faults = {} =>
        (slot = "PENDING" => \E r \in Requests : request[r].at \in Creating \cup {"abort"})

\* A client is told of a job only when the job was put on the queue, be it the
\* execution that put it there or a duplicate that found it in the slot:
\* whatever failed, stopped, expired or was deleted meanwhile.
AnsweredWasPushed ==
    \A r \in Requests : request[r].at = "created" => request[r].job \in pushed

\* "That retry enqueues the event a second time" (idempotency.ts:5-9) is what
\* the keys exist to prevent.
EventIsQueuedOnce == Cardinality(pushed) <= 1

-----------------------------------------------------------------------------
(* What makes the properties inductive.                                    *)

\* Whatever names a job names one that was pushed, save an execution that is
\* about to push it.
NamesArePushed ==
    /\ slot \in Jobs => slot \in pushed
    /\ \A r \in Requests :
        /\ request[r].at = "push" => request[r].job \in created
        /\ request[r].at \in {"find", "complete", "created"} => request[r].job \in pushed

\* Executions that will name the job or give the slot back.
Owners == {r \in Requests : request[r].at \in Creating \cup {"abort"}}

\* A slot that nobody expires belongs to one execution, from begin to the end
\* of complete or abort.
SlotIsOwned ==
    /\ \A r, s \in Owners : r = s
    /\ \A r \in Requests :
        /\ request[r].at \in {"insert", "push"} => slot = "PENDING"
        /\ request[r].at = "complete" => slot \in {"PENDING", request[r].job}
        /\ request[r].at = "abort" => slot # "free" /\ "creation" \in faults

\* A job that nobody deletes is there for the duplicates.
RowsRemain == rows = created

\* As long as nothing throws, the job that exists is the one that its creator
\* and the slot name.
OneJobKnown ==
    /\ created = {} \/ \E j \in Jobs : created = {j}
    /\ slot = "free" => created = {}
    /\ slot \in Jobs => created = {slot}
    /\ \A r \in Requests :
        /\ request[r].at # "abort"
        /\ request[r].at = "insert" => created = {}
        /\ request[r].at \in {"push", "complete", "find", "created"} =>
              created = {request[r].job}
=============================================================================
