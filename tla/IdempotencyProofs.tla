------------------------- MODULE IdempotencyProofs -------------------------
(***************************************************************************)
(* What an Idempotency-Key guarantees for any number of requests, and      *)
(* under which failures.                                                   *)
(***************************************************************************)
EXTENDS Idempotency, FiniteSetTheorems, TLAPS

\* A step changes the local state of one request at most.
Others(r) == \A s \in Requests \ {r} : request'[s] = request[s]

\* Goto and GotoWith, read as the step and the job of one request.
LEMMA RequestMoves ==
    ASSUME TypeOK, NEW r \in Requests
    PROVE  /\ \A step : Goto(r, step) =>
                 /\ request'[r].at = step /\ request'[r].job = request[r].job
                 /\ Others(r)
           /\ \A step, j : GotoWith(r, step, j) =>
                 /\ request'[r].at = step /\ request'[r].job = j
                 /\ Others(r)
  BY DEF TypeOK, Goto, GotoWith, Others

-----------------------------------------------------------------------------
(* Types, and who names which job.                                         *)

\* The two sets only grow, so it is enough to look at the request that moves.
LEMMA NamesKept ==
    ASSUME NamesArePushed, NEW r \in Requests, Others(r),
           created \subseteq created', pushed \subseteq pushed',
           slot' \in Jobs => slot' \in pushed',
           request'[r].at = "push" => request'[r].job \in created',
           request'[r].at \in {"find", "complete", "created"} => request'[r].job \in pushed'
    PROVE  NamesArePushed'
  BY DEF NamesArePushed, Others

\* Every step keeps the types, and names only jobs that were pushed.
LEMMA TypedNext == TypeOK /\ NamesArePushed /\ [Next]_vars => TypeOK' /\ NamesArePushed'
<1> SUFFICES ASSUME TypeOK, NamesArePushed, [Next]_vars PROVE TypeOK' /\ NamesArePushed'
  OBVIOUS
<1> faults' \in FaultSets
  BY DEF TypeOK, Next, vars
<1>1. ASSUME NEW r \in Requests, Enqueue(r) PROVE TypeOK' /\ NamesArePushed'
  <2>1. CASE Begin(r)
    BY <2>1, RequestMoves, NamesKept, IdempotencyAssumption
       DEF NamesArePushed, TypeOK, Begin, TakeSlot, Goto, Steps, Creating
  <2>2. CASE Look(r)
    <3>1. TypeOK'
      BY <2>2 DEF TypeOK, Look, Goto, GotoWith, storeVars, Steps, Answers
    <3>2. NamesArePushed'
      BY <2>2, RequestMoves, NamesKept DEF NamesArePushed, Look, storeVars
    <3> QED
      BY <3>1, <3>2
  <2>3. CASE Find(r)
    <3>1. TypeOK'
      BY <2>3 DEF TypeOK, Find, Goto, GotoWith, storeVars, Steps, Creating, Answers
    <3>2. NamesArePushed'
      BY <2>3, RequestMoves, NamesKept DEF NamesArePushed, Find, storeVars
    <3> QED
      BY <3>1, <3>2
  <2>4. CASE Insert(r)
    <3>1. PICK j \in Jobs \ created : InsertRow(j) /\ GotoWith(r, "push", j)
      BY <2>4 DEF Insert
    <3>2. TypeOK'
      BY <3>1 DEF TypeOK, InsertRow, GotoWith, Steps, Creating
    <3>3. NamesArePushed'
      BY <3>1, RequestMoves, NamesKept DEF NamesArePushed, InsertRow
    <3> QED
      BY <3>2, <3>3
  <2>5. CASE Push(r)
    <3>1. request[r].job \in created
      BY <2>5 DEF Push, NamesArePushed
    <3>2. TypeOK'
      BY <2>5, <3>1 DEF TypeOK, Push, PushId, Goto, Steps, Creating
    <3>3. NamesArePushed'
      BY <2>5, RequestMoves, NamesKept DEF NamesArePushed, Push, PushId
    <3> QED
      BY <3>2, <3>3
  <2>6. CASE Complete(r)
    <3>1. request[r].job \in pushed
      BY <2>6 DEF Complete, NamesArePushed
    <3>2. TypeOK'
      BY <2>6, <3>1 DEF TypeOK, Complete, NameJob, Goto, Answers
    <3>3. NamesArePushed'
      BY <2>6, <3>1, RequestMoves, NamesKept DEF NamesArePushed, Complete, NameJob
    <3> QED
      BY <3>2, <3>3
  <2>7. CASE Abort(r)
    BY <2>7, RequestMoves, NamesKept, IdempotencyAssumption
       DEF NamesArePushed, TypeOK, Abort, FreeSlot, Goto, Answers
  <2> QED
    BY <1>1, <2>1, <2>2, <2>3, <2>4, <2>5, <2>6, <2>7 DEF Enqueue
<1>2. ASSUME NEW r \in Requests, CreationThrows(r) PROVE TypeOK' /\ NamesArePushed'
  <2>1. /\ created \subseteq created' /\ pushed \subseteq pushed'
        /\ slot' \in Jobs => slot' \in pushed'
        /\ slot' \in {"free", "PENDING"} \cup Jobs
        /\ created' \subseteq Jobs /\ rows' \subseteq created' /\ pushed' \subseteq created'
    BY <1>2 DEF CreationThrows, storeVars, InsertRow, PushId, NameJob, NamesArePushed, TypeOK
  <2>2. Goto(r, "abort")
    BY <1>2 DEF CreationThrows
  <2>3. NamesArePushed'
    BY <2>1, <2>2, RequestMoves, NamesKept
  <2> QED
    BY <2>1, <2>2, <2>3 DEF TypeOK, Goto, Steps
<1>3. ASSUME NEW r \in Requests, SlotThrows(r) \/ Stop(r) PROVE TypeOK' /\ NamesArePushed'
  <2>1. /\ UNCHANGED <<created, rows, pushed>>
        /\ slot' = slot \/ slot' \in {"free", "PENDING"}
        /\ Goto(r, "failed") \/ Goto(r, "stopped")
    BY <1>3 DEF SlotThrows, Stop, storeVars, TakeSlot, FreeSlot
  <2>2. NamesArePushed'
    BY <2>1, RequestMoves, NamesKept, IdempotencyAssumption DEF NamesArePushed
  <2> QED
    BY <2>1, <2>2 DEF TypeOK, Goto, Answers
<1>4. CASE Expire \/ UNCHANGED vars
  BY <1>4, IdempotencyAssumption DEF Expire, FreeSlot, vars, TypeOK, NamesArePushed
<1>5. ASSUME NEW j \in Jobs, Delete(j) PROVE TypeOK' /\ NamesArePushed'
  BY <1>5 DEF Delete, TypeOK, NamesArePushed
<1>6. ASSUME NEW r \in Requests, Resent(r) PROVE TypeOK' /\ NamesArePushed'
  <2>1. CASE request[r].at = "begin" /\ TakeSlot
    BY <1>6, <2>1, IdempotencyAssumption DEF Resent, TakeSlot, TypeOK, NamesArePushed
  <2>2. CASE request[r].at = "push" /\ PushId(request[r].job)
    BY <1>6, <2>2 DEF Resent, PushId, TypeOK, NamesArePushed
  <2>3. CASE request[r].at = "complete" /\ NameJob(request[r].job)
    <3>1. request[r].job \in pushed
      BY <2>3 DEF NamesArePushed
    <3> QED
      BY <1>6, <2>3, <3>1 DEF Resent, NameJob, TypeOK, NamesArePushed
  <2>4. CASE request[r].at = "abort" /\ FreeSlot
    BY <1>6, <2>4, IdempotencyAssumption DEF Resent, FreeSlot, TypeOK, NamesArePushed
  <2> QED
    BY <1>6, <2>1, <2>2, <2>3, <2>4 DEF Resent
<1> QED
  BY <1>1, <1>2, <1>3, <1>4, <1>5, <1>6 DEF Next

\* So both hold for ever, whatever the faults.
LEMMA TypedInvariant == Spec => [](TypeOK /\ NamesArePushed)
<1>1. Init => TypeOK /\ NamesArePushed
  BY IdempotencyAssumption DEF Init, TypeOK, NamesArePushed, Steps
<1> QED
  BY <1>1, TypedNext, PTL DEF Spec

\* The slot, the rows and every execution keep their types, whatever fails, and
\* nothing is pushed that has no row (job.service.ts:85-98).
THEOREM KeysAreTyped == Spec => []TypeOK
  BY TypedInvariant, PTL

\* A client is told of a job only when the job is on the queue, or was: for
\* any number of requests, and whatever throws, stops, expires or is deleted.
THEOREM AnswerIsKept == Spec => []AnsweredWasPushed
<1>1. TypeOK /\ NamesArePushed => AnsweredWasPushed
  BY DEF NamesArePushed, AnsweredWasPushed
<1> QED
  BY <1>1, TypedInvariant, PTL

-----------------------------------------------------------------------------
(* Who answers for a slot that is pending.                                 *)

\* An execution that leaves a pending slot behind has named the job or freed it.
LEMMA OwnerNext ==
    TypeOK /\ NamesArePushed /\ PendingHasOwner /\ [Next]_vars => PendingHasOwner'
<1> SUFFICES ASSUME TypeOK, NamesArePushed, PendingHasOwner, [Next]_vars,
                    {"slot", "stop", "resend"} \cap faults = {}, slot' = "PENDING"
             PROVE  \E r \in Requests : request'[r].at \in Creating \cup {"abort"}
  BY DEF PendingHasOwner, Next, vars
<1>1. ASSUME NEW r \in Requests, Others(r), request'[r].at \in Creating \cup {"abort"}
      PROVE  \E s \in Requests : request'[s].at \in Creating \cup {"abort"}
  BY <1>1
<1>2. ASSUME NEW r \in Requests, Others(r), slot = "PENDING",
             request[r].at \notin Creating \cup {"abort"}
      PROVE  \E s \in Requests : request'[s].at \in Creating \cup {"abort"}
  <2>1. PICK s \in Requests : request[s].at \in Creating \cup {"abort"}
    BY <1>2 DEF PendingHasOwner
  <2> QED
    BY <1>2, <2>1 DEF Others
<1>3. ASSUME NEW r \in Requests, Enqueue(r)
      PROVE  \E s \in Requests : request'[s].at \in Creating \cup {"abort"}
  <2>1. CASE Begin(r)
    <3>1. CASE slot = "free"
      BY <1>1, <2>1, <3>1, RequestMoves DEF Begin, Creating
    <3>2. CASE slot # "free"
      BY <1>2, <2>1, <3>2, RequestMoves DEF Begin, TakeSlot, Creating
    <3> QED
      BY <3>1, <3>2
  <2>2. CASE Look(r) \/ Find(r)
    BY <1>2, <2>2, RequestMoves DEF Look, Find, storeVars, Creating
  <2>3. CASE Insert(r)
    BY <1>1, <2>3, RequestMoves DEF Insert, Creating
  <2>4. CASE Push(r)
    BY <1>1, <2>4, RequestMoves DEF Push, Creating
  <2>5. CASE Complete(r)
    <3>1. request[r].job \in Jobs
      BY <2>5 DEF Complete, NamesArePushed, TypeOK
    <3> QED
      BY <2>5, <3>1, IdempotencyAssumption DEF Complete, NameJob
  <2>6. CASE Abort(r)
    BY <2>6 DEF Abort, FreeSlot
  <2> QED
    BY <1>3, <2>1, <2>2, <2>3, <2>4, <2>5, <2>6 DEF Enqueue
<1>4. ASSUME NEW r \in Requests, CreationThrows(r)
      PROVE  \E s \in Requests : request'[s].at \in Creating \cup {"abort"}
  BY <1>1, <1>4, RequestMoves DEF CreationThrows
<1>5. ASSUME NEW r \in Requests, SlotThrows(r) \/ Resent(r) \/ Stop(r) PROVE FALSE
  BY <1>5 DEF SlotThrows, Resent, Stop
<1>6. CASE Expire
  BY <1>6 DEF Expire, FreeSlot
<1>7. CASE UNCHANGED <<slot, request>>
  BY <1>7 DEF PendingHasOwner
<1> QED
  BY <1>3, <1>4, <1>5, <1>6, <1>7 DEF Next, vars, Delete

\* While begin and abort do not throw and the api does not stop, a slot that is
\* pending has an execution that will name the job or give the slot back, however
\* creations fail and slots expire: no retry is refused for ever
\* (job.service.ts:109-110).
THEOREM PendingIsOwned == Spec => []PendingHasOwner
<1>1. Init => PendingHasOwner
  BY DEF Init, PendingHasOwner
<1> QED
  BY <1>1, OwnerNext, TypedInvariant, PTL DEF Spec

-----------------------------------------------------------------------------
(* One creator at a time, as long as slots do not expire and rows remain.  *)

\* A step that makes nobody an owner who was none leaves the slot with its
\* owner, if it leaves the slot as it is or the owner is the one that moves.
LEMMA OwnerKept ==
    ASSUME SlotIsOwned, NEW r \in Requests, Others(r),
           r \in Owners' => r \in Owners,
           slot' = slot \/ r \in Owners,
           request'[r].at \in Creating => slot' = "PENDING",
           request'[r].at = "abort" => slot' # "free" /\ "creation" \in faults',
           faults' = faults
    PROVE  SlotIsOwned'
  BY DEF SlotIsOwned, Owners, Others, Creating

\* Every step keeps the slot with its one owner, when nothing expires or is deleted.
LEMMA SlotIsOwnedNext ==
    ASSUME Exclusive, TypeOK, NamesArePushed, RowsRemain, SlotIsOwned, [Next]_vars
    PROVE  RowsRemain' /\ SlotIsOwned'
<1>1. RowsRemain'
  BY DEF Next, Enqueue, Begin, Look, Find, Insert, Push, Complete, Abort, CreationThrows,
         SlotThrows, Stop, Expire, Delete, TakeSlot, InsertRow, PushId, NameJob, FreeSlot,
         Resent, storeVars, vars, RowsRemain, Exclusive, Lasting
<1> faults' = faults
  BY DEF Next, vars
<1>2. ASSUME NEW r \in Requests, Begin(r) PROVE SlotIsOwned'
  <2>1. CASE slot = "free"
    <3>1. Owners = {}
      BY <2>1, IdempotencyAssumption DEF SlotIsOwned, Owners, Creating, NamesArePushed, TypeOK
    <3>2. slot' = "PENDING" /\ request'[r].at = "insert" /\ Others(r)
      BY <1>2, <2>1, RequestMoves DEF Begin, TakeSlot
    <3> QED
      BY <3>1, <3>2 DEF SlotIsOwned, Owners, Others, Creating
  <2>2. CASE slot # "free"
    <3>1. slot' = slot /\ request'[r].at = "look" /\ Others(r)
      BY <1>2, <2>2, RequestMoves DEF Begin, TakeSlot
    <3> QED
      BY <3>1, OwnerKept DEF Owners, Creating
  <2> QED
    BY <2>1, <2>2
<1>3. ASSUME NEW r \in Requests, Look(r) \/ Find(r) PROVE SlotIsOwned'
  <2>1. slot' = slot /\ request'[r].at \in {"find", "refused", "created"} /\ Others(r)
    BY <1>3, RequestMoves DEF Look, Find, storeVars, NamesArePushed, RowsRemain, TypeOK
  <2> QED
    BY <2>1, OwnerKept DEF Owners, Creating
<1>4. ASSUME NEW r \in Requests, Insert(r) \/ Push(r) PROVE SlotIsOwned'
  <2>1. /\ slot' = slot /\ request[r].at \in {"insert", "push"}
        /\ request'[r].at \in {"push", "complete"} /\ Others(r)
    BY <1>4, RequestMoves DEF Insert, Push, InsertRow, PushId, Creating
  <2>2. slot = "PENDING"
    BY <2>1 DEF SlotIsOwned
  <2> QED
    BY <2>1, <2>2, OwnerKept DEF Owners, Creating
<1>5. ASSUME NEW r \in Requests, Complete(r) \/ Abort(r) PROVE SlotIsOwned'
  <2>1. /\ r \in Owners
        /\ request'[r].at \in {"created", "failed"} /\ Others(r)
    BY <1>5, RequestMoves DEF Complete, Abort, Owners, Creating
  <2> QED
    BY <2>1, OwnerKept DEF Owners, Creating
<1>6. ASSUME NEW r \in Requests, CreationThrows(r) PROVE SlotIsOwned'
  <2>1. /\ request[r].at \in Creating /\ request'[r].at = "abort" /\ Others(r)
        /\ slot' = slot \/ (request[r].at = "complete" /\ slot' = request[r].job)
    BY <1>6, RequestMoves DEF CreationThrows, storeVars, InsertRow, PushId, NameJob
  <2>2. slot' # "free" /\ "creation" \in faults
    BY <1>6, <2>1, IdempotencyAssumption DEF CreationThrows, SlotIsOwned, NamesArePushed, TypeOK, Creating
  <2> QED
    BY <2>1, <2>2, OwnerKept DEF Owners, Creating
<1>7. ASSUME NEW r \in Requests, SlotThrows(r) \/ Stop(r) PROVE SlotIsOwned'
  <2>1. /\ request'[r].at \in {"failed", "stopped"} /\ Others(r)
        /\ \/ slot' = slot
           \/ slot = "free"
           \/ r \in Owners
    BY <1>7, RequestMoves DEF SlotThrows, Stop, storeVars, TakeSlot, FreeSlot, Owners
  <2>2. CASE slot = "free"
    <3>1. Owners = {}
      BY <2>2, IdempotencyAssumption DEF SlotIsOwned, Owners, Creating, NamesArePushed, TypeOK
    <3> QED
      BY <2>1, <3>1 DEF SlotIsOwned, Owners, Others, Creating
  <2>3. CASE slot # "free"
    BY <2>1, <2>3, OwnerKept DEF Owners, Creating
  <2> QED
    BY <2>2, <2>3
<1>8. CASE UNCHANGED vars
  <2>1. slot' = slot /\ request' = request
    BY <1>8 DEF vars
  <2>2. Owners' = Owners
    BY <2>1 DEF Owners
  <2> QED
    BY <1>1, <2>1, <2>2 DEF SlotIsOwned
<1>9. ~Expire /\ \A j \in Jobs : ~Delete(j)
  BY DEF Expire, Delete, Exclusive, Lasting
<1>10. ASSUME NEW r \in Requests, Resent(r) PROVE SlotIsOwned'
  <2>1. request' = request /\ Owners' = Owners
    BY <1>10 DEF Resent, Owners
  <2>2. CASE slot' = slot
    BY <2>1, <2>2 DEF SlotIsOwned
  <2>3. CASE request[r].at = "begin" /\ slot = "free"
    <3>1. Owners = {}
      BY <2>3, IdempotencyAssumption DEF SlotIsOwned, Owners, Creating, NamesArePushed, TypeOK
    <3> QED
      BY <2>1, <3>1 DEF SlotIsOwned, Owners, Creating
  <2>4. CASE request[r].at = "complete" /\ slot' = request[r].job
    <3>1. \A s \in Requests \ {r} : request[s].at \notin Creating \cup {"abort"}
      BY <2>4 DEF SlotIsOwned, Owners, Creating
    <3> QED
      BY <2>1, <2>4, <3>1 DEF SlotIsOwned, Creating
  <2>5. request[r].at # "abort"
    BY <1>10 DEF Resent, SlotIsOwned, Exclusive
  <2> QED
    BY <1>10, <2>2, <2>3, <2>4, <2>5 DEF Resent, TakeSlot, PushId, NameJob
<1> QED
  BY <1>1, <1>2, <1>3, <1>4, <1>5, <1>6, <1>7, <1>8, <1>9, <1>10 DEF Next, Enqueue

\* What a behaviour may suffer is settled at its beginning.
LEMMA FaultsAreFixed == [Next]_vars => (Exclusive' <=> Exclusive) /\ (Orderly' <=> Orderly)
  BY DEF Next, vars, Exclusive, Lasting, Orderly

\* So it has one owner for ever in such a behaviour.
LEMMA SlotInvariant ==
    Spec => [](TypeOK /\ NamesArePushed /\ (Exclusive => RowsRemain /\ SlotIsOwned))
<1>1. Init => (Exclusive => RowsRemain /\ SlotIsOwned)
  BY DEF Init, RowsRemain, SlotIsOwned, Owners, Creating
<1>2. TypeOK /\ NamesArePushed /\ (Exclusive => RowsRemain /\ SlotIsOwned) /\ [Next]_vars
         => (Exclusive => RowsRemain /\ SlotIsOwned)'
  BY SlotIsOwnedNext, FaultsAreFixed
<1> QED
  BY <1>1, <1>2, TypedInvariant, PTL DEF Spec

\* However many requests carry a key, and wherever they throw or stop, no two
\* of them are creating its job at once: as long as the slot does not expire
\* and no row is deleted, and no abort is sent twice.
THEOREM OneCreator == Spec => []OneCreatorAtATime
<1>1. (Exclusive => RowsRemain /\ SlotIsOwned) => OneCreatorAtATime
  BY DEF SlotIsOwned, Owners, OneCreatorAtATime
<1> QED
  BY <1>1, SlotInvariant, PTL

-----------------------------------------------------------------------------
(* One job, as long as nothing throws while it is created.                 *)

\* A step that creates nothing and tells nobody of a job.
LEMMA OneJobKept ==
    ASSUME OneJobKnown, NEW r \in Requests, Others(r),
           UNCHANGED created,
           slot' = slot \/ slot' = "PENDING",
           request'[r].at \notin {"abort", "insert", "push", "complete", "find", "created"}
    PROVE  OneJobKnown'
  BY IdempotencyAssumption DEF OneJobKnown, Others

\* Every step keeps the one job known, when nothing throws either.
LEMMA OneJobNext ==
    ASSUME Orderly, TypeOK, NamesArePushed, RowsRemain,
           SlotIsOwned, OneJobKnown, [Next]_vars
    PROVE  OneJobKnown'
<1>1. ASSUME NEW r \in Requests, Begin(r) PROVE OneJobKnown'
  <2>1. CASE slot = "free"
    <3>1. /\ slot' = "PENDING" /\ request'[r].at = "insert" /\ Others(r)
          /\ created' = {} /\ created = {}
      BY <1>1, <2>1, RequestMoves DEF Begin, TakeSlot, OneJobKnown
    <3> QED
      BY <3>1, IdempotencyAssumption DEF OneJobKnown, Others
  <2>2. CASE slot # "free"
    <3>1. slot' = slot /\ request'[r].at = "look" /\ Others(r) /\ UNCHANGED created
      BY <1>1, <2>2, RequestMoves DEF Begin, TakeSlot
    <3> QED
      BY <3>1, OneJobKept
  <2> QED
    BY <2>1, <2>2
<1>2. ASSUME NEW r \in Requests, Look(r) \/ Find(r) PROVE OneJobKnown'
  <2>1. UNCHANGED storeVars /\ Others(r)
    BY <1>2, RequestMoves DEF Look, Find
  <2>2. \/ request'[r].at = "refused"
        \/ request'[r].at \in {"find", "created"} /\ created = {request'[r].job}
    BY <1>2, RequestMoves DEF Look, Find, OneJobKnown, NamesArePushed, RowsRemain, TypeOK
  <2> QED
    BY <2>1, <2>2 DEF OneJobKnown, Others, storeVars
<1>3. ASSUME NEW r \in Requests, Insert(r) PROVE OneJobKnown'
  <2>1. PICK j \in Jobs : InsertRow(j) /\ GotoWith(r, "push", j)
    BY <1>3 DEF Insert
  <2>2. created = {} /\ slot = "PENDING"
    BY <1>3 DEF Insert, OneJobKnown, SlotIsOwned, Creating
  <2>3. \A s \in Requests \ {r} :
           request[s].at \notin {"abort", "insert", "push", "complete", "find", "created"}
    BY <1>3, <2>2 DEF Insert, OneJobKnown, SlotIsOwned, Owners, Creating
  <2> QED
    BY <2>1, <2>2, <2>3, RequestMoves, IdempotencyAssumption DEF InsertRow, OneJobKnown, Others
<1>4. ASSUME NEW r \in Requests, Push(r) \/ Complete(r) PROVE OneJobKnown'
  <2>1. /\ UNCHANGED created /\ Others(r) /\ created = {request[r].job}
        /\ slot' = slot \/ slot' = request[r].job
        /\ request'[r].at \in {"complete", "created"} /\ request'[r].job = request[r].job
    BY <1>4, RequestMoves DEF Push, Complete, PushId, NameJob, OneJobKnown
  <2>2. request[r].job \in Jobs
    BY <2>1 DEF TypeOK
  <2> QED
    BY <2>1, <2>2, IdempotencyAssumption DEF OneJobKnown, Others
<1>5. ASSUME NEW r \in Requests, SlotThrows(r) \/ Stop(r) PROVE OneJobKnown'
  <2>1. request[r].at # "abort"
    BY DEF OneJobKnown
  <2>2. /\ request'[r].at \in {"failed", "stopped"} /\ Others(r) /\ UNCHANGED created
        /\ slot' = slot \/ slot' = "PENDING"
    BY <1>5, <2>1, RequestMoves DEF SlotThrows, Stop, storeVars, TakeSlot
  <2> QED
    BY <2>2, OneJobKept
<1>6. CASE UNCHANGED vars
  BY <1>6 DEF vars, OneJobKnown
<1>7. ASSUME NEW r \in Requests, Resent(r) PROVE OneJobKnown'
  <2>1. request' = request /\ UNCHANGED created
    BY <1>7 DEF Resent, TakeSlot, PushId, NameJob, FreeSlot
  <2>2. \/ slot' = slot
        \/ slot' = "PENDING"
        \/ request[r].at = "complete" /\ slot' = request[r].job
    BY <1>7 DEF Resent, TakeSlot, PushId, NameJob, OneJobKnown
  <2>3. CASE request[r].at = "complete" /\ slot' = request[r].job
    <3>1. created = {slot'} /\ slot' \in Jobs
      BY <2>3 DEF OneJobKnown, TypeOK
    <3> QED
      BY <2>1, <3>1, IdempotencyAssumption DEF OneJobKnown
  <2> QED
    BY <2>1, <2>2, <2>3, IdempotencyAssumption DEF OneJobKnown
<1>8. /\ ~Expire /\ \A j \in Jobs : ~Delete(j)
      /\ \A r \in Requests : ~CreationThrows(r) /\ ~Abort(r)
  BY DEF Expire, Delete, Orderly, Lasting, CreationThrows, Abort, OneJobKnown
<1> QED
  BY <1>1, <1>2, <1>3, <1>4, <1>5, <1>6, <1>7, <1>8 DEF Next, Enqueue

\* As long as nothing throws, the invariant is kept, and there is one job.
LEMMA OrderlyInvariant == Spec => [](Orderly => OneJobKnown)
<1> DEFINE Inv == (Exclusive => RowsRemain /\ SlotIsOwned) /\ (Orderly => OneJobKnown)
<1>1. Init => (Orderly => OneJobKnown)
  BY IdempotencyAssumption DEF Init, OneJobKnown
<1>2. TypeOK /\ NamesArePushed /\ Inv /\ [Next]_vars => (Orderly => OneJobKnown)'
  BY OneJobNext, FaultsAreFixed DEF Orderly, Exclusive
<1> QED
  BY <1>1, <1>2, SlotInvariant, PTL DEF Spec

\* While nothing throws in the middle of a creation, no slot expires and no row
\* is deleted, any number of requests with one key create one job at most; also
\* when the api stops or begin throws (idempotency.ts:8-9).
THEOREM OneJobPerKey == Spec => []AtMostOneJob
<1>1. (Orderly => OneJobKnown) => AtMostOneJob
  <2> SUFFICES ASSUME Orderly, OneJobKnown PROVE AtMostOneJob
    BY DEF AtMostOneJob
  <2>1. ASSUME created = {} PROVE AtMostOneJob
    BY <2>1, FS_EmptySet DEF AtMostOneJob
  <2>2. ASSUME NEW j \in Jobs, created = {j} PROVE AtMostOneJob
    BY <2>2, FS_Singleton DEF AtMostOneJob
  <2> QED
    BY <2>1, <2>2 DEF OneJobKnown
<1> QED
  BY <1>1, OrderlyInvariant, PTL

\* Under the same failures all clients that are told of a job are told of the
\* same one, whether they won the slot or found it taken.
THEOREM OneAnswerPerKey == Spec => []SameAnswer
<1>1. (Orderly => OneJobKnown) => SameAnswer
  <2> SUFFICES ASSUME OneJobKnown, NEW r \in Requests, NEW s \in Requests,
                      request[r].at = "created", request[s].at = "created"
               PROVE  request[r].job = request[s].job
    BY DEF SameAnswer
  <2>1. created = {request[r].job} /\ created = {request[s].job}
    BY DEF OneJobKnown
  <2> QED
    BY <2>1
<1> QED
  BY <1>1, OrderlyInvariant, PTL
=============================================================================
