------------------------------ MODULE Webhooks ------------------------------
(***************************************************************************)
(* Webhook delivery: a request that emits an event inserts one row per     *)
(* subscribed endpoint and queues a job for it (enqueueWebhookEvent);      *)
(* workers take jobs, POST and record the outcome, queueing a retry after  *)
(* a failure (deliverWebhookDelivery).  The job queue is pg-boss: a job    *)
(* completes when its handler returns, and one whose worker dies before    *)
(* that is queued again while it has retries left.                         *)
(* Signing and payloads are left out; the delay before a retry is          *)
(* arbitrary, since a worker may take a queued job at any later time.      *)
(***************************************************************************)
EXTENDS Naturals, FiniteSets

CONSTANTS
    Endpoints,    \* webhook endpoints of one workspace
    Deliveries,   \* identities of delivery rows
    Workers,      \* concurrent executions of the delivery job
    MaxAttempts,  \* MAX_DELIVERY_ATTEMPTS
    JobRetries,   \* retryLimit of a pg-boss job
    MaxDeaths     \* bound: how many times a process dies

NoOne == "no one"

ASSUME WebhookAssumption ==
    /\ MaxAttempts \in Nat \ {0}
    /\ JobRetries \in Nat
    /\ MaxDeaths \in Nat
    /\ NoOne \notin Deliveries

VARIABLES
    endpoint,   \* [Endpoints -> {"none", "on", "off"}]: absent, enabled, disabled
    row,        \* [Deliveries -> [ep, status, attempts]]
    queued,     \* [Deliveries -> [0..JobRetries -> Nat]]: queued jobs by retries left
    emit,       \* the request emitting an event: endpoints to do, row to enqueue
    worker,     \* [Workers -> [pc, d, left, attempts]]
    removing,   \* the endpoint whose rows were deleted and itself not yet
    deaths,     \* processes lost so far
    orphan      \* history: deliveries whose only holder died for good

webhookVars == <<endpoint, row, queued, emit, worker, removing, deaths, orphan>>

Unborn == [ep |-> NoOne, status |-> "unborn", attempts |-> 0]
Idle == [pc |-> "idle", d |-> NoOne, left |-> 0, attempts |-> 0]
NoEmit == [on |-> FALSE, todo |-> {}, row |-> NoOne]
Terminal == {"delivered", "dead_letter"}

Statuses == {"unborn", "pending", "failed", "deleted"} \cup Terminal
Row == [ep : Endpoints \cup {NoOne}, status : Statuses, attempts : Nat]
Execution == [pc : {"idle", "endpoint", "post", "ok", "fail", "retry", "done"},
              d : Deliveries \cup {NoOne}, left : 0..JobRetries, attempts : Nat]

WebhookTypeOK ==
    /\ row \in [Deliveries -> Row]
    /\ queued \in [Deliveries -> [0..JobRetries -> Nat]]
    /\ emit.row \in Deliveries \cup {NoOne}
    /\ worker \in [Workers -> Execution]
    /\ orphan \subseteq Deliveries

WebhookInit ==
    /\ endpoint \in [Endpoints -> {"none", "on"}]
    /\ row = [d \in Deliveries |-> Unborn]
    /\ queued = [d \in Deliveries |-> [left \in 0..JobRetries |-> 0]]
    /\ emit = NoEmit
    /\ worker = [w \in Workers |-> Idle]
    /\ removing = NoOne
    /\ deaths = 0
    /\ orphan = {}

Enqueue(q, d) == [q EXCEPT ![d][JobRetries] = @ + 1]

-----------------------------------------------------------------------------
(* The administrator's routes.                                             *)

WithEndpoint(e, state) == [endpoint EXCEPT ![e] = state]

\* resolveOwnedWebhook: the row is there (404 otherwise)
OwnedWebhook(e) == endpoint[e] # "none"

\* POST, enabled or not; an identity is not used again while its rows are being deleted
CreateEndpoint(e) ==
    /\ endpoint[e] = "none" /\ removing # e
    /\ \E s \in {"on", "off"} : endpoint' = WithEndpoint(e, s)
    /\ UNCHANGED <<row, queued, emit, worker, removing, deaths, orphan>>

\* PATCH of `enabled`; the deliveries already there are not looked at
UpdateEndpoint(e) ==
    /\ OwnedWebhook(e)
    /\ \E s \in {"on", "off"} \ {endpoint[e]} : endpoint' = WithEndpoint(e, s)
    /\ UNCHANGED <<row, queued, emit, worker, removing, deaths, orphan>>

\* DELETE is two statements: first the rows ...
DeleteDeliveries(e) ==
    /\ OwnedWebhook(e) /\ removing = NoOne
    /\ removing' = e
    /\ row' = [d \in Deliveries |-> IF row[d].ep = e /\ row[d].status # "deleted"
                                    THEN [row[d] EXCEPT !.status = "deleted"] ELSE row[d]]
    /\ UNCHANGED <<endpoint, queued, emit, worker, deaths, orphan>>

\* ... then the endpoint, refused by the foreign key if a row came between
DeleteEndpoint ==
    /\ removing # NoOne
    /\ removing' = NoOne
    /\ endpoint' = IF \E d \in Deliveries : row[d].ep = removing /\ row[d].status # "deleted"
                   THEN endpoint ELSE [endpoint EXCEPT ![removing] = "none"]
    /\ UNCHANGED <<row, queued, emit, worker, deaths, orphan>>

-----------------------------------------------------------------------------
(* enqueueWebhookEvent, called by a request handler.                       *)

EnabledFor == {e \in Endpoints : endpoint[e] = "on"}

EmitStart ==
    /\ ~emit.on
    /\ emit' = [on |-> TRUE, todo |-> EnabledFor, row |-> NoOne]
    /\ UNCHANGED <<endpoint, row, queued, worker, removing, deaths, orphan>>

\* the insert of one row; an endpoint deleted since the list was read
\* makes it fail, and the request with it
EmitInsert(e, d) ==
    /\ e \in emit.todo
    /\ emit.row = NoOne
    /\ row[d].status = "unborn"
    /\ IF endpoint[e] = "none"
       THEN emit' = NoEmit /\ UNCHANGED row
       ELSE /\ row' = [row EXCEPT ![d] = [ep |-> e, status |-> "pending", attempts |-> 0]]
            /\ emit' = [on |-> TRUE, todo |-> emit.todo \ {e}, row |-> d]
    /\ UNCHANGED <<endpoint, queued, worker, removing, deaths, orphan>>

\* mutant: the row is left without a job
EmitEnqueueLost ==
    /\ emit.row # NoOne
    /\ emit' = [emit EXCEPT !.row = NoOne]
    /\ UNCHANGED <<endpoint, row, queued, worker, removing, deaths, orphan>>

EmitEnqueue ==
    /\ emit.row # NoOne
    /\ queued' = Enqueue(queued, emit.row)
    /\ emit' = [emit EXCEPT !.row = NoOne]
    /\ UNCHANGED <<endpoint, row, worker, removing, deaths, orphan>>

EmitEnd ==
    /\ emit.on /\ emit.row = NoOne
    /\ \/ emit.todo = {}
       \/ \A d \in Deliveries : row[d].status # "unborn"   \* bound: row identities used up
    /\ emit' = NoEmit
    /\ UNCHANGED <<endpoint, row, queued, worker, removing, deaths, orphan>>

-----------------------------------------------------------------------------
(* deliverWebhookDelivery.  Every UPDATE is by id and unconditional: it    *)
(* changes nothing only when the row is gone.  A worker at "done" has run  *)
(* its handler, and its job is not completed yet.                          *)

SetRow(d, status, attempts) ==
    IF row[d].status = "deleted" THEN row
    ELSE [row EXCEPT ![d] = [ep |-> @.ep, status |-> status, attempts |-> attempts]]

\* the job is fetched and the row read; nothing to do when it is gone or terminal
WorkerTake(w, d, left) ==
    /\ worker[w].pc = "idle"
    /\ queued[d][left] > 0
    /\ queued' = [queued EXCEPT ![d][left] = @ - 1]
    /\ \E pc \in {"endpoint", "done"} :
        /\ pc = "done" <=> row[d].status \in Terminal \cup {"deleted"}
        /\ worker' = [worker EXCEPT ![w] = [pc |-> pc, d |-> d, left |-> left,
                                            attempts |-> row[d].attempts]]
    /\ UNCHANGED <<endpoint, row, emit, removing, deaths, orphan>>

\* `enabled` is not read again: a disabled endpoint still receives
WorkerEndpoint(w) ==
    LET d == worker[w].d IN
    /\ worker[w].pc = "endpoint"
    /\ IF endpoint[row[d].ep] = "none"
       THEN /\ row' = SetRow(d, "dead_letter", row[d].attempts)
            /\ worker' = [worker EXCEPT ![w].pc = "done"]
       ELSE worker' = [worker EXCEPT ![w].pc = "post"] /\ UNCHANGED row
    /\ UNCHANGED <<endpoint, queued, emit, removing, deaths, orphan>>

\* 2xx, or any other answer, a network error or the 10 s timeout
WorkerPost(w) ==
    /\ worker[w].pc = "post"
    /\ \E outcome \in {"ok", "fail"} : worker' = [worker EXCEPT ![w].pc = outcome]
    /\ UNCHANGED <<endpoint, row, queued, emit, removing, deaths, orphan>>

Exhausted(attempts) == attempts >= MaxAttempts

\* `attempts` is what was read before the POST, plus one
WorkerRecord(w) ==
    LET d == worker[w].d
        attempts == worker[w].attempts + 1
    IN
    /\ worker[w].pc \in {"ok", "fail"}
    /\ IF worker[w].pc = "ok"
       THEN row' = SetRow(d, "delivered", attempts) /\ worker' = [worker EXCEPT ![w].pc = "done"]
       ELSE IF Exhausted(attempts)
       THEN row' = SetRow(d, "dead_letter", attempts) /\ worker' = [worker EXCEPT ![w].pc = "done"]
       ELSE row' = SetRow(d, "failed", attempts) /\ worker' = [worker EXCEPT ![w].pc = "retry"]
    /\ UNCHANGED <<endpoint, queued, emit, removing, deaths, orphan>>

\* mutant: the handler returns before the retry is queued
WorkerRetryLost(w) ==
    /\ worker[w].pc = "retry"
    /\ worker' = [worker EXCEPT ![w].pc = "done"]
    /\ UNCHANGED <<endpoint, row, queued, emit, removing, deaths, orphan>>

\* the retry is a job of its own, startAfter a delay
WorkerRetry(w) ==
    /\ worker[w].pc = "retry"
    /\ queued' = Enqueue(queued, worker[w].d)
    /\ worker' = [worker EXCEPT ![w].pc = "done"]
    /\ UNCHANGED <<endpoint, row, emit, removing, deaths, orphan>>

\* the handler has returned, and the queue completes the job it was given for
WorkerComplete(w) ==
    /\ worker[w].pc = "done"
    /\ worker' = [worker EXCEPT ![w] = Idle]
    /\ UNCHANGED <<endpoint, row, queued, emit, removing, deaths, orphan>>

-----------------------------------------------------------------------------
(* A process dies: the request between an insert and its enqueue, or the   *)
(* worker anywhere, even once its retry is queued and its job not yet      *)
(* completed; a handler that throws ends its job the same way.  The queue  *)
(* gives a lost job to someone else while retries are left.                *)

\* a worker whose handler still runs
Working(w, d) == worker[w].d = d /\ worker[w].pc # "done"

HeldBesides(w, d) ==
    \/ emit.row = d
    \/ \E left \in 0..JobRetries : queued[d][left] > 0
    \/ \E v \in Workers \ {w} : Working(v, d)

EmitDies ==
    /\ emit.on /\ deaths < MaxDeaths
    /\ deaths' = deaths + 1
    /\ emit' = NoEmit
    /\ orphan' = orphan \cup ({emit.row} \ {NoOne})
    /\ UNCHANGED <<endpoint, row, queued, worker, removing>>

WorkerDies(w) ==
    LET d == worker[w].d
        left == worker[w].left
    IN
    /\ worker[w].pc # "idle" /\ deaths < MaxDeaths
    /\ deaths' = deaths + 1
    /\ worker' = [worker EXCEPT ![w] = Idle]
    /\ IF left > 0
       THEN queued' = [queued EXCEPT ![d][left - 1] = @ + 1] /\ UNCHANGED orphan
       ELSE /\ orphan' = IF Working(w, d) /\ ~HeldBesides(w, d) THEN orphan \cup {d} ELSE orphan
            /\ UNCHANGED queued
    /\ UNCHANGED <<endpoint, row, emit, removing>>

EmitStep == \/ \E e \in Endpoints, d \in Deliveries : EmitInsert(e, d)
            \/ EmitEnqueue
            \/ EmitEnd

WorkerStep(w) == \/ \E d \in Deliveries, left \in 0..JobRetries : WorkerTake(w, d, left)
                 \/ WorkerEndpoint(w)
                 \/ WorkerPost(w)
                 \/ WorkerRecord(w)
                 \/ WorkerRetry(w)
                 \/ WorkerComplete(w)

WebhookNext ==
    \/ \E e \in Endpoints : CreateEndpoint(e) \/ UpdateEndpoint(e) \/ DeleteDeliveries(e)
    \/ DeleteEndpoint
    \/ EmitStart \/ EmitStep \/ EmitDies
    \/ \E w \in Workers : WorkerStep(w) \/ WorkerDies(w)

\* the server goes on with a request it runs and the workers with their jobs
WebhookFairness ==
    /\ WF_webhookVars(EmitStep)
    /\ \A w \in Workers : WF_webhookVars(WorkerStep(w))

WebhookSpec == WebhookInit /\ [][WebhookNext]_webhookVars /\ WebhookFairness

-----------------------------------------------------------------------------
(* Properties.                                                             *)

\* A row that is not terminal is in somebody's hands (the request about to
\* enqueue it, a queued job, a worker whose handler runs), unless a process
\* died being the only one that had it: the request before the enqueue
\* (deliver.ts:107), or a worker with no queue retry left.  A worker past its
\* handler holds nothing, so the retry must be queued by then (deliver.ts:222);
\* one that dies between that enqueue and the completion of its job
\* (queue.ts:43-46) leaves two jobs of the row behind, and two attempts run at
\* once.
HeldOrOrphaned ==
    \A d \in Deliveries : row[d].status \in {"pending", "failed"} =>
        \/ emit.row = d
        \/ \E left \in 0..JobRetries : queued[d][left] > 0
        \/ \E w \in Workers : Working(w, d)
        \/ d \in orphan

\* Every delivery comes to rest delivered, given up or deleted, unless it was
\* orphaned.  Of two attempts at once each writes what it read plus one, so a
\* late failure may take a delivered row back to `failed` and the count back
\* down, and even then the attempts end.
DeliveriesSettle ==
    \A d \in Deliveries : <>[](row[d].status \notin {"pending", "failed"} \/ d \in orphan)
=============================================================================
