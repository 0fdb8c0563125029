----------------------------- MODULE SyncClient -----------------------------
(***************************************************************************)
(* The browser side of diagram sync: the editor page with its canvas, the  *)
(* mutation queue, DiagramSyncClient and the save status, for any number   *)
(* of clients of one diagram.  Requests of a client overlap, overtake each *)
(* other and get lost on the way there or back; the queue is flushed by    *)
(* its debounce timer, by a retry timer and by visibilitychange.           *)
(*                                                                         *)
(* The server appends an operation in one step: OpLog implements that      *)
(* (OpLogRefinement).  The reply is read in a later step.                  *)
(***************************************************************************)
EXTENDS Scene, Bags, BagsExt

CONSTANTS Clients,
          Nonces,        \* the versionNonces there are: a bound on edits
          MaxFailures,   \* bound on requests that fail
          MaxReconnects, \* bound on presence reconnects
          MaxLeaves,     \* bound on pages left, over all clients
          MaxRevokes     \* bound on clients demoted to viewer

\* 0 is the nonce of an element that was never changed.
ASSUME NoncesAssumption == Nonces \subseteq Nat \ {0}

VARIABLES
  log,        \* the operations of the diagram, as the server stores them
  mayMutate,  \* mayMutate[c]: the user of c has diagram:mutate
  \* The page of client c.
  page,       \* "closed", "loading", "open" or "viewing" (read-only canvas)
  canvas,     \* canvas[c]: the elements Excalidraw holds
  previous,   \* previous[c]: previousSceneRef, the last scene diffed
  pending,    \* pending[c]: pendingByElementId of the mutation queue
  revision,   \* revision[c]: knownRevision, always equal to baseRevision
  status,     \* status[c]: the save status shown
  requests,   \* requests[c]: the bag of HTTP requests in flight
  drawn,      \* the versionNonces drawn so far (random: never the same)
  \* What was spent of each bound.
  failures, reconnects, leaves, revokes

pageVars == <<page, canvas, previous, pending, revision, status, requests>>
bounds == <<drawn, failures, reconnects, leaves, revokes>>
vars == <<log, mayMutate, pageVars, bounds>>

Scenes == [Elements -> Stamp]

\* A request, with the reply once the server has answered.  A detached
\* request outlived its page: nobody waits for its r.
Request ==
  [kind: {"open", "refresh", "catchUp", "batch"},
   phase: {"sent", "logged", "forbidden", "answered"},
   deltas: Scenes, base: Nat, detached: BOOLEAN,
   revision: Nat, missed: BOOLEAN, allowed: BOOLEAN]

NewRequest(kind, deltas, base) ==
  [kind |-> kind, phase |-> "sent", deltas |-> deltas, base |-> base,
   detached |-> FALSE, revision |-> 0, missed |-> FALSE, allowed |-> TRUE]

\* A new diagram, or one that holds an element of every id.
InitialLogs ==
  {<< >>, AppendOperation(<< >>, [e \in Elements |->
     [version |-> 1, versionNonce |-> 0, isDeleted |-> FALSE]])}

Init ==
  /\ log \in InitialLogs
  /\ mayMutate = [c \in Clients |-> TRUE]
  /\ page = [c \in Clients |-> "closed"]
  /\ canvas = [c \in Clients |-> EmptyScene]
  /\ previous = [c \in Clients |-> EmptyScene]
  /\ pending = [c \in Clients |-> EmptyScene]
  /\ revision = [c \in Clients |-> 0]
  /\ status = [c \in Clients |-> "saving"]
  /\ requests = [c \in Clients |-> EmptyBag]
  /\ drawn = {}
  /\ failures = 0
  /\ reconnects = 0
  /\ leaves = 0
  /\ revokes = 0

----------------------------------------------------------------------------
(* Helpers of the page.                                                    *)

Mounted(c) == page[c] \in {"open", "viewing"}

HasDeltas(scene) == \E e \in Elements : Present(scene[e])

\* enqueue: the last delta of an element takes its slot.  (It also restarts
\* the debounce timer: the timer is armed exactly while something is pending.)
Enqueued(queue, deltas) ==
  [e \in Elements |-> IF Present(deltas[e]) THEN deltas[e] ELSE queue[e]]

Send(c, r) == requests' = [requests EXCEPT ![c] = BagAdd(@, r)]

Done(c, r) == requests' = [requests EXCEPT ![c] = BagRemove(@, r)]

Becomes(c, r, s) ==
  requests' = [requests EXCEPT ![c] = BagAdd(BagRemove(@, r), s)]

Answered(r, kind) == r.kind = kind /\ r.phase = "answered" /\ ~r.detached

\* onChange of the editor surface: the diff goes to the queue, and only a
\* non-empty one moves previousSceneRef.
OnChange(c, next) ==
  LET deltas == ComputeDiff(previous[c], next)
  IN  /\ canvas' = [canvas EXCEPT ![c] = next]
      /\ previous' = [previous EXCEPT ![c] =
                        IF HasDeltas(deltas) THEN next ELSE @]
      /\ pending' = [pending EXCEPT ![c] = Enqueued(@, deltas)]

----------------------------------------------------------------------------
(* The page.                                                               *)

\* The route mounts: bootstrap is requested before anything is shown.
Open(c) ==
  /\ page[c] = "closed"
  /\ page' = [page EXCEPT ![c] = "loading"]
  /\ Send(c, NewRequest("open", EmptyScene, 0))
  /\ UNCHANGED <<log, mayMutate, canvas, previous, pending, revision, status,
                 bounds>>

\* bootstrap resolved: the editor mounts with the scene, view-only for a role
\* without diagram:mutate.
Opened(c, r) ==
  /\ Answered(r, "open")
  /\ page' = [page EXCEPT ![c] = IF r.allowed THEN "open" ELSE "viewing"]
  /\ canvas' = [canvas EXCEPT ![c] = SceneAt(log, r.revision)]
  /\ previous' = [previous EXCEPT ![c] = SceneAt(log, r.revision)]
  /\ revision' = [revision EXCEPT ![c] = r.revision]
  /\ status' = [status EXCEPT ![c] = "saved"]
  /\ Done(c, r)
  /\ UNCHANGED <<log, mayMutate, pending, bounds>>

\* The user draws, changes, restores or deletes an element: Excalidraw bumps
\* its version, draws a nonce and calls onChange.
Edit(c, e, nonce, delete) ==
  LET old == canvas[c][e] IN
  /\ page[c] = "open"
  /\ nonce \notin drawn
  /\ drawn' = drawn \cup {nonce}
  /\ delete => Live(old)
  /\ OnChange(c, [canvas[c] EXCEPT ![e] =
                    [version |-> old.version + 1, versionNonce |-> nonce,
                     isDeleted |-> delete]])
  /\ UNCHANGED <<log, mayMutate, page, revision, status, requests, failures,
                 reconnects, leaves, revokes>>

\* Mutant of Flush: no timer flushes a queue that went offline.
FlushOnlineOnly(c) ==
  /\ Mounted(c)
  /\ HasDeltas(pending[c])
  /\ status[c] # "offline"
  /\ pending' = [pending EXCEPT ![c] = EmptyScene]
  /\ status' = [status EXCEPT ![c] = "saving"]
  /\ Send(c, NewRequest("batch", pending[c], revision[c]))
  /\ UNCHANGED <<log, mayMutate, page, canvas, previous, revision, bounds>>

\* Mutant of Flush: an empty queue is flushed as well.
FlushEmpty(c) ==
  /\ Mounted(c)
  /\ pending' = [pending EXCEPT ![c] = EmptyScene]
  /\ status' = [status EXCEPT ![c] = "saving"]
  /\ Send(c, NewRequest("batch", pending[c], revision[c]))
  /\ UNCHANGED <<log, mayMutate, page, canvas, previous, revision, bounds>>

\* flush, from the debounce timer, a retry timer or visibilitychange: the
\* queue is emptied into one batch and sendBatch posts it.
Flush(c) ==
  /\ Mounted(c)
  /\ HasDeltas(pending[c])
  /\ pending' = [pending EXCEPT ![c] = EmptyScene]
  /\ status' = [status EXCEPT ![c] = "saving"]
  /\ Send(c, NewRequest("batch", pending[c], revision[c]))
  /\ UNCHANGED <<log, mayMutate, page, canvas, previous, revision, bounds>>

\* The presence socket is back: catchUp from the known revision.
Reconnect(c) ==
  /\ Mounted(c)
  /\ reconnects < MaxReconnects
  /\ reconnects' = reconnects + 1
  /\ Send(c, NewRequest("catchUp", EmptyScene, revision[c]))
  /\ UNCHANGED <<log, mayMutate, page, canvas, previous, pending, revision,
                 status, drawn, failures, leaves, revokes>>

\* The batches of a bag that the server has yet to handle, with nobody left
\* to wait for the reply.
Detach(bag) ==
  LET unhandled == {r \in DOMAIN bag : r.kind = "batch" /\ r.phase = "sent"}
  IN  BagOfAll(LAMBDA r : [r EXCEPT !.detached = TRUE],
               [r \in unhandled |-> bag[r]])

\* The page is gone, with the queue and its timers.
Discard(c, inFlight) ==
  /\ leaves < MaxLeaves
  /\ leaves' = leaves + 1
  /\ page[c] # "closed"
  /\ page' = [page EXCEPT ![c] = "closed"]
  /\ canvas' = [canvas EXCEPT ![c] = EmptyScene]
  /\ previous' = [previous EXCEPT ![c] = EmptyScene]
  /\ pending' = [pending EXCEPT ![c] = EmptyScene]
  /\ revision' = [revision EXCEPT ![c] = 0]
  /\ status' = [status EXCEPT ![c] = "saving"]
  /\ requests' = [requests EXCEPT ![c] = Detach(inFlight)]
  /\ UNCHANGED <<log, mayMutate, drawn, failures, reconnects, revokes>>

\* The route unmounts (internal navigation): the flush listeners are removed
\* and clientRef becomes null, so the batch a timer still flushes is dropped.
Navigate(c) == Discard(c, requests[c])

\* The tab closes: pagehide flushes what is pending.
CloseTab(c) ==
  /\ HasDeltas(pending[c])
  /\ Discard(c, BagAdd(requests[c],
                       NewRequest("batch", pending[c], revision[c])))

----------------------------------------------------------------------------
(* Replies.                                                                *)

\* reconcile: the revision advances, and onReconcile refetches the scene.
Reconcile(c, r, rev) ==
  /\ revision' = [revision EXCEPT ![c] = rev]
  /\ Becomes(c, r, NewRequest("refresh", EmptyScene, 0))

BatchAcked(c, r) ==
  /\ Answered(r, "batch")
  /\ \/ /\ r.missed
        /\ Reconcile(c, r, r.revision)
     \/ /\ ~r.missed
        /\ revision' = [revision EXCEPT ![c] = r.revision]
        /\ Done(c, r)
  /\ status' = [status EXCEPT ![c] = "saved"]
  /\ UNCHANGED <<log, mayMutate, page, canvas, previous, pending, bounds>>

\* 403: the batch is dropped and the status turns read-only.
BatchForbidden(c, r) ==
  /\ r.phase = "forbidden"
  /\ ~r.detached
  /\ status' = [status EXCEPT ![c] = "readOnly"]
  /\ Done(c, r)
  /\ UNCHANGED <<log, mayMutate, page, canvas, previous, pending, revision,
                 bounds>>

CatchUpDone(c, r) ==
  /\ Answered(r, "catchUp")
  /\ \/ r.missed /\ Reconcile(c, r, r.revision)
     \/ /\ ~r.missed
        /\ Done(c, r)
        /\ UNCHANGED revision
  /\ UNCHANGED <<log, mayMutate, page, canvas, previous, pending, status,
                 bounds>>

\* The refetched scene is merged onto previousSceneRef and painted, which
\* calls onChange: what the remote side won is diffed and queued again.
Refreshed(c, r) ==
  /\ Answered(r, "refresh")
  /\ revision' = [revision EXCEPT ![c] = r.revision]
  /\ status' = [status EXCEPT ![c] = "saved"]
  /\ OnChange(c, MergeScene(previous[c], SceneAt(log, r.revision)))
  /\ Done(c, r)
  /\ UNCHANGED <<log, mayMutate, page, bounds>>

----------------------------------------------------------------------------
(* Failures: a network error or a non-2xx answer, at any phase.            *)

Failing(c, r, kind) ==
  /\ r.kind = kind
  /\ ~r.detached
  /\ failures < MaxFailures
  /\ failures' = failures + 1
  /\ Done(c, r)
  /\ UNCHANGED <<log, mayMutate, page, canvas, previous, revision,
                 drawn, reconnects, leaves, revokes>>

\* Mutant of BatchFailed: the batch is not put back.
BatchFailedDropped(c, r) ==
  /\ Failing(c, r, "batch")
  /\ status' = [status EXCEPT ![c] = "offline"]
  /\ UNCHANGED pending

\* goOfflineAndRetry: the deltas go back to the queue, over what is there.
BatchFailed(c, r) ==
  /\ Failing(c, r, "batch")
  /\ pending' = [pending EXCEPT ![c] = Enqueued(@, r.deltas)]
  /\ status' = [status EXCEPT ![c] = "offline"]

\* bootstrap sets Offline for an error answer and nothing for a network
\* error; the editor never mounts, or keeps the canvas it has.
BootstrapFailed(c, r) ==
  /\ Failing(c, r, "open") \/ Failing(c, r, "refresh")
  /\ status' \in {status, [status EXCEPT ![c] = "offline"]}
  /\ UNCHANGED pending

\* catchUp is best effort: nothing but the request is gone.  (Bounded by the
\* reconnects, it does not count as a failure.)
CatchUpFailed(c, r) ==
  /\ r.kind = "catchUp"
  /\ Done(c, r)
  /\ UNCHANGED <<log, mayMutate, page, canvas, previous, pending, revision,
                 status, bounds>>

\* A batch whose page is gone: nobody learns how it ended.
DetachedLost(c, r) ==
  /\ r.detached
  /\ Done(c, r)
  /\ UNCHANGED <<log, mayMutate, page, canvas, previous, pending, revision,
                 status, bounds>>

----------------------------------------------------------------------------
(* The server.                                                             *)

\* operations:batch: RBAC, then the append (or 403 without it).
ServerAppend(c, r) ==
  /\ r.kind = "batch"
  /\ r.phase = "sent"
  /\ \/ /\ mayMutate[c]
        /\ log' = AppendOperation(log, r.deltas)
        /\ Becomes(c, r, [r EXCEPT !.phase = "logged"])
     \/ /\ ~mayMutate[c]
        /\ Becomes(c, r, [r EXCEPT !.phase = "forbidden"])
        /\ UNCHANGED log
  /\ UNCHANGED <<mayMutate, page, canvas, previous, pending, revision,
                 status, bounds>>

\* Mutant of MissedBy: a batch two behind is treated as current.
MissedByLate(kind, base, head) ==
  \/ kind = "batch" /\ base + 2 < head
  \/ kind = "catchUp" /\ base < head

\* buildResult and loadOperationsAfter: are there operations after base that
\* the client has not sent with this request?
MissedBy(kind, base, head) ==
  \/ kind = "batch" /\ base + 1 < head
  \/ kind = "catchUp" /\ base < head

\* The reply, read from the log as it is by then.
ServerAnswer(c, r) ==
  /\ ~r.detached
  /\ r.phase = (IF r.kind = "batch" THEN "logged" ELSE "sent")
  /\ Becomes(c, r, [r EXCEPT !.phase = "answered",
                             !.base = 0,
                             !.revision = Len(log),
                             !.missed = MissedBy(r.kind, r.base, Len(log)),
                             !.allowed = (r.kind = "open" => mayMutate[c])])
  /\ UNCHANGED <<log, mayMutate, page, canvas, previous, pending, revision,
                 status, bounds>>

\* An admin demotes the user to a role without diagram:mutate.
Revoke(c) ==
  /\ revokes < MaxRevokes
  /\ mayMutate[c]
  /\ mayMutate' = [mayMutate EXCEPT ![c] = FALSE]
  /\ revokes' = revokes + 1
  /\ UNCHANGED <<log, pageVars, drawn, failures, reconnects, leaves>>

----------------------------------------------------------------------------
Deliver(c, r) ==
  \/ ServerAppend(c, r)
  \/ ServerAnswer(c, r)
  \/ Opened(c, r)
  \/ BatchAcked(c, r)
  \/ BatchForbidden(c, r)
  \/ CatchUpDone(c, r)
  \/ Refreshed(c, r)
  \/ DetachedLost(c, r)

Lose(c, r) ==
  \/ BatchFailed(c, r)
  \/ BootstrapFailed(c, r)
  \/ CatchUpFailed(c, r)

\* What happens by itself: timers fire, requests arrive or fail.
Progress ==
  \E c \in Clients :
    \/ Flush(c)
    \/ \E r \in DOMAIN requests[c] : Deliver(c, r) \/ Lose(c, r)

\* What users, admins and the network do.
Environment ==
  \E c \in Clients :
    \/ Open(c)
    \/ \E e \in Elements, n \in Nonces, d \in BOOLEAN : Edit(c, e, n, d)
    \/ Reconnect(c)
    \/ Navigate(c)
    \/ CloseTab(c)
    \/ Revoke(c)

Next == Progress \/ Environment

Spec == Init /\ [][Next]_vars

\* A queue with something in it has its debounce timer armed, and a request
\* in flight is answered or fails: while there is one, something happens.
FairSpec == Spec /\ WF_vars(Progress)

----------------------------------------------------------------------------
(* Properties.                                                             *)

Quiet(c) == ~HasDeltas(pending[c]) /\ requests[c] = EmptyBag

ServerScene == SceneAt(log, Len(log))

\* The shape of the state; a client never believes in a revision the server
\* has not reached.
TypeOK ==
  /\ \A k \in DOMAIN log : log[k] \in Operation /\ HasDeltas(log[k].deltas)
  /\ mayMutate \in [Clients -> BOOLEAN]
  /\ page \in [Clients -> {"closed", "loading", "open", "viewing"}]
  /\ \A c \in Clients :
       /\ canvas[c] \in Scenes /\ previous[c] \in Scenes /\ pending[c] \in Scenes
       /\ revision[c] \in 0..Len(log)
       /\ BagToSet(requests[c]) \subseteq Request
  /\ status \in [Clients -> {"saved", "saving", "offline", "readOnly"}]
  /\ drawn \subseteq Nonces

\* What is drawn is never dropped unseen: an element on the canvas of an
\* editor is named by a stored operation, or waits in the queue, or is in a
\* batch on its way, through lost requests, lost acks and overtaking batches.
\* (A batch answered 403 is dropped: that client lost its role.)
NoElementForgotten ==
  \A c \in Clients : page[c] = "open" /\ mayMutate[c] =>
    \A e \in Elements : Present(canvas[c][e]) =>
      \/ \E k \in DOMAIN log : Present(log[k].deltas[e])
      \/ Present(pending[c][e])
      \/ \E r \in DOMAIN requests[c] : Present(r.deltas[e])

\* REC-02: the stored scene never steps back to an older version of an
\* element, although resent, echoed and overtaken batches are appended
\* without regard to their baseRevision.
NeverOverNewer ==
  [][\A e \in Elements :
       \/ SceneAt(log', Len(log'))[e] = ServerScene[e]
       \/ ~Present(ServerScene[e])
       \/ RemoteWins(ServerScene[e], SceneAt(log', Len(log'))[e])]_vars

\* A delete that reached the log before the element it deletes was dropped.
DeleteOvertook(e) ==
  \E k \in DOMAIN log :
    /\ Present(log[k].deltas[e]) /\ log[k].deltas[e].isDeleted
    /\ ~Present(SceneAt(log, k - 1)[e])

\* A version of an element that was stored under a newer deletion of it, and so
\* changed nothing.
StoredUnderDeletion(e, s) ==
  \E k \in DOMAIN log :
    /\ log[k].deltas[e] = s
    /\ SceneAt(log, k - 1)[e].isDeleted
    /\ RemoteWins(s, SceneAt(log, k - 1)[e])

SameToTheEye(s, t) == IF Live(s) THEN s = t ELSE ~Live(t)

\* REC-05: as long as no request failed, a page that is at the head of the
\* log with nothing queued or in flight shows what the server stores,
\* whatever edits collided and in whatever order the replies came.  But a page
\* that painted a deletion and then an older reply can bring the element back:
\* it is then stored under its deletion, and the page is not told.
Converges ==
  failures = 0 =>
    \A c \in Clients :
      page[c] = "open" /\ mayMutate[c] /\ Quiet(c) /\ revision[c] = Len(log) =>
        \A e \in Elements :
          \/ DeleteOvertook(e)
          \/ SameToTheEye(canvas[c][e], ServerScene[e])
          \/ Live(canvas[c][e]) /\ StoredUnderDeletion(e, canvas[c][e])

\* Echoes and retries end: what a refresh paints is queued and sent again,
\* but this does not go on for ever; once failures end, every queue drains.
Settles == <>[](\A c \in Clients : Quiet(c))

\* REC-01 and REC-03: a page that shows Salvo with nothing queued and nothing
\* in flight has every one of its edits stored, in that or a newer version.
SavedMeansStored ==
  \A c \in Clients :
    page[c] = "open" /\ status[c] = "saved" /\ Quiet(c) =>
      \A e \in Elements :
        Live(canvas[c][e]) => ~RemoteWins(ServerScene[e], canvas[c][e])

\* The comment of onReconcile: after a failed refetch "the next reconnect
\* retries".  catchUp asks for what is newer than the known revision, so with
\* nothing in flight the canvas must show what that revision holds.
CanvasCoversRevision ==
  \A c \in Clients : page[c] = "open" /\ Quiet(c) =>
    \A e \in Elements :
      LET stored == SceneAt(log, revision[c])[e]
      IN  Live(stored) => ~RemoteWins(canvas[c][e], stored)

\* EDT-02: internal navigation flushes: what was queued is sent.
NavigationFlushes ==
  [][\A c \in Clients : Navigate(c) /\ mayMutate[c] =>
       \A e \in Elements : Present(pending[c][e]) =>
         \E r \in DOMAIN requests'[c] : r.deltas[e] = pending[c][e]]_vars
============================================================================
