--------------------------- MODULE ConvergeProofs ---------------------------
(***************************************************************************)
(* Convergence of the browser sync client, for any number of clients,      *)
(* elements, edits, reconnects, leaves and revocations: as long as no      *)
(* request fails, a page at the head of the log with nothing queued or in  *)
(* flight shows what the server stores.                                    *)
(*                                                                         *)
(* The argument: versions of an element are totally ordered and no two     *)
(* have the same version and nonce; the stored scene only goes up in that  *)
(* order; what a page shows is stored or on its way; and what is stored at *)
(* the revision a page believes in was painted, or will be by a refetch    *)
(* that is in flight.                                                      *)
(***************************************************************************)
EXTENDS SyncProofs

----------------------------------------------------------------------------
(* The inductive invariant, on top of SyncInv.                             *)

\* Every version of the element there is.
Versions(e) ==
  {Absent}
  \cup {log[k].deltas[e] : k \in DOMAIN log}
  \cup {log[k].scene[e] : k \in DOMAIN log}
  \cup {canvas[c][e] : c \in Clients}
  \cup {previous[c][e] : c \in Clients}
  \cup {pending[c][e] : c \in Clients}
  \cup UNION {{r.deltas[e] : r \in DOMAIN requests[c]} : c \in Clients}

\* The nonce tells the versions of an element apart.
VersionsOK ==
  \A e \in Elements :
    /\ \A s \in Versions(e) : /\ s \in Stamp
                              /\ ~Present(s) => s = Absent
                              /\ s.versionNonce \in drawn \cup {0}
    /\ \A s, t \in Versions(e) : SameVersion(s, t) => s = t

\* Some stored operation carries this version of the element.
Stored(e, s) == \E k \in DOMAIN log : log[k].deltas[e] = s

\* The stored scene only goes up, and an operation is reconciled into it.
HistoryOK ==
  \A e \in Elements :
    /\ \A j, k \in 0..Len(log) :
         j <= k => ~RemoteWins(SceneAt(log, k)[e], SceneAt(log, j)[e])
    /\ \A k \in DOMAIN log :
         /\ SceneAt(log, k)[e] \in {SceneAt(log, k - 1)[e], log[k].deltas[e]}
         /\ Present(SceneAt(log, k)[e]) => Stored(e, SceneAt(log, k)[e])
         /\ \/ ~RemoteWins(SceneAt(log, k)[e], log[k].deltas[e])
            \/ /\ log[k].deltas[e].isDeleted
               /\ ~Present(SceneAt(log, k - 1)[e])

\* Nothing is on a page before the one request that opens it is answered.
PageOK(c) ==
  /\ ~Mounted(c) =>
       /\ canvas[c] = EmptyScene /\ previous[c] = EmptyScene
       /\ pending[c] = EmptyScene
       /\ \A r \in DOMAIN requests[c] : r.detached \/ r.kind = "open"
  /\ \A r \in DOMAIN requests[c] :
       /\ r.detached => r.kind = "batch"
       /\ r.kind = "open" =>
            /\ page[c] = "loading"
            /\ requests[c][r] = 1
            /\ \A q \in DOMAIN requests[c] : q.kind = "open" => q = r

\* What the next diff is taken against is what is shown, but for deletions;
\* what is queued or in flight is never newer.
ScreenOK(c) ==
  \A e \in Elements :
    /\ Live(canvas[c][e]) \/ Live(previous[c][e]) =>
         canvas[c][e] = previous[c][e]
    /\ ~RemoteWins(canvas[c][e], previous[c][e])
    /\ ~RemoteWins(previous[c][e], pending[c][e])
    /\ \A r \in DOMAIN requests[c] :
         ~r.detached => ~RemoteWins(previous[c][e], r.deltas[e])

\* A page of which nothing was lost so far.
Writing(c) == failures = 0 /\ page[c] = "open" /\ mayMutate[c]

\* The version is queued, or in a batch the server has yet to handle.
OnItsWay(c, e, s) ==
  \/ pending[c][e] = s
  \/ \E r \in DOMAIN requests[c] :
       /\ ~r.detached /\ r.kind = "batch" /\ r.phase = "sent"
       /\ r.deltas[e] = s

\* Everything the page holds is stored or on its way.
SentOK(c) ==
  \A e \in Elements : \A s \in {canvas[c][e], previous[c][e]} :
    Present(s) => Stored(e, s) \/ OnItsWay(c, e, s)

\* The page knows what is live at revision n, unless it was deleted since; and
\* an element deleted by then that it still shows is stored, or on its way to
\* be, under that deletion, unless it was restored since.
Covers(c, n) ==
  \A e \in Elements :
    /\ Live(SceneAt(log, n)[e]) =>
         \/ ~RemoteWins(previous[c][e], SceneAt(log, n)[e])
         \/ \E m \in (n + 1)..Len(log) : ~Live(SceneAt(log, m)[e])
    /\ /\ ~Live(SceneAt(log, n)[e]) /\ Live(canvas[c][e])
       /\ RemoteWins(canvas[c][e], SceneAt(log, n)[e])
       => \/ StoredUnderDeletion(e, canvas[c][e])
          \/ OnItsWay(c, e, canvas[c][e])
          \/ \E m \in (n + 1)..Len(log) : Live(SceneAt(log, m)[e])

\* What was stored between revisions m and n came from the page itself.
OwnSince(c, m, n) ==
  \A e \in Elements :
    \/ SceneAt(log, n)[e] = SceneAt(log, m)[e]
    \/ ~RemoteWins(previous[c][e], SceneAt(log, n)[e])

\* The page covers revision n, or will when a refetch in flight is answered.
CatchesUp(c, n) ==
  \/ Covers(c, n)
  \/ \E r \in DOMAIN requests[c] :
       /\ r.kind = "refresh"
       /\ \/ r.phase = "sent"
          \/ /\ r.phase = "answered"
             /\ n <= r.revision \/ OwnSince(c, r.revision, n)

\* The known revision, the base of every batch in flight, and the revision that
\* a reply brings without a refetch are all caught up with.
BatchOK(c, r) ==
  r.kind = "batch" /\ ~r.detached =>
    /\ r.phase \in {"sent", "logged"} => r.base <= Len(log) /\ CatchesUp(c, r.base)
    /\ r.phase = "logged" =>
         \E k \in DOMAIN log : k > r.base /\ log[k].deltas = r.deltas
    /\ r.phase = "answered" /\ ~r.missed => CatchesUp(c, r.revision)

RevisionOK(c) ==
  /\ CatchesUp(c, revision[c])
  /\ \A r \in DOMAIN requests[c] : BatchOK(c, r)

\* What holds whether or not a request failed.
Known ==
  /\ SyncInv
  /\ failures \in Nat
  /\ VersionsOK
  /\ HistoryOK
  /\ \A c \in Clients : PageOK(c) /\ ScreenOK(c)

\* What holds of a page as long as no request failed.
Caught(c) == SentOK(c) /\ RevisionOK(c)

ConvergeInv == Known /\ \A c \in Clients : Writing(c) => Caught(c)

----------------------------------------------------------------------------
(* The order of versions.                                                  *)

\* The versions of an element are totally ordered.
LEMMA Order ==
  ASSUME NEW s \in Stamp, NEW t \in Stamp, NEW u \in Stamp
  PROVE  /\ ~RemoteWins(s, s)
         /\ RemoteWins(s, t) => ~RemoteWins(t, s)
         /\ ~RemoteWins(s, t) /\ ~RemoteWins(t, u) => ~RemoteWins(s, u)
         /\ RemoteWins(s, t) /\ ~RemoteWins(u, t) => RemoteWins(s, u)
         /\ ~RemoteWins(s, t) /\ RemoteWins(s, u) => RemoteWins(t, u)
         /\ ~RemoteWins(s, t) /\ ~RemoteWins(t, s) => SameVersion(s, t)
         /\ ~RemoteWins(s, t) /\ Present(t) => Present(s)
         /\ RemoteWins(s, t) /\ Present(s) => Present(t)
         /\ (~Present(s) => s = Absent) => ~RemoteWins(s, Absent)
         /\ Live(s) /\ RemoteWins(s, t) /\ ~Live(t) => t.isDeleted
BY DEF Stamp, RemoteWins, SameVersion, Present, Live, Absent

\* Merging takes the newer of two versions.
LEMMA MergeOrder ==
  ASSUME NEW s \in Stamp, NEW t \in Stamp,
         ~Present(s) => s = Absent, ~Present(t) => t = Absent
  PROVE  /\ ~RemoteWins(MergeElement(s, t), s)
         /\ ~RemoteWins(MergeElement(s, t), t)
         /\ MergeElement(s, t) \in {s, t}
BY DEF Stamp, RemoteWins, Present, Absent, MergeElement

\* Reconciling a delta goes up to it, unless it deletes what is not there.
LEMMA ReconcileOrder ==
  ASSUME NEW s \in Scenes, NEW d \in Scenes, NEW e \in Elements,
         ~Present(s[e]) => s[e] = Absent, ~Present(d[e]) => d[e] = Absent
  PROVE  LET t == ReconcileOperation(s, d)[e]
         IN  /\ t \in {s[e], d[e]}
             /\ ~RemoteWins(t, s[e])
             /\ Present(t) => t = s[e] \/ Present(d[e])
             /\ ~RemoteWins(t, d[e]) \/ (d[e].isDeleted /\ ~Present(s[e]))
<1> DEFINE x == [f \in Elements |-> IF Effective(s[f], d[f]) THEN d[f] ELSE Absent]
           t == ReconcileOperation(s, d)[e]
<1>1. x \in Scenes /\ x[e] = IF Effective(s[e], d[e]) THEN d[e] ELSE Absent
  BY EmptyFacts DEF Scenes
<1>2. ReconcileOperation(s, d) = MergeScene(s, x)
  BY DEF ReconcileOperation
<1> HIDE DEF x
<1>3. t = MergeElement(s[e], x[e])
  BY <1>1, <1>2, MergeFacts
<1>4. s[e] \in Stamp /\ d[e] \in Stamp /\ x[e] \in Stamp
  BY <1>1 DEF Scenes
<1>5. ~Present(x[e]) => x[e] = Absent
  BY <1>1
<1>6. t \in {s[e], x[e]} /\ ~RemoteWins(t, s[e]) /\ ~RemoteWins(t, x[e])
  BY <1>3, <1>4, <1>5, MergeOrder
<1> HIDE DEF t
<1>7. t \in {s[e], d[e]} /\ (Present(t) => t = s[e] \/ Present(d[e]))
  <2>1. CASE x[e] = d[e]
    BY <1>6, <2>1
  <2>2. CASE x[e] = Absent /\ x[e] # d[e]
    <3>1. CASE t = s[e]
      BY <3>1
    <3>2. CASE t = Absent
      <4>1. ~Present(s[e])
        BY <1>4, <1>6, <3>2, EmptyFacts, Order
      <4>2. QED
        BY <3>2, <4>1
    <3>3. QED
      BY <1>6, <2>2, <3>1, <3>2
  <2>3. QED
    BY <1>1, <2>1, <2>2
<1>8. ~RemoteWins(t, d[e]) \/ (d[e].isDeleted /\ ~Present(s[e]))
  <2>1. CASE Effective(s[e], d[e])
    <3>1. x[e] = d[e]
      BY <1>1, <2>1 DEF Effective
    <3>2. QED
      BY <1>6, <3>1
  <2>2. CASE ~Effective(s[e], d[e])
    BY <2>2 DEF Effective
  <2>3. QED
    BY <2>1, <2>2
<1>9. QED
  BY <1>6, <1>7, <1>8 DEF t

----------------------------------------------------------------------------
(* Counting requests.                                                      *)

\* Sending one counts it.
LEMMA AddCount ==
  ASSUME NEW B, NEW x
  PROVE  /\ DOMAIN BagAdd(B, x) = DOMAIN B \cup {x}
         /\ \A q \in DOMAIN B : q # x => BagAdd(B, x)[q] = B[q]
         /\ x \notin DOMAIN B => BagAdd(B, x)[x] = 1
BY DEF BagAdd

\* A request that is there once is gone when it is done.
LEMMA RemoveCount ==
  ASSUME NEW B, NEW x
  PROVE  /\ DOMAIN BagRemove(B, x) \subseteq DOMAIN B
         /\ DOMAIN B \ {x} \subseteq DOMAIN BagRemove(B, x)
         /\ \A q \in DOMAIN BagRemove(B, x) : q # x => BagRemove(B, x)[q] = B[q]
         /\ B[x] = 1 => x \notin DOMAIN BagRemove(B, x)
BY DEF BagRemove
----------------------------------------------------------------------------
(* What each action changes, client by client.                             *)

\* The other clients' pages are untouched.
Others(c) ==
  \A d \in Clients \ {c} :
    /\ page'[d] = page[d] /\ canvas'[d] = canvas[d] /\ previous'[d] = previous[d]
    /\ pending'[d] = pending[d] /\ revision'[d] = revision[d]
    /\ requests'[d] = requests[d]

\* Neither the log nor a role changes, and nothing is drawn or fails.
Calm == UNCHANGED <<log, mayMutate, drawn, failures>>

SameScreen(c) ==
  canvas'[c] = canvas[c] /\ previous'[c] = previous[c] /\ pending'[c] = pending[c]

\* The pages are functions on the clients.
LEMMA Pages == SyncInv => PerClient(page) /\ PerClient(canvas) /\ PerClient(previous)
                          /\ PerClient(pending) /\ PerClient(revision) /\ PerClient(requests)
BY DEF SyncInv, Shape, PerClient

\* The route mounts, or the presence socket is back.
LEMMA AskEffect ==
  ASSUME SyncInv, NEW c \in Clients, Open(c) \/ Reconnect(c)
  PROVE  /\ Calm /\ Others(c) /\ SameScreen(c) /\ revision'[c] = revision[c]
         /\ \/ /\ page[c] = "closed" /\ page'[c] = "loading"
               /\ requests'[c] = BagAdd(requests[c], NewRequest("open", EmptyScene, 0))
            \/ /\ Mounted(c) /\ page'[c] = page[c]
               /\ requests'[c] = BagAdd(requests[c],
                                        NewRequest("catchUp", EmptyScene, revision[c]))
<1>1. CASE Open(c)
  <2>1. /\ Calm /\ UNCHANGED <<canvas, previous, pending, revision>>
        /\ page[c] = "closed"
        /\ page' = [page EXCEPT ![c] = "loading"]
        /\ requests' = [requests EXCEPT ![c] =
                          BagAdd(requests[c], NewRequest("open", EmptyScene, 0))]
    BY <1>1 DEF Open, Send, Calm, bounds
  <2>2. page'[c] = "loading" /\ \A d \in Clients \ {c} : page'[d] = page[d]
    BY <2>1, Pages DEF PerClient
  <2>3. /\ requests'[c] = BagAdd(requests[c], NewRequest("open", EmptyScene, 0))
        /\ \A d \in Clients \ {c} : requests'[d] = requests[d]
    BY <2>1, Pages DEF PerClient
  <2>4. QED
    BY <2>1, <2>2, <2>3 DEF Others, SameScreen
<1>2. CASE Reconnect(c)
  <2>1. /\ Calm /\ UNCHANGED <<page, canvas, previous, pending, revision>>
        /\ Mounted(c)
        /\ requests' = [requests EXCEPT ![c] =
                          BagAdd(requests[c], NewRequest("catchUp", EmptyScene, revision[c]))]
    BY <1>2 DEF Reconnect, Send, Calm
  <2>2. /\ requests'[c] = BagAdd(requests[c], NewRequest("catchUp", EmptyScene, revision[c]))
        /\ \A d \in Clients \ {c} : requests'[d] = requests[d]
    BY <2>1, Pages DEF PerClient
  <2>3. QED
    BY <2>1, <2>2 DEF Others, SameScreen
<1>3. QED
  BY <1>1, <1>2

\* bootstrap resolved.
LEMMA OpenedEffect ==
  ASSUME SyncInv, NEW c \in Clients, NEW r, Opened(c, r)
  PROVE  /\ Calm /\ Others(c)
         /\ r.kind = "open" /\ ~r.detached
         /\ page'[c] \in {"open", "viewing"}
         /\ canvas'[c] = SceneAt(log, r.revision)
         /\ previous'[c] = SceneAt(log, r.revision)
         /\ pending'[c] = pending[c]
         /\ revision'[c] = r.revision
         /\ requests'[c] = BagRemove(requests[c], r)
<1>1. /\ Calm /\ UNCHANGED pending /\ r.kind = "open" /\ ~r.detached
      /\ page' = [page EXCEPT ![c] = IF r.allowed THEN "open" ELSE "viewing"]
      /\ canvas' = [canvas EXCEPT ![c] = SceneAt(log, r.revision)]
      /\ previous' = [previous EXCEPT ![c] = SceneAt(log, r.revision)]
      /\ revision' = [revision EXCEPT ![c] = r.revision]
      /\ requests' = [requests EXCEPT ![c] = BagRemove(requests[c], r)]
  BY DEF Opened, Answered, Done, Calm, bounds
<1>2. /\ page'[c] = (IF r.allowed THEN "open" ELSE "viewing")
      /\ \A d \in Clients \ {c} : page'[d] = page[d]
  BY <1>1, Pages DEF PerClient
<1>3. canvas'[c] = SceneAt(log, r.revision) /\ \A d \in Clients \ {c} : canvas'[d] = canvas[d]
  BY <1>1, Pages DEF PerClient
<1>4. previous'[c] = SceneAt(log, r.revision) /\ \A d \in Clients \ {c} : previous'[d] = previous[d]
  BY <1>1, Pages DEF PerClient
<1>5. revision'[c] = r.revision /\ \A d \in Clients \ {c} : revision'[d] = revision[d]
  BY <1>1, Pages DEF PerClient
<1>6. requests'[c] = BagRemove(requests[c], r) /\ \A d \in Clients \ {c} : requests'[d] = requests[d]
  BY <1>1, Pages DEF PerClient
<1>7. QED
  BY <1>1, <1>2, <1>3, <1>4, <1>5, <1>6 DEF Others

\* The version an edit draws.
Drawn(c, e, nonce, delete) ==
  [version |-> canvas[c][e].version + 1, versionNonce |-> nonce, isDeleted |-> delete]

\* onChange of the page of one client.
LEMMA ChangeEffect ==
  ASSUME SyncInv, NEW c \in Clients, NEW next, OnChange(c, next)
  PROVE  /\ canvas'[c] = next
         /\ previous'[c] = IF HasDeltas(ComputeDiff(previous[c], next))
                           THEN next ELSE previous[c]
         /\ pending'[c] = Enqueued(pending[c], ComputeDiff(previous[c], next))
         /\ \A d \in Clients \ {c} : /\ canvas'[d] = canvas[d]
                                     /\ previous'[d] = previous[d]
                                     /\ pending'[d] = pending[d]
<1>1. /\ canvas' = [canvas EXCEPT ![c] = next]
      /\ previous' = [previous EXCEPT ![c] =
                        IF HasDeltas(ComputeDiff(previous[c], next)) THEN next ELSE previous[c]]
      /\ pending' = [pending EXCEPT ![c] =
                        Enqueued(pending[c], ComputeDiff(previous[c], next))]
  BY DEF OnChange
<1>2. QED
  BY <1>1, Pages DEF PerClient

\* The user edits an element.
LEMMA EditEffect ==
  ASSUME SyncInv, NEW c \in Clients, NEW e \in Elements, NEW nonce, NEW delete,
         Edit(c, e, nonce, delete)
  PROVE  LET next == [canvas[c] EXCEPT ![e] = Drawn(c, e, nonce, delete)]
         IN  /\ UNCHANGED <<log, mayMutate, failures>>
             /\ nonce \notin drawn /\ drawn' = drawn \cup {nonce}
             /\ Others(c)
             /\ page[c] = "open" /\ page'[c] = page[c]
             /\ delete => Live(canvas[c][e])
             /\ OnChange(c, next)
             /\ revision'[c] = revision[c] /\ requests'[c] = requests[c]
<1> DEFINE next == [canvas[c] EXCEPT ![e] = Drawn(c, e, nonce, delete)]
<1>1. /\ UNCHANGED <<log, mayMutate, failures, page, revision, requests>>
      /\ nonce \notin drawn /\ drawn' = drawn \cup {nonce}
      /\ page[c] = "open"
      /\ delete => Live(canvas[c][e])
      /\ OnChange(c, next)
  BY DEF Edit, Drawn
<1> HIDE DEF next
<1>2. QED
  BY <1>1, ChangeEffect DEF Others, next

\* The queue is flushed.
LEMMA FlushEffect ==
  ASSUME SyncInv, NEW c \in Clients, Flush(c)
  PROVE  /\ Calm /\ Others(c)
         /\ Mounted(c) /\ HasDeltas(pending[c])
         /\ page'[c] = page[c] /\ canvas'[c] = canvas[c] /\ previous'[c] = previous[c]
         /\ revision'[c] = revision[c]
         /\ pending'[c] = EmptyScene
         /\ requests'[c] = BagAdd(requests[c],
                                  NewRequest("batch", pending[c], revision[c]))
<1>1. /\ Calm /\ UNCHANGED <<page, canvas, previous, revision>>
      /\ Mounted(c) /\ HasDeltas(pending[c])
      /\ pending' = [pending EXCEPT ![c] = EmptyScene]
      /\ requests' = [requests EXCEPT ![c] =
                        BagAdd(requests[c], NewRequest("batch", pending[c], revision[c]))]
  BY DEF Flush, Send, Calm, bounds
<1>2. pending'[c] = EmptyScene /\ \A d \in Clients \ {c} : pending'[d] = pending[d]
  BY <1>1, Pages DEF PerClient
<1>3. /\ requests'[c] = BagAdd(requests[c], NewRequest("batch", pending[c], revision[c]))
      /\ \A d \in Clients \ {c} : requests'[d] = requests[d]
  BY <1>1, Pages DEF PerClient
<1>4. QED
  BY <1>1, <1>2, <1>3 DEF Others

\* The page is gone; batches the server has yet to handle survive it.
LEMMA LeaveEffect ==
  ASSUME SyncInv, NEW c \in Clients, Navigate(c) \/ CloseTab(c)
  PROVE  /\ Calm /\ Others(c)
         /\ page'[c] = "closed"
         /\ canvas'[c] = EmptyScene /\ previous'[c] = EmptyScene /\ pending'[c] = EmptyScene
         /\ \A q \in DOMAIN requests'[c] :
              /\ q.kind = "batch" /\ q.detached
              /\ \/ q.deltas = pending[c]
                 \/ \E r \in DOMAIN requests[c] : q.deltas = r.deltas
<1>1. PICK bag :
        /\ Discard(c, bag)
        /\ \/ bag = requests[c]
           \/ bag = BagAdd(requests[c], NewRequest("batch", pending[c], revision[c]))
  BY DEF Navigate, CloseTab
<1>2. /\ Calm
      /\ page' = [page EXCEPT ![c] = "closed"]
      /\ canvas' = [canvas EXCEPT ![c] = EmptyScene]
      /\ previous' = [previous EXCEPT ![c] = EmptyScene]
      /\ pending' = [pending EXCEPT ![c] = EmptyScene]
      /\ revision' = [revision EXCEPT ![c] = 0]
      /\ requests' = [requests EXCEPT ![c] = Detach(bag)]
  BY <1>1 DEF Discard, Calm
<1>3. page'[c] = "closed" /\ \A d \in Clients \ {c} : page'[d] = page[d]
  BY <1>2, Pages DEF PerClient
<1>4. canvas'[c] = EmptyScene /\ \A d \in Clients \ {c} : canvas'[d] = canvas[d]
  BY <1>2, Pages DEF PerClient
<1>5. previous'[c] = EmptyScene /\ \A d \in Clients \ {c} : previous'[d] = previous[d]
  BY <1>2, Pages DEF PerClient
<1>6. pending'[c] = EmptyScene /\ \A d \in Clients \ {c} : pending'[d] = pending[d]
  BY <1>2, Pages DEF PerClient
<1>7. \A d \in Clients \ {c} : revision'[d] = revision[d]
  BY <1>2, Pages DEF PerClient
<1>8. requests'[c] = Detach(bag) /\ \A d \in Clients \ {c} : requests'[d] = requests[d]
  BY <1>2, Pages DEF PerClient
<1>9. ASSUME NEW q \in DOMAIN Detach(bag)
      PROVE  /\ q.kind = "batch" /\ q.detached
             /\ \/ q.deltas = pending[c]
                \/ \E r \in DOMAIN requests[c] : q.deltas = r.deltas
  <2>1. PICK r \in DOMAIN bag : /\ r.kind = "batch" /\ r.phase = "sent"
                              /\ q = [r EXCEPT !.detached = TRUE]
    BY DetachDomain
  <2>2. r \in DOMAIN requests[c] \/ r = NewRequest("batch", pending[c], revision[c])
    <3>1. DOMAIN BagAdd(requests[c], NewRequest("batch", pending[c], revision[c]))
            = DOMAIN requests[c] \cup {NewRequest("batch", pending[c], revision[c])}
      BY AddDomain
    <3>2. QED
      BY <1>1, <3>1
  <2>3. r \in Request /\ (r \in DOMAIN requests[c] \/ r.deltas = pending[c])
    <3>1. CASE r \in DOMAIN requests[c]
      BY <3>1 DEF SyncInv, ClientOK, RequestOK
    <3>2. CASE r = NewRequest("batch", pending[c], revision[c])
      <4>1. pending[c] \in Scenes /\ revision[c] \in Nat
        BY DEF SyncInv, ClientOK, LogOK
      <4>2. QED
        BY <3>2, <4>1 DEF NewRequest, Request
    <3>3. QED
      BY <2>2, <3>1, <3>2
  <2>4. q.kind = r.kind /\ q.detached /\ q.deltas = r.deltas
    BY <2>1, <2>3 DEF Request
  <2>5. QED
    BY <2>1, <2>3, <2>4
<1>10. QED
  BY <1>2, <1>3, <1>4, <1>5, <1>6, <1>7, <1>8, <1>9 DEF Others
\* A reply or a failure that leaves the screen alone: the request ends, or a
\* refetch takes its place; a batch's reply brings the revision.
LEMMA ReplyEffect ==
  ASSUME SyncInv, NEW c \in Clients, NEW r,
         \/ BatchAcked(c, r) \/ BatchForbidden(c, r) \/ CatchUpDone(c, r)
         \/ BootstrapFailed(c, r) \/ CatchUpFailed(c, r) \/ DetachedLost(c, r)
  PROVE  /\ UNCHANGED <<log, mayMutate, drawn>>
         /\ Others(c) /\ SameScreen(c) /\ page'[c] = page[c]
         /\ \/ /\ requests'[c] = BagRemove(requests[c], r)
               /\ revision'[c] = revision[c]
               /\ \/ failures' = failures + 1
                  \/ failures' = failures /\ r.phase = "forbidden"
                  \/ failures' = failures /\ r.kind = "catchUp"
                  \/ failures' = failures /\ r.detached
            \/ /\ requests'[c] = BagRemove(requests[c], r)
               /\ revision'[c] = r.revision
               /\ failures' = failures
               /\ r.kind = "batch" /\ r.phase = "answered" /\ ~r.missed /\ ~r.detached
            \/ /\ requests'[c] = BagAdd(BagRemove(requests[c], r),
                                        NewRequest("refresh", EmptyScene, 0))
               /\ revision'[c] = r.revision
               /\ failures' = failures
               /\ r.kind \in {"batch", "catchUp"} /\ r.phase = "answered" /\ ~r.detached
<1> DEFINE bag == requests'[c]
           removed == BagRemove(requests[c], r)
           fresh == BagAdd(removed, NewRequest("refresh", EmptyScene, 0))
<1>1. UNCHANGED <<log, mayMutate, drawn, page, canvas, previous, pending>>
  BY DEF BatchAcked, BatchForbidden, CatchUpDone, BootstrapFailed, CatchUpFailed,
         DetachedLost, Failing, bounds
<1>2. ASSUME requests' = [requests EXCEPT ![c] = removed]
      PROVE  requests'[c] = removed /\ \A d \in Clients \ {c} : requests'[d] = requests[d]
  BY <1>2, Pages DEF PerClient
<1>3. ASSUME requests' = [requests EXCEPT ![c] = fresh]
      PROVE  requests'[c] = fresh /\ \A d \in Clients \ {c} : requests'[d] = requests[d]
  BY <1>3, Pages DEF PerClient
<1>4. ASSUME revision' = [revision EXCEPT ![c] = r.revision]
      PROVE  revision'[c] = r.revision /\ \A d \in Clients \ {c} : revision'[d] = revision[d]
  BY <1>4, Pages DEF PerClient
<1>5. CASE BatchAcked(c, r)
  <2>1. /\ r.kind = "batch" /\ r.phase = "answered" /\ ~r.detached /\ failures' = failures
        /\ revision' = [revision EXCEPT ![c] = r.revision]
        /\ \/ r.missed /\ requests' = [requests EXCEPT ![c] = fresh]
           \/ ~r.missed /\ requests' = [requests EXCEPT ![c] = removed]
    BY <1>5 DEF BatchAcked, Answered, Reconcile, Becomes, Done, bounds
  <2> HIDE DEF fresh, removed
  <2>2. CASE r.missed /\ requests' = [requests EXCEPT ![c] = fresh]
    BY <1>1, <1>3, <1>4, <2>1, <2>2 DEF Others, SameScreen, fresh, removed
  <2>3. CASE ~r.missed /\ requests' = [requests EXCEPT ![c] = removed]
    BY <1>1, <1>2, <1>4, <2>1, <2>3 DEF Others, SameScreen, removed
  <2>4. QED
    BY <2>1, <2>2, <2>3
<1>6. CASE CatchUpDone(c, r)
  <2>1. /\ r.kind = "catchUp" /\ r.phase = "answered" /\ ~r.detached /\ failures' = failures
        /\ \/ /\ requests' = [requests EXCEPT ![c] = fresh]
              /\ revision' = [revision EXCEPT ![c] = r.revision]
           \/ requests' = [requests EXCEPT ![c] = removed] /\ UNCHANGED revision
    BY <1>6 DEF CatchUpDone, Answered, Reconcile, Becomes, Done, bounds
  <2> HIDE DEF fresh, removed
  <2>2. CASE /\ requests' = [requests EXCEPT ![c] = fresh]
             /\ revision' = [revision EXCEPT ![c] = r.revision]
    BY <1>1, <1>3, <1>4, <2>1, <2>2 DEF Others, SameScreen, fresh, removed
  <2>3. CASE requests' = [requests EXCEPT ![c] = removed] /\ UNCHANGED revision
    BY <1>1, <1>2, <2>1, <2>3 DEF Others, SameScreen, removed
  <2>4. QED
    BY <2>1, <2>2, <2>3
<1>7. CASE BatchForbidden(c, r) \/ BootstrapFailed(c, r) \/ CatchUpFailed(c, r)
           \/ DetachedLost(c, r)
  <2>1. /\ requests' = [requests EXCEPT ![c] = removed] /\ UNCHANGED revision
        /\ \/ failures' = failures + 1
           \/ failures' = failures /\ r.phase = "forbidden"
           \/ failures' = failures /\ r.kind = "catchUp"
           \/ failures' = failures /\ r.detached
    BY <1>7 DEF BatchForbidden, BootstrapFailed, CatchUpFailed, DetachedLost, Failing,
                Done, bounds
  <2> HIDE DEF removed
  <2>2. QED
    BY <1>1, <1>2, <2>1 DEF Others, SameScreen, removed
<1>8. QED
  BY <1>5, <1>6, <1>7

\* A lost batch is queued again.
LEMMA FailedEffect ==
  ASSUME SyncInv, NEW c \in Clients, NEW r, BatchFailed(c, r)
  PROVE  /\ UNCHANGED <<log, mayMutate, drawn>> /\ failures' = failures + 1
         /\ Others(c)
         /\ r.kind = "batch" /\ ~r.detached
         /\ page'[c] = page[c] /\ canvas'[c] = canvas[c] /\ previous'[c] = previous[c]
         /\ pending'[c] = Enqueued(pending[c], r.deltas)
         /\ requests'[c] = BagRemove(requests[c], r)
<1>1. /\ UNCHANGED <<log, mayMutate, drawn, page, canvas, previous, revision>>
      /\ failures' = failures + 1
      /\ r.kind = "batch" /\ ~r.detached
      /\ pending' = [pending EXCEPT ![c] = Enqueued(pending[c], r.deltas)]
      /\ requests' = [requests EXCEPT ![c] = BagRemove(requests[c], r)]
  BY DEF BatchFailed, Failing, Done
<1>2. /\ pending'[c] = Enqueued(pending[c], r.deltas)
      /\ \A d \in Clients \ {c} : pending'[d] = pending[d]
  BY <1>1, Pages DEF PerClient
<1>3. /\ requests'[c] = BagRemove(requests[c], r)
      /\ \A d \in Clients \ {c} : requests'[d] = requests[d]
  BY <1>1, Pages DEF PerClient
<1>4. QED
  BY <1>1, <1>2, <1>3 DEF Others

\* The refetched scene is painted.
LEMMA RefreshedEffect ==
  ASSUME SyncInv, NEW c \in Clients, NEW r, Refreshed(c, r)
  PROVE  /\ Calm /\ Others(c)
         /\ r.kind = "refresh" /\ r.phase = "answered" /\ ~r.detached
         /\ page'[c] = page[c]
         /\ OnChange(c, MergeScene(previous[c], SceneAt(log, r.revision)))
         /\ revision'[c] = r.revision
         /\ requests'[c] = BagRemove(requests[c], r)
<1> DEFINE next == MergeScene(previous[c], SceneAt(log, r.revision))
<1>1. /\ Calm /\ UNCHANGED page
      /\ r.kind = "refresh" /\ r.phase = "answered" /\ ~r.detached
      /\ OnChange(c, next)
      /\ revision' = [revision EXCEPT ![c] = r.revision]
      /\ requests' = [requests EXCEPT ![c] = BagRemove(requests[c], r)]
  BY DEF Refreshed, Answered, Done, Calm, bounds
<1> HIDE DEF next
<1>2. revision'[c] = r.revision /\ \A d \in Clients \ {c} : revision'[d] = revision[d]
  BY <1>1, Pages DEF PerClient
<1>3. /\ requests'[c] = BagRemove(requests[c], r)
      /\ \A d \in Clients \ {c} : requests'[d] = requests[d]
  BY <1>1, Pages DEF PerClient
<1>4. QED
  BY <1>1, <1>2, <1>3, ChangeEffect DEF Others, next

\* The server moves a request on.
LEMMA MoveEffect ==
  ASSUME SyncInv, NEW c \in Clients, NEW r \in DOMAIN requests[c],
         ServerAppend(c, r) \/ ServerAnswer(c, r)
  PROVE  /\ UNCHANGED <<mayMutate, drawn, failures>>
         /\ Others(c) /\ SameScreen(c) /\ page'[c] = page[c] /\ revision'[c] = revision[c]
         /\ \E s : /\ requests'[c] = BagAdd(BagRemove(requests[c], r), s)
                   /\ s.kind = r.kind /\ s.detached = r.detached /\ s.deltas = r.deltas
                   /\ \/ /\ r.kind = "batch" /\ r.phase = "sent" /\ mayMutate[c]
                         /\ log' = AppendOperation(log, r.deltas)
                         /\ s.phase = "logged" /\ s.base = r.base
                      \/ /\ r.kind = "batch" /\ r.phase = "sent" /\ ~mayMutate[c]
                         /\ UNCHANGED log
                         /\ s.phase = "forbidden"
                      \/ /\ ~r.detached
                         /\ r.phase = (IF r.kind = "batch" THEN "logged" ELSE "sent")
                         /\ UNCHANGED log
                         /\ s.phase = "answered" /\ s.revision = Len(log)
                         /\ s.missed = MissedBy(r.kind, r.base, Len(log))
<1>1. UNCHANGED <<mayMutate, drawn, failures, page, canvas, previous, pending, revision>>
  BY DEF ServerAppend, ServerAnswer, bounds
<1>2. r \in Request
  BY DEF SyncInv, ClientOK, RequestOK
<1>3. PICK s : /\ requests' = [requests EXCEPT ![c] = BagAdd(BagRemove(requests[c], r), s)]
               /\ s.kind = r.kind /\ s.detached = r.detached /\ s.deltas = r.deltas
               /\ \/ /\ r.kind = "batch" /\ r.phase = "sent" /\ mayMutate[c]
                     /\ log' = AppendOperation(log, r.deltas)
                     /\ s.phase = "logged" /\ s.base = r.base
                  \/ /\ r.kind = "batch" /\ r.phase = "sent" /\ ~mayMutate[c]
                     /\ UNCHANGED log
                     /\ s.phase = "forbidden"
                  \/ /\ ~r.detached
                     /\ r.phase = (IF r.kind = "batch" THEN "logged" ELSE "sent")
                     /\ UNCHANGED log
                     /\ s.phase = "answered" /\ s.revision = Len(log)
                     /\ s.missed = MissedBy(r.kind, r.base, Len(log))
  <2>1. CASE mayMutate[c] /\ ServerAppend(c, r)
    <3> DEFINE s == [r EXCEPT !.phase = "logged"]
    <3>1. /\ r.kind = "batch" /\ r.phase = "sent"
          /\ log' = AppendOperation(log, r.deltas)
          /\ requests' = [requests EXCEPT ![c] = BagAdd(BagRemove(requests[c], r), s)]
      BY <2>1 DEF ServerAppend, Becomes
    <3>2. /\ s.kind = r.kind /\ s.detached = r.detached /\ s.deltas = r.deltas
          /\ s.phase = "logged" /\ s.base = r.base
      BY <1>2 DEF Request
    <3> HIDE DEF s
    <3>3. QED
      BY <2>1, <3>1, <3>2
  <2>2. CASE ~mayMutate[c] /\ ServerAppend(c, r)
    <3> DEFINE s == [r EXCEPT !.phase = "forbidden"]
    <3>1. /\ r.kind = "batch" /\ r.phase = "sent" /\ UNCHANGED log
          /\ requests' = [requests EXCEPT ![c] = BagAdd(BagRemove(requests[c], r), s)]
      BY <2>2 DEF ServerAppend, Becomes
    <3>2. /\ s.kind = r.kind /\ s.detached = r.detached /\ s.deltas = r.deltas
          /\ s.phase = "forbidden"
      BY <1>2 DEF Request
    <3> HIDE DEF s
    <3>3. QED
      BY <2>2, <3>1, <3>2
  <2>3. CASE ServerAnswer(c, r)
    <3> DEFINE s == [r EXCEPT !.phase = "answered", !.base = 0, !.revision = Len(log),
                              !.missed = MissedBy(r.kind, r.base, Len(log)),
                              !.allowed = (r.kind = "open" => mayMutate[c])]
    <3>1. /\ ~r.detached /\ UNCHANGED log
          /\ r.phase = (IF r.kind = "batch" THEN "logged" ELSE "sent")
          /\ requests' = [requests EXCEPT ![c] = BagAdd(BagRemove(requests[c], r), s)]
      BY <2>3 DEF ServerAnswer, Becomes
    <3>2. /\ s.kind = r.kind /\ s.detached = r.detached /\ s.deltas = r.deltas
          /\ s.phase = "answered" /\ s.revision = Len(log)
          /\ s.missed = MissedBy(r.kind, r.base, Len(log))
      BY <1>2 DEF Request
    <3> HIDE DEF s
    <3>3. QED
      BY <3>1, <3>2
  <2>4. QED
    BY <2>1, <2>2, <2>3
<1>4. /\ requests'[c] = BagAdd(BagRemove(requests[c], r), s)
      /\ \A d \in Clients \ {c} : requests'[d] = requests[d]
  BY <1>3, Pages DEF PerClient
<1>5. QED
  BY <1>1, <1>3, <1>4 DEF Others, SameScreen

\* The steps there are.
LEMMA StepCases ==
  ASSUME [Next]_vars
  PROVE  \/ UNCHANGED vars
         \/ \E c \in Clients :
              \/ Open(c) \/ Reconnect(c)
              \/ \E r \in DOMAIN requests[c] : Opened(c, r)
              \/ \E e \in Elements, n \in Nonces, d \in BOOLEAN : Edit(c, e, n, d)
              \/ Flush(c)
              \/ Navigate(c) \/ CloseTab(c)
              \/ \E r \in DOMAIN requests[c] :
                   \/ BatchAcked(c, r) \/ BatchForbidden(c, r) \/ CatchUpDone(c, r)
                   \/ BootstrapFailed(c, r) \/ CatchUpFailed(c, r) \/ DetachedLost(c, r)
              \/ \E r \in DOMAIN requests[c] : BatchFailed(c, r)
              \/ \E r \in DOMAIN requests[c] : Refreshed(c, r)
              \/ \E r \in DOMAIN requests[c] : ServerAppend(c, r) \/ ServerAnswer(c, r)
              \/ Revoke(c)
<1>1. CASE Progress
  BY <1>1 DEF Progress, Deliver, Lose
<1>2. CASE Environment
  BY <1>2 DEF Environment
<1>3. QED
  BY <1>1, <1>2 DEF Next

----------------------------------------------------------------------------
(* The one request that opens a page.                                      *)

\* Nothing of a client changes.
LEMMA PageKept ==
  ASSUME NEW d \in Clients, PageOK(d),
         page'[d] = page[d], canvas'[d] = canvas[d], previous'[d] = previous[d],
         pending'[d] = pending[d], requests'[d] = requests[d]
  PROVE  PageOK(d)'
BY DEF PageOK, Mounted

\* A request is taken out of the bag of a page that is not opening.
LEMMA PageDone ==
  ASSUME NEW c \in Clients, PageOK(c), NEW r,
         SameScreen(c), page'[c] = page[c],
         requests'[c] = BagRemove(requests[c], r)
  PROVE  PageOK(c)'
<1>1. /\ DOMAIN requests'[c] \subseteq DOMAIN requests[c]
      /\ \A q \in DOMAIN requests'[c] : q # r => requests'[c][q] = requests[c][q]
      /\ requests[c][r] = 1 => r \notin DOMAIN requests'[c]
  BY RemoveCount
<1>2. QED
  BY <1>1 DEF PageOK, SameScreen, Mounted

\* On a page that is open.
LEMMA PageMounted ==
  ASSUME NEW c \in Clients, PageOK(c), Mounted(c), page'[c] = page[c],
         \A q \in DOMAIN requests'[c] :
           \/ q \in DOMAIN requests[c]
           \/ q.kind # "open" /\ (q.detached => q.kind = "batch")
  PROVE  PageOK(c)'
BY DEF PageOK, Mounted

\* A request is replaced by another of the same kind.
LEMMA PageMoved ==
  ASSUME NEW c \in Clients, PageOK(c), NEW r \in DOMAIN requests[c], NEW s,
         s.kind = r.kind, s.detached = r.detached,
         SameScreen(c), page'[c] = page[c],
         requests'[c] = BagAdd(BagRemove(requests[c], r), s)
  PROVE  PageOK(c)'
<1> DEFINE B == BagRemove(requests[c], r)
<1>1. /\ DOMAIN B \subseteq DOMAIN requests[c]
      /\ \A q \in DOMAIN B : q # r => B[q] = requests[c][q]
      /\ requests[c][r] = 1 => r \notin DOMAIN B
  BY RemoveCount
<1> HIDE DEF B
<1>2. requests'[c] = BagAdd(B, s)
  BY DEF B
<1>3. /\ DOMAIN requests'[c] = DOMAIN B \cup {s}
      /\ \A q \in DOMAIN B : q # s => requests'[c][q] = B[q]
      /\ s \notin DOMAIN B => requests'[c][s] = 1
  <2>1. /\ DOMAIN BagAdd(B, s) = DOMAIN B \cup {s}
        /\ \A q \in DOMAIN B : q # s => BagAdd(B, s)[q] = B[q]
        /\ s \notin DOMAIN B => BagAdd(B, s)[s] = 1
    BY AddCount
  <2>2. QED
    BY <1>2, <2>1
<1>4. /\ ~Mounted(c) => /\ canvas[c] = EmptyScene /\ previous[c] = EmptyScene
                        /\ pending[c] = EmptyScene
                        /\ \A q \in DOMAIN requests[c] : q.detached \/ q.kind = "open"
      /\ \A q \in DOMAIN requests[c] :
           /\ q.detached => q.kind = "batch"
           /\ q.kind = "open" => page[c] = "loading" /\ requests[c][q] = 1
           /\ \A p \in DOMAIN requests[c] : q.kind = "open" /\ p.kind = "open" => p = q
  BY DEF PageOK
<1>5. Mounted(c)' <=> Mounted(c)
  BY DEF Mounted
<1>6. ~Mounted(c) => \A q \in DOMAIN requests'[c] : q.detached \/ q.kind = "open"
  BY <1>1, <1>3, <1>4
<1>7. \A q \in DOMAIN requests'[c] : q.detached => q.kind = "batch"
  BY <1>1, <1>3, <1>4
<1>8. ASSUME NEW q \in DOMAIN requests'[c], q.kind = "open"
      PROVE  /\ page[c] = "loading" /\ requests'[c][q] = 1
             /\ \A p \in DOMAIN requests'[c] : p.kind = "open" => p = q
  <2>1. CASE r.kind = "open"
    <3>1. \A p \in DOMAIN B : p.kind # "open"
      BY <1>1, <1>4, <2>1
    <3>2. q = s /\ s \notin DOMAIN B
      BY <1>3, <1>8, <2>1, <3>1
    <3>3. \A p \in DOMAIN requests'[c] : p.kind = "open" => p = q
      BY <1>3, <3>1, <3>2
    <3>4. QED
      BY <1>3, <1>4, <2>1, <3>2, <3>3
  <2>2. CASE r.kind # "open"
    <3>1. q \in DOMAIN B /\ q # s /\ q # r /\ q \in DOMAIN requests[c]
      BY <1>1, <1>3, <1>8, <2>2
    <3>2. requests'[c][q] = requests[c][q]
      BY <1>1, <1>3, <3>1
    <3>3. \A p \in DOMAIN requests'[c] : p.kind = "open" => p \in DOMAIN requests[c]
      BY <1>1, <1>3, <2>2
    <3>4. QED
      BY <1>4, <1>8, <3>1, <3>2, <3>3
  <2>3. QED
    BY <2>1, <2>2
<1>9. QED
  BY <1>4, <1>5, <1>6, <1>7, <1>8 DEF PageOK, SameScreen
\* A page is opened by one request, and a page that is not open holds nothing.
LEMMA PageInv ==
  ASSUME SyncInv, \A d \in Clients : PageOK(d), [Next]_vars, NEW d \in Clients
  PROVE  PageOK(d)'
<1>1. CASE UNCHANGED vars
  <2>1. UNCHANGED <<page, canvas, previous, pending, requests>>
    BY <1>1 DEF vars, pageVars
  <2>2. QED
    BY <2>1, PageKept
<1>2. ASSUME NEW c \in Clients, d # c, Others(c) PROVE PageOK(d)'
  BY <1>2, PageKept DEF Others
<1>3. ASSUME NEW c \in Clients, Open(c) \/ Reconnect(c) PROVE PageOK(d)'
  <2>1. Others(c) /\ SameScreen(c)
    BY <1>3, AskEffect
  <2>2. CASE d # c
    BY <1>2, <2>1, <2>2
  <2>3. CASE d = c /\ Mounted(c)
    <3>1. /\ page'[c] = page[c]
          /\ requests'[c] = BagAdd(requests[c],
                                   NewRequest("catchUp", EmptyScene, revision[c]))
      BY <1>3, <2>3, AskEffect DEF Mounted
    <3>2. DOMAIN requests'[c]
            = DOMAIN requests[c] \cup {NewRequest("catchUp", EmptyScene, revision[c])}
      BY <3>1, AddDomain
    <3>3. NewRequest("catchUp", EmptyScene, revision[c]).kind = "catchUp"
          /\ ~NewRequest("catchUp", EmptyScene, revision[c]).detached
      BY DEF NewRequest
    <3>4. QED
      BY <2>3, <3>1, <3>2, <3>3, PageMounted
  <2>4. CASE d = c /\ ~Mounted(c)
    <3> DEFINE s == NewRequest("open", EmptyScene, 0)
               B == requests[c]
    <3>1. page[c] = "closed" /\ page'[c] = "loading" /\ requests'[c] = BagAdd(B, s)
      BY <1>3, <2>4, AskEffect
    <3>2. s.kind = "open" /\ ~s.detached
      BY DEF NewRequest
    <3> HIDE DEF s
    <3>3. s \notin DOMAIN B /\ \A q \in DOMAIN B : q.kind # "open" /\ q.detached /\ q.kind = "batch"
      BY <2>4, <3>1, <3>2 DEF PageOK
    <3> HIDE DEF B
    <3>4. /\ DOMAIN BagAdd(B, s) = DOMAIN B \cup {s}
          /\ \A q \in DOMAIN B : q # s => BagAdd(B, s)[q] = B[q]
          /\ s \notin DOMAIN B => BagAdd(B, s)[s] = 1
      BY AddCount
    <3>5. /\ canvas'[c] = EmptyScene /\ previous'[c] = EmptyScene /\ pending'[c] = EmptyScene
      BY <2>1, <2>4 DEF PageOK, SameScreen
    <3>6. QED
      BY <2>4, <3>1, <3>2, <3>3, <3>4, <3>5 DEF PageOK, Mounted
  <2>5. QED
    BY <2>2, <2>3, <2>4
<1>4. ASSUME NEW c \in Clients, NEW r \in DOMAIN requests[c], Opened(c, r) PROVE PageOK(d)'
  <2>1. /\ Others(c) /\ r.kind = "open"
        /\ page'[c] \in {"open", "viewing"}
        /\ requests'[c] = BagRemove(requests[c], r)
    BY <1>4, OpenedEffect
  <2>2. /\ DOMAIN requests'[c] \subseteq DOMAIN requests[c]
        /\ requests[c][r] = 1 => r \notin DOMAIN requests'[c]
    BY <2>1, RemoveCount
  <2>3. CASE d # c
    BY <1>2, <2>1, <2>3
  <2>4. CASE d = c
    <3>1. \A q \in DOMAIN requests'[c] : q.kind # "open"
      BY <2>1, <2>2 DEF PageOK
    <3>2. QED
      BY <2>1, <2>2, <2>4, <3>1 DEF PageOK, Mounted
  <2>5. QED
    BY <2>3, <2>4
<1>5. ASSUME NEW c \in Clients, NEW e \in Elements, NEW n, NEW x, Edit(c, e, n, x)
      PROVE  PageOK(d)'
  <2>1. Others(c) /\ page[c] = "open" /\ page'[c] = page[c] /\ requests'[c] = requests[c]
    BY <1>5, EditEffect
  <2>2. Mounted(c)
    BY <2>1 DEF Mounted
  <2>3. CASE d # c
    BY <1>2, <2>1, <2>3
  <2>4. CASE d = c
    BY <2>1, <2>2, <2>4, PageMounted
  <2>5. QED
    BY <2>3, <2>4
<1>6. ASSUME NEW c \in Clients, Flush(c) PROVE PageOK(d)'
  <2> DEFINE s == NewRequest("batch", pending[c], revision[c])
  <2>1. /\ Others(c) /\ Mounted(c) /\ page'[c] = page[c]
        /\ requests'[c] = BagAdd(requests[c], s)
    BY <1>6, FlushEffect
  <2>2. s.kind = "batch"
    BY DEF NewRequest
  <2> HIDE DEF s
  <2>3. DOMAIN requests'[c] = DOMAIN requests[c] \cup {s}
    BY <2>1, AddDomain
  <2>4. CASE d # c
    BY <1>2, <2>1, <2>4
  <2>5. CASE d = c
    BY <2>1, <2>2, <2>3, <2>5, PageMounted
  <2>6. QED
    BY <2>4, <2>5
<1>7. ASSUME NEW c \in Clients, Navigate(c) \/ CloseTab(c) PROVE PageOK(d)'
  <2>1. /\ Others(c) /\ page'[c] = "closed"
        /\ canvas'[c] = EmptyScene /\ previous'[c] = EmptyScene /\ pending'[c] = EmptyScene
        /\ \A q \in DOMAIN requests'[c] : q.kind = "batch" /\ q.detached
    BY <1>7, LeaveEffect
  <2>2. CASE d # c
    BY <1>2, <2>1, <2>2
  <2>3. CASE d = c
    BY <2>1, <2>3 DEF PageOK, Mounted
  <2>4. QED
    BY <2>2, <2>3
<1>8. ASSUME NEW c \in Clients, NEW r \in DOMAIN requests[c],
             \/ BatchAcked(c, r) \/ BatchForbidden(c, r) \/ CatchUpDone(c, r)
             \/ BootstrapFailed(c, r) \/ CatchUpFailed(c, r) \/ DetachedLost(c, r)
      PROVE  PageOK(d)'
  <2> DEFINE s == NewRequest("refresh", EmptyScene, 0)
  <2>1. /\ Others(c) /\ SameScreen(c) /\ page'[c] = page[c]
        /\ \/ requests'[c] = BagRemove(requests[c], r)
           \/ /\ requests'[c] = BagAdd(BagRemove(requests[c], r), s)
              /\ r.kind \in {"batch", "catchUp"} /\ ~r.detached
    BY <1>8, ReplyEffect
  <2>2. s.kind = "refresh" /\ ~s.detached
    BY DEF NewRequest
  <2> HIDE DEF s
  <2>3. CASE d # c
    BY <1>2, <2>1, <2>3
  <2>4. CASE d = c /\ requests'[c] = BagRemove(requests[c], r)
    BY <2>1, <2>4, PageDone
  <2>5. CASE d = c /\ requests'[c] = BagAdd(BagRemove(requests[c], r), s)
             /\ r.kind \in {"batch", "catchUp"} /\ ~r.detached
    <3>1. Mounted(c)
      BY <2>5 DEF PageOK
    <3>2. DOMAIN BagAdd(BagRemove(requests[c], r), s) = DOMAIN BagRemove(requests[c], r) \cup {s}
      BY AddDomain
    <3>3. DOMAIN requests'[c] \subseteq DOMAIN requests[c] \cup {s}
      BY <2>5, <3>2, RemoveDomain
    <3>4. QED
      BY <2>1, <2>2, <2>5, <3>1, <3>3, PageMounted
  <2>6. QED
    BY <2>1, <2>3, <2>4, <2>5
<1>9. ASSUME NEW c \in Clients, NEW r \in DOMAIN requests[c],
             BatchFailed(c, r) \/ Refreshed(c, r)
      PROVE  PageOK(d)'
  <2>1. /\ Others(c) /\ page'[c] = page[c]
        /\ requests'[c] = BagRemove(requests[c], r)
        /\ r.kind # "open" /\ ~r.detached
    BY <1>9, FailedEffect, RefreshedEffect
  <2>2. Mounted(c)
    BY <2>1 DEF PageOK
  <2>3. DOMAIN requests'[c] \subseteq DOMAIN requests[c]
    BY <2>1, RemoveDomain
  <2>4. CASE d # c
    BY <1>2, <2>1, <2>4
  <2>5. CASE d = c
    BY <2>1, <2>2, <2>3, <2>5, PageMounted
  <2>6. QED
    BY <2>4, <2>5
<1>10. ASSUME NEW c \in Clients, NEW r \in DOMAIN requests[c],
              ServerAppend(c, r) \/ ServerAnswer(c, r)
       PROVE  PageOK(d)'
  <2>1. /\ Others(c) /\ SameScreen(c) /\ page'[c] = page[c]
    BY <1>10, MoveEffect
  <2>2. PICK s : /\ requests'[c] = BagAdd(BagRemove(requests[c], r), s)
                 /\ s.kind = r.kind /\ s.detached = r.detached
    BY <1>10, MoveEffect
  <2>3. CASE d # c
    BY <1>2, <2>1, <2>3
  <2>4. CASE d = c
    BY <2>1, <2>2, <2>4, PageMoved
  <2>5. QED
    BY <2>3, <2>4
<1>11. ASSUME NEW c \in Clients, Revoke(c) PROVE PageOK(d)'
  <2>1. UNCHANGED <<page, canvas, previous, pending, requests>>
    BY <1>11 DEF Revoke, pageVars
  <2>2. QED
    BY <2>1, PageKept
<1>12. QED
  BY <1>1, <1>3, <1>4, <1>5, <1>6, <1>7, <1>8, <1>9, <1>10, <1>11, StepCases
----------------------------------------------------------------------------
(* The versions there are.                                                 *)

\* Where a version is found.
LEMMA VersionCases ==
  ASSUME NEW e \in Elements
  PROVE  \A s : s \in Versions(e) <=>
           \/ s = Absent
           \/ \E k \in DOMAIN log : s = log[k].deltas[e] \/ s = log[k].scene[e]
           \/ \E c \in Clients :
                \/ s = canvas[c][e] \/ s = previous[c][e] \/ s = pending[c][e]
                \/ \E r \in DOMAIN requests[c] : s = r.deltas[e]
BY DEF Versions

\* The versions that a client holds, and those of the stored scenes.
LEMMA VersionFacts ==
  ASSUME LogOK, NEW e \in Elements
  PROVE  /\ Absent \in Versions(e)
         /\ \A k \in DOMAIN log : log[k].deltas[e] \in Versions(e)
         /\ \A n \in 0..Len(log) : SceneAt(log, n)[e] \in Versions(e)
         /\ \A c \in Clients :
              /\ canvas[c][e] \in Versions(e) /\ previous[c][e] \in Versions(e)
              /\ pending[c][e] \in Versions(e)
              /\ \A r \in DOMAIN requests[c] : r.deltas[e] \in Versions(e)
<1>1. ASSUME NEW n \in 0..Len(log) PROVE SceneAt(log, n)[e] \in Versions(e)
  <2>1. CASE n = 0
    BY <2>1, EmptyFacts, VersionCases DEF SceneAt
  <2>2. CASE n # 0
    <3>1. n \in DOMAIN log
      BY <2>2 DEF LogOK
    <3>2. QED
      BY <2>2, <3>1, VersionCases DEF SceneAt
  <2>3. QED
    BY <2>1, <2>2
<1>2. QED
  BY <1>1, VersionCases

\* What is new after a step of a page is what its client holds.
LEMMA VersionsPage ==
  ASSUME NEW e \in Elements, NEW V, Versions(e) \subseteq V,
         NEW c \in Clients, UNCHANGED log, Others(c),
         canvas'[c][e] \in V, previous'[c][e] \in V, pending'[c][e] \in V,
         \A q \in DOMAIN requests'[c] : q.deltas[e] \in V
  PROVE  Versions(e)' \subseteq V
<1>1. (\A s : s \in Versions(e) <=>
           \/ s = Absent
           \/ \E k \in DOMAIN log : s = log[k].deltas[e] \/ s = log[k].scene[e]
           \/ \E d \in Clients :
                \/ s = canvas[d][e] \/ s = previous[d][e] \/ s = pending[d][e]
                \/ \E r \in DOMAIN requests[d] : s = r.deltas[e])'
  BY DEF Versions
<1>2. ASSUME NEW s \in Versions(e)' PROVE s \in V
  <2>1. CASE s = Absent \/ \E k \in DOMAIN log : s = log[k].deltas[e] \/ s = log[k].scene[e]
    BY <2>1, VersionCases
  <2>2. CASE \E d \in Clients :
                \/ s = canvas'[d][e] \/ s = previous'[d][e] \/ s = pending'[d][e]
                \/ \E r \in DOMAIN requests'[d] : s = r.deltas[e]
    <3>1. PICK d \in Clients :
                \/ s = canvas'[d][e] \/ s = previous'[d][e] \/ s = pending'[d][e]
                \/ \E r \in DOMAIN requests'[d] : s = r.deltas[e]
      BY <2>2
    <3>2. CASE d = c
      BY <3>1, <3>2
    <3>3. CASE d # c
      <4>1. /\ canvas'[d] = canvas[d] /\ previous'[d] = previous[d]
            /\ pending'[d] = pending[d] /\ requests'[d] = requests[d]
        BY <3>3 DEF Others
      <4>2. QED
        BY <3>1, <4>1, VersionCases
    <3>4. QED
      BY <3>2, <3>3
  <2>3. QED
    BY <1>1, <2>1, <2>2
<1>3. QED
  BY <1>2

\* No step but an edit makes a new version.
LEMMA VersionsKept ==
  ASSUME VersionsOK, UNCHANGED drawn,
         \A e \in Elements : Versions(e)' \subseteq Versions(e)
  PROVE  VersionsOK'
BY DEF VersionsOK

----------------------------------------------------------------------------
(* onChange.                                                               *)

\* A diff against an older version takes the new one, or says that nothing that
\* is shown has changed.
LEMMA DeltaFacts ==
  ASSUME NEW s \in Stamp, NEW t \in Stamp, ~RemoteWins(t, s),
         ~Present(s) => s = Absent, ~Present(t) => t = Absent,
         SameVersion(s, t) => s = t
  PROVE  \/ DeltaOf(s, t) = t /\ Present(t)
         \/ /\ DeltaOf(s, t) = Absent
            /\ Live(s) \/ Live(t) => s = t
<1>1. Present(s) => Present(t)
  BY Order
<1>2. CASE Live(t)
  BY <1>2 DEF DeltaOf, Live
<1>3. CASE ~Live(t) /\ Live(s)
  BY <1>1, <1>3 DEF DeltaOf, Live
<1>4. CASE ~Live(t) /\ ~Live(s)
  BY <1>4 DEF DeltaOf
<1>5. QED
  BY <1>2, <1>3, <1>4

\* onChange with a scene that is nowhere older than the last one diffed: an
\* element is queued as it is shown now, or nothing that is shown of it changed.
LEMMA ChangeFacts ==
  ASSUME SyncInv, NEW c \in Clients, NEW next \in Scenes, OnChange(c, next),
         \A e \in Elements :
           /\ ~RemoteWins(next[e], previous[c][e])
           /\ ~Present(next[e]) => next[e] = Absent
           /\ ~Present(previous[c][e]) => previous[c][e] = Absent
           /\ SameVersion(previous[c][e], next[e]) => previous[c][e] = next[e]
  PROVE  \A e \in Elements :
           /\ canvas'[c][e] = next[e]
           /\ \/ /\ Present(next[e])
                 /\ pending'[c][e] = next[e] /\ previous'[c][e] = next[e]
              \/ /\ pending'[c][e] = pending[c][e]
                 /\ previous'[c][e] \in {previous[c][e], next[e]}
                 /\ Live(previous[c][e]) \/ Live(next[e]) => next[e] = previous[c][e]
<1> DEFINE deltas == ComputeDiff(previous[c], next)
<1>1. /\ canvas'[c] = next
      /\ previous'[c] = IF HasDeltas(deltas) THEN next ELSE previous[c]
      /\ pending'[c] = Enqueued(pending[c], deltas)
  BY ChangeEffect
<1>2. previous[c] \in Scenes
  BY DEF SyncInv, ClientOK
<1>3. \A e \in Elements :
        \/ deltas[e] = next[e] /\ Present(next[e])
        \/ /\ deltas[e] = Absent
           /\ Live(previous[c][e]) \/ Live(next[e]) => next[e] = previous[c][e]
  <2>1. ASSUME NEW e \in Elements
        PROVE  \/ DeltaOf(previous[c][e], next[e]) = next[e] /\ Present(next[e])
               \/ /\ DeltaOf(previous[c][e], next[e]) = Absent
                  /\ Live(previous[c][e]) \/ Live(next[e]) => next[e] = previous[c][e]
    <3>1. previous[c][e] \in Stamp /\ next[e] \in Stamp
      BY <1>2 DEF Scenes
    <3>2. QED
      BY <3>1, DeltaFacts
  <2>2. QED
    BY <2>1 DEF ComputeDiff
<1> HIDE DEF deltas
<1>4. SUFFICES ASSUME NEW e \in Elements
      PROVE  /\ canvas'[c][e] = next[e]
             /\ \/ /\ Present(next[e])
                   /\ pending'[c][e] = next[e] /\ previous'[c][e] = next[e]
                \/ /\ pending'[c][e] = pending[c][e]
                   /\ previous'[c][e] \in {previous[c][e], next[e]}
                   /\ Live(previous[c][e]) \/ Live(next[e]) => next[e] = previous[c][e]
  OBVIOUS
<1>5. pending'[c][e] = IF Present(deltas[e]) THEN deltas[e] ELSE pending[c][e]
  BY <1>1 DEF Enqueued
<1>6. CASE deltas[e] = next[e] /\ Present(next[e])
  <2>1. HasDeltas(deltas)
    BY <1>6 DEF HasDeltas
  <2>2. QED
    BY <1>1, <1>5, <1>6, <2>1
<1>7. CASE /\ deltas[e] = Absent
           /\ Live(previous[c][e]) \/ Live(next[e]) => next[e] = previous[c][e]
  BY <1>1, <1>5, <1>7, EmptyFacts
<1>8. QED
  BY <1>3, <1>6, <1>7
----------------------------------------------------------------------------
(* What is shown, diffed against, queued and in flight.                    *)

\* The versions of a client are stamps, and absent or present.
LEMMA ClientStamps ==
  ASSUME SyncInv, VersionsOK, NEW c \in Clients, NEW e \in Elements
  PROVE  /\ canvas[c][e] \in Stamp /\ previous[c][e] \in Stamp /\ pending[c][e] \in Stamp
         /\ ~Present(canvas[c][e]) => canvas[c][e] = Absent
         /\ ~Present(previous[c][e]) => previous[c][e] = Absent
         /\ SameVersion(previous[c][e], canvas[c][e]) => previous[c][e] = canvas[c][e]
         /\ \A r \in DOMAIN requests[c] : r.deltas[e] \in Stamp
         /\ \A n \in 0..Len(log) :
              /\ SceneAt(log, n)[e] \in Stamp
              /\ ~Present(SceneAt(log, n)[e]) => SceneAt(log, n)[e] = Absent
              /\ SameVersion(previous[c][e], SceneAt(log, n)[e]) =>
                   previous[c][e] = SceneAt(log, n)[e]
BY VersionFacts DEF VersionsOK, SyncInv

\* A step that leaves what is shown and queued alone, and sends nothing new.
LEMMA ScreenSame ==
  ASSUME SyncInv, VersionsOK, NEW c \in Clients, ScreenOK(c), SameScreen(c),
         \A q \in DOMAIN requests'[c] :
           \/ q.detached
           \/ q.deltas = EmptyScene
           \/ \E r \in DOMAIN requests[c] : q.deltas = r.deltas /\ q.detached = r.detached
  PROVE  ScreenOK(c)'
<1>1. ASSUME NEW e \in Elements, NEW q \in DOMAIN requests'[c], ~q.detached
      PROVE  ~RemoteWins(previous[c][e], q.deltas[e])
  <2>1. CASE q.deltas = EmptyScene
    BY <2>1, ClientStamps, EmptyFacts, Order
  <2>2. CASE \E r \in DOMAIN requests[c] : q.deltas = r.deltas /\ q.detached = r.detached
    BY <1>1, <2>2 DEF ScreenOK
  <2>3. QED
    BY <1>1, <2>1, <2>2
<1>2. QED
  BY <1>1 DEF ScreenOK, SameScreen

\* A client that takes no step.
LEMMA ScreenOther ==
  ASSUME NEW d \in Clients, ScreenOK(d),
         canvas'[d] = canvas[d], previous'[d] = previous[d], pending'[d] = pending[d],
         requests'[d] = requests[d]
  PROVE  ScreenOK(d)'
BY DEF ScreenOK

\* What onChange paints is nowhere older than the last scene diffed.
NextOK(c, next) ==
  \A e \in Elements :
    /\ ~RemoteWins(next[e], previous[c][e])
    /\ ~Present(next[e]) => next[e] = Absent
    /\ SameVersion(previous[c][e], next[e]) => previous[c][e] = next[e]

\* onChange: what is diffed against only goes up.
LEMMA ScreenChange ==
  ASSUME SyncInv, VersionsOK, NEW c \in Clients, ScreenOK(c), NEW next \in Scenes,
         OnChange(c, next), NextOK(c, next),
         DOMAIN requests'[c] \subseteq DOMAIN requests[c]
  PROVE  /\ ScreenOK(c)'
         /\ \A e \in Elements : ~RemoteWins(previous'[c][e], previous[c][e])
<1>1. ASSUME NEW e \in Elements
      PROVE  /\ Live(canvas'[c][e]) \/ Live(previous'[c][e]) =>
                  canvas'[c][e] = previous'[c][e]
             /\ ~RemoteWins(canvas'[c][e], previous'[c][e])
             /\ ~RemoteWins(previous'[c][e], pending'[c][e])
             /\ ~RemoteWins(previous'[c][e], previous[c][e])
             /\ \A r \in DOMAIN requests'[c] :
                  ~r.detached => ~RemoteWins(previous'[c][e], r.deltas[e])
  <2>1. /\ canvas'[c][e] = next[e]
        /\ \/ /\ Present(next[e])
              /\ pending'[c][e] = next[e] /\ previous'[c][e] = next[e]
           \/ /\ pending'[c][e] = pending[c][e]
              /\ previous'[c][e] \in {previous[c][e], next[e]}
              /\ Live(previous[c][e]) \/ Live(next[e]) => next[e] = previous[c][e]
    BY ChangeFacts, ClientStamps DEF NextOK
  <2>2. /\ next[e] \in Stamp /\ previous[c][e] \in Stamp /\ pending[c][e] \in Stamp
        /\ \A r \in DOMAIN requests[c] : r.deltas[e] \in Stamp
        /\ ~RemoteWins(next[e], previous[c][e])
    BY ClientStamps DEF Scenes, NextOK
  <2>3. previous'[c][e] \in {previous[c][e], next[e]}
    BY <2>1
  <2>4. ~RemoteWins(previous'[c][e], previous[c][e]) /\ previous'[c][e] \in Stamp
    BY <2>2, <2>3, Order
  <2>5. \A r \in DOMAIN requests'[c] :
          ~r.detached => ~RemoteWins(previous'[c][e], r.deltas[e])
    BY <2>2, <2>4, Order DEF ScreenOK
  <2>6. ~RemoteWins(previous'[c][e], pending'[c][e])
    <3>1. ~RemoteWins(previous[c][e], pending[c][e])
      BY DEF ScreenOK
    <3>2. CASE pending'[c][e] = next[e] /\ previous'[c][e] = next[e]
      BY <2>2, <3>2, Order
    <3>3. CASE pending'[c][e] = pending[c][e]
      BY <2>2, <2>4, <3>1, <3>3, Order
    <3>4. QED
      BY <2>1, <3>2, <3>3
  <2>7. ~RemoteWins(canvas'[c][e], previous'[c][e])
    BY <2>1, <2>2, <2>3, Order
  <2>8. Live(canvas'[c][e]) \/ Live(previous'[c][e]) => canvas'[c][e] = previous'[c][e]
    BY <2>1
  <2>9. QED
    BY <2>4, <2>5, <2>6, <2>7, <2>8
<1>2. QED
  BY <1>1 DEF ScreenOK

\* An edit draws a version newer than any the client holds, unlike any there is.
LEMMA DrawnFacts ==
  ASSUME SyncInv, VersionsOK, NEW c \in Clients, ScreenOK(c), NEW e \in Elements,
         NEW nonce \in Nonces, nonce \notin drawn, NEW delete \in BOOLEAN
  PROVE  LET s == Drawn(c, e, nonce, delete)
             next == [canvas[c] EXCEPT ![e] = s]
         IN  /\ s \in Stamp /\ Present(s) /\ s.versionNonce = nonce
             /\ s.isDeleted = delete
             /\ \A t \in Versions(e) : ~SameVersion(s, t)
             /\ RemoteWins(canvas[c][e], s)
             /\ next \in Scenes /\ next[e] = s
             /\ \A f \in Elements \ {e} : next[f] = canvas[c][f]
             /\ NextOK(c, next)
<1> DEFINE s == Drawn(c, e, nonce, delete)
           next == [canvas[c] EXCEPT ![e] = s]
<1>1. canvas[c] \in Scenes /\ canvas[c][e] \in Stamp
  BY DEF SyncInv, ClientOK, Scenes
<1>2. canvas[c][e].version \in Nat /\ nonce \in Nat /\ nonce # 0
  BY <1>1, NoncesAssumption DEF Stamp
<1>3. /\ s \in Stamp /\ s.version = canvas[c][e].version + 1 /\ s.versionNonce = nonce
      /\ s.isDeleted = delete
  BY <1>2 DEF Drawn, Stamp
<1> HIDE DEF s
<1>4. Present(s) /\ RemoteWins(canvas[c][e], s)
  BY <1>2, <1>3 DEF Present, RemoteWins
<1>5. \A t \in Versions(e) : ~SameVersion(s, t)
  BY <1>2, <1>3 DEF VersionsOK, SameVersion
<1>6. next \in Scenes /\ next[e] = s /\ \A f \in Elements \ {e} : next[f] = canvas[c][f]
  BY <1>1, <1>3 DEF Scenes
<1> HIDE DEF next
<1>7. ASSUME NEW f \in Elements
      PROVE  /\ ~RemoteWins(next[f], previous[c][f])
             /\ ~Present(next[f]) => next[f] = Absent
             /\ SameVersion(previous[c][f], next[f]) => previous[c][f] = next[f]
  <2>1. CASE f = e
    <3>1. ~RemoteWins(canvas[c][e], previous[c][e]) /\ previous[c][e] \in Stamp
      BY ClientStamps DEF ScreenOK
    <3>2. ~RemoteWins(s, previous[c][e])
      BY <1>1, <1>3, <1>4, <3>1, Order
    <3>3. ~SameVersion(s, previous[c][e])
      BY <1>5, VersionFacts DEF SyncInv
    <3>4. QED
      BY <1>4, <1>6, <2>1, <3>2, <3>3 DEF SameVersion
  <2>2. CASE f # e
    <3>1. /\ ~RemoteWins(canvas[c][f], previous[c][f])
          /\ ~Present(canvas[c][f]) => canvas[c][f] = Absent
          /\ SameVersion(previous[c][f], canvas[c][f]) => previous[c][f] = canvas[c][f]
      BY ClientStamps DEF ScreenOK
    <3>2. QED
      BY <1>6, <2>2, <3>1
  <2>3. QED
    BY <2>1, <2>2
<1>8. NextOK(c, next)
  BY <1>7 DEF NextOK
<1>9. QED
  BY <1>3, <1>4, <1>5, <1>6, <1>8 DEF s, next

\* A refetched scene is merged onto what was known.
LEMMA MergedFacts ==
  ASSUME SyncInv, VersionsOK, NEW c \in Clients, NEW n \in 0..Len(log)
  PROVE  LET next == MergeScene(previous[c], SceneAt(log, n))
         IN  /\ next \in Scenes
             /\ NextOK(c, next)
             /\ \A e \in Elements :
                  /\ next[e] \in {previous[c][e], SceneAt(log, n)[e]}
                  /\ ~RemoteWins(next[e], SceneAt(log, n)[e])
<1> DEFINE S == SceneAt(log, n)
           next == MergeScene(previous[c], S)
<1>1. previous[c] \in Scenes /\ S \in Scenes
  BY SceneAtFacts DEF SyncInv, ClientOK
<1> HIDE DEF S
<1>2. next \in Scenes /\ \A e \in Elements : /\ next[e] = MergeElement(previous[c][e], S[e])
                                             /\ next[e] \in {previous[c][e], S[e]}
  BY <1>1, MergeFacts
<1> HIDE DEF next
<1>3. ASSUME NEW e \in Elements
      PROVE  /\ ~RemoteWins(next[e], previous[c][e]) /\ ~RemoteWins(next[e], S[e])
             /\ ~Present(next[e]) => next[e] = Absent
             /\ SameVersion(previous[c][e], next[e]) => previous[c][e] = next[e]
  <2>1. /\ previous[c][e] \in Stamp /\ S[e] \in Stamp
        /\ ~Present(previous[c][e]) => previous[c][e] = Absent
        /\ ~Present(S[e]) => S[e] = Absent
        /\ SameVersion(previous[c][e], S[e]) => previous[c][e] = S[e]
    BY ClientStamps DEF S
  <2>2. ~RemoteWins(next[e], previous[c][e]) /\ ~RemoteWins(next[e], S[e])
    BY <1>2, <2>1, MergeOrder
  <2>3. QED
    BY <1>2, <2>1, <2>2
<1>4. NextOK(c, next)
  BY <1>3 DEF NextOK
<1>5. QED
  BY <1>2, <1>3, <1>4 DEF next, S
\* What is queued and in flight is never newer than what the next diff is taken
\* against, and that is what is shown, but for deletions.
LEMMA ScreenInv ==
  ASSUME SyncInv, VersionsOK, \A d \in Clients : PageOK(d) /\ ScreenOK(d),
         [Next]_vars, NEW d \in Clients
  PROVE  ScreenOK(d)'
<1>1. CASE UNCHANGED vars
  <2>1. UNCHANGED <<canvas, previous, pending, requests>>
    BY <1>1 DEF vars, pageVars
  <2>2. QED
    BY <2>1, ScreenOther
<1>2. ASSUME NEW c \in Clients, d # c, Others(c) PROVE ScreenOK(d)'
  BY <1>2, ScreenOther DEF Others
<1>3. ASSUME NEW c \in Clients, Open(c) \/ Reconnect(c) PROVE ScreenOK(d)'
  <2>1. Others(c) /\ SameScreen(c)
    BY <1>3, AskEffect
  <2>2. \A q \in DOMAIN requests'[c] : q \in DOMAIN requests[c] \/ q.deltas = EmptyScene
    <3>1. PICK s : requests'[c] = BagAdd(requests[c], s) /\ s.deltas = EmptyScene
      <4>1. NewRequest("open", EmptyScene, 0).deltas = EmptyScene
            /\ NewRequest("catchUp", EmptyScene, revision[c]).deltas = EmptyScene
        BY DEF NewRequest
      <4>2. QED
        BY <1>3, <4>1, AskEffect
    <3>2. DOMAIN requests'[c] = DOMAIN requests[c] \cup {s}
      BY <3>1, AddDomain
    <3>3. QED
      BY <3>1, <3>2
  <2>3. CASE d # c
    BY <1>2, <2>1, <2>3
  <2>4. CASE d = c
    BY <2>1, <2>2, <2>4, ScreenSame
  <2>5. QED
    BY <2>3, <2>4
<1>4. ASSUME NEW c \in Clients, NEW r \in DOMAIN requests[c], Opened(c, r) PROVE ScreenOK(d)'
  <2>1. /\ Others(c) /\ r.kind = "open"
        /\ canvas'[c] = SceneAt(log, r.revision) /\ previous'[c] = SceneAt(log, r.revision)
        /\ pending'[c] = pending[c]
        /\ requests'[c] = BagRemove(requests[c], r)
    BY <1>4, OpenedEffect
  <2>2. /\ DOMAIN requests'[c] \subseteq DOMAIN requests[c]
        /\ requests[c][r] = 1 => r \notin DOMAIN requests'[c]
    BY <2>1, RemoveCount
  <2>3. page[c] = "loading" /\ ~Mounted(c) /\ r \notin DOMAIN requests'[c]
    BY <2>1, <2>2 DEF PageOK, Mounted
  <2>4. pending[c] = EmptyScene /\ \A q \in DOMAIN requests'[c] : q.detached
    BY <2>1, <2>2, <2>3 DEF PageOK
  <2>5. CASE d # c
    BY <1>2, <2>1, <2>5
  <2>6. CASE d = c
    <3>1. r.revision \in 0..Len(log)
      BY DEF SyncInv, ClientOK, RequestOK, Request, LogOK
    <3>2. \A e \in Elements :
            /\ SceneAt(log, r.revision)[e] \in Stamp
            /\ ~Present(SceneAt(log, r.revision)[e]) => SceneAt(log, r.revision)[e] = Absent
      BY <3>1, ClientStamps
    <3>3. \A e \in Elements : /\ ~RemoteWins(SceneAt(log, r.revision)[e], Absent)
                              /\ ~RemoteWins(SceneAt(log, r.revision)[e], SceneAt(log, r.revision)[e])
      BY <3>2, EmptyFacts, Order
    <3>4. QED
      BY <2>1, <2>4, <2>6, <3>3, EmptyFacts DEF ScreenOK
  <2>7. QED
    BY <2>5, <2>6
<1>5. ASSUME NEW c \in Clients, NEW e \in Elements, NEW n \in Nonces, NEW x \in BOOLEAN,
             Edit(c, e, n, x)
      PROVE  ScreenOK(d)'
  <2> DEFINE next == [canvas[c] EXCEPT ![e] = Drawn(c, e, n, x)]
  <2>1. Others(c) /\ OnChange(c, next) /\ requests'[c] = requests[c] /\ n \notin drawn
    BY <1>5, EditEffect
  <2>2. next \in Scenes /\ NextOK(c, next)
    BY <2>1, DrawnFacts
  <2> HIDE DEF next
  <2>3. CASE d # c
    BY <1>2, <2>1, <2>3
  <2>4. CASE d = c
    BY <2>1, <2>2, <2>4, ScreenChange
  <2>5. QED
    BY <2>3, <2>4
<1>6. ASSUME NEW c \in Clients, Flush(c) PROVE ScreenOK(d)'
  <2> DEFINE s == NewRequest("batch", pending[c], revision[c])
  <2>1. /\ Others(c)
        /\ canvas'[c] = canvas[c] /\ previous'[c] = previous[c] /\ pending'[c] = EmptyScene
        /\ requests'[c] = BagAdd(requests[c], s)
    BY <1>6, FlushEffect
  <2>2. s.deltas = pending[c]
    BY DEF NewRequest
  <2> HIDE DEF s
  <2>3. DOMAIN requests'[c] = DOMAIN requests[c] \cup {s}
    BY <2>1, AddDomain
  <2>4. CASE d # c
    BY <1>2, <2>1, <2>4
  <2>5. CASE d = c
    <3>1. \A e \in Elements : ~RemoteWins(previous[c][e], Absent)
      BY ClientStamps, Order
    <3>2. QED
      BY <2>1, <2>2, <2>3, <2>5, <3>1, EmptyFacts DEF ScreenOK
  <2>6. QED
    BY <2>4, <2>5
<1>7. ASSUME NEW c \in Clients, Navigate(c) \/ CloseTab(c) PROVE ScreenOK(d)'
  <2>1. /\ Others(c)
        /\ canvas'[c] = EmptyScene /\ previous'[c] = EmptyScene /\ pending'[c] = EmptyScene
        /\ \A q \in DOMAIN requests'[c] : q.detached
    BY <1>7, LeaveEffect
  <2>2. CASE d # c
    BY <1>2, <2>1, <2>2
  <2>3. CASE d = c
    <3>1. ~RemoteWins(Absent, Absent)
      BY EmptyFacts, Order
    <3>2. QED
      BY <2>1, <2>3, <3>1, EmptyFacts DEF ScreenOK
  <2>4. QED
    BY <2>2, <2>3
<1>8. ASSUME NEW c \in Clients, NEW r \in DOMAIN requests[c],
             \/ BatchAcked(c, r) \/ BatchForbidden(c, r) \/ CatchUpDone(c, r)
             \/ BootstrapFailed(c, r) \/ CatchUpFailed(c, r) \/ DetachedLost(c, r)
      PROVE  ScreenOK(d)'
  <2> DEFINE s == NewRequest("refresh", EmptyScene, 0)
  <2>1. /\ Others(c) /\ SameScreen(c)
        /\ \/ requests'[c] = BagRemove(requests[c], r)
           \/ requests'[c] = BagAdd(BagRemove(requests[c], r), s)
    BY <1>8, ReplyEffect
  <2>2. s.deltas = EmptyScene
    BY DEF NewRequest
  <2> HIDE DEF s
  <2>3. DOMAIN BagAdd(BagRemove(requests[c], r), s) = DOMAIN BagRemove(requests[c], r) \cup {s}
    BY AddDomain
  <2>4. DOMAIN requests'[c] \subseteq DOMAIN requests[c] \cup {s}
    BY <2>1, <2>3, RemoveDomain
  <2>5. CASE d # c
    BY <1>2, <2>1, <2>5
  <2>6. CASE d = c
    BY <2>1, <2>2, <2>4, <2>6, ScreenSame
  <2>7. QED
    BY <2>5, <2>6
<1>9. ASSUME NEW c \in Clients, NEW r \in DOMAIN requests[c], BatchFailed(c, r)
      PROVE  ScreenOK(d)'
  <2>1. /\ Others(c) /\ ~r.detached
        /\ canvas'[c] = canvas[c] /\ previous'[c] = previous[c]
        /\ pending'[c] = Enqueued(pending[c], r.deltas)
        /\ requests'[c] = BagRemove(requests[c], r)
    BY <1>9, FailedEffect
  <2>2. DOMAIN requests'[c] \subseteq DOMAIN requests[c]
    BY <2>1, RemoveDomain
  <2>3. CASE d # c
    BY <1>2, <2>1, <2>3
  <2>4. CASE d = c
    <3>1. \A e \in Elements : pending'[c][e] \in {pending[c][e], r.deltas[e]}
      BY <2>1 DEF Enqueued
    <3>2. \A e \in Elements : ~RemoteWins(previous[c][e], pending'[c][e])
      BY <2>1, <3>1 DEF ScreenOK
    <3>3. QED
      BY <2>1, <2>2, <2>4, <3>2 DEF ScreenOK
  <2>5. QED
    BY <2>3, <2>4
<1>10. ASSUME NEW c \in Clients, NEW r \in DOMAIN requests[c], Refreshed(c, r)
       PROVE  ScreenOK(d)'
  <2> DEFINE next == MergeScene(previous[c], SceneAt(log, r.revision))
  <2>1. /\ Others(c) /\ OnChange(c, next)
        /\ requests'[c] = BagRemove(requests[c], r)
    BY <1>10, RefreshedEffect
  <2>2. next \in Scenes /\ NextOK(c, next)
    <3>1. r.revision \in 0..Len(log)
      BY DEF SyncInv, ClientOK, RequestOK, Request, LogOK
    <3>2. QED
      BY <3>1, MergedFacts
  <2> HIDE DEF next
  <2>3. DOMAIN requests'[c] \subseteq DOMAIN requests[c]
    BY <2>1, RemoveDomain
  <2>4. CASE d # c
    BY <1>2, <2>1, <2>4
  <2>5. CASE d = c
    BY <2>1, <2>2, <2>3, <2>5, ScreenChange
  <2>6. QED
    BY <2>4, <2>5
<1>11. ASSUME NEW c \in Clients, NEW r \in DOMAIN requests[c],
              ServerAppend(c, r) \/ ServerAnswer(c, r)
       PROVE  ScreenOK(d)'
  <2>1. Others(c) /\ SameScreen(c)
    BY <1>11, MoveEffect
  <2>2. PICK s : /\ requests'[c] = BagAdd(BagRemove(requests[c], r), s)
                 /\ s.deltas = r.deltas /\ s.detached = r.detached
    BY <1>11, MoveEffect
  <2>3. DOMAIN BagAdd(BagRemove(requests[c], r), s) = DOMAIN BagRemove(requests[c], r) \cup {s}
    BY AddDomain
  <2>4. DOMAIN requests'[c] \subseteq DOMAIN requests[c] \cup {s}
    BY <2>2, <2>3, RemoveDomain
  <2>5. CASE d # c
    BY <1>2, <2>1, <2>5
  <2>6. CASE d = c
    BY <2>1, <2>2, <2>4, <2>6, ScreenSame
  <2>7. QED
    BY <2>5, <2>6
<1>12. ASSUME NEW c \in Clients, Revoke(c) PROVE ScreenOK(d)'
  <2>1. UNCHANGED <<canvas, previous, pending, requests>>
    BY <1>12 DEF Revoke, pageVars
  <2>2. QED
    BY <2>1, ScreenOther
<1>13. QED
  BY <1>1, <1>3, <1>4, <1>5, <1>6, <1>7, <1>8, <1>9, <1>10, <1>11, <1>12, StepCases
\* What onChange leaves on the page, element by element.
LEMMA Painted ==
  ASSUME SyncInv, VersionsOK, NEW c \in Clients, NEW next \in Scenes,
         OnChange(c, next), NextOK(c, next)
  PROVE  \A e \in Elements :
           /\ canvas'[c][e] = next[e]
           /\ \/ /\ Present(next[e])
                 /\ pending'[c][e] = next[e] /\ previous'[c][e] = next[e]
              \/ /\ pending'[c][e] = pending[c][e]
                 /\ previous'[c][e] \in {previous[c][e], next[e]}
                 /\ Live(previous[c][e]) \/ Live(next[e]) => next[e] = previous[c][e]
<1>1. \A e \in Elements : ~Present(previous[c][e]) => previous[c][e] = Absent
  BY ClientStamps
<1>2. \A e \in Elements :
        /\ ~RemoteWins(next[e], previous[c][e])
        /\ ~Present(next[e]) => next[e] = Absent
        /\ ~Present(previous[c][e]) => previous[c][e] = Absent
        /\ SameVersion(previous[c][e], next[e]) => previous[c][e] = next[e]
  BY <1>1 DEF NextOK
<1>3. QED
  BY <1>2, ChangeFacts

\* A step of a page that makes no new version.
LEMMA PageVersions ==
  ASSUME VersionsOK, NEW c \in Clients, UNCHANGED <<log, drawn>>, Others(c),
         \A e \in Elements :
           /\ canvas'[c][e] \in Versions(e) /\ previous'[c][e] \in Versions(e)
           /\ pending'[c][e] \in Versions(e)
           /\ \A q \in DOMAIN requests'[c] : q.deltas[e] \in Versions(e)
  PROVE  VersionsOK'
<1>1. ASSUME NEW e \in Elements PROVE Versions(e)' \subseteq Versions(e)
  <2>1. /\ canvas'[c][e] \in Versions(e) /\ previous'[c][e] \in Versions(e)
        /\ pending'[c][e] \in Versions(e)
        /\ \A q \in DOMAIN requests'[c] : q.deltas[e] \in Versions(e)
    OBVIOUS
  <2> DEFINE V == Versions(e)
  <2>2. /\ canvas'[c][e] \in V /\ previous'[c][e] \in V /\ pending'[c][e] \in V
        /\ \A q \in DOMAIN requests'[c] : q.deltas[e] \in V
        /\ Versions(e) \subseteq V
    BY <2>1
  <2>3. PICK W : W = V
    OBVIOUS
  <2>4. /\ canvas'[c][e] \in W /\ previous'[c][e] \in W /\ pending'[c][e] \in W
        /\ \A q \in DOMAIN requests'[c] : q.deltas[e] \in W
        /\ Versions(e) \subseteq W
    BY <2>2, <2>3
  <2>5. Versions(e)' \subseteq W
    BY <2>4, VersionsPage
  <2>6. QED
    BY <2>3, <2>5
<1>2. QED
  BY <1>1, VersionsKept

\* The versions of the bag of a client are those it had, or nothing new.
LEMMA BagVersions ==
  ASSUME SyncInv, NEW c \in Clients,
         \A q \in DOMAIN requests'[c] :
           \/ q.deltas = EmptyScene \/ q.deltas = pending[c]
           \/ \E r \in DOMAIN requests[c] : q.deltas = r.deltas,
         NEW e \in Elements
  PROVE  \A q \in DOMAIN requests'[c] : q.deltas[e] \in Versions(e)
<1>1. LogOK
  BY DEF SyncInv
<1>2. /\ Absent \in Versions(e) /\ pending[c][e] \in Versions(e)
      /\ \A r \in DOMAIN requests[c] : r.deltas[e] \in Versions(e)
  BY <1>1, VersionFacts
<1>3. QED
  BY <1>2, EmptyFacts

\* An edit makes one new version.
LEMMA EditVersions ==
  ASSUME SyncInv, VersionsOK, NEW c \in Clients, ScreenOK(c), NEW e \in Elements,
         NEW n \in Nonces, NEW x \in BOOLEAN, Edit(c, e, n, x)
  PROVE  VersionsOK'
<1> DEFINE s == Drawn(c, e, n, x)
           next == [canvas[c] EXCEPT ![e] = s]
<1>1. /\ UNCHANGED log /\ n \notin drawn /\ drawn' = drawn \cup {n} /\ Others(c)
      /\ OnChange(c, next) /\ requests'[c] = requests[c]
  BY EditEffect
<1>2. /\ s \in Stamp /\ Present(s) /\ s.versionNonce = n
      /\ \A t \in Versions(e) : ~SameVersion(s, t)
      /\ next \in Scenes /\ next[e] = s
      /\ \A f \in Elements \ {e} : next[f] = canvas[c][f]
      /\ NextOK(c, next)
  BY <1>1, DrawnFacts
<1> HIDE DEF s, next
<1>3. \A f \in Elements :
           /\ canvas'[c][f] = next[f]
           /\ previous'[c][f] \in {previous[c][f], next[f]}
           /\ pending'[c][f] \in {pending[c][f], next[f]}
  BY <1>1, <1>2, Painted
<1>4. LogOK
  BY DEF SyncInv
<1>5. ASSUME NEW f \in Elements, NEW W, Versions(f) \subseteq W, next[f] \in W
      PROVE  Versions(f)' \subseteq W
  <2>1. /\ previous[c][f] \in W /\ pending[c][f] \in W
        /\ \A q \in DOMAIN requests[c] : q.deltas[f] \in W
    BY <1>4, <1>5, VersionFacts
  <2>2. /\ canvas'[c][f] \in W /\ previous'[c][f] \in W /\ pending'[c][f] \in W
        /\ \A q \in DOMAIN requests'[c] : q.deltas[f] \in W
    BY <1>1, <1>3, <1>5, <2>1
  <2>3. QED
    BY <1>1, <1>5, <2>2, VersionsPage
<1>6. ASSUME NEW f \in Elements, f # e
      PROVE  Versions(f)' \subseteq Versions(f)
  <2>1. PICK W : W = Versions(f)
    OBVIOUS
  <2>2. next[f] \in W /\ Versions(f) \subseteq W
    BY <1>2, <1>4, <1>6, <2>1, VersionFacts
  <2>3. Versions(f)' \subseteq W
    BY <1>5, <2>2
  <2>4. QED
    BY <2>1, <2>3
<1>7. Versions(e)' \subseteq Versions(e) \cup {s}
  <2>1. PICK W : W = Versions(e) \cup {s}
    OBVIOUS
  <2>2. next[e] \in W /\ Versions(e) \subseteq W
    BY <1>2, <2>1
  <2>3. Versions(e)' \subseteq W
    BY <1>5, <2>2
  <2>4. QED
    BY <2>1, <2>3
<1>8. \A f \in Elements : \A t \in Versions(f)' :
         /\ t \in Versions(f) \/ (f = e /\ t = s)
  BY <1>6, <1>7
<1>9. ASSUME NEW f \in Elements
      PROVE  /\ \A t \in Versions(f)' : /\ t \in Stamp
                                        /\ ~Present(t) => t = Absent
                                        /\ t.versionNonce \in drawn' \cup {0}
             /\ \A t, u \in Versions(f)' : SameVersion(t, u) => t = u
  <2>1. \A t \in Versions(f) : /\ t \in Stamp
                               /\ ~Present(t) => t = Absent
                               /\ t.versionNonce \in drawn \cup {0}
    BY DEF VersionsOK
  <2>2. \A t, u \in Versions(f) : SameVersion(t, u) => t = u
    BY DEF VersionsOK
  <2>3. \A t \in Versions(e) : ~SameVersion(s, t) /\ ~SameVersion(t, s)
    BY <1>2 DEF SameVersion
  <2>4. QED
    BY <1>1, <1>2, <1>8, <2>1, <2>2, <2>3
<1>10. QED
  BY <1>9 DEF VersionsOK
----------------------------------------------------------------------------
(* The log grows.                                                          *)

\* The log after a batch: what was stored stays, and the stored scene goes up.
Grown(d) ==
  /\ LogOK'
  /\ Len(log) \in Nat /\ DOMAIN log = 1..Len(log)
  /\ Len(log') = Len(log) + 1 /\ DOMAIN log' = 1..(Len(log) + 1)
  /\ \A k \in 1..Len(log) : log'[k] = log[k]
  /\ \A n \in 0..Len(log) : SceneAt(log', n) = SceneAt(log, n)
  /\ log'[Len(log) + 1].deltas = d
  /\ log'[Len(log) + 1].scene = SceneAt(log', Len(log) + 1)
  /\ \A e \in Elements :
       LET old == SceneAt(log, Len(log))[e]
           new == SceneAt(log', Len(log) + 1)[e]
       IN  /\ new \in {old, d[e]}
           /\ ~RemoteWins(new, old)
           /\ Present(new) => new = old \/ Present(d[e])
           /\ ~RemoteWins(new, d[e]) \/ (d[e].isDeleted /\ ~Present(old))

\* Appending a batch to the log.
LEMMA AppendGrows ==
  ASSUME SyncInv, VersionsOK, NEW c \in Clients, NEW r \in DOMAIN requests[c],
         r.kind = "batch", log' = AppendOperation(log, r.deltas)
  PROVE  Grown(r.deltas)
<1> DEFINE n == Len(log)
           d == r.deltas
<1>1. LogOK /\ r.deltas \in Scenes /\ HasDeltas(r.deltas)
  BY DEF SyncInv, ClientOK, RequestOK, Request
<1>2. /\ LogOK'
      /\ Len(log') = n + 1 /\ n \in Nat
      /\ \A k \in DOMAIN log : k \in DOMAIN log' /\ log'[k] = log[k]
      /\ log'[Len(log')].deltas = d
      /\ log'[Len(log')].scene = ReconcileOperation(SceneAt(log, n), d)
  BY <1>1, AppendFacts
<1>3. DOMAIN log = 1..n /\ DOMAIN log' = 1..(n + 1)
  <2>1. log \in Seq(Operation) /\ log' \in Seq(Operation)
    BY <1>1, <1>2 DEF LogOK
  <2>2. QED
    BY <1>2, <2>1
<1>4. \A k \in 1..n : log'[k] = log[k]
  BY <1>2, <1>3
<1>5. \A m \in 0..n : SceneAt(log', m) = SceneAt(log, m)
  BY <1>2, <1>4 DEF SceneAt
<1>6. /\ log'[n + 1].deltas = d
      /\ log'[n + 1].scene = ReconcileOperation(SceneAt(log, n), d)
      /\ SceneAt(log', n + 1) = log'[n + 1].scene
  BY <1>2 DEF SceneAt
<1>7. SceneAt(log, n) \in Scenes
  BY <1>1, <1>2, SceneAtFacts
<1>8. ASSUME NEW e \in Elements
      PROVE  LET old == SceneAt(log, n)[e]
                 new == SceneAt(log', n + 1)[e]
             IN  /\ new \in {old, d[e]}
                 /\ ~RemoteWins(new, old)
                 /\ Present(new) => new = old \/ Present(d[e])
                 /\ ~RemoteWins(new, d[e]) \/ (d[e].isDeleted /\ ~Present(old))
  <2>1. SceneAt(log, n)[e] \in Versions(e) /\ d[e] \in Versions(e)
    BY <1>1, <1>2, VersionFacts
  <2>2. /\ ~Present(SceneAt(log, n)[e]) => SceneAt(log, n)[e] = Absent
        /\ ~Present(d[e]) => d[e] = Absent
    BY <2>1 DEF VersionsOK
  <2> DEFINE S == SceneAt(log, n)
  <2>3. S \in Scenes /\ d \in Scenes /\ (~Present(S[e]) => S[e] = Absent)
        /\ (~Present(d[e]) => d[e] = Absent)
    BY <1>1, <1>7, <2>2
  <2>4. SceneAt(log', n + 1) = ReconcileOperation(S, d)
    BY <1>6
  <2> HIDE DEF S, d
  <2>5. LET t == ReconcileOperation(S, d)[e]
         IN  /\ t \in {S[e], d[e]}
             /\ ~RemoteWins(t, S[e])
             /\ Present(t) => t = S[e] \/ Present(d[e])
             /\ ~RemoteWins(t, d[e]) \/ (d[e].isDeleted /\ ~Present(S[e]))
    BY <2>3, ReconcileOrder
  <2>6. QED
    BY <2>4, <2>5 DEF S
<1>9. QED
  BY <1>2, <1>3, <1>4, <1>5, <1>6, <1>8 DEF Grown

\* A batch makes no new version.
LEMMA AppendVersions ==
  ASSUME SyncInv, VersionsOK, UNCHANGED drawn, NEW c \in Clients,
         Others(c), SameScreen(c), NEW r \in DOMAIN requests[c],
         Grown(r.deltas),
         \A q \in DOMAIN requests'[c] :
           \E p \in DOMAIN requests[c] : q.deltas = p.deltas
  PROVE  VersionsOK'
<1>1. ASSUME NEW e \in Elements, NEW s \in Versions(e)'
      PROVE  s \in Versions(e)
  <2>1. LogOK
    BY DEF SyncInv
  <2>2. \A m \in 0..Len(log) : SceneAt(log, m)[e] \in Versions(e)
    BY <2>1, VersionFacts
  <2>3. (\A t : t \in Versions(e) <=>
           \/ t = Absent
           \/ \E k \in DOMAIN log : t = log[k].deltas[e] \/ t = log[k].scene[e]
           \/ \E d \in Clients :
                \/ t = canvas[d][e] \/ t = previous[d][e] \/ t = pending[d][e]
                \/ \E q \in DOMAIN requests[d] : t = q.deltas[e])'
    BY DEF Versions
  <2>4. CASE s = Absent
    BY <2>4, VersionCases
  <2>5. CASE \E k \in DOMAIN log' : s = log'[k].deltas[e] \/ s = log'[k].scene[e]
    <3>1. PICK k \in DOMAIN log' : s = log'[k].deltas[e] \/ s = log'[k].scene[e]
      BY <2>5
    <3>2. k \in 1..Len(log) \/ k = Len(log) + 1
      BY <3>1 DEF Grown
    <3>3. CASE k \in 1..Len(log)
      BY <3>1, <3>3, VersionCases DEF Grown
    <3>4. CASE k = Len(log) + 1
      <4>1. s \in {r.deltas[e], SceneAt(log, Len(log))[e]}
        BY <3>1, <3>4 DEF Grown
      <4>2. Len(log) \in 0..Len(log)
        BY DEF Grown
      <4>3. QED
        BY <2>2, <4>1, <4>2, VersionCases
    <3>5. QED
      BY <3>2, <3>3, <3>4
  <2>6. CASE \E d \in Clients :
                \/ s = canvas'[d][e] \/ s = previous'[d][e] \/ s = pending'[d][e]
                \/ \E q \in DOMAIN requests'[d] : s = q.deltas[e]
    <3>1. PICK d \in Clients :
                \/ s = canvas'[d][e] \/ s = previous'[d][e] \/ s = pending'[d][e]
                \/ \E q \in DOMAIN requests'[d] : s = q.deltas[e]
      BY <2>6
    <3>2. /\ canvas'[d] = canvas[d] /\ previous'[d] = previous[d] /\ pending'[d] = pending[d]
          /\ \A q \in DOMAIN requests'[d] : \E p \in DOMAIN requests[d] : q.deltas = p.deltas
      BY DEF Others, SameScreen
    <3>3. QED
      BY <3>1, <3>2, VersionCases
  <2>7. QED
    BY <2>3, <2>4, <2>5, <2>6
<1>2. QED
  BY <1>1, VersionsKept
\* The nonces keep telling the versions of an element apart.
LEMMA VersionsInv ==
  ASSUME SyncInv, VersionsOK, \A d \in Clients : PageOK(d) /\ ScreenOK(d), [Next]_vars
  PROVE  VersionsOK'
<1>1. CASE UNCHANGED vars
  <2>1. UNCHANGED <<log, canvas, previous, pending, requests, drawn>>
    BY <1>1 DEF vars, pageVars, bounds
  <2>2. \A e \in Elements : Versions(e)' = Versions(e)
    BY <2>1 DEF Versions
  <2>3. QED
    BY <2>1, <2>2, VersionsKept
<1>2. LogOK
  BY DEF SyncInv
<1>3. ASSUME NEW c \in Clients, UNCHANGED <<log, drawn>>, Others(c), SameScreen(c),
             \A q \in DOMAIN requests'[c] :
               \/ q.deltas = EmptyScene \/ q.deltas = pending[c]
               \/ \E r \in DOMAIN requests[c] : q.deltas = r.deltas
      PROVE  VersionsOK'
  <2>1. \A e \in Elements : \A q \in DOMAIN requests'[c] : q.deltas[e] \in Versions(e)
    BY <1>3, BagVersions
  <2>2. \A e \in Elements :
          /\ canvas'[c][e] \in Versions(e) /\ previous'[c][e] \in Versions(e)
          /\ pending'[c][e] \in Versions(e)
    BY <1>2, <1>3, VersionFacts DEF SameScreen
  <2>3. QED
    BY <1>3, <2>1, <2>2, PageVersions
<1>4. ASSUME NEW c \in Clients, Open(c) \/ Reconnect(c) PROVE VersionsOK'
  <2>1. Others(c) /\ SameScreen(c) /\ UNCHANGED <<log, drawn>>
    BY <1>4, AskEffect DEF Calm
  <2>2. PICK s : requests'[c] = BagAdd(requests[c], s) /\ s.deltas = EmptyScene
    <3>1. NewRequest("open", EmptyScene, 0).deltas = EmptyScene
          /\ NewRequest("catchUp", EmptyScene, revision[c]).deltas = EmptyScene
      BY DEF NewRequest
    <3>2. QED
      BY <1>4, <3>1, AskEffect
  <2>3. DOMAIN requests'[c] = DOMAIN requests[c] \cup {s}
    BY <2>2, AddDomain
  <2>4. QED
    BY <1>3, <2>1, <2>2, <2>3
<1>5. ASSUME NEW c \in Clients, NEW r \in DOMAIN requests[c], Opened(c, r) PROVE VersionsOK'
  <2>1. /\ Others(c) /\ UNCHANGED <<log, drawn>>
        /\ canvas'[c] = SceneAt(log, r.revision) /\ previous'[c] = SceneAt(log, r.revision)
        /\ pending'[c] = pending[c]
        /\ requests'[c] = BagRemove(requests[c], r)
    BY <1>5, OpenedEffect DEF Calm
  <2>2. DOMAIN requests'[c] \subseteq DOMAIN requests[c]
    BY <2>1, RemoveDomain
  <2>3. r.revision \in 0..Len(log)
    BY DEF SyncInv, ClientOK, RequestOK, Request, LogOK
  <2>4. \A e \in Elements : \A q \in DOMAIN requests'[c] : q.deltas[e] \in Versions(e)
    BY <2>2, BagVersions
  <2>5. \A e \in Elements :
          /\ canvas'[c][e] \in Versions(e) /\ previous'[c][e] \in Versions(e)
          /\ pending'[c][e] \in Versions(e)
    BY <1>2, <2>1, <2>3, VersionFacts
  <2>6. QED
    BY <2>1, <2>4, <2>5, PageVersions
<1>6. ASSUME NEW c \in Clients, Flush(c) PROVE VersionsOK'
  <2> DEFINE s == NewRequest("batch", pending[c], revision[c])
  <2>1. /\ Others(c) /\ UNCHANGED <<log, drawn>>
        /\ canvas'[c] = canvas[c] /\ previous'[c] = previous[c] /\ pending'[c] = EmptyScene
        /\ requests'[c] = BagAdd(requests[c], s)
    BY <1>6, FlushEffect DEF Calm
  <2>2. s.deltas = pending[c]
    BY DEF NewRequest
  <2> HIDE DEF s
  <2>3. DOMAIN requests'[c] = DOMAIN requests[c] \cup {s}
    BY <2>1, AddDomain
  <2>4. \A e \in Elements : \A q \in DOMAIN requests'[c] : q.deltas[e] \in Versions(e)
    BY <2>2, <2>3, BagVersions
  <2>5. \A e \in Elements :
          /\ canvas'[c][e] \in Versions(e) /\ previous'[c][e] \in Versions(e)
          /\ pending'[c][e] \in Versions(e)
    BY <1>2, <2>1, VersionFacts, EmptyFacts
  <2>6. QED
    BY <2>1, <2>4, <2>5, PageVersions
<1>7. ASSUME NEW c \in Clients, Navigate(c) \/ CloseTab(c) PROVE VersionsOK'
  <2>1. /\ Others(c) /\ UNCHANGED <<log, drawn>>
        /\ canvas'[c] = EmptyScene /\ previous'[c] = EmptyScene /\ pending'[c] = EmptyScene
        /\ \A q \in DOMAIN requests'[c] :
              \/ q.deltas = pending[c]
              \/ \E r \in DOMAIN requests[c] : q.deltas = r.deltas
    BY <1>7, LeaveEffect DEF Calm
  <2>2. \A e \in Elements : \A q \in DOMAIN requests'[c] : q.deltas[e] \in Versions(e)
    BY <2>1, BagVersions
  <2>3. \A e \in Elements :
          /\ canvas'[c][e] \in Versions(e) /\ previous'[c][e] \in Versions(e)
          /\ pending'[c][e] \in Versions(e)
    BY <1>2, <2>1, VersionFacts, EmptyFacts
  <2>4. QED
    BY <2>1, <2>2, <2>3, PageVersions
<1>8. ASSUME NEW c \in Clients, NEW r \in DOMAIN requests[c],
             \/ BatchAcked(c, r) \/ BatchForbidden(c, r) \/ CatchUpDone(c, r)
             \/ BootstrapFailed(c, r) \/ CatchUpFailed(c, r) \/ DetachedLost(c, r)
      PROVE  VersionsOK'
  <2> DEFINE s == NewRequest("refresh", EmptyScene, 0)
  <2>1. /\ Others(c) /\ SameScreen(c) /\ UNCHANGED <<log, drawn>>
        /\ \/ requests'[c] = BagRemove(requests[c], r)
           \/ requests'[c] = BagAdd(BagRemove(requests[c], r), s)
    BY <1>8, ReplyEffect
  <2>2. s.deltas = EmptyScene
    BY DEF NewRequest
  <2> HIDE DEF s
  <2>3. DOMAIN BagAdd(BagRemove(requests[c], r), s) = DOMAIN BagRemove(requests[c], r) \cup {s}
    BY AddDomain
  <2>4. DOMAIN requests'[c] \subseteq DOMAIN requests[c] \cup {s}
    BY <2>1, <2>3, RemoveDomain
  <2>5. QED
    BY <1>3, <2>1, <2>2, <2>4
<1>9. ASSUME NEW c \in Clients, NEW r \in DOMAIN requests[c], BatchFailed(c, r)
      PROVE  VersionsOK'
  <2>1. /\ Others(c) /\ UNCHANGED <<log, drawn>>
        /\ canvas'[c] = canvas[c] /\ previous'[c] = previous[c]
        /\ pending'[c] = Enqueued(pending[c], r.deltas)
        /\ requests'[c] = BagRemove(requests[c], r)
    BY <1>9, FailedEffect
  <2>2. DOMAIN requests'[c] \subseteq DOMAIN requests[c]
    BY <2>1, RemoveDomain
  <2>3. \A e \in Elements : \A q \in DOMAIN requests'[c] : q.deltas[e] \in Versions(e)
    BY <2>2, BagVersions
  <2>4. \A e \in Elements : pending'[c][e] \in {pending[c][e], r.deltas[e]}
    BY <2>1 DEF Enqueued
  <2>5. \A e \in Elements :
          /\ canvas'[c][e] \in Versions(e) /\ previous'[c][e] \in Versions(e)
          /\ pending'[c][e] \in Versions(e)
    BY <1>2, <2>1, <2>4, VersionFacts
  <2>6. QED
    BY <2>1, <2>3, <2>5, PageVersions
<1>10. ASSUME NEW c \in Clients, NEW r \in DOMAIN requests[c], Refreshed(c, r)
       PROVE  VersionsOK'
  <2> DEFINE next == MergeScene(previous[c], SceneAt(log, r.revision))
  <2>1. /\ Others(c) /\ OnChange(c, next) /\ UNCHANGED <<log, drawn>>
        /\ requests'[c] = BagRemove(requests[c], r)
    BY <1>10, RefreshedEffect DEF Calm
  <2>2. r.revision \in 0..Len(log)
    BY DEF SyncInv, ClientOK, RequestOK, Request, LogOK
  <2>3. next \in Scenes /\ NextOK(c, next)
        /\ \A e \in Elements : next[e] \in {previous[c][e], SceneAt(log, r.revision)[e]}
    BY <2>2, MergedFacts
  <2> HIDE DEF next
  <2>4. DOMAIN requests'[c] \subseteq DOMAIN requests[c]
    BY <2>1, RemoveDomain
  <2>5. \A e \in Elements : \A q \in DOMAIN requests'[c] : q.deltas[e] \in Versions(e)
    BY <2>4, BagVersions
  <2>6. \A e \in Elements : next[e] \in Versions(e)
    BY <1>2, <2>2, <2>3, VersionFacts
  <2>7. \A e \in Elements : /\ canvas'[c][e] = next[e]
                            /\ previous'[c][e] \in {previous[c][e], next[e]}
                            /\ pending'[c][e] \in {pending[c][e], next[e]}
    BY <2>1, <2>3, Painted
  <2>8. \A e \in Elements :
          /\ canvas'[c][e] \in Versions(e) /\ previous'[c][e] \in Versions(e)
          /\ pending'[c][e] \in Versions(e)
    BY <1>2, <2>6, <2>7, VersionFacts
  <2>9. QED
    BY <2>1, <2>5, <2>8, PageVersions
<1>11. ASSUME NEW c \in Clients, NEW r \in DOMAIN requests[c],
              ServerAppend(c, r) \/ ServerAnswer(c, r)
       PROVE  VersionsOK'
  <2>1. Others(c) /\ SameScreen(c) /\ UNCHANGED drawn
    BY <1>11, MoveEffect
  <2>2. PICK s : /\ requests'[c] = BagAdd(BagRemove(requests[c], r), s)
                 /\ s.deltas = r.deltas
                 /\ \/ r.kind = "batch" /\ log' = AppendOperation(log, r.deltas)
                    \/ UNCHANGED log
    BY <1>11, MoveEffect
  <2>3. DOMAIN BagAdd(BagRemove(requests[c], r), s) = DOMAIN BagRemove(requests[c], r) \cup {s}
    BY AddDomain
  <2>4. DOMAIN requests'[c] \subseteq DOMAIN requests[c] \cup {s}
    BY <2>2, <2>3, RemoveDomain
  <2>5. \A q \in DOMAIN requests'[c] : \E p \in DOMAIN requests[c] : q.deltas = p.deltas
    BY <2>2, <2>4
  <2>6. CASE UNCHANGED log
    BY <1>3, <2>1, <2>5, <2>6
  <2>7. CASE r.kind = "batch" /\ log' = AppendOperation(log, r.deltas)
    <3>1. Grown(r.deltas)
      BY <2>7, AppendGrows
    <3>2. QED
      BY <2>1, <2>5, <3>1, AppendVersions
  <2>8. QED
    BY <2>2, <2>6, <2>7
<1>12. ASSUME NEW c \in Clients, Revoke(c) PROVE VersionsOK'
  <2>1. UNCHANGED <<log, canvas, previous, pending, requests, drawn>>
    BY <1>12 DEF Revoke, pageVars
  <2>2. \A e \in Elements : Versions(e)' = Versions(e)
    BY <2>1 DEF Versions
  <2>3. QED
    BY <2>1, <2>2, VersionsKept
<1>13. ASSUME NEW c \in Clients, NEW e \in Elements, NEW n \in Nonces, NEW x \in BOOLEAN,
              Edit(c, e, n, x)
       PROVE  VersionsOK'
  BY <1>13, EditVersions
<1>14. QED
  BY <1>1, <1>4, <1>5, <1>6, <1>7, <1>8, <1>9, <1>10, <1>11, <1>12, <1>13, StepCases
----------------------------------------------------------------------------
(* The history of the stored scene.                                        *)

\* What is stored stays stored, deletions included.
LEMMA StoredGrows ==
  ASSUME NEW d, Grown(d), NEW e \in Elements, NEW s
  PROVE  /\ Stored(e, s) => Stored(e, s)'
         /\ StoredUnderDeletion(e, s) => StoredUnderDeletion(e, s)'
         /\ s = d[e] => Stored(e, s)'
<1>1. /\ DOMAIN log = 1..Len(log) /\ DOMAIN log' = 1..(Len(log) + 1) /\ Len(log) \in Nat
      /\ \A k \in 1..Len(log) : log'[k] = log[k]
      /\ \A n \in 0..Len(log) : SceneAt(log', n) = SceneAt(log, n)
      /\ log'[Len(log) + 1].deltas = d
  BY DEF Grown
<1>2. \A k \in DOMAIN log : k \in DOMAIN log' /\ log'[k] = log[k]
  BY <1>1
<1>3. Stored(e, s) => Stored(e, s)'
  BY <1>2 DEF Stored
<1>4. ASSUME NEW k \in DOMAIN log PROVE SceneAt(log', k - 1) = SceneAt(log, k - 1)
  <2>1. k - 1 \in 0..Len(log)
    BY <1>1
  <2>2. QED
    BY <1>1, <2>1
<1>5. StoredUnderDeletion(e, s) => StoredUnderDeletion(e, s)'
  BY <1>2, <1>4 DEF StoredUnderDeletion
<1>6. Len(log) + 1 \in DOMAIN log'
  BY <1>1
<1>7. s = d[e] => Stored(e, s)'
  BY <1>1, <1>6 DEF Stored
<1>8. QED
  BY <1>3, <1>5, <1>7

\* The same of the log after the step.
StoredNow(e, s) == \E k \in DOMAIN log' : log'[k].deltas[e] = s

\* An operation is reconciled into the scene before it.
LEMMA HistoryGrows ==
  ASSUME SyncInv, VersionsOK, HistoryOK, NEW d, Grown(d)
  PROVE  HistoryOK'
<1> DEFINE n == Len(log)
<1>1. LogOK
  BY DEF SyncInv
<1>2. /\ DOMAIN log = 1..n /\ DOMAIN log' = 1..(n + 1) /\ n \in Nat /\ Len(log') = n + 1
      /\ \A k \in 1..n : log'[k] = log[k]
      /\ \A m \in 0..n : SceneAt(log', m) = SceneAt(log, m)
      /\ log'[n + 1].deltas = d
  BY DEF Grown
<1> HIDE DEF n
<1>3. SUFFICES ASSUME NEW e \in Elements
      PROVE  /\ \A j, k \in 0..Len(log') :
                  j <= k => ~RemoteWins(SceneAt(log', k)[e], SceneAt(log', j)[e])
             /\ \A k \in DOMAIN log' :
                  /\ SceneAt(log', k)[e] \in {SceneAt(log', k - 1)[e], log'[k].deltas[e]}
                  /\ Present(SceneAt(log', k)[e]) => StoredNow(e, SceneAt(log', k)[e])
                  /\ \/ ~RemoteWins(SceneAt(log', k)[e], log'[k].deltas[e])
                     \/ /\ log'[k].deltas[e].isDeleted
                        /\ ~Present(SceneAt(log', k - 1)[e])
  <2>1. \A e \in Elements :
          /\ \A j, k \in 0..Len(log') :
                  j <= k => ~RemoteWins(SceneAt(log', k)[e], SceneAt(log', j)[e])
          /\ \A k \in DOMAIN log' :
                  /\ SceneAt(log', k)[e] \in {SceneAt(log', k - 1)[e], log'[k].deltas[e]}
                  /\ Present(SceneAt(log', k)[e]) => StoredNow(e, SceneAt(log', k)[e])
                  /\ \/ ~RemoteWins(SceneAt(log', k)[e], log'[k].deltas[e])
                     \/ /\ log'[k].deltas[e].isDeleted
                        /\ ~Present(SceneAt(log', k - 1)[e])
    BY <1>3
  <2>2. QED
    BY <2>1 DEF HistoryOK, Stored, StoredNow
<1> DEFINE S(m) == SceneAt(log, m)[e]
           new == SceneAt(log', n + 1)[e]
<1>4. /\ \A j, k \in 0..n : j <= k => ~RemoteWins(S(k), S(j))
      /\ \A k \in 1..n :
           /\ S(k) \in {S(k - 1), log[k].deltas[e]}
           /\ Present(S(k)) => Stored(e, S(k))
           /\ ~RemoteWins(S(k), log[k].deltas[e]) \/ (log[k].deltas[e].isDeleted /\ ~Present(S(k - 1)))
  BY <1>2 DEF HistoryOK, n
<1>5. \A m \in 0..n : SceneAt(log', m)[e] = S(m)
  BY <1>2
<1>6. /\ new \in {S(n), d[e]}
      /\ ~RemoteWins(new, S(n))
      /\ ~RemoteWins(new, d[e]) \/ (d[e].isDeleted /\ ~Present(S(n)))
  BY DEF Grown, n
<1>7. \A m \in 0..n : S(m) \in Stamp
  <2>1. \A m \in 0..n : S(m) \in Versions(e)
    BY <1>1, VersionFacts DEF n
  <2>2. QED
    BY <2>1 DEF VersionsOK
<1>8. new \in Stamp
  <2>1. LogOK' /\ n + 1 \in DOMAIN log' /\ n + 1 # 0
    BY <1>2 DEF Grown
  <2>2. log'[n + 1] \in Operation
    BY <2>1 DEF LogOK
  <2>3. log'[n + 1].scene[e] \in Stamp
    BY <2>2 DEF Operation
  <2>4. QED
    BY <2>1, <2>3 DEF SceneAt
<1>9. ~RemoteWins(new, new)
  BY <1>8, Order
<1>10. \A j \in 0..n : ~RemoteWins(new, S(j))
  <2>1. ASSUME NEW j \in 0..n PROVE ~RemoteWins(new, S(j))
    <3>1. n \in 0..n /\ j <= n
      BY <1>2
    <3>2. ~RemoteWins(S(n), S(j)) /\ S(n) \in Stamp /\ S(j) \in Stamp
      BY <1>4, <1>7, <3>1
    <3> HIDE DEF S, new
    <3>3. QED
      BY <1>6, <1>8, <3>2, Order
  <2>2. QED
    BY <2>1
<1> HIDE DEF S, new
<1>11. ASSUME NEW j \in 0..Len(log'), NEW k \in 0..Len(log'), j <= k
       PROVE  ~RemoteWins(SceneAt(log', k)[e], SceneAt(log', j)[e])
  <2>1. CASE k \in 0..n
    <3>1. j \in 0..n
      BY <1>2, <1>11, <2>1
    <3>2. QED
      BY <1>4, <1>5, <1>11, <2>1, <3>1
  <2>2. CASE k = n + 1
    <3>1. SceneAt(log', k)[e] = new
      BY <2>2 DEF new
    <3>2. j \in 0..n \/ j = n + 1
      BY <1>2
    <3>3. CASE j \in 0..n
      BY <1>5, <1>10, <3>1, <3>3
    <3>4. CASE j = n + 1
      BY <1>9, <3>1, <3>4 DEF new
    <3>5. QED
      BY <3>2, <3>3, <3>4
  <2>3. QED
    BY <1>2, <2>1, <2>2
<1>12. ASSUME NEW k \in DOMAIN log'
       PROVE  /\ SceneAt(log', k)[e] \in {SceneAt(log', k - 1)[e], log'[k].deltas[e]}
              /\ Present(SceneAt(log', k)[e]) => StoredNow(e, SceneAt(log', k)[e])
              /\ \/ ~RemoteWins(SceneAt(log', k)[e], log'[k].deltas[e])
                 \/ /\ log'[k].deltas[e].isDeleted
                    /\ ~Present(SceneAt(log', k - 1)[e])
  <2>1. CASE k \in 1..n
    <3>1. k \in 0..n /\ k - 1 \in 0..n
      BY <1>2, <2>1
    <3>2. SceneAt(log', k)[e] = S(k) /\ SceneAt(log', k - 1)[e] = S(k - 1) /\ log'[k] = log[k]
      BY <1>2, <1>5, <2>1, <3>1
    <3>3. PICK s : s = S(k)
      OBVIOUS
    <3>4. Present(s) => Stored(e, s)'
      BY <1>4, <2>1, <3>3, StoredGrows
    <3>5. PICK t : t = SceneAt(log', k)[e]
      OBVIOUS
    <3>6. s = t
      BY <3>2, <3>3, <3>5
    <3>7. Present(SceneAt(log', k)[e]) => StoredNow(e, SceneAt(log', k)[e])
      BY <3>4, <3>5, <3>6 DEF Stored, StoredNow
    <3>8. QED
      BY <1>4, <2>1, <3>2, <3>7
  <2>2. CASE k = n + 1
    <3>1. SceneAt(log', k)[e] = new /\ k - 1 = n /\ n \in 0..n
      BY <1>2, <2>2 DEF new
    <3>2. SceneAt(log', k - 1)[e] = S(n)
      BY <1>5, <3>1
    <3>3. PICK t : t = new
      OBVIOUS
    <3>4. Present(t) => Stored(e, t)'
      <4>1. CASE t = d[e]
        BY <4>1, StoredGrows
      <4>2. CASE t = S(n)
        <5>1. CASE n = 0
          <6>1. S(n) = Absent
            BY <5>1, EmptyFacts DEF S, SceneAt
          <6>2. QED
            BY <4>2, <6>1, EmptyFacts
        <5>2. CASE n # 0
          <6>1. n \in 1..n
            BY <1>2, <5>2
          <6>2. Present(t) => Stored(e, t)
            BY <1>4, <4>2, <6>1
          <6>3. QED
            BY <6>2, StoredGrows
        <5>3. QED
          BY <5>1, <5>2
      <4>3. QED
        BY <1>6, <3>3, <4>1, <4>2
    <3>5. t = SceneAt(log', k)[e]
      BY <3>1, <3>3
    <3>6. Present(SceneAt(log', k)[e]) => StoredNow(e, SceneAt(log', k)[e])
      BY <3>4, <3>5 DEF Stored, StoredNow
    <3>7. QED
      BY <1>2, <1>6, <2>2, <3>1, <3>2, <3>6
  <2>3. QED
    BY <1>2, <2>1, <2>2
<1>13. QED
  BY <1>11, <1>12

\* The stored scene only goes up.
LEMMA HistoryInv ==
  ASSUME SyncInv, VersionsOK, HistoryOK, [Next]_vars
  PROVE  HistoryOK'
<1>1. CASE UNCHANGED log
  BY <1>1 DEF HistoryOK, Stored
<1>2. ASSUME NEW c \in Clients, NEW r \in DOMAIN requests[c], ServerAppend(c, r)
      PROVE  HistoryOK'
  <2>1. UNCHANGED log \/ (r.kind = "batch" /\ log' = AppendOperation(log, r.deltas))
    BY <1>2 DEF ServerAppend
  <2>2. CASE r.kind = "batch" /\ log' = AppendOperation(log, r.deltas)
    <3>1. Grown(r.deltas)
      BY <2>2, AppendGrows
    <3>2. QED
      BY <3>1, HistoryGrows
  <2>3. QED
    BY <1>1, <2>1, <2>2
<1>3. ASSUME ~UNCHANGED log
      PROVE  \E c \in Clients : \E r \in DOMAIN requests[c] : ServerAppend(c, r)
  <2>1. ~UNCHANGED vars
    BY <1>3 DEF vars
  <2>2. PICK c \in Clients :
              \/ Open(c) \/ Reconnect(c)
              \/ \E r \in DOMAIN requests[c] : Opened(c, r)
              \/ \E e \in Elements, n \in Nonces, d \in BOOLEAN : Edit(c, e, n, d)
              \/ Flush(c)
              \/ Navigate(c) \/ CloseTab(c)
              \/ \E r \in DOMAIN requests[c] :
                   \/ BatchAcked(c, r) \/ BatchForbidden(c, r) \/ CatchUpDone(c, r)
                   \/ BootstrapFailed(c, r) \/ CatchUpFailed(c, r) \/ DetachedLost(c, r)
              \/ \E r \in DOMAIN requests[c] : BatchFailed(c, r)
              \/ \E r \in DOMAIN requests[c] : Refreshed(c, r)
              \/ \E r \in DOMAIN requests[c] : ServerAppend(c, r) \/ ServerAnswer(c, r)
              \/ Revoke(c)
    BY <2>1, StepCases
  <2>3. ~(Open(c) \/ Reconnect(c) \/ Flush(c) \/ Navigate(c) \/ CloseTab(c) \/ Revoke(c))
    BY <1>3 DEF Open, Reconnect, Flush, Navigate, CloseTab, Discard, Revoke, pageVars
  <2>4. \A e \in Elements, n \in Nonces, d \in BOOLEAN : ~Edit(c, e, n, d)
    BY <1>3 DEF Edit, pageVars
  <2>5. \A r \in DOMAIN requests[c] :
          ~(Opened(c, r) \/ BatchAcked(c, r) \/ BatchForbidden(c, r) \/ CatchUpDone(c, r))
    BY <1>3 DEF Opened, BatchAcked, BatchForbidden, CatchUpDone, pageVars
  <2>6. \A r \in DOMAIN requests[c] :
          ~(BootstrapFailed(c, r) \/ CatchUpFailed(c, r) \/ DetachedLost(c, r) \/ BatchFailed(c, r))
    BY <1>3 DEF BootstrapFailed, CatchUpFailed, DetachedLost, BatchFailed, Failing, pageVars
  <2>7. \A r \in DOMAIN requests[c] : ~(Refreshed(c, r) \/ ServerAnswer(c, r))
    BY <1>3 DEF Refreshed, ServerAnswer, pageVars
  <2>8. QED
    BY <2>2, <2>3, <2>4, <2>5, <2>6, <2>7
<1>4. QED
  BY <1>1, <1>2, <1>3
----------------------------------------------------------------------------
(* What a page shows is stored or on its way.                              *)

\* The log is the same, or an operation longer.
LogSteady == UNCHANGED log \/ \E d : Grown(d)

\* A step of a page that loses nothing: what is diffed against goes up, and what
\* is shown and was not before is stored, or queued; what was on its way still
\* is, or has been stored.
Steady(c) ==
  /\ LogSteady
  /\ \A e \in Elements :
       /\ ~RemoteWins(previous'[c][e], previous[c][e])
       /\ \A s : s \in {canvas'[c][e], previous'[c][e]} /\ Present(s) =>
            \/ OnItsWay(c, e, s)'
            \/ \E d : Grown(d) /\ d[e] = s
            \/ /\ s \in {canvas[c][e], previous[c][e]} \/ Stored(e, s)
               /\ ~OnItsWay(c, e, s)
       /\ \A s : s = canvas'[c][e] /\ Live(s) =>
            s = canvas[c][e] \/ OnItsWay(c, e, s)'

\* What is in the queue or in a batch that stays is on its way still.
LEMMA WayKept ==
  ASSUME NEW c \in Clients, NEW e \in Elements, NEW s,
         pending[c][e] = s => OnItsWay(c, e, s)',
         \A q \in DOMAIN requests[c] :
           /\ ~q.detached /\ q.kind = "batch" /\ q.phase = "sent"
           => q \in DOMAIN requests'[c]
  PROVE  OnItsWay(c, e, s) => OnItsWay(c, e, s)'
BY DEF OnItsWay

\* A step that leaves what is shown alone.
LEMMA SteadySame ==
  ASSUME SyncInv, VersionsOK, NEW c \in Clients, LogSteady,
         canvas'[c] = canvas[c], previous'[c] = previous[c],
         \A e \in Elements : \A s : OnItsWay(c, e, s) =>
           OnItsWay(c, e, s)' \/ \E d : Grown(d) /\ d[e] = s
  PROVE  Steady(c)
<1>1. \A e \in Elements : ~RemoteWins(previous'[c][e], previous[c][e])
  BY ClientStamps, Order
<1>2. QED
  BY <1>1 DEF Steady

\* A step that leaves what is shown and queued alone, and every batch in flight.
LEMMA SteadyIdle ==
  ASSUME SyncInv, VersionsOK, NEW c \in Clients, LogSteady, SameScreen(c),
         \A q \in DOMAIN requests[c] :
           /\ ~q.detached /\ q.kind = "batch" /\ q.phase = "sent"
           => q \in DOMAIN requests'[c]
  PROVE  Steady(c)
<1>1. ASSUME NEW e \in Elements, NEW s PROVE OnItsWay(c, e, s) => OnItsWay(c, e, s)'
  BY WayKept DEF SameScreen, OnItsWay
<1>2. canvas'[c] = canvas[c] /\ previous'[c] = previous[c]
  BY DEF SameScreen
<1>3. QED
  BY <1>1, <1>2, SteadySame

\* onChange loses nothing, if what it shows was known, is stored or is queued.
LEMMA SteadyChange ==
  ASSUME SyncInv, VersionsOK, NEW c \in Clients, ScreenOK(c), UNCHANGED log,
         NEW next \in Scenes, OnChange(c, next), NextOK(c, next),
         DOMAIN requests'[c] \subseteq DOMAIN requests[c],
         \A q \in DOMAIN requests[c] : q.kind = "batch" => q \in DOMAIN requests'[c],
         \A e \in Elements :
           \/ next[e] \in {canvas[c][e], previous[c][e]}
           \/ Present(next[e]) => Stored(e, next[e])
           \/ pending'[c][e] = next[e] /\ previous'[c][e] = next[e]
  PROVE  Steady(c)
<1>1. \A e \in Elements : ~RemoteWins(previous'[c][e], previous[c][e])
  BY ScreenChange
<1>2. SUFFICES ASSUME NEW e \in Elements
      PROVE  /\ \A s : s \in {canvas'[c][e], previous'[c][e]} /\ Present(s) =>
                  \/ OnItsWay(c, e, s)'
                  \/ /\ s \in {canvas[c][e], previous[c][e]} \/ Stored(e, s)
                     /\ ~OnItsWay(c, e, s)
             /\ \A s : s = canvas'[c][e] /\ Live(s) =>
                  s = canvas[c][e] \/ OnItsWay(c, e, s)'
  BY <1>1, <1>2 DEF Steady, LogSteady
<1>3. /\ canvas'[c][e] = next[e]
      /\ \/ pending'[c][e] = next[e] /\ previous'[c][e] = next[e]
         \/ /\ pending'[c][e] = pending[c][e]
            /\ previous'[c][e] \in {previous[c][e], next[e]}
            /\ Live(previous[c][e]) \/ Live(next[e]) => next[e] = previous[c][e]
  BY Painted
<1>4. CASE pending'[c][e] = next[e] /\ previous'[c][e] = next[e]
  BY <1>3, <1>4 DEF OnItsWay
<1>5. CASE /\ pending'[c][e] = pending[c][e]
           /\ previous'[c][e] \in {previous[c][e], next[e]}
           /\ Live(previous[c][e]) \/ Live(next[e]) => next[e] = previous[c][e]
           /\ ~(pending'[c][e] = next[e] /\ previous'[c][e] = next[e])
  <2>1. \A s : OnItsWay(c, e, s) => OnItsWay(c, e, s)'
    BY <1>5, WayKept DEF OnItsWay
  <2>2. next[e] \in {canvas[c][e], previous[c][e]} \/ (Present(next[e]) => Stored(e, next[e]))
    BY <1>5
  <2>3. Live(next[e]) => next[e] = canvas[c][e]
    BY <1>5 DEF ScreenOK
  <2>4. QED
    BY <1>3, <1>5, <2>1, <2>2, <2>3
<1>6. QED
  BY <1>3, <1>4, <1>5

\* Everything a page holds stays stored or on its way.
LEMMA SentKept ==
  ASSUME NEW c \in Clients, SentOK(c), Steady(c)
  PROVE  SentOK(c)'
<1>1. SUFFICES ASSUME NEW e \in Elements, NEW s \in {canvas'[c][e], previous'[c][e]}, Present(s)
      PROVE  Stored(e, s)' \/ OnItsWay(c, e, s)'
  BY <1>1 DEF SentOK
<1>2. Stored(e, s) => Stored(e, s)'
  <2>1. CASE UNCHANGED log
    BY <2>1 DEF Stored
  <2>2. CASE \E d : Grown(d)
    BY <2>2, StoredGrows
  <2>3. QED
    BY <2>1, <2>2 DEF Steady, LogSteady
<1>3. \/ OnItsWay(c, e, s)'
      \/ \E d : Grown(d) /\ d[e] = s
      \/ /\ s \in {canvas[c][e], previous[c][e]} \/ Stored(e, s)
         /\ ~OnItsWay(c, e, s)
  BY <1>1 DEF Steady
<1>4. CASE \E d : Grown(d) /\ d[e] = s
  BY <1>4, StoredGrows
<1>5. QED
  BY <1>1, <1>2, <1>3, <1>4 DEF SentOK
----------------------------------------------------------------------------
(* Covering a revision.                                                    *)

\* The stored scene of an element, revision by revision.
LEMMA SceneOrder ==
  ASSUME SyncInv, VersionsOK, HistoryOK, NEW e \in Elements
  PROVE  /\ Len(log) \in Nat
         /\ \A n \in 0..Len(log) : SceneAt(log, n)[e] \in Stamp
         /\ \A j, k \in 0..Len(log) :
              j <= k => ~RemoteWins(SceneAt(log, k)[e], SceneAt(log, j)[e])
         /\ \A i, j, k \in 0..Len(log) :
              i <= j /\ j <= k /\ SceneAt(log, i)[e] = SceneAt(log, k)[e] =>
                SceneAt(log, j)[e] = SceneAt(log, i)[e]
<1>1. LogOK /\ Len(log) \in Nat
  BY DEF SyncInv, LogOK
<1>2. \A n \in 0..Len(log) : SceneAt(log, n)[e] \in Versions(e)
  BY <1>1, VersionFacts
<1>3. \A n \in 0..Len(log) : SceneAt(log, n)[e] \in Stamp
  BY <1>2 DEF VersionsOK
<1>4. \A j, k \in 0..Len(log) :
        j <= k => ~RemoteWins(SceneAt(log, k)[e], SceneAt(log, j)[e])
  BY DEF HistoryOK
<1>5. ASSUME NEW i \in 0..Len(log), NEW j \in 0..Len(log), NEW k \in 0..Len(log),
             i <= j, j <= k, SceneAt(log, i)[e] = SceneAt(log, k)[e]
      PROVE  SceneAt(log, j)[e] = SceneAt(log, i)[e]
  <2>1. /\ ~RemoteWins(SceneAt(log, j)[e], SceneAt(log, i)[e])
        /\ ~RemoteWins(SceneAt(log, i)[e], SceneAt(log, j)[e])
    BY <1>4, <1>5
  <2>2. SameVersion(SceneAt(log, j)[e], SceneAt(log, i)[e])
    BY <1>3, <2>1, Order
  <2>3. QED
    BY <1>2, <2>2 DEF VersionsOK
<1>6. QED
  BY <1>1, <1>3, <1>4, <1>5

\* Covering a revision covers those before it.
LEMMA CoversDown ==
  ASSUME SyncInv, VersionsOK, HistoryOK, NEW c \in Clients,
         NEW m \in 0..Len(log), NEW n \in 0..Len(log), n <= m, Covers(c, m)
  PROVE  Covers(c, n)
<1>1. SUFFICES ASSUME NEW e \in Elements
      PROVE  /\ Live(SceneAt(log, n)[e]) =>
                  \/ ~RemoteWins(previous[c][e], SceneAt(log, n)[e])
                  \/ \E i \in (n + 1)..Len(log) : ~Live(SceneAt(log, i)[e])
             /\ /\ ~Live(SceneAt(log, n)[e]) /\ Live(canvas[c][e])
                /\ RemoteWins(canvas[c][e], SceneAt(log, n)[e])
                => \/ StoredUnderDeletion(e, canvas[c][e])
                   \/ OnItsWay(c, e, canvas[c][e])
                   \/ \E i \in (n + 1)..Len(log) : Live(SceneAt(log, i)[e])
  BY <1>1 DEF Covers
<1> DEFINE S(i) == SceneAt(log, i)[e]
<1>2. /\ Len(log) \in Nat /\ S(m) \in Stamp /\ S(n) \in Stamp /\ ~RemoteWins(S(m), S(n))
  BY SceneOrder
<1>3. previous[c][e] \in Stamp /\ canvas[c][e] \in Stamp
  BY ClientStamps
<1>4. /\ Live(S(m)) =>
           \/ ~RemoteWins(previous[c][e], S(m))
           \/ \E i \in (m + 1)..Len(log) : ~Live(S(i))
      /\ /\ ~Live(S(m)) /\ Live(canvas[c][e])
         /\ RemoteWins(canvas[c][e], S(m))
         => \/ StoredUnderDeletion(e, canvas[c][e])
            \/ OnItsWay(c, e, canvas[c][e])
            \/ \E i \in (m + 1)..Len(log) : Live(S(i))
  BY DEF Covers
<1>5. /\ \A i \in (m + 1)..Len(log) : i \in (n + 1)..Len(log)
      /\ m # n => m \in (n + 1)..Len(log)
  BY <1>2
<1> HIDE DEF S
<1>6. ASSUME Live(S(n)), \A i \in (n + 1)..Len(log) : Live(S(i))
      PROVE  ~RemoteWins(previous[c][e], S(n))
  <2>1. Live(S(m))
    BY <1>5, <1>6
  <2>2. ~ \E i \in (m + 1)..Len(log) : ~Live(S(i))
    BY <1>5, <1>6
  <2>3. ~RemoteWins(previous[c][e], S(m))
    BY <1>4, <2>1, <2>2
  <2>4. QED
    BY <1>2, <1>3, <2>3, Order
<1>7. ASSUME ~Live(S(n)), Live(canvas[c][e]), RemoteWins(canvas[c][e], S(n)),
             \A i \in (n + 1)..Len(log) : ~Live(S(i))
      PROVE  StoredUnderDeletion(e, canvas[c][e]) \/ OnItsWay(c, e, canvas[c][e])
  <2>1. ~Live(S(m))
    BY <1>5, <1>7
  <2>2. RemoteWins(canvas[c][e], S(m))
    BY <1>2, <1>3, <1>7, Order
  <2>3. ~ \E i \in (m + 1)..Len(log) : Live(S(i))
    BY <1>5, <1>7
  <2>4. QED
    BY <1>4, <1>7, <2>1, <2>2, <2>3
<1>8. QED
  BY <1>6, <1>7 DEF S

\* What was stored since a revision that is covered, by the page itself, is
\* covered as well.
LEMMA CoversUp ==
  ASSUME SyncInv, VersionsOK, HistoryOK, NEW c \in Clients, ScreenOK(c),
         NEW m \in 0..Len(log), NEW n \in 0..Len(log), m <= n, Covers(c, m),
         OwnSince(c, m, n)
  PROVE  Covers(c, n)
<1>1. SUFFICES ASSUME NEW e \in Elements
      PROVE  /\ Live(SceneAt(log, n)[e]) =>
                  \/ ~RemoteWins(previous[c][e], SceneAt(log, n)[e])
                  \/ \E i \in (n + 1)..Len(log) : ~Live(SceneAt(log, i)[e])
             /\ /\ ~Live(SceneAt(log, n)[e]) /\ Live(canvas[c][e])
                /\ RemoteWins(canvas[c][e], SceneAt(log, n)[e])
                => \/ StoredUnderDeletion(e, canvas[c][e])
                   \/ OnItsWay(c, e, canvas[c][e])
                   \/ \E i \in (n + 1)..Len(log) : Live(SceneAt(log, i)[e])
  BY <1>1 DEF Covers
<1> DEFINE S(i) == SceneAt(log, i)[e]
<1>2. Live(canvas[c][e]) => canvas[c][e] = previous[c][e]
  BY DEF ScreenOK
<1>3. /\ Live(S(m)) =>
           \/ ~RemoteWins(previous[c][e], S(m))
           \/ \E i \in (m + 1)..Len(log) : ~Live(S(i))
      /\ /\ ~Live(S(m)) /\ Live(canvas[c][e])
         /\ RemoteWins(canvas[c][e], S(m))
         => \/ StoredUnderDeletion(e, canvas[c][e])
            \/ OnItsWay(c, e, canvas[c][e])
            \/ \E i \in (m + 1)..Len(log) : Live(S(i))
  BY DEF Covers
<1>4. S(n) = S(m) \/ ~RemoteWins(previous[c][e], S(n))
  BY DEF OwnSince
<1>5. ASSUME S(n) = S(m), NEW i \in (m + 1)..Len(log), S(i) # S(m)
      PROVE  i \in (n + 1)..Len(log)
  <2>1. Len(log) \in Nat /\ i \in 0..Len(log)
    BY SceneOrder
  <2>2. ~(i <= n)
    BY <1>5, <2>1, SceneOrder
  <2>3. QED
    BY <2>1, <2>2
<1> HIDE DEF S
<1>6. CASE S(n) = S(m)
  BY <1>3, <1>5, <1>6 DEF S
<1>7. CASE ~RemoteWins(previous[c][e], S(n))
  BY <1>2, <1>7 DEF S
<1>8. QED
  BY <1>4, <1>6, <1>7
\* The two laws of covering, of the state after a step as well.
CoversLaw ==
  SyncInv /\ VersionsOK /\ HistoryOK =>
    \A c \in Clients : ScreenOK(c) =>
      \A m, n \in 0..Len(log) :
        /\ Covers(c, m)
        /\ n <= m \/ (m <= n /\ OwnSince(c, m, n))
        => Covers(c, n)

\* They hold of every state.
LEMMA CoversAcross == CoversLaw
BY CoversDown, CoversUp DEF CoversLaw

\* So they hold of the next one.
LEMMA CoversAcrossNext == CoversLaw'
BY CoversAcross, PTL

\* The log before a step is part of the log after it.
LEMMA LogGrows ==
  ASSUME SyncInv, LogSteady
  PROVE  /\ Len(log) \in Nat /\ Len(log') \in Nat /\ Len(log) <= Len(log')
         /\ \A k \in DOMAIN log : k \in DOMAIN log' /\ log'[k] = log[k]
         /\ \A n \in 0..Len(log) : SceneAt(log', n) = SceneAt(log, n)
         /\ \A e \in Elements : \A s :
              StoredUnderDeletion(e, s) => StoredUnderDeletion(e, s)'
<1>1. Len(log) \in Nat
  BY DEF SyncInv, LogOK
<1>2. CASE UNCHANGED log
  BY <1>1, <1>2 DEF StoredUnderDeletion
<1>3. CASE \E d : Grown(d)
  <2>1. PICK d : Grown(d)
    BY <1>3
  <2>2. \A e \in Elements : \A s : StoredUnderDeletion(e, s) => StoredUnderDeletion(e, s)'
    BY <2>1, StoredGrows
  <2>3. /\ DOMAIN log = 1..Len(log) /\ DOMAIN log' = 1..(Len(log) + 1)
        /\ Len(log') = Len(log) + 1
        /\ \A k \in 1..Len(log) : log'[k] = log[k]
        /\ \A n \in 0..Len(log) : SceneAt(log', n) = SceneAt(log, n)
    BY <2>1 DEF Grown
  <2>4. QED
    BY <1>1, <2>2, <2>3
<1>4. QED
  BY <1>2, <1>3 DEF LogSteady

\* A step that loses nothing leaves a revision that is covered covered.
LEMMA CoversKept ==
  ASSUME SyncInv, VersionsOK, HistoryOK, SyncInv', VersionsOK', NEW c \in Clients,
         Steady(c), NEW n \in 0..Len(log), Covers(c, n)
  PROVE  Covers(c, n)'
<1>1. /\ Len(log) \in Nat /\ Len(log') \in Nat /\ Len(log) <= Len(log')
      /\ \A i \in 0..Len(log) : SceneAt(log', i) = SceneAt(log, i)
      /\ \A e \in Elements : \A s : StoredUnderDeletion(e, s) => StoredUnderDeletion(e, s)'
  BY LogGrows DEF Steady
<1>2. SUFFICES ASSUME NEW e \in Elements
      PROVE  /\ Live(SceneAt(log', n)[e]) =>
                  \/ ~RemoteWins(previous'[c][e], SceneAt(log', n)[e])
                  \/ \E i \in (n + 1)..Len(log') : ~Live(SceneAt(log', i)[e])
             /\ \A s : /\ s = canvas'[c][e]
                       /\ ~Live(SceneAt(log', n)[e]) /\ Live(s)
                       /\ RemoteWins(s, SceneAt(log', n)[e])
                => \/ StoredUnderDeletion(e, s)'
                   \/ OnItsWay(c, e, s)'
                   \/ \E i \in (n + 1)..Len(log') : Live(SceneAt(log', i)[e])
  <2>1. ASSUME NEW e \in Elements
        PROVE  /\ ~Live(SceneAt(log', n)[e]) /\ Live(canvas'[c][e])
               /\ RemoteWins(canvas'[c][e], SceneAt(log', n)[e])
               => \/ StoredUnderDeletion(e, canvas[c][e])'
                  \/ OnItsWay(c, e, canvas[c][e])'
                  \/ \E i \in (n + 1)..Len(log') : Live(SceneAt(log', i)[e])
    <3>1. PICK s : s = canvas'[c][e]
      OBVIOUS
    <3>2. /\ ~Live(SceneAt(log', n)[e]) /\ Live(s)
          /\ RemoteWins(s, SceneAt(log', n)[e])
          => \/ StoredUnderDeletion(e, s)'
             \/ OnItsWay(c, e, s)'
             \/ \E i \in (n + 1)..Len(log') : Live(SceneAt(log', i)[e])
      BY <1>2, <3>1
    <3>3. StoredUnderDeletion(e, s)' => StoredUnderDeletion(e, canvas[c][e])'
      BY <3>1 DEF StoredUnderDeletion
    <3>4. OnItsWay(c, e, s)' => OnItsWay(c, e, canvas[c][e])'
      BY <3>1 DEF OnItsWay
    <3>5. QED
      BY <3>1, <3>2, <3>3, <3>4
  <2>2. ASSUME NEW e \in Elements
        PROVE  Live(SceneAt(log', n)[e]) =>
                  \/ ~RemoteWins(previous'[c][e], SceneAt(log', n)[e])
                  \/ \E i \in (n + 1)..Len(log') : ~Live(SceneAt(log', i)[e])
    BY <1>2
  <2>3. QED
    BY <2>1, <2>2 DEF Covers
<1> DEFINE S(i) == SceneAt(log, i)[e]
<1>3. /\ Live(S(n)) =>
           \/ ~RemoteWins(previous[c][e], S(n))
           \/ \E i \in (n + 1)..Len(log) : ~Live(S(i))
      /\ /\ ~Live(S(n)) /\ Live(canvas[c][e])
         /\ RemoteWins(canvas[c][e], S(n))
         => \/ StoredUnderDeletion(e, canvas[c][e])
            \/ OnItsWay(c, e, canvas[c][e])
            \/ \E i \in (n + 1)..Len(log) : Live(S(i))
  BY DEF Covers
<1>4. \A i \in 0..Len(log) : SceneAt(log', i)[e] = S(i)
  BY <1>1
<1>5. /\ \A i \in 0..Len(log) : S(i) \in Stamp
      /\ ~RemoteWins(S(Len(log)), S(n))
  BY <1>1, SceneOrder
<1>6. /\ \A i \in (n + 1)..Len(log) : i \in 0..Len(log) /\ i \in (n + 1)..Len(log')
      /\ Len(log) \in 0..Len(log)
      /\ Len(log) = n \/ Len(log) \in (n + 1)..Len(log)
  BY <1>1
<1>7. /\ previous[c][e] \in Stamp /\ canvas[c][e] \in Stamp
      /\ previous'[c][e] \in Stamp /\ canvas'[c][e] \in Stamp
  BY DEF SyncInv, ClientOK, Scenes
<1> HIDE DEF S
<1>8. Live(S(n)) =>
        \/ ~RemoteWins(previous'[c][e], S(n))
        \/ \E i \in (n + 1)..Len(log') : ~Live(SceneAt(log', i)[e])
  <2>1. CASE ~RemoteWins(previous[c][e], S(n))
    <3>1. ~RemoteWins(previous'[c][e], previous[c][e])
      BY DEF Steady
    <3>2. ~RemoteWins(previous'[c][e], S(n))
      BY <1>5, <1>7, <2>1, <3>1, Order
    <3>3. QED
      BY <3>2
  <2>2. CASE \E i \in (n + 1)..Len(log) : ~Live(S(i))
    BY <1>4, <1>6, <2>2
  <2>3. QED
    BY <1>3, <2>1, <2>2
<1>9. ASSUME NEW s, s = canvas'[c][e], ~Live(S(n)), Live(s), RemoteWins(s, S(n)),
             ~OnItsWay(c, e, s)',
             \A i \in (n + 1)..Len(log) : ~Live(S(i))
      PROVE  StoredUnderDeletion(e, s)'
  <2>1. s = canvas[c][e] /\ Present(s) /\ s \in {canvas'[c][e], previous'[c][e]}
    BY <1>9 DEF Steady, Live
  <2>2. (\E d : Grown(d) /\ d[e] = s) \/ ~OnItsWay(c, e, s)
    BY <1>9, <2>1 DEF Steady
  <2>3. CASE ~OnItsWay(c, e, s)
    <3>1. StoredUnderDeletion(e, s)
      BY <1>3, <1>9, <2>1, <2>3
    <3>2. QED
      BY <1>1, <3>1
  <2>4. CASE \E d : Grown(d) /\ d[e] = s
    <3>1. PICK d : Grown(d) /\ d[e] = s
      BY <2>4
    <3>2. /\ Len(log) + 1 \in DOMAIN log' /\ log'[Len(log) + 1].deltas[e] = s
          /\ (Len(log) + 1) - 1 = Len(log)
      BY <1>1, <3>1 DEF Grown
    <3>3. ~Live(S(Len(log)))
      BY <1>6, <1>9
    <3>4. S(Len(log)) \in Stamp /\ S(n) \in Stamp
      BY <1>5, <1>6
    <3>5. RemoteWins(s, S(Len(log)))
      BY <1>5, <1>7, <1>9, <3>4, Order
    <3>6. S(Len(log)).isDeleted
      BY <1>7, <1>9, <3>3, <3>4, <3>5, Order
    <3>7. SceneAt(log', Len(log))[e] = S(Len(log))
      BY <1>4, <1>6
    <3>8. QED
      BY <3>2, <3>5, <3>6, <3>7 DEF StoredUnderDeletion
  <2>5. QED
    BY <2>2, <2>3, <2>4
<1>10. SceneAt(log', n)[e] = S(n)
  BY <1>4
<1>11. (\E i \in (n + 1)..Len(log) : Live(S(i))) =>
         \E i \in (n + 1)..Len(log') : Live(SceneAt(log', i)[e])
  BY <1>4, <1>6
<1>12. QED
  BY <1>8, <1>9, <1>10, <1>11
----------------------------------------------------------------------------
(* Catching up with a revision.                                            *)

\* A refetch in flight stays, is answered, or was painted.
Refetches(c) ==
  \A r \in DOMAIN requests[c] :
    r.kind = "refresh" /\ r.phase \in {"sent", "answered"} =>
      \/ r \in DOMAIN requests'[c]
      \/ /\ r.phase = "sent"
         /\ \E s \in DOMAIN requests'[c] :
              s.kind = "refresh" /\ s.phase = "answered" /\ s.revision = Len(log)
      \/ r.phase = "answered" /\ Covers(c, r.revision)'

\* What came from the page itself stays so.
LEMMA OwnKept ==
  ASSUME SyncInv, VersionsOK, HistoryOK, SyncInv', NEW c \in Clients, Steady(c),
         NEW m \in 0..Len(log), NEW n \in 0..Len(log), OwnSince(c, m, n)
  PROVE  OwnSince(c, m, n)'
<1>1. \A i \in 0..Len(log) : SceneAt(log', i) = SceneAt(log, i)
  BY LogGrows DEF Steady
<1>2. ASSUME NEW e \in Elements
      PROVE  \/ SceneAt(log, n)[e] = SceneAt(log, m)[e]
             \/ ~RemoteWins(previous'[c][e], SceneAt(log, n)[e])
  <2>1. ~RemoteWins(previous'[c][e], previous[c][e])
    BY DEF Steady
  <2>2. previous[c][e] \in Stamp /\ previous'[c][e] \in Stamp /\ SceneAt(log, n)[e] \in Stamp
    BY SceneOrder DEF SyncInv, ClientOK, Scenes
  <2>3. \/ SceneAt(log, n)[e] = SceneAt(log, m)[e]
        \/ ~RemoteWins(previous[c][e], SceneAt(log, n)[e])
    BY DEF OwnSince
  <2>4. QED
    BY <2>1, <2>2, <2>3, Order
<1>3. QED
  BY <1>1, <1>2 DEF OwnSince

\* A step that loses nothing, refetches included, stays caught up.
LEMMA CatchesUpKept ==
  ASSUME SyncInv, VersionsOK, HistoryOK, SyncInv', VersionsOK', HistoryOK',
         NEW c \in Clients, ScreenOK(c)', Steady(c), Refetches(c),
         NEW n \in 0..Len(log), CatchesUp(c, n)
  PROVE  CatchesUp(c, n)'
<1>1. CASE Covers(c, n)
  BY <1>1, CoversKept DEF CatchesUp
<1>2. ASSUME NEW r \in DOMAIN requests[c], r.kind = "refresh",
             \/ r.phase = "sent"
             \/ r.phase = "answered" /\ (n <= r.revision \/ OwnSince(c, r.revision, n))
      PROVE  CatchesUp(c, n)'
  <2>1. r.revision \in 0..Len(log) /\ n \in Nat /\ Len(log) \in Nat
    BY DEF SyncInv, ClientOK, RequestOK, Request, LogOK
  <2>2. OwnSince(c, r.revision, n) => OwnSince(c, r.revision, n)'
    BY <2>1, OwnKept
  <2>3. CASE r \in DOMAIN requests'[c]
    BY <1>2, <2>2, <2>3 DEF CatchesUp
  <2>4. CASE r.phase = "sent" /\ \E s \in DOMAIN requests'[c] :
              s.kind = "refresh" /\ s.phase = "answered" /\ s.revision = Len(log)
    <3>1. n <= Len(log)
      BY <2>1
    <3>2. QED
      BY <2>4, <3>1 DEF CatchesUp
  <2>5. CASE r.phase = "answered" /\ Covers(c, r.revision)'
    <3>1. PICK m : m = r.revision
      OBVIOUS
    <3>2. m \in 0..Len(log) /\ Covers(c, m)'
      BY <2>1, <2>5, <3>1 DEF Covers
    <3>3. n <= m \/ (m <= n /\ OwnSince(c, m, n)')
      BY <1>2, <2>1, <2>2, <2>5, <3>1 DEF OwnSince
    <3>4. n \in 0..Len(log') /\ m \in 0..Len(log')
      <4>1. Len(log') \in Nat /\ Len(log) <= Len(log')
        BY LogGrows DEF Steady
      <4>2. QED
        BY <2>1, <3>2, <4>1
    <3>5. Covers(c, n)'
      BY <3>2, <3>3, <3>4, CoversAcrossNext DEF CoversLaw
    <3>6. QED
      BY <3>5 DEF CatchesUp
  <2>6. QED
    BY <1>2, <2>3, <2>4, <2>5 DEF Refetches
<1>3. QED
  BY <1>1, <1>2 DEF CatchesUp

\* A batch after which there is nothing but itself: who has caught up with its
\* base has caught up with it.
LEMMA OwnBatch ==
  ASSUME SyncInv, VersionsOK, HistoryOK, NEW c \in Clients, ScreenOK(c),
         NEW r \in DOMAIN requests[c], r.kind = "batch", r.phase = "logged", ~r.detached,
         BatchOK(c, r), ~MissedBy(r.kind, r.base, Len(log))
  PROVE  CatchesUp(c, Len(log))
<1> DEFINE b == r.base
           h == Len(log)
<1>1. b \in Nat /\ h \in Nat
  BY DEF SyncInv, ClientOK, RequestOK, Request, LogOK
<1>2. h <= b + 1
  BY <1>1 DEF MissedBy
<1>3. b <= h /\ CatchesUp(c, b)
  BY DEF BatchOK
<1>4. PICK k \in DOMAIN log : k > b /\ log[k].deltas = r.deltas
  BY DEF BatchOK
<1>5. k = h /\ k = b + 1
  <2>1. k \in 1..h
    BY DEF SyncInv, LogOK
  <2>2. QED
    BY <1>1, <1>2, <1>4, <2>1
<1>6. \A e \in Elements :
        \/ SceneAt(log, h)[e] = SceneAt(log, b)[e]
        \/ ~RemoteWins(previous[c][e], SceneAt(log, h)[e])
  <2>1. SUFFICES ASSUME NEW e \in Elements
        PROVE  \/ SceneAt(log, h)[e] = SceneAt(log, b)[e]
               \/ ~RemoteWins(previous[c][e], SceneAt(log, h)[e])
    OBVIOUS
  <2>2. SceneAt(log, k)[e] \in {SceneAt(log, k - 1)[e], log[k].deltas[e]}
    BY DEF HistoryOK
  <2>3. k - 1 = b
    BY <1>1, <1>5
  <2>4. ~RemoteWins(previous[c][e], r.deltas[e])
    BY DEF ScreenOK
  <2>5. QED
    BY <1>4, <1>5, <2>2, <2>3, <2>4
<1>7. OwnSince(c, b, h)
  BY <1>6 DEF OwnSince
<1>8. b \in 0..h /\ h \in 0..h /\ b <= h
  BY <1>1, <1>3
<1>9. CASE Covers(c, b)
  <2>1. Covers(c, h)
    BY <1>7, <1>8, <1>9, CoversUp
  <2>2. QED
    BY <2>1 DEF CatchesUp
<1>10. ASSUME NEW q \in DOMAIN requests[c], q.kind = "refresh",
             \/ q.phase = "sent"
             \/ q.phase = "answered" /\ (b <= q.revision \/ OwnSince(c, q.revision, b))
      PROVE  CatchesUp(c, h)
  <2>1. CASE q.phase = "sent"
    BY <1>10, <2>1 DEF CatchesUp
  <2>2. CASE q.phase = "answered" /\ b <= q.revision
    <3>1. q.revision \in Nat
      BY DEF SyncInv, ClientOK, RequestOK, Request
    <3>2. h <= q.revision \/ q.revision = b
      BY <1>1, <1>2, <2>2, <3>1
    <3>3. QED
      BY <1>7, <1>10, <2>2, <3>2 DEF CatchesUp
  <2>3. CASE q.phase = "answered" /\ OwnSince(c, q.revision, b)
    <3>1. OwnSince(c, q.revision, h)
      BY <1>6, <2>3 DEF OwnSince
    <3>2. QED
      BY <1>10, <2>3, <3>1 DEF CatchesUp
  <2>4. QED
    BY <1>10, <2>1, <2>2, <2>3
<1>11. QED
  BY <1>3, <1>9, <1>10 DEF CatchesUp
----------------------------------------------------------------------------
(* What a step that loses nothing keeps.                                   *)

\* What is known of a batch in flight survives a step that loses nothing.
LEMMA BatchKept ==
  ASSUME Known, Known', NEW c \in Clients, Steady(c), Refetches(c),
         NEW r \in DOMAIN requests[c], BatchOK(c, r)
  PROVE  BatchOK(c, r)'
<1>1. SUFFICES ASSUME r.kind = "batch", ~r.detached
      PROVE  /\ r.phase \in {"sent", "logged"} =>
                  r.base <= Len(log') /\ CatchesUp(c, r.base)'
             /\ r.phase = "logged" =>
                  \E k \in DOMAIN log' : k > r.base /\ log'[k].deltas = r.deltas
             /\ r.phase = "answered" /\ ~r.missed => CatchesUp(c, r.revision)'
  BY <1>1 DEF BatchOK
<1>2. /\ SyncInv /\ VersionsOK /\ HistoryOK /\ SyncInv' /\ VersionsOK' /\ HistoryOK'
      /\ ScreenOK(c)'
  BY DEF Known
<1>3. /\ Len(log) \in Nat /\ Len(log') \in Nat /\ Len(log) <= Len(log')
      /\ \A k \in DOMAIN log : k \in DOMAIN log' /\ log'[k] = log[k]
  BY <1>2, LogGrows DEF Steady
<1>4. r.base \in Nat /\ r.revision \in Nat /\ r.revision <= Len(log)
  BY <1>2 DEF SyncInv, ClientOK, RequestOK, Request
<1>5. ASSUME NEW n \in 0..Len(log), CatchesUp(c, n) PROVE CatchesUp(c, n)'
  BY <1>2, <1>5, CatchesUpKept
<1>6. CASE r.phase \in {"sent", "logged"}
  <2>1. r.base <= Len(log) /\ CatchesUp(c, r.base)
    BY <1>1, <1>6 DEF BatchOK
  <2>2. r.base \in 0..Len(log)
    BY <1>3, <1>4, <2>1
  <2>3. CatchesUp(c, r.base)'
    BY <1>5, <2>1, <2>2
  <2>4. r.base <= Len(log')
    BY <1>3, <1>4, <2>1
  <2>5. r.phase = "logged" =>
          \E k \in DOMAIN log' : k > r.base /\ log'[k].deltas = r.deltas
    BY <1>1, <1>3 DEF BatchOK
  <2>6. QED
    BY <1>6, <2>3, <2>4, <2>5
<1>7. CASE r.phase = "answered" /\ ~r.missed
  <2>1. CatchesUp(c, r.revision) /\ r.revision \in 0..Len(log)
    BY <1>1, <1>3, <1>4, <1>7 DEF BatchOK
  <2>2. QED
    BY <1>5, <1>7, <2>1
<1>8. QED
  BY <1>6, <1>7

\* A step that loses nothing, and after which the known revision and the new
\* batches are caught up with.
LEMMA CaughtKept ==
  ASSUME Known, Known', NEW c \in Clients, Caught(c), Steady(c), Refetches(c),
         CatchesUp(c, revision[c])',
         \A q \in DOMAIN requests'[c] :
           q.kind # "batch" \/ q.detached \/ q \in DOMAIN requests[c] \/ BatchOK(c, q)'
  PROVE  Caught(c)'
<1>1. SentOK(c)'
  BY SentKept DEF Caught
<1>2. ASSUME NEW q \in DOMAIN requests'[c] PROVE BatchOK(c, q)'
  <2>1. CASE q.kind # "batch" \/ q.detached
    BY <2>1 DEF BatchOK
  <2>2. CASE q \in DOMAIN requests[c]
    <3>1. BatchOK(c, q)
      BY <2>2 DEF Caught, RevisionOK
    <3>2. QED
      BY <2>2, <3>1, BatchKept
  <2>3. QED
    BY <2>1, <2>2
<1>3. QED
  BY <1>1, <1>2 DEF Caught, RevisionOK

\* The known revision stays the same.
LEMMA RevisionKept ==
  ASSUME Known, Known', NEW c \in Clients, Caught(c), Steady(c), Refetches(c),
         NEW n \in 0..Len(log), CatchesUp(c, n), revision'[c] = n
  PROVE  CatchesUp(c, revision[c])'
<1>1. /\ SyncInv /\ VersionsOK /\ HistoryOK /\ SyncInv' /\ VersionsOK' /\ HistoryOK'
      /\ ScreenOK(c)'
  BY DEF Known
<1>2. CatchesUp(c, n)'
  BY <1>1, CatchesUpKept
<1>3. QED
  BY <1>2 DEF CatchesUp, Covers, OwnSince

\* A refetch in flight catches up with any revision.
LEMMA RefetchCatchesUp ==
  ASSUME NEW c \in Clients, NEW s \in DOMAIN requests'[c],
         s.kind = "refresh", s.phase = "sent"
  PROVE  CatchesUp(c, revision[c])'
BY DEF CatchesUp

\* The revision a client knows is one of the log.
LEMMA RevisionRange ==
  ASSUME Known, NEW c \in Clients
  PROVE  /\ revision[c] \in 0..Len(log) /\ Len(log) \in Nat
         /\ \A r \in DOMAIN requests[c] : r.revision \in 0..Len(log)
BY DEF Known, SyncInv, ClientOK, RequestOK, Request, LogOK

----------------------------------------------------------------------------
(* Action by action.                                                       *)

\* The presence socket is back.
LEMMA AskCaught ==
  ASSUME Known, Known', NEW c \in Clients, Caught(c), Mounted(c),
         Open(c) \/ Reconnect(c)
  PROVE  Caught(c)'
<1> DEFINE s == NewRequest("catchUp", EmptyScene, revision[c])
<1>1. SyncInv /\ VersionsOK
  BY DEF Known
<1>2. /\ UNCHANGED log /\ SameScreen(c) /\ revision'[c] = revision[c]
      /\ requests'[c] = BagAdd(requests[c], s)
  BY <1>1, AskEffect DEF Calm, Mounted
<1>3. s.kind = "catchUp"
  BY DEF NewRequest
<1> HIDE DEF s
<1>4. DOMAIN requests'[c] = DOMAIN requests[c] \cup {s}
  BY <1>2, AddDomain
<1>5. LogSteady
  BY <1>2 DEF LogSteady
<1>6. Steady(c)
  BY <1>1, <1>2, <1>4, <1>5, SteadyIdle
<1>7. Refetches(c)
  BY <1>4 DEF Refetches
<1>8. CatchesUp(c, revision[c]) /\ revision[c] \in 0..Len(log)
  BY RevisionRange DEF Caught, RevisionOK
<1>9. CatchesUp(c, revision[c])'
  BY <1>2, <1>6, <1>7, <1>8, RevisionKept
<1>10. QED
  BY <1>3, <1>4, <1>6, <1>7, <1>9, CaughtKept

\* The user edits an element.
LEMMA EditCaught ==
  ASSUME Known, Known', NEW c \in Clients, Caught(c), NEW e \in Elements,
         NEW n \in Nonces, NEW x \in BOOLEAN, Edit(c, e, n, x)
  PROVE  Caught(c)'
<1> DEFINE s == Drawn(c, e, n, x)
           next == [canvas[c] EXCEPT ![e] = s]
<1>1. SyncInv /\ VersionsOK /\ ScreenOK(c)
  BY DEF Known
<1>2. /\ UNCHANGED log /\ n \notin drawn /\ (x => Live(canvas[c][e]))
      /\ OnChange(c, next) /\ requests'[c] = requests[c] /\ revision'[c] = revision[c]
  BY <1>1, EditEffect
<1>3. /\ s \in Stamp /\ Present(s) /\ s.isDeleted = x
      /\ \A t \in Versions(e) : ~SameVersion(s, t)
      /\ next \in Scenes /\ next[e] = s
      /\ \A f \in Elements \ {e} : next[f] = canvas[c][f]
      /\ NextOK(c, next)
  <2>1. n \notin drawn
    BY <1>2
  <2>2. QED
    BY <1>1, <2>1, DrawnFacts
<1> HIDE DEF s, next
<1>4. pending'[c][e] = next[e] /\ previous'[c][e] = next[e]
  <2>1. /\ \/ pending'[c][e] = next[e] /\ previous'[c][e] = next[e]
           \/ Live(previous[c][e]) \/ Live(next[e]) => next[e] = previous[c][e]
    BY <1>1, <1>2, <1>3, Painted
  <2>2. previous[c][e] \in Versions(e)
    BY <1>1, VersionFacts DEF SyncInv
  <2>3. next[e] # previous[c][e]
    BY <1>3, <2>2 DEF SameVersion
  <2>4. Live(previous[c][e]) \/ Live(next[e])
    <3>1. CASE x
      <4>1. Live(canvas[c][e])
        BY <1>2, <3>1
      <4>2. QED
        BY <1>1, <4>1 DEF ScreenOK
    <3>2. CASE ~x
      BY <1>3, <3>2 DEF Live
    <3>3. QED
      BY <3>1, <3>2
  <2>5. QED
    BY <2>1, <2>3, <2>4
<1>5. \A f \in Elements :
           \/ next[f] \in {canvas[c][f], previous[c][f]}
           \/ Present(next[f]) => Stored(f, next[f])
           \/ pending'[c][f] = next[f] /\ previous'[c][f] = next[f]
  BY <1>3, <1>4
<1>6. Steady(c)
  <2>1. /\ UNCHANGED log /\ OnChange(c, next) /\ next \in Scenes /\ NextOK(c, next)
        /\ DOMAIN requests'[c] \subseteq DOMAIN requests[c]
        /\ \A q \in DOMAIN requests[c] : q.kind = "batch" => q \in DOMAIN requests'[c]
    BY <1>2, <1>3
  <2>2. QED
    BY <1>1, <1>5, <2>1, SteadyChange
<1>7. Refetches(c)
  BY <1>2 DEF Refetches
<1>8. CatchesUp(c, revision[c]) /\ revision[c] \in 0..Len(log)
  BY RevisionRange DEF Caught, RevisionOK
<1>9. CatchesUp(c, revision[c])'
  BY <1>2, <1>6, <1>7, <1>8, RevisionKept
<1>10. QED
  BY <1>2, <1>6, <1>7, <1>9, CaughtKept

\* The queue is flushed into a batch whose base is the known revision.
LEMMA FlushCaught ==
  ASSUME Known, Known', NEW c \in Clients, Caught(c), Flush(c)
  PROVE  Caught(c)'
<1> DEFINE s == NewRequest("batch", pending[c], revision[c])
<1>1. SyncInv /\ VersionsOK
  BY DEF Known
<1>2. /\ UNCHANGED log /\ canvas'[c] = canvas[c] /\ previous'[c] = previous[c]
      /\ revision'[c] = revision[c] /\ requests'[c] = BagAdd(requests[c], s)
  BY <1>1, FlushEffect DEF Calm
<1>3. /\ s.kind = "batch" /\ s.phase = "sent" /\ ~s.detached
      /\ s.deltas = pending[c] /\ s.base = revision[c]
  BY DEF NewRequest
<1> HIDE DEF s
<1>4. DOMAIN requests'[c] = DOMAIN requests[c] \cup {s}
  BY <1>2, AddDomain
<1>5. LogSteady
  BY <1>2 DEF LogSteady
<1>6. Steady(c)
  <2>1. ASSUME NEW e \in Elements, NEW t, OnItsWay(c, e, t) PROVE OnItsWay(c, e, t)'
    <3>1. pending[c][e] = t => OnItsWay(c, e, t)'
      BY <1>3, <1>4 DEF OnItsWay
    <3>2. QED
      BY <1>4, <2>1, <3>1, WayKept
  <2>2. QED
    BY <1>1, <1>2, <1>5, <2>1, SteadySame
<1>7. Refetches(c)
  BY <1>4 DEF Refetches
<1>8. CatchesUp(c, revision[c]) /\ revision[c] \in 0..Len(log) /\ Len(log) \in Nat
  BY RevisionRange DEF Caught, RevisionOK
<1>9. CatchesUp(c, revision[c])'
  BY <1>2, <1>6, <1>7, <1>8, RevisionKept
<1>10. ASSUME NEW q \in DOMAIN requests'[c], q \notin DOMAIN requests[c]
       PROVE  BatchOK(c, q)'
  <2>1. q.phase = "sent" /\ q.base = revision[c] /\ q.base <= Len(log')
    BY <1>2, <1>3, <1>4, <1>8, <1>10
  <2>2. CatchesUp(c, q.base)'
    BY <1>2, <1>9, <2>1 DEF CatchesUp, Covers, OwnSince
  <2>3. QED
    BY <2>1, <2>2 DEF BatchOK
<1>11. QED
  BY <1>6, <1>7, <1>9, <1>10, CaughtKept
\* A reply: the revision of a batch's reply was caught up with, and any other
\* revision a reply brings comes with a refetch.
LEMMA ReplyCaught ==
  ASSUME Known, Known', NEW c \in Clients, Caught(c), Writing(c), Writing(c)',
         NEW r \in DOMAIN requests[c],
         \/ BatchAcked(c, r) \/ BatchForbidden(c, r) \/ CatchUpDone(c, r)
         \/ BootstrapFailed(c, r) \/ CatchUpFailed(c, r) \/ DetachedLost(c, r)
  PROVE  Caught(c)'
<1> DEFINE B == BagRemove(requests[c], r)
           s == NewRequest("refresh", EmptyScene, 0)
<1>1. SyncInv /\ VersionsOK /\ PageOK(c)
  BY DEF Known
<1>2. /\ UNCHANGED log /\ SameScreen(c)
      /\ \/ /\ requests'[c] = B
            /\ revision'[c] = revision[c]
            /\ \/ failures' = failures + 1
               \/ r.phase = "forbidden"
               \/ r.kind = "catchUp"
               \/ r.detached
         \/ /\ requests'[c] = B
            /\ revision'[c] = r.revision
            /\ r.kind = "batch" /\ r.phase = "answered" /\ ~r.missed /\ ~r.detached
         \/ /\ requests'[c] = BagAdd(B, s)
            /\ revision'[c] = r.revision
            /\ r.kind \in {"batch", "catchUp"} /\ r.phase = "answered" /\ ~r.detached
  BY <1>1, ReplyEffect
<1>3. s.kind = "refresh" /\ s.phase = "sent"
  BY DEF NewRequest
<1>4. DOMAIN B \subseteq DOMAIN requests[c] /\ DOMAIN requests[c] \ {r} \subseteq DOMAIN B
  BY RemoveDomain
<1> HIDE DEF B, s
<1>5. DOMAIN BagAdd(B, s) = DOMAIN B \cup {s}
  BY AddDomain
<1>6. failures' # failures + 1
  BY DEF Writing
<1>7. r.phase # "forbidden"
  BY <1>1 DEF SyncInv, ClientOK, RequestOK, Writing
<1>8. /\ r.kind # "refresh"
      /\ ~(~r.detached /\ r.kind = "batch" /\ r.phase = "sent")
  BY <1>1, <1>2, <1>6, <1>7 DEF PageOK
<1>9. /\ \A q \in DOMAIN requests[c] : q # r => q \in DOMAIN requests'[c]
      /\ \A q \in DOMAIN requests'[c] : q \in DOMAIN requests[c] \/ q.kind = "refresh"
  BY <1>2, <1>3, <1>4, <1>5
<1>10. LogSteady
  BY <1>2 DEF LogSteady
<1>11. Steady(c)
  BY <1>1, <1>2, <1>8, <1>9, <1>10, SteadyIdle
<1>12. Refetches(c)
  BY <1>8, <1>9 DEF Refetches
<1>13. CatchesUp(c, revision[c])'
  <2>1. CASE revision'[c] = revision[c]
    <3>1. CatchesUp(c, revision[c]) /\ revision[c] \in 0..Len(log)
      BY RevisionRange DEF Caught, RevisionOK
    <3>2. QED
      BY <1>11, <1>12, <2>1, <3>1, RevisionKept
  <2>2. CASE /\ revision'[c] = r.revision
             /\ r.kind = "batch" /\ r.phase = "answered" /\ ~r.missed /\ ~r.detached
    <3>1. CatchesUp(c, r.revision)
      BY <2>2 DEF Caught, RevisionOK, BatchOK
    <3>2. r.revision \in 0..Len(log)
      BY RevisionRange
    <3>3. QED
      BY <1>11, <1>12, <2>2, <3>1, <3>2, RevisionKept
  <2>3. CASE requests'[c] = BagAdd(B, s)
    <3>1. s \in DOMAIN requests'[c]
      BY <1>5, <2>3
    <3>2. QED
      BY <1>3, <3>1, RefetchCatchesUp
  <2>4. QED
    BY <1>2, <2>1, <2>2, <2>3
<1>14. QED
  BY <1>9, <1>11, <1>12, <1>13, CaughtKept

\* A refetched scene that was painted is covered.
LEMMA RefreshedCovers ==
  ASSUME Known, Known', NEW c \in Clients, NEW r \in DOMAIN requests[c], Refreshed(c, r)
  PROVE  Covers(c, r.revision)'
<1> DEFINE n == r.revision
           next == MergeScene(previous[c], SceneAt(log, n))
<1>1. SyncInv /\ VersionsOK /\ n \in 0..Len(log)
  BY RevisionRange DEF Known
<1>2. UNCHANGED log /\ OnChange(c, next)
  BY <1>1, RefreshedEffect DEF Calm
<1>3. /\ next \in Scenes /\ NextOK(c, next)
      /\ \A e \in Elements :
           /\ next[e] \in {previous[c][e], SceneAt(log, n)[e]}
           /\ ~RemoteWins(next[e], SceneAt(log, n)[e])
  BY <1>1, MergedFacts
<1> HIDE DEF next, n
<1>4. \A e \in Elements :
        /\ canvas'[c][e] = next[e]
        /\ \/ previous'[c][e] = next[e]
           \/ /\ previous'[c][e] \in {previous[c][e], next[e]}
              /\ Live(previous[c][e]) \/ Live(next[e]) => next[e] = previous[c][e]
  BY <1>1, <1>2, <1>3, Painted
<1>5. ASSUME NEW e \in Elements
      PROVE  /\ Live(SceneAt(log, n)[e]) => ~RemoteWins(previous'[c][e], SceneAt(log, n)[e])
             /\ ~RemoteWins(canvas'[c][e], SceneAt(log, n)[e])
  BY <1>3, <1>4
<1>6. Covers(c, n)'
  BY <1>2, <1>5 DEF Covers
<1>7. QED
  BY <1>6 DEF n

\* A refetched scene is painted.
LEMMA RefreshedCaught ==
  ASSUME Known, Known', NEW c \in Clients, Caught(c),
         NEW r \in DOMAIN requests[c], Refreshed(c, r)
  PROVE  Caught(c)'
<1> DEFINE next == MergeScene(previous[c], SceneAt(log, r.revision))
<1>1. SyncInv /\ VersionsOK /\ HistoryOK /\ ScreenOK(c)
      /\ r.revision \in 0..Len(log) /\ Len(log) \in Nat
  BY RevisionRange DEF Known
<1>2. /\ UNCHANGED log /\ OnChange(c, next) /\ revision'[c] = r.revision
      /\ requests'[c] = BagRemove(requests[c], r)
      /\ r.kind = "refresh" /\ r.phase = "answered"
  BY <1>1, RefreshedEffect DEF Calm
<1>3. /\ next \in Scenes /\ NextOK(c, next)
      /\ \A e \in Elements : next[e] \in {previous[c][e], SceneAt(log, r.revision)[e]}
  BY <1>1, MergedFacts
<1> HIDE DEF next
<1>4. /\ DOMAIN requests'[c] \subseteq DOMAIN requests[c]
      /\ \A q \in DOMAIN requests[c] : q # r => q \in DOMAIN requests'[c]
  BY <1>2, RemoveDomain
<1>5. ASSUME NEW e \in Elements
      PROVE  Present(SceneAt(log, r.revision)[e]) => Stored(e, SceneAt(log, r.revision)[e])
  <2>1. CASE r.revision = 0
    BY <2>1, EmptyFacts DEF SceneAt
  <2>2. CASE r.revision # 0
    <3>1. r.revision \in DOMAIN log
      BY <1>1, <2>2 DEF SyncInv, LogOK
    <3>2. QED
      BY <1>1, <3>1 DEF HistoryOK
  <2>3. QED
    BY <2>1, <2>2
<1>6. \A e \in Elements :
           \/ next[e] \in {canvas[c][e], previous[c][e]}
           \/ Present(next[e]) => Stored(e, next[e])
           \/ pending'[c][e] = next[e] /\ previous'[c][e] = next[e]
  BY <1>3, <1>5
<1>7. \A q \in DOMAIN requests[c] : q.kind = "batch" => q \in DOMAIN requests'[c]
  BY <1>2, <1>4
<1>8. Steady(c)
  BY <1>1, <1>2, <1>3, <1>4, <1>6, <1>7, SteadyChange
<1>9. Covers(c, r.revision)'
  BY RefreshedCovers
<1>10. Refetches(c)
  BY <1>2, <1>4, <1>9 DEF Refetches, Covers
<1>11. CatchesUp(c, revision[c])'
  BY <1>2, <1>9 DEF CatchesUp, Covers
<1>12. QED
  BY <1>4, <1>8, <1>10, <1>11, CaughtKept
\* The server stores or answers a request.
LEMMA MoveCaught ==
  ASSUME Known, Known', NEW c \in Clients, Caught(c), Writing(c),
         NEW r \in DOMAIN requests[c], ServerAppend(c, r) \/ ServerAnswer(c, r)
  PROVE  Caught(c)'
<1> DEFINE B == BagRemove(requests[c], r)
<1>1. /\ SyncInv /\ VersionsOK /\ HistoryOK /\ ScreenOK(c)
      /\ SyncInv' /\ VersionsOK' /\ HistoryOK' /\ ScreenOK(c)'
      /\ Len(log) \in Nat
  BY RevisionRange DEF Known
<1>2. SameScreen(c) /\ revision'[c] = revision[c]
  BY <1>1, MoveEffect
<1>3. PICK s :
        /\ requests'[c] = BagAdd(B, s)
        /\ s.kind = r.kind /\ s.detached = r.detached /\ s.deltas = r.deltas
        /\ \/ /\ r.kind = "batch" /\ r.phase = "sent" /\ mayMutate[c]
              /\ log' = AppendOperation(log, r.deltas)
              /\ s.phase = "logged" /\ s.base = r.base
           \/ /\ r.kind = "batch" /\ r.phase = "sent" /\ ~mayMutate[c]
              /\ UNCHANGED log
              /\ s.phase = "forbidden"
           \/ /\ ~r.detached
              /\ r.phase = (IF r.kind = "batch" THEN "logged" ELSE "sent")
              /\ UNCHANGED log
              /\ s.phase = "answered" /\ s.revision = Len(log)
              /\ s.missed = MissedBy(r.kind, r.base, Len(log))
  BY <1>1, MoveEffect
<1>4. DOMAIN B \subseteq DOMAIN requests[c] /\ DOMAIN requests[c] \ {r} \subseteq DOMAIN B
  BY RemoveDomain
<1> HIDE DEF B
<1>5. DOMAIN requests'[c] = DOMAIN B \cup {s}
  <2>1. DOMAIN BagAdd(B, s) = DOMAIN B \cup {s}
    BY AddDomain
  <2>2. QED
    BY <1>3, <2>1
<1>6. /\ \A q \in DOMAIN requests[c] : q # r => q \in DOMAIN requests'[c]
      /\ \A q \in DOMAIN requests'[c] : q \in DOMAIN requests[c] \/ q = s
      /\ s \in DOMAIN requests'[c]
  BY <1>4, <1>5
<1>7. BatchOK(c, r) /\ CatchesUp(c, revision[c]) /\ revision[c] \in 0..Len(log)
  BY RevisionRange DEF Caught, RevisionOK
<1>8. CASE /\ r.kind = "batch" /\ r.phase = "sent"
           /\ log' = AppendOperation(log, r.deltas)
           /\ s.phase = "logged" /\ s.base = r.base
  <2>1. Grown(r.deltas)
    BY <1>1, <1>8, AppendGrows
  <2>2. LogSteady
    BY <2>1 DEF LogSteady
  <2>3. ASSUME NEW e \in Elements, NEW t, OnItsWay(c, e, t)
        PROVE  OnItsWay(c, e, t)' \/ \E d : Grown(d) /\ d[e] = t
    <3>1. CASE pending[c][e] = t
      BY <1>2, <3>1 DEF OnItsWay, SameScreen
    <3>2. ASSUME NEW q \in DOMAIN requests[c],
                 ~q.detached, q.kind = "batch", q.phase = "sent", q.deltas[e] = t
          PROVE  OnItsWay(c, e, t)' \/ \E d : Grown(d) /\ d[e] = t
      <4>1. CASE q = r
        BY <2>1, <3>2, <4>1
      <4>2. CASE q # r
        BY <1>6, <3>2, <4>2 DEF OnItsWay
      <4>3. QED
        BY <4>1, <4>2
    <3>3. QED
      BY <2>3, <3>1, <3>2 DEF OnItsWay
  <2>4. canvas'[c] = canvas[c] /\ previous'[c] = previous[c]
    BY <1>2 DEF SameScreen
  <2>5. Steady(c)
    BY <1>1, <2>2, <2>3, <2>4, SteadySame
  <2>6. Refetches(c)
    BY <1>6, <1>8 DEF Refetches
  <2>7. CatchesUp(c, revision[c])'
    BY <1>2, <1>7, <2>5, <2>6, RevisionKept
  <2>8. ASSUME NEW q \in DOMAIN requests'[c], q \notin DOMAIN requests[c], ~q.detached
        PROVE  BatchOK(c, q)'
    <3>1. /\ q.phase = "logged" /\ q.base = r.base /\ q.deltas = r.deltas
          /\ ~r.detached
      BY <1>3, <1>6, <1>8, <2>8
    <3>2. r.base <= Len(log) /\ CatchesUp(c, r.base) /\ r.base \in Nat
      BY <1>1, <1>7, <1>8, <3>1 DEF BatchOK, SyncInv, ClientOK, RequestOK, Request
    <3>3. PICK n \in 0..Len(log) : n = r.base
      BY <1>1, <3>2
    <3>4. CatchesUp(c, n)
      BY <3>2, <3>3
    <3>5. CatchesUp(c, n)'
      BY <1>1, <2>5, <2>6, <3>4, CatchesUpKept
    <3>6. CatchesUp(c, q.base)'
      BY <3>1, <3>3, <3>5 DEF CatchesUp, Covers, OwnSince
    <3>7. /\ Len(log) + 1 \in DOMAIN log' /\ Len(log) + 1 > n
          /\ log'[Len(log) + 1].deltas = q.deltas /\ n <= Len(log')
      BY <1>1, <2>1, <3>1 DEF Grown
    <3>8. QED
      BY <3>1, <3>3, <3>6, <3>7 DEF BatchOK
  <2>9. QED
    BY <2>5, <2>6, <2>7, <2>8, CaughtKept
<1>9. CASE /\ ~r.detached
           /\ r.phase = (IF r.kind = "batch" THEN "logged" ELSE "sent")
           /\ UNCHANGED log
           /\ s.phase = "answered" /\ s.revision = Len(log)
           /\ s.missed = MissedBy(r.kind, r.base, Len(log))
  <2>1. LogSteady
    BY <1>9 DEF LogSteady
  <2>2. \A q \in DOMAIN requests[c] :
           /\ ~q.detached /\ q.kind = "batch" /\ q.phase = "sent"
           => q \in DOMAIN requests'[c]
    BY <1>6, <1>9
  <2>3. Steady(c)
    BY <1>1, <1>2, <2>1, <2>2, SteadyIdle
  <2>4. Refetches(c)
    BY <1>3, <1>6, <1>9 DEF Refetches
  <2>5. CatchesUp(c, revision[c])'
    BY <1>2, <1>7, <2>3, <2>4, RevisionKept
  <2>6. ASSUME NEW q \in DOMAIN requests'[c], q \notin DOMAIN requests[c], q.kind = "batch"
        PROVE  BatchOK(c, q)'
    <3>1. q.phase = "answered" /\ q.revision = Len(log) /\ r.kind = "batch" /\ r.phase = "logged"
          /\ q.missed = MissedBy(r.kind, r.base, Len(log))
      BY <1>3, <1>6, <1>9, <2>6
    <3>2. CASE q.missed
      BY <3>1, <3>2 DEF BatchOK
    <3>3. CASE ~q.missed
      <4>1. CatchesUp(c, Len(log))
        BY <1>1, <1>7, <1>9, <3>1, <3>3, OwnBatch
      <4>2. PICK n \in 0..Len(log) : n = Len(log)
        BY <1>1
      <4>3. CatchesUp(c, n)
        BY <4>1, <4>2
      <4>4. CatchesUp(c, n)'
        BY <1>1, <2>3, <2>4, <4>3, CatchesUpKept
      <4>5. CatchesUp(c, q.revision)'
        BY <3>1, <4>2, <4>4 DEF CatchesUp, Covers, OwnSince
      <4>6. QED
        BY <3>1, <4>5 DEF BatchOK
    <3>4. QED
      BY <3>2, <3>3
  <2>7. QED
    BY <2>3, <2>4, <2>5, <2>6, CaughtKept
<1>10. QED
  BY <1>3, <1>8, <1>9 DEF Writing

\* The editor mounts with a stored scene.
LEMMA OpenedCaught ==
  ASSUME Known, Known', NEW c \in Clients, NEW r \in DOMAIN requests[c], Opened(c, r)
  PROVE  Caught(c)'
<1>1. /\ SyncInv /\ VersionsOK /\ HistoryOK /\ PageOK(c)
      /\ r.revision \in 0..Len(log) /\ Len(log) \in Nat
  BY RevisionRange DEF Known
<1>2. /\ UNCHANGED log /\ r.kind = "open"
      /\ canvas'[c] = SceneAt(log, r.revision)
      /\ previous'[c] = SceneAt(log, r.revision)
      /\ revision'[c] = r.revision
      /\ requests'[c] = BagRemove(requests[c], r)
  BY <1>1, OpenedEffect DEF Calm
<1>3. /\ DOMAIN requests'[c] \subseteq DOMAIN requests[c]
      /\ requests[c][r] = 1 => r \notin DOMAIN requests'[c]
  BY <1>2, RemoveCount
<1>4. \A q \in DOMAIN requests'[c] : q.detached
  BY <1>1, <1>2, <1>3 DEF PageOK, Mounted
<1>5. ASSUME NEW e \in Elements
      PROVE  /\ Present(SceneAt(log, r.revision)[e]) => Stored(e, SceneAt(log, r.revision)[e])
             /\ ~RemoteWins(SceneAt(log, r.revision)[e], SceneAt(log, r.revision)[e])
  <2>1. ~RemoteWins(SceneAt(log, r.revision)[e], SceneAt(log, r.revision)[e])
    <3>1. SceneAt(log, r.revision)[e] \in Stamp
      BY <1>1, SceneOrder
    <3>2. QED
      BY <3>1, Order
  <2>2. CASE r.revision = 0
    BY <2>1, <2>2, EmptyFacts DEF SceneAt
  <2>3. CASE r.revision # 0
    <3>1. r.revision \in DOMAIN log
      BY <1>1, <2>3 DEF SyncInv, LogOK
    <3>2. QED
      BY <1>1, <2>1, <3>1 DEF HistoryOK
  <2>4. QED
    BY <2>2, <2>3
<1>6. SentOK(c)'
  BY <1>2, <1>5 DEF SentOK, Stored
<1>7. CatchesUp(c, revision[c])'
  BY <1>2, <1>5 DEF CatchesUp, Covers
<1>8. \A q \in DOMAIN requests'[c] : BatchOK(c, q)'
  BY <1>4 DEF BatchOK
<1>9. QED
  BY <1>6, <1>7, <1>8 DEF Caught, RevisionOK
\* A client that takes no step.
LEMMA OtherCaught ==
  ASSUME Known, Known', LogSteady, NEW d \in Clients, Caught(d), SameScreen(d),
         revision'[d] = revision[d], requests'[d] = requests[d]
  PROVE  Caught(d)'
<1>1. SyncInv /\ VersionsOK
  BY DEF Known
<1>2. Steady(d)
  BY <1>1, SteadyIdle
<1>3. Refetches(d)
  BY DEF Refetches
<1>4. CatchesUp(d, revision[d]) /\ revision[d] \in 0..Len(log)
  BY RevisionRange DEF Caught, RevisionOK
<1>5. CatchesUp(d, revision[d])'
  BY <1>2, <1>3, <1>4, RevisionKept
<1>6. QED
  BY <1>2, <1>3, <1>5, CaughtKept

\* The log grows by one operation at most; failures are counted, and a role that
\* is lost stays lost.
LEMMA StepFacts ==
  ASSUME Known, [Next]_vars
  PROVE  /\ LogSteady
         /\ failures' \in {failures, failures + 1}
         /\ \A d \in Clients : mayMutate'[d] => mayMutate[d]
<1>1. SyncInv /\ VersionsOK
  BY DEF Known
<1>2. ASSUME NEW c \in Clients, NEW r \in DOMAIN requests[c], ServerAppend(c, r)
      PROVE  LogSteady /\ UNCHANGED <<failures, mayMutate>>
  <2>1. UNCHANGED log \/ (r.kind = "batch" /\ log' = AppendOperation(log, r.deltas))
    BY <1>2 DEF ServerAppend
  <2>2. UNCHANGED <<failures, mayMutate>>
    BY <1>2 DEF ServerAppend, bounds
  <2>3. CASE r.kind = "batch" /\ log' = AppendOperation(log, r.deltas)
    BY <1>1, <2>2, <2>3, AppendGrows DEF LogSteady
  <2>4. QED
    BY <2>1, <2>2, <2>3 DEF LogSteady
<1>3. ASSUME NEW c \in Clients, Revoke(c)
      PROVE  UNCHANGED <<log, failures>> /\ \A d \in Clients : mayMutate'[d] => mayMutate[d]
  BY <1>1, <1>3 DEF Revoke, SyncInv, Shape
<1>4. \/ UNCHANGED <<log, mayMutate>> /\ failures' \in {failures, failures + 1}
      \/ \E c \in Clients : Revoke(c)
      \/ \E c \in Clients : \E r \in DOMAIN requests[c] : ServerAppend(c, r)
  <2>1. CASE UNCHANGED vars
    BY <2>1 DEF vars, bounds
  <2>2. ASSUME NEW c \in Clients,
               \/ Open(c) \/ Reconnect(c) \/ Flush(c) \/ Navigate(c) \/ CloseTab(c)
               \/ \E e \in Elements, n \in Nonces, x \in BOOLEAN : Edit(c, e, n, x)
        PROVE  UNCHANGED <<log, mayMutate, failures>>
    BY <2>2 DEF Open, Reconnect, Flush, Navigate, CloseTab, Discard, Edit, bounds
  <2>3. ASSUME NEW c \in Clients, NEW r \in DOMAIN requests[c],
               \/ Opened(c, r) \/ BatchAcked(c, r) \/ BatchForbidden(c, r)
               \/ CatchUpDone(c, r) \/ CatchUpFailed(c, r) \/ DetachedLost(c, r)
               \/ Refreshed(c, r) \/ ServerAnswer(c, r)
        PROVE  UNCHANGED <<log, mayMutate, failures>>
    BY <2>3 DEF Opened, BatchAcked, BatchForbidden, CatchUpDone, CatchUpFailed,
         DetachedLost, Refreshed, ServerAnswer, bounds
  <2>4. ASSUME NEW c \in Clients, NEW r \in DOMAIN requests[c],
               BootstrapFailed(c, r) \/ BatchFailed(c, r)
        PROVE  UNCHANGED <<log, mayMutate>> /\ failures' = failures + 1
    BY <2>4 DEF BootstrapFailed, BatchFailed, Failing
  <2>5. QED
    BY <2>1, <2>2, <2>3, <2>4, StepCases
<1>5. QED
  BY <1>2, <1>3, <1>4 DEF LogSteady

----------------------------------------------------------------------------
(* The invariant is inductive, and implies convergence.                    *)

\* What holds whether or not a request failed goes on to hold.
LEMMA KnownInv == Known /\ [Next]_vars => Known'
<1> SUFFICES ASSUME Known, [Next]_vars PROVE Known'
  OBVIOUS
<1>1. /\ SyncInv /\ VersionsOK /\ HistoryOK /\ failures \in Nat
      /\ \A d \in Clients : PageOK(d) /\ ScreenOK(d)
      /\ \A d \in Clients : PageOK(d)
  BY DEF Known
<1>2. SyncInv'
  BY <1>1, StepInv
<1>3. VersionsOK' /\ HistoryOK'
  BY <1>1, VersionsInv, HistoryInv
<1>4. failures' \in Nat
  BY <1>1, StepFacts
<1>5. \A d \in Clients : PageOK(d)' /\ ScreenOK(d)'
  BY <1>1, PageInv, ScreenInv
<1>6. QED
  BY <1>2, <1>3, <1>4, <1>5 DEF Known

\* As long as no request failed, a page goes on having caught up.
LEMMA CaughtInv ==
  ASSUME Known, Known', [Next]_vars, \A d \in Clients : Writing(d) => Caught(d),
         NEW d \in Clients, Writing(d)'
  PROVE  Caught(d)'
<1>1. /\ LogSteady /\ SyncInv
      /\ failures \in Nat /\ failures' \in {failures, failures + 1}
      /\ mayMutate'[d] => mayMutate[d]
  BY StepFacts DEF Known
<1>2. page'[d] = page[d] => Writing(d)
  BY <1>1 DEF Writing
<1>3. ASSUME NEW c \in Clients, d # c, Others(c) PROVE Caught(d)'
  <2>1. /\ SameScreen(d) /\ page'[d] = page[d]
        /\ revision'[d] = revision[d] /\ requests'[d] = requests[d]
    BY <1>3 DEF Others, SameScreen
  <2>2. Caught(d)
    BY <1>2, <2>1
  <2>3. QED
    BY <1>1, <2>1, <2>2, OtherCaught
<1>4. ASSUME UNCHANGED <<page, canvas, previous, pending, revision, requests>>
      PROVE  Caught(d)'
  <2>1. SameScreen(d) /\ Caught(d)
    BY <1>2, <1>4 DEF SameScreen
  <2>2. QED
    BY <1>1, <1>4, <2>1, OtherCaught
<1>5. CASE UNCHANGED vars
  BY <1>4, <1>5 DEF vars, pageVars
<1>6. ASSUME NEW c \in Clients, Revoke(c) PROVE Caught(d)'
  BY <1>4, <1>6 DEF Revoke, pageVars
<1>7. ASSUME NEW c \in Clients, Open(c) \/ Reconnect(c) PROVE Caught(d)'
  <2>1. Others(c)
    BY <1>1, <1>7, AskEffect
  <2>2. CASE c = d
    <3>1. Mounted(c) /\ page'[c] = page[c]
      BY <1>1, <1>7, <2>2, AskEffect DEF Writing
    <3>2. Caught(c)
      BY <1>2, <2>2, <3>1
    <3>3. QED
      BY <1>7, <2>2, <3>1, <3>2, AskCaught
  <2>3. QED
    BY <1>3, <2>1, <2>2
<1>8. ASSUME NEW c \in Clients, NEW r \in DOMAIN requests[c], Opened(c, r) PROVE Caught(d)'
  <2>1. Others(c)
    BY <1>1, <1>8, OpenedEffect
  <2>2. QED
    BY <1>3, <1>8, <2>1, OpenedCaught
<1>9. ASSUME NEW c \in Clients, NEW e \in Elements, NEW n \in Nonces, NEW x \in BOOLEAN,
             Edit(c, e, n, x)
      PROVE  Caught(d)'
  <2>1. Others(c) /\ page'[c] = page[c]
    BY <1>1, <1>9, EditEffect
  <2>2. CASE c = d
    BY <1>2, <1>9, <2>1, <2>2, EditCaught
  <2>3. QED
    BY <1>3, <2>1, <2>2
<1>10. ASSUME NEW c \in Clients, Flush(c) PROVE Caught(d)'
  <2>1. Others(c) /\ page'[c] = page[c]
    BY <1>1, <1>10, FlushEffect
  <2>2. CASE c = d
    BY <1>2, <1>10, <2>1, <2>2, FlushCaught
  <2>3. QED
    BY <1>3, <2>1, <2>2
<1>11. ASSUME NEW c \in Clients, Navigate(c) \/ CloseTab(c) PROVE Caught(d)'
  <2>1. Others(c) /\ page'[c] = "closed"
    BY <1>1, <1>11, LeaveEffect
  <2>2. c # d
    BY <2>1 DEF Writing
  <2>3. QED
    BY <1>3, <2>1, <2>2
<1>12. ASSUME NEW c \in Clients, NEW r \in DOMAIN requests[c],
              \/ BatchAcked(c, r) \/ BatchForbidden(c, r) \/ CatchUpDone(c, r)
              \/ BootstrapFailed(c, r) \/ CatchUpFailed(c, r) \/ DetachedLost(c, r)
       PROVE  Caught(d)'
  <2>1. Others(c) /\ page'[c] = page[c]
    BY <1>1, <1>12, ReplyEffect
  <2>2. CASE c = d
    <3>1. Writing(c) /\ Writing(c)' /\ Caught(c)
      BY <1>2, <2>1, <2>2
    <3>2. QED
      BY <1>12, <2>2, <3>1, ReplyCaught
  <2>3. QED
    BY <1>3, <2>1, <2>2
<1>13. ASSUME NEW c \in Clients, NEW r \in DOMAIN requests[c], BatchFailed(c, r)
       PROVE  Caught(d)'
  <2>1. failures' = failures + 1
    BY <1>1, <1>13, FailedEffect
  <2>2. QED
    BY <1>1, <2>1 DEF Writing
<1>14. ASSUME NEW c \in Clients, NEW r \in DOMAIN requests[c], Refreshed(c, r)
       PROVE  Caught(d)'
  <2>1. Others(c) /\ page'[c] = page[c]
    BY <1>1, <1>14, RefreshedEffect
  <2>2. CASE c = d
    BY <1>2, <1>14, <2>1, <2>2, RefreshedCaught
  <2>3. QED
    BY <1>3, <2>1, <2>2
<1>15. ASSUME NEW c \in Clients, NEW r \in DOMAIN requests[c],
              ServerAppend(c, r) \/ ServerAnswer(c, r)
       PROVE  Caught(d)'
  <2>1. Others(c) /\ page'[c] = page[c]
    BY <1>1, <1>15, MoveEffect
  <2>2. CASE c = d
    <3>1. Writing(c) /\ Caught(c)
      BY <1>2, <2>1, <2>2
    <3>2. QED
      BY <1>15, <2>2, <3>1, MoveCaught
  <2>3. QED
    BY <1>3, <2>1, <2>2
<1>16. QED
  BY <1>5, <1>6, <1>7, <1>8, <1>9, <1>10, <1>11, <1>12, <1>13, <1>14, <1>15, StepCases
\* With nothing queued or in flight, what the page holds is stored.
LEMMA QuietStored ==
  ASSUME Known, NEW c \in Clients, SentOK(c), Quiet(c), NEW e \in Elements,
         NEW s \in {canvas[c][e], previous[c][e]}, Present(s)
  PROVE  Stored(e, s) /\ ~OnItsWay(c, e, s)
<1>1. DOMAIN requests[c] = {} /\ ~Present(pending[c][e])
  BY EmptyDomain DEF Quiet, HasDeltas
<1>2. ~OnItsWay(c, e, s)
  BY <1>1 DEF OnItsWay
<1>3. QED
  BY <1>2 DEF SentOK

\* A page that holds nothing back and covers the head of the log shows what is
\* stored.
LEMMA HeadShown ==
  ASSUME Known, NEW c \in Clients, SentOK(c), Quiet(c), Covers(c, Len(log)),
         NEW e \in Elements
  PROVE  \/ DeleteOvertook(e)
         \/ SameToTheEye(canvas[c][e], ServerScene[e])
         \/ Live(canvas[c][e]) /\ StoredUnderDeletion(e, canvas[c][e])
<1> DEFINE h == Len(log)
           S == SceneAt(log, h)[e]
           s == canvas[c][e]
           p == previous[c][e]
<1>1. /\ SyncInv /\ VersionsOK /\ HistoryOK /\ ScreenOK(c) /\ LogOK /\ h \in Nat
      /\ DOMAIN log = 1..h
  BY DEF Known, SyncInv, LogOK
<1>2. S \in Stamp /\ s \in Stamp /\ p \in Stamp /\ S \in Versions(e) /\ s \in Versions(e)
      /\ p \in Versions(e)
  <2>1. h \in 0..h
    BY <1>1
  <2>2. S \in Versions(e) /\ s \in Versions(e) /\ p \in Versions(e)
    BY <1>1, <2>1, VersionFacts
  <2>3. QED
    BY <1>1, <2>2 DEF VersionsOK
<1>3. \A t, u \in Versions(e) : SameVersion(t, u) => t = u
  BY <1>1 DEF VersionsOK
<1>4. ASSUME NEW t \in {s, p}, Present(t)
      PROVE  ~RemoteWins(S, t) \/ DeleteOvertook(e)
  <2>1. PICK k \in DOMAIN log : log[k].deltas[e] = t
    BY <1>4, QuietStored DEF Stored
  <2>2. \/ ~RemoteWins(SceneAt(log, k)[e], t)
        \/ t.isDeleted /\ ~Present(SceneAt(log, k - 1)[e])
    BY <1>1, <2>1 DEF HistoryOK
  <2>3. CASE t.isDeleted /\ ~Present(SceneAt(log, k - 1)[e])
    BY <1>4, <2>1, <2>3 DEF DeleteOvertook
  <2>4. CASE ~RemoteWins(SceneAt(log, k)[e], t)
    <3>1. k \in 0..h /\ h \in 0..h /\ k <= h
      BY <1>1
    <3>2. ~RemoteWins(S, SceneAt(log, k)[e]) /\ SceneAt(log, k)[e] \in Stamp
      BY <1>1, <3>1, SceneOrder
    <3>3. t \in Stamp
      BY <1>2, <1>4
    <3> HIDE DEF S
    <3>4. ~RemoteWins(S, t)
      BY <1>2, <2>4, <3>2, <3>3, Order
    <3>5. QED
      BY <3>4
  <2>5. QED
    BY <2>2, <2>3, <2>4
<1>5. /\ Live(S) => ~RemoteWins(p, S)
      /\ ~Live(S) /\ Live(s) /\ RemoteWins(s, S) => StoredUnderDeletion(e, s)
  <2>1. ~ \E m \in (h + 1)..h : TRUE
    BY <1>1
  <2>2. Live(s) => ~OnItsWay(c, e, s)
    BY QuietStored DEF Live
  <2>3. QED
    BY <2>1, <2>2 DEF Covers
<1>6. Live(s) \/ Live(p) => s = p
  BY <1>1 DEF ScreenOK
<1>7. ServerScene[e] = S
  BY DEF ServerScene
<1> HIDE DEF S, s, p
<1>8. SUFFICES ASSUME ~DeleteOvertook(e)
      PROVE  SameToTheEye(s, S) \/ (Live(s) /\ StoredUnderDeletion(e, s))
  BY <1>7, <1>8 DEF s
<1>9. CASE Live(s)
  <2>1. s = p /\ ~RemoteWins(S, s)
    BY <1>4, <1>6, <1>8, <1>9 DEF Live
  <2>2. CASE ~RemoteWins(s, S)
    <3>1. s = S
      BY <1>2, <1>3, <2>1, <2>2, Order
    <3>2. QED
      BY <1>9, <3>1 DEF SameToTheEye
  <2>3. CASE RemoteWins(s, S)
    BY <1>5, <1>9, <2>1, <2>3
  <2>4. QED
    BY <2>2, <2>3
<1>10. CASE ~Live(s)
  <2>1. ASSUME Live(S) PROVE FALSE
    <3>1. ~RemoteWins(p, S) /\ Present(p)
      BY <1>2, <1>5, <2>1, Order DEF Live
    <3>2. ~RemoteWins(S, p)
      BY <1>4, <1>8, <3>1
    <3>3. p = S
      BY <1>2, <1>3, <3>1, <3>2, Order
    <3>4. QED
      BY <1>6, <1>10, <2>1, <3>3
  <2>2. QED
    BY <1>10, <2>1 DEF SameToTheEye
<1>11. QED
  BY <1>9, <1>10

\* The invariant implies convergence.
LEMMA InvConverges == ConvergeInv => Converges
<1> SUFFICES ASSUME ConvergeInv PROVE Converges
  OBVIOUS
<1>1. SUFFICES ASSUME failures = 0, NEW c \in Clients,
                      page[c] = "open", mayMutate[c], Quiet(c), revision[c] = Len(log),
                      NEW e \in Elements
      PROVE  \/ DeleteOvertook(e)
             \/ SameToTheEye(canvas[c][e], ServerScene[e])
             \/ Live(canvas[c][e]) /\ StoredUnderDeletion(e, canvas[c][e])
  BY DEF Converges
<1>2. Known /\ Caught(c)
  BY <1>1 DEF ConvergeInv, Writing
<1>3. DOMAIN requests[c] = {}
  BY <1>1, EmptyDomain DEF Quiet
<1>4. SentOK(c) /\ Covers(c, Len(log))
  <2>1. CatchesUp(c, Len(log)) /\ SentOK(c)
    BY <1>1, <1>2 DEF Caught, RevisionOK
  <2>2. QED
    BY <1>3, <2>1 DEF CatchesUp
<1>5. QED
  BY <1>1, <1>2, <1>4, HeadShown

\* It holds at first.
LEMMA InitConverge == Init => ConvergeInv
<1> SUFFICES ASSUME Init PROVE ConvergeInv
  OBVIOUS
<1> DEFINE full == [e \in Elements |->
                      [version |-> 1, versionNonce |-> 0, isDeleted |-> FALSE]]
<1>1. SyncInv
  BY InitInv
<1>2. \A c \in Clients :
        /\ canvas[c] = EmptyScene /\ previous[c] = EmptyScene /\ pending[c] = EmptyScene
        /\ DOMAIN requests[c] = {} /\ page[c] = "closed"
  BY EmptyDomain DEF Init
<1>3. failures = 0 /\ drawn = {}
  BY DEF Init
<1>4. ~RemoteWins(Absent, Absent)
  BY EmptyFacts, Order
<1>5. \A c \in Clients : PageOK(c) /\ ScreenOK(c) /\ ~Writing(c)
  <2>1. SUFFICES ASSUME NEW c \in Clients PROVE PageOK(c) /\ ScreenOK(c) /\ ~Writing(c)
    OBVIOUS
  <2>2. PageOK(c)
    BY <1>2 DEF PageOK
  <2>3. ScreenOK(c)
    BY <1>2, <1>4, EmptyFacts DEF ScreenOK
  <2>4. QED
    BY <1>2, <2>2, <2>3 DEF Writing
<1>6. /\ full \in Scenes
      /\ \A e \in Elements : /\ Present(full[e]) /\ full[e].version = 1
                             /\ full[e].versionNonce = 0
                             /\ Live(full[e]) /\ full[e] \in Stamp
  BY DEF Scenes, Stamp, Present, Live
<1>7. log = << >> \/ log = AppendOperation(<< >>, full)
  BY DEF Init, InitialLogs
<1> HIDE DEF full
<1>8. CASE log = << >>
  <2>1. \A e \in Elements : \A s \in Versions(e) : s = Absent
    <3>1. SUFFICES ASSUME NEW e \in Elements, NEW s \in Versions(e) PROVE s = Absent
      OBVIOUS
    <3>2. DOMAIN log = {}
      BY <1>8
    <3>3. QED
      BY <1>2, <3>2, EmptyFacts, VersionCases
  <2>2. VersionsOK
    <3>1. Absent.versionNonce = 0
      BY DEF Absent
    <3>2. QED
      BY <2>1, <3>1, EmptyFacts DEF VersionsOK
  <2>3. HistoryOK
    <3>1. Len(log) = 0 /\ DOMAIN log = {}
      BY <1>8
    <3>2. \A j \in 0..0 : j = 0
      OBVIOUS
    <3>3. \A e \in Elements : SceneAt(log, 0)[e] = Absent
      BY EmptyFacts DEF SceneAt
    <3>4. QED
      BY <1>4, <3>1, <3>2, <3>3 DEF HistoryOK
  <2>4. QED
    BY <1>1, <1>3, <1>5, <2>2, <2>3 DEF ConvergeInv, Known
<1>9. CASE log = AppendOperation(<< >>, full)
  <2> DEFINE op == [deltas |-> full, scene |-> ReconcileOperation(EmptyScene, full)]
  <2>1. log = Append(<< >>, op)
    BY <1>9 DEF AppendOperation, SceneAt
  <2>2. op.deltas = full /\ op.scene = ReconcileOperation(EmptyScene, full)
    OBVIOUS
  <2> HIDE DEF op
  <2>3. DOMAIN log = 1..1 /\ log[1] = op /\ Len(log) = 1
    BY <2>1
  <2>4. ASSUME NEW e \in Elements
        PROVE  /\ SceneAt(log, 0)[e] = Absent
               /\ SceneAt(log, 1)[e] = full[e]
               /\ log[1].scene[e] = full[e] /\ log[1].deltas[e] = full[e]
    <3>1. EmptyScene[e] = Absent /\ EmptyScene \in Scenes /\ full[e] # Absent
      BY <1>6, EmptyFacts
    <3>2. ReconcileOperation(EmptyScene, full)[e] = full[e]
      <4>1. /\ ~Present(EmptyScene[e]) /\ EmptyScene[e] = Absent
            /\ ~Present(full[e]) => full[e] = Absent
        BY <1>6, <3>1, EmptyFacts
      <4>2. LET t == ReconcileOperation(EmptyScene, full)[e]
            IN  /\ t \in {EmptyScene[e], full[e]}
                /\ ~RemoteWins(t, full[e]) \/ (full[e].isDeleted /\ ~Present(EmptyScene[e]))
        BY <1>6, <3>1, <4>1, ReconcileOrder
      <4>3. RemoteWins(Absent, full[e]) /\ ~full[e].isDeleted
        BY <1>6 DEF RemoteWins, Absent, Live
      <4>4. QED
        BY <3>1, <4>2, <4>3
    <3>3. QED
      BY <2>2, <2>3, <3>1, <3>2 DEF SceneAt
  <2>5. \A e \in Elements : \A s \in Versions(e) : s = Absent \/ s = full[e]
    <3>1. SUFFICES ASSUME NEW e \in Elements, NEW s \in Versions(e)
          PROVE  s = Absent \/ s = full[e]
      OBVIOUS
    <3>2. \A k \in DOMAIN log : k = 1
      BY <2>3
    <3>3. QED
      BY <1>2, <2>4, <3>2, EmptyFacts, VersionCases
  <2>6. VersionsOK
    <3>1. ASSUME NEW e \in Elements
          PROVE  ~SameVersion(Absent, full[e]) /\ ~SameVersion(full[e], Absent)
      <4>1. full[e].version = 1 /\ Absent.version = 0
        BY <1>6 DEF Absent
      <4>2. QED
        BY <4>1 DEF SameVersion
    <3>2. Absent.versionNonce = 0
      BY DEF Absent
    <3>3. QED
      BY <1>6, <2>5, <3>1, <3>2, EmptyFacts DEF VersionsOK
  <2>7. HistoryOK
    <3>1. \A e \in Elements : /\ ~RemoteWins(full[e], full[e]) /\ ~RemoteWins(full[e], Absent)
      <4>1. ASSUME NEW e \in Elements
            PROVE  ~RemoteWins(full[e], full[e]) /\ ~RemoteWins(full[e], Absent)
        BY <1>6, EmptyFacts, Order
      <4>2. QED
        BY <4>1
    <3>2. \A j \in 0..1 : j = 0 \/ j = 1
      OBVIOUS
    <3>3. \A e \in Elements : Stored(e, full[e])
      <4>1. 1 \in DOMAIN log
        BY <2>3
      <4>2. QED
        BY <2>4, <4>1 DEF Stored
    <3>4. ASSUME NEW e \in Elements, NEW j \in 0..1, NEW k \in 0..1, j <= k
          PROVE  ~RemoteWins(SceneAt(log, k)[e], SceneAt(log, j)[e])
      BY <1>4, <2>4, <3>1, <3>2, <3>4
    <3>5. ASSUME NEW e \in Elements, NEW k \in DOMAIN log
          PROVE  /\ SceneAt(log, k)[e] \in {SceneAt(log, k - 1)[e], log[k].deltas[e]}
                 /\ Present(SceneAt(log, k)[e]) => Stored(e, SceneAt(log, k)[e])
                 /\ ~RemoteWins(SceneAt(log, k)[e], log[k].deltas[e])
      <4>1. k = 1
        BY <2>3
      <4>2. QED
        BY <2>4, <3>1, <3>3, <4>1
    <3>6. QED
      BY <2>3, <3>4, <3>5 DEF HistoryOK
  <2>8. QED
    BY <1>1, <1>3, <1>5, <2>6, <2>7 DEF ConvergeInv, Known
<1>10. QED
  BY <1>7, <1>8, <1>9

\* Every step keeps it.
LEMMA StepConverge == ConvergeInv /\ [Next]_vars => ConvergeInv'
<1> SUFFICES ASSUME ConvergeInv, [Next]_vars PROVE ConvergeInv'
  OBVIOUS
<1>1. Known /\ Known' /\ \A d \in Clients : Writing(d) => Caught(d)
  BY KnownInv DEF ConvergeInv
<1>2. \A d \in Clients : Writing(d)' => Caught(d)'
  BY <1>1, CaughtInv
<1>3. QED
  BY <1>1, <1>2 DEF ConvergeInv

\* REC-05: as long as no request failed, a page that is at the head of the log
\* with nothing queued or in flight shows what the server stores, whatever
\* edits collided and in whatever order the replies came.
THEOREM PagesConverge == Spec => []Converges
<1>1. Init => ConvergeInv
  BY InitConverge
<1>2. ConvergeInv /\ [Next]_vars => ConvergeInv'
  BY StepConverge
<1>3. ConvergeInv => Converges
  BY InvConverges
<1>4. QED
  BY <1>1, <1>2, <1>3, PTL DEF Spec
============================================================================
