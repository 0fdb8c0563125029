----------------------------- MODULE SyncProofs -----------------------------
(***************************************************************************)
(* Proofs about the browser sync client for any number of clients,         *)
(* elements, edits, failures, reconnects, leaves and revocations: the      *)
(* stored scene never steps back to an older version, and no element that  *)
(* was drawn is dropped unseen.                                            *)
(***************************************************************************)
EXTENDS SyncClient, TLAPS

----------------------------------------------------------------------------
(* Bags of requests: what is in one after a request is sent or done.       *)

\* Sending a request adds it to the bag.
LEMMA AddDomain ==
  ASSUME NEW B, NEW x
  PROVE  DOMAIN BagAdd(B, x) = DOMAIN B \cup {x}
BY DEF BagAdd

\* Taking one copy out of a bag takes out at most that request.
LEMMA RemoveDomain ==
  ASSUME NEW B, NEW x
  PROVE  /\ DOMAIN BagRemove(B, x) \subseteq DOMAIN B
         /\ DOMAIN B \ {x} \subseteq DOMAIN BagRemove(B, x)
BY DEF BagRemove

\* What is left of the requests of a page that is gone.
LEMMA DetachDomain ==
  ASSUME NEW B
  PROVE  \A q \in DOMAIN Detach(B) : \E r \in DOMAIN B :
           /\ r.kind = "batch" /\ r.phase = "sent"
           /\ q = [r EXCEPT !.detached = TRUE]
BY DEF Detach, BagOfAll, BagToSet

\* No request is in the empty bag.
LEMMA EmptyDomain == DOMAIN EmptyBag = {}
BY DEF EmptyBag, SetToBag

----------------------------------------------------------------------------
(* Scenes: what the merge, the fold and the diff return.                   *)

\* Merging two scenes gives a scene, with no element that neither holds.
LEMMA MergeFacts ==
  ASSUME NEW s \in Scenes, NEW t \in Scenes
  PROVE  /\ MergeScene(s, t) \in Scenes
         /\ \A e \in Elements :
              /\ MergeScene(s, t)[e] = MergeElement(s[e], t[e])
              /\ MergeScene(s, t)[e] \in {s[e], t[e]}
<1>1. \A e \in Elements : s[e] \in Stamp /\ t[e] \in Stamp
  BY DEF Scenes
<1>2. \A e \in Elements : MergeElement(s[e], t[e]) \in {s[e], t[e]}
  BY DEF MergeElement
<1>3. QED
  BY <1>1, <1>2 DEF MergeScene, Scenes

\* No element is absent from the empty scene's shape, and none is present.
LEMMA EmptyFacts ==
  /\ Absent \in Stamp /\ ~Present(Absent)
  /\ EmptyScene \in Scenes /\ \A e \in Elements : EmptyScene[e] = Absent
  /\ ~HasDeltas(EmptyScene)
BY DEF Absent, Stamp, Present, EmptyScene, Scenes, HasDeltas

\* Reconciling an operation into a scene gives a scene, whose elements are the
\* scene's or the operation's.
LEMMA ReconcileFacts ==
  ASSUME NEW s \in Scenes, NEW d \in Scenes
  PROVE  /\ ReconcileOperation(s, d) \in Scenes
         /\ \A e \in Elements :
              \/ ReconcileOperation(s, d)[e] = s[e]
              \/ /\ ReconcileOperation(s, d)[e] = d[e]
                 /\ Present(d[e])
                 /\ Present(s[e]) => RemoteWins(s[e], d[e])
<1> DEFINE t == [e \in Elements |-> IF Effective(s[e], d[e]) THEN d[e] ELSE Absent]
<1>1. t \in Scenes
  BY EmptyFacts DEF Scenes
<1>2. ReconcileOperation(s, d) = MergeScene(s, t)
  BY DEF ReconcileOperation
<1>3. \A e \in Elements : t[e] = d[e] \/ t[e] = Absent
  OBVIOUS
<1> HIDE DEF t
<1>4. ASSUME NEW e \in Elements
      PROVE  \/ MergeElement(s[e], t[e]) = s[e]
             \/ /\ MergeElement(s[e], t[e]) = d[e]
                /\ Present(d[e])
                /\ Present(s[e]) => RemoteWins(s[e], d[e])
  BY <1>3, EmptyFacts DEF MergeElement
<1>5. QED
  BY <1>1, <1>2, <1>4, MergeFacts

\* A diff is a scene; a live element that was not known before is in it.
LEMMA DiffFacts ==
  ASSUME NEW s \in Scenes, NEW t \in Scenes
  PROVE  /\ ComputeDiff(s, t) \in Scenes
         /\ \A e \in Elements :
              Live(t[e]) /\ ~Present(s[e]) => Present(ComputeDiff(s, t)[e])
<1>1. ASSUME NEW e \in Elements
      PROVE  /\ DeltaOf(s[e], t[e]) \in Stamp
             /\ Live(t[e]) /\ ~Present(s[e]) => Present(DeltaOf(s[e], t[e]))
  <2>1. s[e] \in Stamp /\ t[e] \in Stamp
    BY DEF Scenes
  <2>2. [s[e] EXCEPT !.isDeleted = TRUE] \in Stamp
    BY <2>1 DEF Stamp
  <2>3. DeltaOf(s[e], t[e]) \in Stamp
    BY <2>1, <2>2, EmptyFacts DEF DeltaOf
  <2>4. QED
    BY <2>3 DEF DeltaOf, Live
<1>2. QED
  BY <1>1 DEF ComputeDiff, Scenes

\* Queueing a diff keeps every element that was queued, and adds the diff's.
LEMMA EnqueuedFacts ==
  ASSUME NEW q \in Scenes, NEW d \in Scenes
  PROVE  /\ Enqueued(q, d) \in Scenes
         /\ \A e \in Elements :
              Present(q[e]) \/ Present(d[e]) => Present(Enqueued(q, d)[e])
BY DEF Enqueued, Scenes

----------------------------------------------------------------------------
(* The inductive invariant.                                                *)

\* Some stored operation names the element.
Logged(e) == \E k \in DOMAIN log : Present(log[k].deltas[e])

\* The log is a sequence of operations, none empty; what a fold holds comes
\* from the operations.
LogOK ==
  /\ log \in Seq(Operation)
  /\ \A k \in DOMAIN log : HasDeltas(log[k].deltas)
  /\ \A k \in DOMAIN log : \A e \in Elements :
       Present(log[k].scene[e]) => Logged(e)

\* A request: a batch carries something, which is stored once the server has
\* appended it; anything else carries nothing; only a user who has lost the
\* role is answered 403; a reply names a revision of the log.
RequestOK(c, r) ==
  /\ r \in Request
  /\ r.revision <= Len(log)
  /\ IF r.kind = "batch" THEN HasDeltas(r.deltas) ELSE r.deltas = EmptyScene
  /\ r.phase \in {"logged", "answered"} =>
       \A e \in Elements : Present(r.deltas[e]) => Logged(e)
  /\ r.phase = "forbidden" => ~mayMutate[c]

\* The element is stored, queued, or in a request the page waits for.
Kept(c, e) ==
  \/ Logged(e)
  \/ Present(pending[c][e])
  \/ \E r \in DOMAIN requests[c] : ~r.detached /\ Present(r.deltas[e])

\* Not only what is drawn, but what the next diff is taken against.
NothingLost(c) ==
  page[c] = "open" /\ mayMutate[c] =>
    \A e \in Elements :
      Present(canvas[c][e]) \/ Present(previous[c][e]) => Kept(c, e)

ClientOK(c) ==
  /\ canvas[c] \in Scenes
  /\ previous[c] \in Scenes
  /\ pending[c] \in Scenes
  /\ revision[c] \in 0..Len(log)
  /\ \A r \in DOMAIN requests[c] : RequestOK(c, r)
  /\ NothingLost(c)

\* A function on the clients.
PerClient(f) == DOMAIN f = Clients /\ f = [c \in Clients |-> f[c]]

Shape ==
  /\ mayMutate \in [Clients -> BOOLEAN]
  /\ page \in [Clients -> {"closed", "loading", "open", "viewing"}]
  /\ status \in [Clients -> {"saved", "saving", "offline", "readOnly"}]
  /\ PerClient(canvas) /\ PerClient(previous) /\ PerClient(pending)
  /\ PerClient(revision) /\ PerClient(requests)
  /\ drawn \subseteq Nonces

SyncInv == Shape /\ LogOK /\ \A c \in Clients : ClientOK(c)

----------------------------------------------------------------------------
(* The log.                                                                *)

\* The stored scene at a revision of the log.
LEMMA SceneAtFacts ==
  ASSUME LogOK, NEW n \in 0..Len(log)
  PROVE  /\ SceneAt(log, n) \in Scenes
         /\ \A e \in Elements : Present(SceneAt(log, n)[e]) => Logged(e)
<1>1. CASE n = 0
  BY <1>1, EmptyFacts DEF SceneAt
<1>2. CASE n # 0
  <2>1. n \in DOMAIN log /\ log[n] \in Operation
    BY <1>2 DEF LogOK
  <2>2. log[n].scene \in Scenes
    BY <2>1 DEF Operation, Scenes
  <2>3. QED
    BY <1>2, <2>1, <2>2 DEF SceneAt, LogOK
<1>3. QED
  BY <1>1, <1>2

\* Appending a batch to the log.
LEMMA AppendFacts ==
  ASSUME LogOK, NEW d \in Scenes, HasDeltas(d), log' = AppendOperation(log, d)
  PROVE  /\ LogOK'
         /\ Len(log') = Len(log) + 1 /\ Len(log) \in Nat
         /\ \A k \in DOMAIN log : k \in DOMAIN log' /\ log'[k] = log[k]
         /\ log'[Len(log')].deltas = d
         /\ log'[Len(log')].scene = ReconcileOperation(SceneAt(log, Len(log)), d)
         /\ \A e \in Elements : Logged(e) \/ Present(d[e]) => Logged(e)'
<1> DEFINE n == Len(log)
           op == [deltas |-> d, scene |-> ReconcileOperation(SceneAt(log, n), d)]
<1>1. log \in Seq(Operation) /\ n \in Nat
  BY DEF LogOK
<1>2. SceneAt(log, n) \in Scenes
      /\ \A e \in Elements : Present(SceneAt(log, n)[e]) => Logged(e)
  BY <1>1, SceneAtFacts
<1>3. /\ ReconcileOperation(SceneAt(log, n), d) \in Scenes
      /\ \A e \in Elements :
           \/ ReconcileOperation(SceneAt(log, n), d)[e] = SceneAt(log, n)[e]
           \/ ReconcileOperation(SceneAt(log, n), d)[e] = d[e]
  BY <1>2, ReconcileFacts
<1>4. op \in Operation /\ op.deltas = d
      /\ op.scene = ReconcileOperation(SceneAt(log, n), d)
  BY <1>3 DEF Operation, Scenes
<1>5. log' = Append(log, op)
  BY DEF AppendOperation
<1> HIDE DEF op
<1>6. /\ log' \in Seq(Operation) /\ Len(log') = n + 1
      /\ DOMAIN log = 1..n /\ DOMAIN log' = 1..(n + 1)
      /\ \A k \in 1..n : log'[k] = log[k]
      /\ log'[n + 1] = op
  BY <1>1, <1>4, <1>5
<1>7. \A k \in DOMAIN log' : k \in DOMAIN log \/ k = n + 1
  BY <1>1, <1>6
<1>8. \A k \in DOMAIN log : k \in DOMAIN log' /\ log'[k] = log[k]
  BY <1>1, <1>6
<1>9. n + 1 \in DOMAIN log'
  BY <1>1, <1>6
<1>10. \A e \in Elements : Logged(e) \/ Present(d[e]) => Logged(e)'
  BY <1>4, <1>6, <1>8, <1>9 DEF Logged
<1>11. \A k \in DOMAIN log' : HasDeltas(log'[k].deltas)
  BY <1>4, <1>6, <1>7, <1>8 DEF LogOK
<1>12. ASSUME NEW k \in DOMAIN log', NEW e \in Elements, Present(log'[k].scene[e])
       PROVE  Logged(e)'
  <2>1. CASE k \in DOMAIN log
    BY <1>8, <1>10, <1>12, <2>1 DEF LogOK
  <2>2. CASE k = n + 1
    <3>1. Present(SceneAt(log, n)[e]) \/ Present(d[e])
      BY <1>3, <1>4, <1>6, <1>12, <2>2
    <3>2. QED
      BY <1>2, <1>10, <3>1
  <2>3. QED
    BY <1>7, <2>1, <2>2
<1>13. LogOK'
  BY <1>6, <1>11, <1>12 DEF LogOK
<1>14. QED
  BY <1>1, <1>4, <1>6, <1>8, <1>10, <1>13

----------------------------------------------------------------------------
(* What a step leaves alone.                                               *)

\* What is said of a request survives a step: the log only grows, and a role
\* that is lost is never regained.
LEMMA RequestKept ==
  ASSUME NEW c \in Clients, NEW r, RequestOK(c, r),
         Len(log) \in Nat, Len(log') \in Nat, Len(log) <= Len(log'),
         \A e \in Elements : Logged(e) => Logged(e)',
         mayMutate'[c] => mayMutate[c]
  PROVE  RequestOK(c, r)'
<1>1. r.revision \in Nat
  BY DEF RequestOK, Request
<1>2. r.revision <= Len(log')
  BY <1>1 DEF RequestOK
<1>3. QED
  BY <1>2 DEF RequestOK

\* A client that takes no step.
LEMMA OtherKept ==
  ASSUME NEW c \in Clients, ClientOK(c),
         Len(log) \in Nat, Len(log') \in Nat, Len(log) <= Len(log'),
         \A e \in Elements : Logged(e) => Logged(e)',
         mayMutate'[c] => mayMutate[c],
         page'[c] = page[c], canvas'[c] = canvas[c], previous'[c] = previous[c],
         pending'[c] = pending[c], revision'[c] = revision[c],
         requests'[c] = requests[c]
  PROVE  ClientOK(c)'
<1>1. \A r \in DOMAIN requests'[c] : RequestOK(c, r)'
  BY RequestKept DEF ClientOK
<1>2. revision'[c] \in 0..Len(log')
  BY DEF ClientOK
<1>3. \A e \in Elements : Kept(c, e) => Kept(c, e)'
  BY DEF Kept
<1>4. NothingLost(c)'
  BY <1>3 DEF ClientOK, NothingLost
<1>5. QED
  BY <1>1, <1>2, <1>4 DEF ClientOK

\* A step of one client that leaves the log and the roles alone.
LEMMA PageStep ==
  ASSUME SyncInv, NEW c \in Clients, UNCHANGED <<log, mayMutate>>,
         \A d \in Clients \ {c} :
           /\ page'[d] = page[d] /\ canvas'[d] = canvas[d]
           /\ previous'[d] = previous[d] /\ pending'[d] = pending[d]
           /\ revision'[d] = revision[d] /\ requests'[d] = requests[d],
         Shape', ClientOK(c)'
  PROVE  SyncInv'
<1>1. LogOK' /\ Len(log) \in Nat /\ Len(log') \in Nat /\ Len(log) <= Len(log')
      /\ \A e \in Elements : Logged(e) => Logged(e)'
  BY DEF SyncInv, LogOK, Logged
<1>2. ASSUME NEW d \in Clients \ {c} PROVE ClientOK(d)'
  BY <1>1, OtherKept DEF SyncInv
<1>3. QED
  BY <1>1, <1>2 DEF SyncInv

\* The requests of a client that is unchanged but for its bag.
LEMMA SendFacts ==
  ASSUME PerClient(requests), NEW c \in Clients, NEW r, Send(c, r)
  PROVE  /\ PerClient(requests)'
         /\ DOMAIN requests'[c] = DOMAIN requests[c] \cup {r}
         /\ \A d \in Clients \ {c} : requests'[d] = requests[d]
<1>1. requests' = [requests EXCEPT ![c] = BagAdd(requests[c], r)]
  BY DEF Send
<1>2. PerClient(requests)' /\ requests'[c] = BagAdd(requests[c], r)
      /\ \A d \in Clients \ {c} : requests'[d] = requests[d]
  BY <1>1 DEF PerClient
<1>3. QED
  BY <1>2, AddDomain

\* A request that is done leaves the bag, at most.
LEMMA DoneFacts ==
  ASSUME PerClient(requests), NEW c \in Clients, NEW r, Done(c, r)
  PROVE  /\ PerClient(requests)'
         /\ DOMAIN requests'[c] \subseteq DOMAIN requests[c]
         /\ DOMAIN requests[c] \ {r} \subseteq DOMAIN requests'[c]
         /\ \A d \in Clients \ {c} : requests'[d] = requests[d]
<1>1. requests' = [requests EXCEPT ![c] = BagRemove(requests[c], r)]
  BY DEF Done
<1>2. PerClient(requests)' /\ requests'[c] = BagRemove(requests[c], r)
      /\ \A d \in Clients \ {c} : requests'[d] = requests[d]
  BY <1>1 DEF PerClient
<1>3. QED
  BY <1>2, RemoveDomain

\* A request that moves on is replaced by what it becomes.
LEMMA BecomesFacts ==
  ASSUME PerClient(requests), NEW c \in Clients, NEW r, NEW s, Becomes(c, r, s)
  PROVE  /\ PerClient(requests)'
         /\ DOMAIN requests'[c] \subseteq DOMAIN requests[c] \cup {s}
         /\ (DOMAIN requests[c] \ {r}) \cup {s} \subseteq DOMAIN requests'[c]
         /\ \A d \in Clients \ {c} : requests'[d] = requests[d]
<1>1. requests' = [requests EXCEPT ![c] = BagAdd(BagRemove(requests[c], r), s)]
  BY DEF Becomes
<1>2. PerClient(requests)' /\ requests'[c] = BagAdd(BagRemove(requests[c], r), s)
      /\ \A d \in Clients \ {c} : requests'[d] = requests[d]
  BY <1>1 DEF PerClient
<1>3. DOMAIN requests'[c] = DOMAIN BagRemove(requests[c], r) \cup {s}
  BY <1>2, AddDomain
<1>4. QED
  BY <1>2, <1>3, RemoveDomain

\* A request just sent.
LEMMA NewRequestOK ==
  ASSUME NEW c \in Clients, NEW kind \in {"open", "refresh", "catchUp", "batch"},
         NEW d \in Scenes, NEW base \in Nat, Len(log) \in Nat,
         IF kind = "batch" THEN HasDeltas(d) ELSE d = EmptyScene
  PROVE  /\ RequestOK(c, NewRequest(kind, d, base))
         /\ ~NewRequest(kind, d, base).detached
         /\ NewRequest(kind, d, base).deltas = d
<1> DEFINE r == NewRequest(kind, d, base)
<1>1. /\ r.kind = kind /\ r.phase = "sent" /\ r.deltas = d /\ ~r.detached /\ r.revision = 0
      /\ r \in Request
  BY DEF NewRequest, Request
<1> HIDE DEF r
<1>2. RequestOK(c, r)
  BY <1>1 DEF RequestOK
<1>3. QED
  BY <1>1, <1>2 DEF r

\* A step that leaves the log and the roles alone says the same of a request.
LEMMA SameLog ==
  ASSUME UNCHANGED <<log, mayMutate>>
  PROVE  /\ \A c, r : RequestOK(c, r) => RequestOK(c, r)'
         /\ \A e \in Elements : Logged(e) => Logged(e)'
         /\ Len(log') = Len(log)
BY DEF RequestOK, Logged

\* onChange: the canvas is what was painted; what the next diff is taken
\* against is that or what it was; nothing queued leaves the queue, and a live
\* element not known before enters it.
LEMMA OnChangeFacts ==
  ASSUME Shape, NEW c \in Clients, previous[c] \in Scenes, pending[c] \in Scenes,
         NEW next \in Scenes, OnChange(c, next)
  PROVE  /\ PerClient(canvas)' /\ PerClient(previous)' /\ PerClient(pending)'
         /\ \A d \in Clients \ {c} : /\ canvas'[d] = canvas[d]
                                     /\ previous'[d] = previous[d]
                                     /\ pending'[d] = pending[d]
         /\ canvas'[c] = next
         /\ previous'[c] \in {next, previous[c]}
         /\ pending'[c] \in Scenes
         /\ \A e \in Elements :
              /\ Present(pending[c][e]) => Present(pending'[c][e])
              /\ Live(next[e]) =>
                   Present(previous[c][e]) \/ Present(pending'[c][e])
<1> DEFINE deltas == ComputeDiff(previous[c], next)
<1>1. /\ canvas' = [canvas EXCEPT ![c] = next]
      /\ previous' = [previous EXCEPT ![c] =
                        IF HasDeltas(deltas) THEN next ELSE previous[c]]
      /\ pending' = [pending EXCEPT ![c] = Enqueued(pending[c], deltas)]
  BY DEF OnChange
<1>2. deltas \in Scenes
      /\ \A e \in Elements :
           Live(next[e]) /\ ~Present(previous[c][e]) => Present(deltas[e])
  BY DiffFacts
<1> HIDE DEF deltas
<1>3. /\ Enqueued(pending[c], deltas) \in Scenes
      /\ \A e \in Elements : Present(pending[c][e]) \/ Present(deltas[e])
                               => Present(Enqueued(pending[c], deltas)[e])
  BY <1>2, EnqueuedFacts
<1>4. /\ canvas'[c] = next
      /\ previous'[c] = IF HasDeltas(deltas) THEN next ELSE previous[c]
      /\ pending'[c] = Enqueued(pending[c], deltas)
  BY <1>1 DEF Shape, PerClient
<1>5. /\ PerClient(canvas)' /\ PerClient(previous)' /\ PerClient(pending)'
      /\ \A d \in Clients \ {c} : /\ canvas'[d] = canvas[d]
                                  /\ previous'[d] = previous[d]
                                  /\ pending'[d] = pending[d]
  BY <1>1 DEF Shape, PerClient
<1>6. QED
  BY <1>2, <1>3, <1>4, <1>5

\* An element that is kept stays kept when a request ends, as long as what it
\* carried is stored or queued.
LEMMA KeptAfter ==
  ASSUME UNCHANGED <<log, mayMutate>>, NEW c \in Clients, NEW r,
         DOMAIN requests[c] \ {r} \subseteq DOMAIN requests'[c],
         \A e \in Elements : Present(pending[c][e]) => Present(pending'[c][e]),
         \A e \in Elements : ~r.detached /\ Present(r.deltas[e]) =>
           Logged(e) \/ Present(pending'[c][e])
  PROVE  \A e \in Elements : Kept(c, e) => Kept(c, e)'
BY SameLog DEF Kept

----------------------------------------------------------------------------
(* The page.                                                               *)

\* The route mounts, or the presence socket is back.
LEMMA AskInv ==
  ASSUME SyncInv, NEW c \in Clients, Open(c) \/ Reconnect(c)
  PROVE  SyncInv'
<1>1. /\ UNCHANGED <<log, mayMutate, canvas, previous, pending, revision, status, drawn>>
      /\ page' = [page EXCEPT ![c] = page'[c]]
      /\ page'[c] \in {"closed", "loading", "open", "viewing"}
      /\ page'[c] = page[c] \/ page'[c] = "loading"
  BY DEF Open, Reconnect, bounds, SyncInv, Shape
<1>2. PICK kind \in {"open", "catchUp"}, base \in Nat : Send(c, NewRequest(kind, EmptyScene, base))
  <2>1. revision[c] \in Nat
    BY DEF SyncInv, ClientOK, LogOK
  <2>2. QED
    BY <2>1 DEF Open, Reconnect
<1> DEFINE r == NewRequest(kind, EmptyScene, base)
<1>3. RequestOK(c, r)
  BY NewRequestOK, EmptyFacts DEF SyncInv, LogOK
<1> HIDE DEF r
<1>4. /\ PerClient(requests)'
      /\ DOMAIN requests'[c] = DOMAIN requests[c] \cup {r}
      /\ \A d \in Clients \ {c} : requests'[d] = requests[d]
  BY <1>2, SendFacts DEF SyncInv, Shape, r
<1>5. Shape'
  BY <1>1, <1>4 DEF SyncInv, Shape, PerClient
<1>6. \A q \in DOMAIN requests'[c] : RequestOK(c, q)'
  BY <1>1, <1>3, <1>4, SameLog DEF SyncInv, ClientOK
<1>7. NothingLost(c)'
  <2>1. \A e \in Elements : Kept(c, e) => Kept(c, e)'
    BY <1>1, <1>4, SameLog DEF Kept
  <2>2. QED
    BY <1>1, <2>1 DEF SyncInv, ClientOK, NothingLost
<1>8. ClientOK(c)'
  BY <1>1, <1>6, <1>7, SameLog DEF SyncInv, ClientOK
<1>9. \A d \in Clients \ {c} : page'[d] = page[d]
  BY <1>1 DEF SyncInv, Shape
<1>10. QED
  BY <1>1, <1>4, <1>5, <1>8, <1>9, PageStep

\* bootstrap resolved: everything shown is stored.
LEMMA OpenedInv ==
  ASSUME SyncInv, NEW c \in Clients, NEW r \in DOMAIN requests[c], Opened(c, r)
  PROVE  SyncInv'
<1>1. /\ UNCHANGED <<log, mayMutate, pending, drawn>>
      /\ page' = [page EXCEPT ![c] = IF r.allowed THEN "open" ELSE "viewing"]
      /\ canvas' = [canvas EXCEPT ![c] = SceneAt(log, r.revision)]
      /\ previous' = [previous EXCEPT ![c] = SceneAt(log, r.revision)]
      /\ revision' = [revision EXCEPT ![c] = r.revision]
      /\ status' = [status EXCEPT ![c] = "saved"]
      /\ Done(c, r)
  BY DEF Opened, bounds
<1>2. r.revision \in 0..Len(log)
  BY DEF SyncInv, ClientOK, RequestOK, Request, LogOK
<1>3. SceneAt(log, r.revision) \in Scenes
      /\ \A e \in Elements : Present(SceneAt(log, r.revision)[e]) => Logged(e)
  BY <1>2, SceneAtFacts DEF SyncInv
<1>4. /\ PerClient(requests)'
      /\ DOMAIN requests'[c] \subseteq DOMAIN requests[c]
      /\ \A d \in Clients \ {c} : requests'[d] = requests[d]
  BY <1>1, DoneFacts DEF SyncInv, Shape
<1>5. /\ canvas'[c] = SceneAt(log, r.revision) /\ previous'[c] = SceneAt(log, r.revision)
      /\ revision'[c] = r.revision /\ pending'[c] = pending[c]
      /\ \A d \in Clients \ {c} :
           /\ page'[d] = page[d] /\ canvas'[d] = canvas[d]
           /\ previous'[d] = previous[d] /\ pending'[d] = pending[d]
           /\ revision'[d] = revision[d]
  BY <1>1 DEF SyncInv, Shape, PerClient
<1>6. Shape'
  BY <1>1, <1>4 DEF SyncInv, Shape, PerClient
<1>7. \A q \in DOMAIN requests'[c] : RequestOK(c, q)'
  BY <1>1, <1>4, SameLog DEF SyncInv, ClientOK
<1>8. NothingLost(c)'
  BY <1>1, <1>3, <1>5, SameLog DEF NothingLost, Kept
<1>9. ClientOK(c)'
  BY <1>1, <1>2, <1>3, <1>5, <1>7, <1>8, SameLog DEF SyncInv, ClientOK
<1>10. QED
  BY <1>1, <1>4, <1>5, <1>6, <1>9, PageStep

\* The user edits: what is drawn is queued, or was known before.
LEMMA EditInv ==
  ASSUME SyncInv, NEW c \in Clients, NEW e \in Elements, NEW nonce \in Nonces,
         NEW delete \in BOOLEAN, Edit(c, e, nonce, delete)
  PROVE  SyncInv'
<1> DEFINE s == [version |-> canvas[c][e].version + 1, versionNonce |-> nonce,
                 isDeleted |-> delete]
           next == [canvas[c] EXCEPT ![e] = s]
<1>1. /\ UNCHANGED <<log, mayMutate, page, revision, status, requests>>
      /\ drawn' = drawn \cup {nonce}
      /\ delete => Live(canvas[c][e])
      /\ OnChange(c, next)
      /\ page[c] = "open"
  BY DEF Edit
<1>2. canvas[c] \in Scenes /\ previous[c] \in Scenes /\ pending[c] \in Scenes
  BY DEF SyncInv, ClientOK
<1>3. s \in Stamp /\ s.isDeleted = delete
  <2>1. canvas[c][e].version \in Nat
    BY <1>2 DEF Scenes, Stamp
  <2>2. QED
    BY <2>1, NoncesAssumption DEF Stamp
<1> HIDE DEF s
<1>4. next \in Scenes /\ next[e] = s /\ \A f \in Elements \ {e} : next[f] = canvas[c][f]
  BY <1>2, <1>3 DEF Scenes
<1> HIDE DEF next
<1>5. /\ PerClient(canvas)' /\ PerClient(previous)' /\ PerClient(pending)'
      /\ \A d \in Clients \ {c} : /\ canvas'[d] = canvas[d]
                                  /\ previous'[d] = previous[d]
                                  /\ pending'[d] = pending[d]
      /\ canvas'[c] = next
      /\ previous'[c] \in {next, previous[c]}
      /\ pending'[c] \in Scenes
      /\ \A f \in Elements :
           /\ Present(pending[c][f]) => Present(pending'[c][f])
           /\ Live(next[f]) => Present(previous[c][f]) \/ Present(pending'[c][f])
  BY <1>1, <1>2, <1>4, OnChangeFacts DEF SyncInv
<1>6. Shape'
  BY <1>1, <1>5 DEF SyncInv, Shape
<1>7. \A q \in DOMAIN requests'[c] : RequestOK(c, q)'
  BY <1>1, SameLog DEF SyncInv, ClientOK
<1>8. NothingLost(c)'
  <2>1. \A f \in Elements : Kept(c, f) => Kept(c, f)'
    BY <1>1, <1>5, SameLog DEF Kept
  <2>2. SUFFICES ASSUME mayMutate[c], NEW f \in Elements,
                        Present(next[f]) \/ Present(previous[c][f])
                 PROVE  Kept(c, f)'
    BY <1>1, <1>5 DEF NothingLost
  <2>3. Present(canvas[c][f]) \/ Present(previous[c][f]) => Kept(c, f)
    BY <1>1, <2>2 DEF SyncInv, ClientOK, NothingLost
  <2>4. CASE Present(canvas[c][f]) \/ Present(previous[c][f])
    BY <2>1, <2>3, <2>4
  <2>5. CASE ~Present(canvas[c][f]) /\ ~Present(previous[c][f])
    <3>1. f = e /\ Present(next[f])
      BY <1>4, <2>2, <2>5
    <3>2. ~delete
      BY <1>1, <2>5, <3>1 DEF Live
    <3>3. Live(next[f])
      BY <1>3, <1>4, <3>1, <3>2 DEF Live
    <3>4. Present(pending'[c][f])
      BY <1>5, <2>5, <3>3
    <3>5. QED
      BY <3>4 DEF Kept
  <2>6. QED
    BY <2>4, <2>5
<1>9. ClientOK(c)'
  BY <1>1, <1>2, <1>4, <1>5, <1>7, <1>8, SameLog DEF SyncInv, ClientOK
<1>10. QED
  BY <1>1, <1>5, <1>6, <1>9, PageStep

\* flush: what was queued is in the batch.
LEMMA FlushInv ==
  ASSUME SyncInv, NEW c \in Clients, Flush(c)
  PROVE  SyncInv'
<1> DEFINE r == NewRequest("batch", pending[c], revision[c])
<1>1. /\ UNCHANGED <<log, mayMutate, page, canvas, previous, revision, drawn>>
      /\ pending' = [pending EXCEPT ![c] = EmptyScene]
      /\ status' = [status EXCEPT ![c] = "saving"]
      /\ Send(c, r)
      /\ HasDeltas(pending[c])
  BY DEF Flush, bounds
<1>2. RequestOK(c, r) /\ ~r.detached /\ r.deltas = pending[c]
  <2>1. pending[c] \in Scenes /\ revision[c] \in Nat /\ Len(log) \in Nat
    BY DEF SyncInv, ClientOK, LogOK
  <2>2. QED
    BY <1>1, <2>1, NewRequestOK
<1> HIDE DEF r
<1>3. /\ PerClient(requests)'
      /\ DOMAIN requests'[c] = DOMAIN requests[c] \cup {r}
      /\ \A d \in Clients \ {c} : requests'[d] = requests[d]
  BY <1>1, SendFacts DEF SyncInv, Shape
<1>4. /\ PerClient(pending)' /\ pending'[c] = EmptyScene
      /\ \A d \in Clients \ {c} : pending'[d] = pending[d]
  BY <1>1 DEF SyncInv, Shape, PerClient
<1>5. Shape'
  BY <1>1, <1>3, <1>4 DEF SyncInv, Shape
<1>6. \A q \in DOMAIN requests'[c] : RequestOK(c, q)'
  BY <1>1, <1>2, <1>3, SameLog DEF SyncInv, ClientOK
<1>7. NothingLost(c)'
  <2>1. \A e \in Elements : Kept(c, e) => Kept(c, e)'
    BY <1>1, <1>2, <1>3, SameLog DEF Kept
  <2>2. QED
    BY <1>1, <2>1 DEF SyncInv, ClientOK, NothingLost
<1>8. ClientOK(c)'
  BY <1>1, <1>4, <1>6, <1>7, SameLog, EmptyFacts DEF SyncInv, ClientOK
<1>9. QED
  BY <1>1, <1>3, <1>4, <1>5, <1>8, PageStep

\* The page is gone: what it promised goes with it.
LEMMA DiscardInv ==
  ASSUME SyncInv, NEW c \in Clients, NEW bag,
         \A q \in DOMAIN bag : RequestOK(c, q),
         Discard(c, bag)
  PROVE  SyncInv'
<1>1. /\ UNCHANGED <<log, mayMutate, drawn>>
      /\ page' = [page EXCEPT ![c] = "closed"]
      /\ canvas' = [canvas EXCEPT ![c] = EmptyScene]
      /\ previous' = [previous EXCEPT ![c] = EmptyScene]
      /\ pending' = [pending EXCEPT ![c] = EmptyScene]
      /\ revision' = [revision EXCEPT ![c] = 0]
      /\ status' = [status EXCEPT ![c] = "saving"]
      /\ requests' = [requests EXCEPT ![c] = Detach(bag)]
  BY DEF Discard
<1>2. /\ canvas'[c] = EmptyScene /\ previous'[c] = EmptyScene /\ pending'[c] = EmptyScene
      /\ page'[c] = "closed" /\ revision'[c] = 0 /\ requests'[c] = Detach(bag)
      /\ \A d \in Clients \ {c} :
           /\ page'[d] = page[d] /\ canvas'[d] = canvas[d]
           /\ previous'[d] = previous[d] /\ pending'[d] = pending[d]
           /\ revision'[d] = revision[d] /\ requests'[d] = requests[d]
  BY <1>1 DEF SyncInv, Shape, PerClient
<1>3. /\ page' \in [Clients -> {"closed", "loading", "open", "viewing"}]
      /\ status' \in [Clients -> {"saved", "saving", "offline", "readOnly"}]
  BY <1>1 DEF SyncInv, Shape
<1>4. /\ PerClient(canvas)' /\ PerClient(previous)' /\ PerClient(pending)'
      /\ PerClient(revision)' /\ PerClient(requests)'
  BY <1>1 DEF SyncInv, Shape, PerClient
<1>5. Shape'
  BY <1>1, <1>3, <1>4 DEF SyncInv, Shape
<1>6. ASSUME NEW q \in DOMAIN Detach(bag) PROVE RequestOK(c, q)
  <2>1. PICK r \in DOMAIN bag : /\ r.kind = "batch" /\ r.phase = "sent"
                              /\ q = [r EXCEPT !.detached = TRUE]
    BY DetachDomain
  <2>2. RequestOK(c, r) /\ r \in Request
    BY DEF RequestOK
  <2>3. /\ q \in Request /\ q.kind = r.kind /\ q.phase = r.phase
        /\ q.deltas = r.deltas /\ q.revision = r.revision
    BY <2>1, <2>2 DEF Request
  <2>4. QED
    BY <2>1, <2>2, <2>3 DEF RequestOK
<1>7. \A q \in DOMAIN requests'[c] : RequestOK(c, q)'
  BY <1>1, <1>2, <1>6, SameLog
<1>8. 0 \in 0..Len(log')
  BY <1>1 DEF SyncInv, LogOK
<1>9. ClientOK(c)'
  BY <1>2, <1>7, <1>8, EmptyFacts DEF ClientOK, NothingLost
<1>10. QED
  BY <1>1, <1>2, <1>5, <1>9, PageStep

\* Navigation, and the tab that closes with a last flush.
LEMMA LeaveInv ==
  ASSUME SyncInv, NEW c \in Clients, Navigate(c) \/ CloseTab(c)
  PROVE  SyncInv'
<1>1. \A q \in DOMAIN requests[c] : RequestOK(c, q)
  BY DEF SyncInv, ClientOK
<1>2. CASE Navigate(c)
  BY <1>1, <1>2, DiscardInv DEF Navigate
<1>3. CASE CloseTab(c)
  <2> DEFINE r == NewRequest("batch", pending[c], revision[c])
  <2>1. HasDeltas(pending[c]) /\ Discard(c, BagAdd(requests[c], r))
    BY <1>3 DEF CloseTab
  <2>2. RequestOK(c, r)
    <3>1. pending[c] \in Scenes /\ revision[c] \in Nat /\ Len(log) \in Nat
      BY DEF SyncInv, ClientOK, LogOK
    <3>2. QED
      BY <2>1, <3>1, NewRequestOK
  <2> HIDE DEF r
  <2>3. DOMAIN BagAdd(requests[c], r) = DOMAIN requests[c] \cup {r}
    BY AddDomain
  <2> DEFINE bag == BagAdd(requests[c], r)
  <2> HIDE DEF bag
  <2>4. \A q \in DOMAIN bag : RequestOK(c, q)
    BY <1>1, <2>2, <2>3 DEF bag
  <2>5. Discard(c, bag)
    BY <2>1 DEF bag, r
  <2>6. QED
    BY <2>4, <2>5, DiscardInv
<1>4. QED
  BY <1>2, <1>3

----------------------------------------------------------------------------
(* Replies and failures.                                                   *)

\* What the page does with a request that is answered or lost, when neither the
\* canvas nor the queue changes: a reply of the server may bring a new revision
\* and a refresh.
LEMMA ReplyInv ==
  ASSUME SyncInv, NEW c \in Clients, NEW r \in DOMAIN requests[c],
         UNCHANGED <<log, mayMutate, page, canvas, previous, pending, drawn>>,
         status' \in [Clients -> {"saved", "saving", "offline", "readOnly"}],
         NEW n \in 0..Len(log), revision' = [revision EXCEPT ![c] = n],
         \/ Done(c, r)
         \/ Becomes(c, r, NewRequest("refresh", EmptyScene, 0)),
         r.kind = "batch" => r.phase = "answered" \/ r.phase = "forbidden" \/ r.detached
  PROVE  SyncInv'
<1> DEFINE fresh == NewRequest("refresh", EmptyScene, 0)
<1>1. RequestOK(c, fresh)
  BY NewRequestOK, EmptyFacts DEF SyncInv, LogOK
<1> HIDE DEF fresh
<1>2. /\ PerClient(requests)'
      /\ DOMAIN requests'[c] \subseteq DOMAIN requests[c] \cup {fresh}
      /\ DOMAIN requests[c] \ {r} \subseteq DOMAIN requests'[c]
      /\ \A d \in Clients \ {c} : requests'[d] = requests[d]
  <2>1. CASE Done(c, r)
    BY <2>1, DoneFacts DEF SyncInv, Shape
  <2>2. CASE Becomes(c, r, fresh)
    BY <2>2, BecomesFacts DEF SyncInv, Shape
  <2>3. QED
    BY <2>1, <2>2 DEF fresh
<1>3. PerClient(revision)' /\ revision'[c] = n
      /\ \A d \in Clients \ {c} : revision'[d] = revision[d]
  BY DEF SyncInv, Shape, PerClient
<1>4. Shape'
  BY <1>2, <1>3 DEF SyncInv, Shape
<1>5. \A q \in DOMAIN requests'[c] : RequestOK(c, q)'
  BY <1>1, <1>2, SameLog DEF SyncInv, ClientOK
<1>6. NothingLost(c)'
  <2>1. SUFFICES ASSUME mayMutate[c] PROVE NothingLost(c)'
    BY DEF NothingLost
  <2>2. RequestOK(c, r)
    BY DEF SyncInv, ClientOK
  <2>3. \A e \in Elements : ~r.detached /\ Present(r.deltas[e]) => Logged(e)
    BY <2>1, <2>2, EmptyFacts DEF RequestOK
  <2>4. \A e \in Elements : Kept(c, e) => Kept(c, e)'
    BY <1>2, <2>3, KeptAfter
  <2>5. QED
    BY <2>4 DEF SyncInv, ClientOK, NothingLost
<1>7. ClientOK(c)'
  BY <1>3, <1>5, <1>6, SameLog DEF SyncInv, ClientOK
<1>8. QED
  BY <1>2, <1>3, <1>4, <1>7, PageStep

\* A batch is acked or answered 403, a catchUp is answered or fails, a refetch
\* fails, a detached batch ends.
LEMMA RepliesInv ==
  ASSUME SyncInv, NEW c \in Clients, NEW r \in DOMAIN requests[c],
         \/ BatchAcked(c, r) \/ BatchForbidden(c, r) \/ CatchUpDone(c, r)
         \/ BootstrapFailed(c, r) \/ CatchUpFailed(c, r) \/ DetachedLost(c, r)
  PROVE  SyncInv'
<1>1. /\ status \in [Clients -> {"saved", "saving", "offline", "readOnly"}]
      /\ PerClient(revision) /\ revision[c] \in 0..Len(log)
      /\ r.revision \in 0..Len(log)
  BY DEF SyncInv, Shape, ClientOK, RequestOK, Request, LogOK
<1>2. revision = [revision EXCEPT ![c] = revision[c]]
  BY <1>1 DEF PerClient
<1>3. CASE BatchAcked(c, r)
  <2>1. /\ UNCHANGED <<log, mayMutate, page, canvas, previous, pending, drawn>>
        /\ status' = [status EXCEPT ![c] = "saved"]
        /\ revision' = [revision EXCEPT ![c] = r.revision]
        /\ Done(c, r) \/ Becomes(c, r, NewRequest("refresh", EmptyScene, 0))
        /\ r.phase = "answered"
    BY <1>3 DEF BatchAcked, Reconcile, Answered, bounds
  <2>2. QED
    BY <1>1, <2>1, ReplyInv
<1>4. CASE BatchForbidden(c, r)
  <2>1. /\ UNCHANGED <<log, mayMutate, page, canvas, previous, pending, drawn, revision>>
        /\ status' = [status EXCEPT ![c] = "readOnly"]
        /\ Done(c, r)
        /\ r.phase = "forbidden"
    BY <1>4 DEF BatchForbidden, bounds
  <2>2. QED
    BY <1>1, <1>2, <2>1, ReplyInv
<1>5. CASE CatchUpDone(c, r)
  <2>1. /\ UNCHANGED <<log, mayMutate, page, canvas, previous, pending, drawn, status>>
        /\ Done(c, r) \/ Becomes(c, r, NewRequest("refresh", EmptyScene, 0))
        /\ revision' = revision \/ revision' = [revision EXCEPT ![c] = r.revision]
        /\ r.kind = "catchUp"
    BY <1>5 DEF CatchUpDone, Reconcile, Answered, bounds
  <2>2. QED
    BY <1>1, <1>2, <2>1, ReplyInv
<1>6. CASE BootstrapFailed(c, r)
  <2>1. /\ UNCHANGED <<log, mayMutate, page, canvas, previous, pending, drawn, revision>>
        /\ status' = status \/ status' = [status EXCEPT ![c] = "offline"]
        /\ Done(c, r)
        /\ r.kind # "batch"
    BY <1>6 DEF BootstrapFailed, Failing
  <2>2. QED
    BY <1>1, <1>2, <2>1, ReplyInv
<1>7. CASE CatchUpFailed(c, r)
  <2>1. /\ UNCHANGED <<log, mayMutate, page, canvas, previous, pending, drawn, revision, status>>
        /\ Done(c, r)
        /\ r.kind = "catchUp"
    BY <1>7 DEF CatchUpFailed, bounds
  <2>2. QED
    BY <1>1, <1>2, <2>1, ReplyInv
<1>8. CASE DetachedLost(c, r)
  <2>1. /\ UNCHANGED <<log, mayMutate, page, canvas, previous, pending, drawn, revision, status>>
        /\ Done(c, r)
        /\ r.detached
    BY <1>8 DEF DetachedLost, bounds
  <2>2. QED
    BY <1>1, <1>2, <2>1, ReplyInv
<1>9. QED
  BY <1>3, <1>4, <1>5, <1>6, <1>7, <1>8

\* goOfflineAndRetry: the deltas of a lost batch are queued again.
LEMMA BatchFailedInv ==
  ASSUME SyncInv, NEW c \in Clients, NEW r \in DOMAIN requests[c], BatchFailed(c, r)
  PROVE  SyncInv'
<1>1. /\ UNCHANGED <<log, mayMutate, page, canvas, previous, revision, drawn>>
      /\ pending' = [pending EXCEPT ![c] = Enqueued(pending[c], r.deltas)]
      /\ status' = [status EXCEPT ![c] = "offline"]
      /\ Done(c, r)
  BY DEF BatchFailed, Failing
<1>2. pending[c] \in Scenes /\ r.deltas \in Scenes
  BY DEF SyncInv, ClientOK, RequestOK, Request
<1>3. /\ Enqueued(pending[c], r.deltas) \in Scenes
      /\ \A e \in Elements : Present(pending[c][e]) \/ Present(r.deltas[e])
                               => Present(Enqueued(pending[c], r.deltas)[e])
  BY <1>2, EnqueuedFacts
<1>4. /\ PerClient(requests)'
      /\ DOMAIN requests'[c] \subseteq DOMAIN requests[c]
      /\ DOMAIN requests[c] \ {r} \subseteq DOMAIN requests'[c]
      /\ \A d \in Clients \ {c} : requests'[d] = requests[d]
  BY <1>1, DoneFacts DEF SyncInv, Shape
<1>5. /\ PerClient(pending)' /\ pending'[c] = Enqueued(pending[c], r.deltas)
      /\ \A d \in Clients \ {c} : pending'[d] = pending[d]
  BY <1>1 DEF SyncInv, Shape, PerClient
<1>6. Shape'
  BY <1>1, <1>4, <1>5 DEF SyncInv, Shape
<1>7. \A q \in DOMAIN requests'[c] : RequestOK(c, q)'
  BY <1>1, <1>4, SameLog DEF SyncInv, ClientOK
<1>8. NothingLost(c)'
  <2>1. \A e \in Elements : Kept(c, e) => Kept(c, e)'
    BY <1>1, <1>3, <1>4, <1>5, KeptAfter
  <2>2. QED
    BY <1>1, <2>1 DEF SyncInv, ClientOK, NothingLost
<1>9. ClientOK(c)'
  BY <1>1, <1>3, <1>5, <1>7, <1>8, SameLog DEF SyncInv, ClientOK
<1>10. QED
  BY <1>1, <1>4, <1>5, <1>6, <1>9, PageStep

\* The refetched scene is painted: it holds what was known and what is stored.
LEMMA RefreshedInv ==
  ASSUME SyncInv, NEW c \in Clients, NEW r \in DOMAIN requests[c], Refreshed(c, r)
  PROVE  SyncInv'
<1> DEFINE next == MergeScene(previous[c], SceneAt(log, r.revision))
<1>1. /\ UNCHANGED <<log, mayMutate, page, drawn>>
      /\ revision' = [revision EXCEPT ![c] = r.revision]
      /\ status' = [status EXCEPT ![c] = "saved"]
      /\ OnChange(c, next)
      /\ Done(c, r)
      /\ r.kind = "refresh"
  BY DEF Refreshed, Answered, bounds
<1>2. /\ r.revision \in 0..Len(log) /\ r.deltas = EmptyScene
      /\ previous[c] \in Scenes /\ pending[c] \in Scenes
  BY <1>1 DEF SyncInv, ClientOK, RequestOK, Request, LogOK
<1>3. /\ SceneAt(log, r.revision) \in Scenes
      /\ \A e \in Elements : Present(SceneAt(log, r.revision)[e]) => Logged(e)
  BY <1>2, SceneAtFacts DEF SyncInv
<1>4. /\ next \in Scenes
      /\ \A e \in Elements : Present(next[e]) => Present(previous[c][e]) \/ Logged(e)
  BY <1>2, <1>3, MergeFacts
<1> HIDE DEF next
<1>5. /\ PerClient(canvas)' /\ PerClient(previous)' /\ PerClient(pending)'
      /\ \A d \in Clients \ {c} : /\ canvas'[d] = canvas[d]
                                  /\ previous'[d] = previous[d]
                                  /\ pending'[d] = pending[d]
      /\ canvas'[c] = next
      /\ previous'[c] \in {next, previous[c]}
      /\ pending'[c] \in Scenes
      /\ \A e \in Elements : Present(pending[c][e]) => Present(pending'[c][e])
  BY <1>1, <1>2, <1>4, OnChangeFacts DEF SyncInv
<1>6. /\ PerClient(requests)'
      /\ DOMAIN requests'[c] \subseteq DOMAIN requests[c]
      /\ DOMAIN requests[c] \ {r} \subseteq DOMAIN requests'[c]
      /\ \A d \in Clients \ {c} : requests'[d] = requests[d]
  BY <1>1, DoneFacts DEF SyncInv, Shape
<1>7. /\ PerClient(revision)' /\ revision'[c] = r.revision
      /\ \A d \in Clients \ {c} : revision'[d] = revision[d]
  BY <1>1 DEF SyncInv, Shape, PerClient
<1>8. Shape'
  BY <1>1, <1>5, <1>6, <1>7 DEF SyncInv, Shape
<1>9. \A q \in DOMAIN requests'[c] : RequestOK(c, q)'
  BY <1>1, <1>6, SameLog DEF SyncInv, ClientOK
<1>10. NothingLost(c)'
  <2>1. \A e \in Elements : Kept(c, e) => Kept(c, e)'
    BY <1>1, <1>2, <1>5, <1>6, EmptyFacts, KeptAfter
  <2>2. SUFFICES ASSUME page[c] = "open", mayMutate[c], NEW e \in Elements,
                        Present(next[e]) \/ Present(previous[c][e])
                 PROVE  Kept(c, e)'
    BY <1>1, <1>5 DEF NothingLost
  <2>3. Logged(e) \/ Present(previous[c][e])
    BY <1>4, <2>2
  <2>4. CASE Logged(e)
    BY <1>1, <2>4, SameLog DEF Kept
  <2>5. CASE Present(previous[c][e])
    <3>1. Kept(c, e)
      BY <2>2, <2>5 DEF SyncInv, ClientOK, NothingLost
    <3>2. QED
      BY <2>1, <3>1
  <2>6. QED
    BY <2>3, <2>4, <2>5
<1>11. ClientOK(c)'
  BY <1>1, <1>2, <1>4, <1>5, <1>7, <1>9, <1>10, SameLog DEF SyncInv, ClientOK
<1>12. QED
  BY <1>1, <1>5, <1>6, <1>7, <1>8, <1>11, PageStep
----------------------------------------------------------------------------
(* The server.                                                             *)

\* The server moves a request on: it carries what it carried, and the log is
\* what it was or longer.
LEMMA MoveInv ==
  ASSUME SyncInv, NEW c \in Clients, NEW r \in DOMAIN requests[c], NEW s,
         Becomes(c, r, s),
         UNCHANGED <<mayMutate, page, canvas, previous, pending, revision, status, drawn>>,
         LogOK', Len(log) <= Len(log'), \A e \in Elements : Logged(e) => Logged(e)',
         RequestOK(c, s)', s.deltas = r.deltas, s.detached = r.detached
  PROVE  SyncInv'
<1>1. Len(log) \in Nat /\ Len(log') \in Nat
  BY DEF SyncInv, LogOK
<1>2. /\ PerClient(requests)'
      /\ DOMAIN requests'[c] \subseteq DOMAIN requests[c] \cup {s}
      /\ (DOMAIN requests[c] \ {r}) \cup {s} \subseteq DOMAIN requests'[c]
      /\ \A d \in Clients \ {c} : requests'[d] = requests[d]
  BY BecomesFacts DEF SyncInv, Shape
<1>3. Shape'
  BY <1>2 DEF SyncInv, Shape, PerClient
<1>4. ASSUME NEW d \in Clients \ {c} PROVE ClientOK(d)'
  <2>1. ClientOK(d) /\ requests'[d] = requests[d]
    BY <1>2 DEF SyncInv
  <2>2. QED
    BY <1>1, <2>1, OtherKept
<1>5. \A q \in DOMAIN requests'[c] : RequestOK(c, q)'
  <2>1. ASSUME NEW q \in DOMAIN requests[c] PROVE RequestOK(c, q)'
    <3>1. RequestOK(c, q)
      BY DEF SyncInv, ClientOK
    <3>2. QED
      BY <1>1, <3>1, RequestKept
  <2>2. QED
    BY <1>2, <2>1
<1>6. \A e \in Elements : Kept(c, e) => Kept(c, e)'
  BY <1>2 DEF Kept
<1>7. NothingLost(c)'
  BY <1>6 DEF SyncInv, ClientOK, NothingLost
<1>8. revision'[c] \in 0..Len(log')
  BY <1>1 DEF SyncInv, ClientOK
<1>9. ClientOK(c)'
  BY <1>5, <1>7, <1>8 DEF SyncInv, ClientOK
<1>10. QED
  BY <1>3, <1>4, <1>9 DEF SyncInv

\* operations:batch: the append, or 403.
LEMMA ServerAppendInv ==
  ASSUME SyncInv, NEW c \in Clients, NEW r \in DOMAIN requests[c], ServerAppend(c, r)
  PROVE  SyncInv'
<1>1. RequestOK(c, r) /\ LogOK
  BY DEF SyncInv, ClientOK
<1>2. /\ r \in Request /\ r.deltas \in Scenes /\ r.revision \in Nat /\ r.revision <= Len(log)
      /\ r.kind = "batch" /\ HasDeltas(r.deltas)
  BY <1>1 DEF RequestOK, Request, ServerAppend
<1>3. UNCHANGED <<mayMutate, page, canvas, previous, pending, revision, status, drawn>>
  BY DEF ServerAppend, bounds
<1>4. CASE mayMutate[c] /\ log' = AppendOperation(log, r.deltas)
           /\ Becomes(c, r, [r EXCEPT !.phase = "logged"])
  <2> DEFINE s == [r EXCEPT !.phase = "logged"]
  <2>1. /\ s \in Request /\ s.kind = r.kind /\ s.phase = "logged" /\ s.deltas = r.deltas
        /\ s.detached = r.detached /\ s.revision = r.revision
    BY <1>2 DEF Request
  <2>2. Becomes(c, r, s)
    BY <1>4
  <2> HIDE DEF s
  <2>3. log' = AppendOperation(log, r.deltas)
    BY <1>4
  <2>4. /\ LogOK' /\ Len(log') = Len(log) + 1 /\ Len(log) \in Nat
        /\ \A e \in Elements : Logged(e) \/ Present(r.deltas[e]) => Logged(e)'
    BY <1>1, <1>2, <2>3, AppendFacts
  <2>5. RequestOK(c, s)'
    <3>1. s.revision <= Len(log')
      BY <1>2, <2>1, <2>4
    <3>2. QED
      BY <1>2, <2>1, <2>4, <3>1 DEF RequestOK
  <2>6. Len(log) <= Len(log') /\ \A e \in Elements : Logged(e) => Logged(e)'
    BY <2>4
  <2>7. QED
    BY <1>3, <2>1, <2>2, <2>4, <2>5, <2>6, MoveInv
<1>5. CASE ~mayMutate[c] /\ UNCHANGED log
           /\ Becomes(c, r, [r EXCEPT !.phase = "forbidden"])
  <2> DEFINE s == [r EXCEPT !.phase = "forbidden"]
  <2>1. /\ s \in Request /\ s.kind = r.kind /\ s.phase = "forbidden" /\ s.deltas = r.deltas
        /\ s.detached = r.detached /\ s.revision = r.revision
    BY <1>2 DEF Request
  <2>2. Becomes(c, r, s)
    BY <1>5
  <2> HIDE DEF s
  <2>3. RequestOK(c, s)
    BY <1>2, <1>5, <2>1 DEF RequestOK
  <2>4. UNCHANGED <<log, mayMutate>>
    BY <1>3, <1>5
  <2>5. RequestOK(c, s)' /\ (\A e \in Elements : Logged(e) => Logged(e)') /\ Len(log') = Len(log)
    BY <2>3, <2>4, SameLog
  <2>6. LogOK' /\ Len(log) <= Len(log')
    BY <1>1, <2>4, <2>5 DEF LogOK, Logged
  <2>7. QED
    BY <1>3, <2>1, <2>2, <2>5, <2>6, MoveInv
<1>6. QED
  BY <1>4, <1>5 DEF ServerAppend

\* The reply, with the head of the log at that time.
LEMMA ServerAnswerInv ==
  ASSUME SyncInv, NEW c \in Clients, NEW r \in DOMAIN requests[c], ServerAnswer(c, r)
  PROVE  SyncInv'
<1>1. RequestOK(c, r) /\ LogOK /\ Len(log) \in Nat
  BY DEF SyncInv, ClientOK, LogOK
<1>2. PICK n \in Nat, missed \in BOOLEAN, allowed \in BOOLEAN :
        /\ n = Len(log)
        /\ Becomes(c, r, [r EXCEPT !.phase = "answered", !.base = 0, !.revision = n,
                                   !.missed = missed, !.allowed = allowed])
  <2>1. MissedBy(r.kind, r.base, Len(log)) \in BOOLEAN
        /\ (r.kind = "open" => mayMutate[c]) \in BOOLEAN
    BY DEF MissedBy
  <2>2. QED
    BY <1>1, <2>1 DEF ServerAnswer
<1>3. /\ UNCHANGED <<log, mayMutate, page, canvas, previous, pending, revision, status, drawn>>
      /\ r.phase = IF r.kind = "batch" THEN "logged" ELSE "sent"
  BY DEF ServerAnswer, bounds
<1> DEFINE s == [r EXCEPT !.phase = "answered", !.base = 0, !.revision = n,
                          !.missed = missed, !.allowed = allowed]
<1>4. /\ s \in Request /\ s.kind = r.kind /\ s.phase = "answered" /\ s.deltas = r.deltas
      /\ s.detached = r.detached /\ s.revision = n
  BY <1>1 DEF RequestOK, Request
<1>5. Becomes(c, r, s)
  BY <1>2
<1> HIDE DEF s
<1>6. RequestOK(c, s)
  BY <1>1, <1>2, <1>3, <1>4, EmptyFacts DEF RequestOK
<1>7. RequestOK(c, s)' /\ (\A e \in Elements : Logged(e) => Logged(e)') /\ Len(log') = Len(log)
  BY <1>3, <1>6, SameLog
<1>8. LogOK' /\ Len(log) <= Len(log')
  BY <1>1, <1>3, <1>7 DEF LogOK, Logged
<1>9. QED
  BY <1>3, <1>4, <1>5, <1>7, <1>8, MoveInv

\* A user loses the role that lets them write.
LEMMA RevokeInv ==
  ASSUME SyncInv, NEW c \in Clients, Revoke(c)
  PROVE  SyncInv'
<1>1. /\ mayMutate' = [mayMutate EXCEPT ![c] = FALSE]
      /\ UNCHANGED <<log, page, canvas, previous, pending, revision, status, requests, drawn>>
  BY DEF Revoke, pageVars
<1>2. mayMutate' \in [Clients -> BOOLEAN]
      /\ \A d \in Clients : mayMutate'[d] => mayMutate[d]
  BY <1>1 DEF SyncInv, Shape
<1>3. Shape'
  BY <1>1, <1>2 DEF SyncInv, Shape, PerClient
<1>4. LogOK' /\ Len(log) \in Nat /\ Len(log') \in Nat /\ Len(log) <= Len(log')
      /\ \A e \in Elements : Logged(e) => Logged(e)'
  BY <1>1 DEF SyncInv, LogOK, Logged
<1>5. ASSUME NEW d \in Clients PROVE ClientOK(d)'
  BY <1>1, <1>2, <1>4, OtherKept DEF SyncInv
<1>6. QED
  BY <1>3, <1>4, <1>5 DEF SyncInv

----------------------------------------------------------------------------
(* The specification.                                                      *)

\* An empty diagram, or one with an element of every id; nothing open.
LEMMA InitInv == Init => SyncInv
<1> SUFFICES ASSUME Init PROVE SyncInv
  OBVIOUS
<1> DEFINE full == [e \in Elements |->
                      [version |-> 1, versionNonce |-> 0, isDeleted |-> FALSE]]
<1>1. Shape
  BY DEF Init, Shape, PerClient
<1>2. LogOK /\ Len(log) \in Nat
  <2>1. CASE log = << >>
    BY <2>1 DEF LogOK
  <2>2. CASE log = AppendOperation(<< >>, full)
    <3>1. full \in Scenes /\ \A e \in Elements : Present(full[e])
      BY DEF Scenes, Stamp, Present
    <3> HIDE DEF full
    <3> DEFINE op == [deltas |-> full, scene |-> ReconcileOperation(EmptyScene, full)]
    <3>2. ReconcileOperation(EmptyScene, full) \in Scenes
      BY <3>1, EmptyFacts, ReconcileFacts
    <3>3. op \in Operation /\ op.deltas = full
      BY <3>1, <3>2 DEF Operation, Scenes
    <3>4. log = Append(<< >>, op)
      BY <2>2 DEF AppendOperation, SceneAt
    <3> HIDE DEF op
    <3>5. log \in Seq(Operation) /\ DOMAIN log = 1..1 /\ log[1] = op /\ Len(log) = 1
      BY <3>3, <3>4
    <3>6. HasDeltas(full) /\ \A e \in Elements : Logged(e)
      BY <3>1, <3>3, <3>5, ElementsAssumption DEF HasDeltas, Logged
    <3>7. QED
      BY <3>3, <3>5, <3>6 DEF LogOK
  <2>3. QED
    BY <2>1, <2>2 DEF Init, InitialLogs
<1>3. ASSUME NEW c \in Clients PROVE ClientOK(c)
  <2>1. /\ canvas[c] = EmptyScene /\ previous[c] = EmptyScene /\ pending[c] = EmptyScene
        /\ revision[c] = 0 /\ requests[c] = EmptyBag /\ page[c] = "closed"
    BY DEF Init
  <2>2. QED
    BY <1>2, <2>1, EmptyFacts, EmptyDomain DEF ClientOK, NothingLost
<1>4. QED
  BY <1>1, <1>2, <1>3 DEF SyncInv

\* Every step keeps the invariant.
LEMMA StepInv == SyncInv /\ [Next]_vars => SyncInv'
<1> SUFFICES ASSUME SyncInv, [Next]_vars PROVE SyncInv'
  OBVIOUS
<1>1. CASE UNCHANGED vars
  <2>1. UNCHANGED <<log, mayMutate, page, canvas, previous, pending, revision, status,
                    requests, drawn>>
    BY <1>1 DEF vars, pageVars, bounds
  <2>2. LogOK' /\ Len(log) \in Nat /\ Len(log') \in Nat /\ Len(log) <= Len(log')
        /\ \A e \in Elements : Logged(e) => Logged(e)'
    BY <2>1 DEF SyncInv, LogOK, Logged
  <2>3. Shape'
    BY <2>1 DEF SyncInv, Shape, PerClient
  <2>4. ASSUME NEW d \in Clients PROVE ClientOK(d)'
    BY <2>1, <2>2, OtherKept DEF SyncInv
  <2>5. QED
    BY <2>2, <2>3, <2>4 DEF SyncInv
<1>2. CASE Progress
  <2>1. PICK c \in Clients :
          \/ Flush(c)
          \/ \E r \in DOMAIN requests[c] : Deliver(c, r) \/ Lose(c, r)
    BY <1>2 DEF Progress
  <2>2. CASE Flush(c)
    BY <2>2, FlushInv
  <2>3. CASE \E r \in DOMAIN requests[c] : Deliver(c, r) \/ Lose(c, r)
    <3>1. PICK r \in DOMAIN requests[c] : Deliver(c, r) \/ Lose(c, r)
      BY <2>3
    <3>2. CASE ServerAppend(c, r)
      BY <3>2, ServerAppendInv
    <3>3. CASE ServerAnswer(c, r)
      BY <3>3, ServerAnswerInv
    <3>4. CASE Opened(c, r)
      BY <3>4, OpenedInv
    <3>5. CASE Refreshed(c, r)
      BY <3>5, RefreshedInv
    <3>6. CASE BatchFailed(c, r)
      BY <3>6, BatchFailedInv
    <3>7. CASE \/ BatchAcked(c, r) \/ BatchForbidden(c, r) \/ CatchUpDone(c, r)
               \/ BootstrapFailed(c, r) \/ CatchUpFailed(c, r) \/ DetachedLost(c, r)
      BY <3>7, RepliesInv
    <3>8. QED
      BY <3>1, <3>2, <3>3, <3>4, <3>5, <3>6, <3>7 DEF Deliver, Lose
  <2>4. QED
    BY <2>1, <2>2, <2>3
<1>3. CASE Environment
  <2>1. PICK c \in Clients :
          \/ Open(c) \/ Reconnect(c) \/ Navigate(c) \/ CloseTab(c) \/ Revoke(c)
          \/ \E e \in Elements, n \in Nonces, d \in BOOLEAN : Edit(c, e, n, d)
    BY <1>3 DEF Environment
  <2>2. CASE Open(c) \/ Reconnect(c)
    BY <2>2, AskInv
  <2>3. CASE Navigate(c) \/ CloseTab(c)
    BY <2>3, LeaveInv
  <2>4. CASE Revoke(c)
    BY <2>4, RevokeInv
  <2>5. CASE \E e \in Elements, n \in Nonces, d \in BOOLEAN : Edit(c, e, n, d)
    BY <2>5, EditInv
  <2>6. QED
    BY <2>1, <2>2, <2>3, <2>4, <2>5
<1>4. QED
  BY <1>1, <1>2, <1>3 DEF Next

\* The invariant holds throughout every behaviour.
LEMMA AlwaysInv == Spec => []SyncInv
BY InitInv, StepInv, PTL DEF Spec

\* The shape of the state: no stored operation is empty, and no client, however
\* its replies overtake each other, believes in a revision that the server has
\* not reached.
THEOREM TypeCorrect == Spec => []TypeOK
<1>1. SyncInv => TypeOK
  <2> SUFFICES ASSUME SyncInv PROVE TypeOK
    OBVIOUS
  <2>1. \A k \in DOMAIN log : log[k] \in Operation /\ HasDeltas(log[k].deltas)
    BY DEF SyncInv, LogOK
  <2>2. ASSUME NEW c \in Clients PROVE BagToSet(requests[c]) \subseteq Request
    BY DEF SyncInv, ClientOK, RequestOK, BagToSet
  <2>3. QED
    BY <2>1, <2>2 DEF SyncInv, Shape, ClientOK, TypeOK
<1>2. QED
  BY <1>1, AlwaysInv, PTL

\* REC-01 and REC-03: what an editor draws is never dropped unseen, through lost
\* requests, lost replies, overtaking batches and refreshes.
THEOREM EditsAreKept == Spec => []NoElementForgotten
<1>1. SyncInv => NoElementForgotten
  BY DEF SyncInv, ClientOK, NothingLost, Kept, Logged, NoElementForgotten
<1>2. QED
  BY <1>1, AlwaysInv, PTL

\* Only the server appends, one batch at a time.
LEMMA LogSteps ==
  ASSUME SyncInv, Next
  PROVE  \/ UNCHANGED log
         \/ \E d \in Scenes : HasDeltas(d) /\ log' = AppendOperation(log, d)
<1>1. ASSUME NEW c \in Clients, NEW r \in DOMAIN requests[c], ServerAppend(c, r)
      PROVE  \/ UNCHANGED log
             \/ \E d \in Scenes : HasDeltas(d) /\ log' = AppendOperation(log, d)
  <2>1. RequestOK(c, r)
    BY DEF SyncInv, ClientOK
  <2>2. HasDeltas(r.deltas) /\ r.deltas \in Scenes
    BY <1>1, <2>1 DEF RequestOK, Request, ServerAppend
  <2>3. QED
    BY <1>1, <2>2 DEF ServerAppend
<1>2. ASSUME Progress
      PROVE  \/ UNCHANGED log
             \/ \E c \in Clients : \E r \in DOMAIN requests[c] : ServerAppend(c, r)
  <2>1. ASSUME NEW c \in Clients, NEW r, Deliver(c, r) \/ Lose(c, r)
        PROVE  ServerAppend(c, r) \/ UNCHANGED log
    BY <2>1 DEF Deliver, Lose, ServerAnswer, Opened, BatchAcked, BatchForbidden,
                CatchUpDone, Refreshed, DetachedLost, BatchFailed, BootstrapFailed,
                CatchUpFailed, Failing
  <2>2. ASSUME NEW c \in Clients, Flush(c) PROVE UNCHANGED log
    BY <2>2 DEF Flush
  <2>3. QED
    BY <1>2, <2>1, <2>2 DEF Progress
<1>3. ASSUME Environment PROVE UNCHANGED log
  BY <1>3 DEF Environment, Open, Edit, Reconnect, Navigate, CloseTab, Discard, Revoke
<1>4. QED
  BY <1>1, <1>2, <1>3 DEF Next

\* REC-02: whatever is resent, echoed or overtaken, the stored scene changes an
\* element only to a version that wins over the one it held.
THEOREM NothingStepsBack == Spec => NeverOverNewer
<1>1. SyncInv /\ [Next]_vars =>
        [\A e \in Elements :
           \/ SceneAt(log', Len(log'))[e] = ServerScene[e]
           \/ ~Present(ServerScene[e])
           \/ RemoteWins(ServerScene[e], SceneAt(log', Len(log'))[e])]_vars
  <2> SUFFICES ASSUME SyncInv, Next, NEW e \in Elements
               PROVE  \/ SceneAt(log', Len(log'))[e] = ServerScene[e]
                      \/ ~Present(ServerScene[e])
                      \/ RemoteWins(ServerScene[e], SceneAt(log', Len(log'))[e])
    OBVIOUS
  <2>1. CASE UNCHANGED log
    BY <2>1 DEF ServerScene
  <2>2. CASE \E d \in Scenes : HasDeltas(d) /\ log' = AppendOperation(log, d)
    <3>1. PICK d \in Scenes : HasDeltas(d) /\ log' = AppendOperation(log, d)
      BY <2>2
    <3>2. LogOK /\ Len(log) \in Nat
      BY DEF SyncInv, LogOK
    <3>3. /\ Len(log') = Len(log) + 1
          /\ log'[Len(log')].scene = ReconcileOperation(SceneAt(log, Len(log)), d)
      BY <3>1, <3>2, AppendFacts
    <3>4. SceneAt(log', Len(log')) = ReconcileOperation(ServerScene, d)
      BY <3>2, <3>3 DEF SceneAt, ServerScene
    <3>5. ServerScene \in Scenes
      BY <3>2, SceneAtFacts DEF ServerScene
    <3>6. QED
      BY <3>4, <3>5, ReconcileFacts
  <2>3. QED
    BY <2>1, <2>2, LogSteps
<1>2. QED
  BY <1>1, AlwaysInv, PTL DEF Spec, NeverOverNewer
============================================================================
