----------------------------- MODULE Snapshots -----------------------------
(***************************************************************************)
(* The history of one diagram: snapshots and restores, interleaved with    *)
(* the editors' operations.                                                *)
(* A snapshot is two writes to two stores, the scene to object storage and *)
(* then the row to Postgres; a restore reads both and appends an operation *)
(* built from the scene it read.  Every await of a call is a step.         *)
(*                                                                         *)
(* Operations are appended in one step: OpLog implements that.  The nonces *)
(* of one operation are one number, as nonces of different elements are    *)
(* never compared.                                                         *)
(***************************************************************************)
EXTENDS Scene

CONSTANTS Calls,         \* calls the server runs at once
          Nonces,        \* the versionNonces there are: a bound on operations
          MaxObjects,    \* bound on objects put into storage
          MaxLag         \* bound on how many revisions an editor is behind

ASSUME NoncesAssumption == Nonces \subseteq Nat

VARIABLES
  log,        \* the operations of the diagram
  snapshots,  \* rows of diagram_snapshots
  objects,    \* objects[id]: the scene stored for snapshot id
  drawn,      \* the versionNonces drawn so far
  call        \* call[p]: the call that slot p runs, with its locals

historyVars == <<log, snapshots, objects, drawn, call>>

Scenes == [Elements -> Stamp]

\* preAi is kind = 'pre_ai'; the other kinds are not told apart.
Snapshot == [id: Nat, revision: Nat, preAi: BOOLEAN]

\* What a call waits for next.
Steps == {"idle", "materialize", "put", "insert", "current",
          "append", "pipeline", "load", "applying", "finish", "cancel"}

\* scene is what the call read, at revision; target what a restore reads from
\* storage; after is the step that follows createSnapshot.
Call == [step: Steps, after: Steps, preAi: BOOLEAN, id: Nat, revision: Nat,
         scene: Scenes, target: Scenes]

NoCall == [step |-> "idle", after |-> "idle", preAi |-> FALSE, id |-> 0,
           revision |-> 0, scene |-> EmptyScene, target |-> EmptyScene]

\* A new diagram, or one that holds an element of every id.
InitialLogs ==
  {<< >>, AppendOperation(<< >>, [e \in Elements |->
     [version |-> 1, versionNonce |-> 0, isDeleted |-> FALSE]])}

Init ==
  /\ log \in InitialLogs
  /\ snapshots = {}
  /\ objects = << >>
  /\ drawn = {}
  /\ call = [p \in Calls |-> NoCall]

----------------------------------------------------------------------------
CurrentRevision == Len(log)

CurrentScene == SceneAt(log, Len(log))

At(p, step) == call[p].step = step

Set(p, c) == call' = [call EXCEPT ![p] = c]

Goto(p, step) == Set(p, [call[p] EXCEPT !.step = step])

\* The call is over; its locals are gone.
Return(p) == Set(p, NoCall)

\* An operation is appended with a nonce nobody drew before.
Append1(nonce, deltas) ==
  /\ nonce \notin drawn
  /\ drawn' = drawn \cup {nonce}
  /\ log' = AppendOperation(log, deltas)

Delta(version, nonce, deleted) ==
  [version |-> version, versionNonce |-> nonce, isDeleted |-> deleted]

----------------------------------------------------------------------------
\* The revisions an editor may be at.
Lagging == {n \in 0..CurrentRevision : n + MaxLag >= CurrentRevision}

\* A client's batch: an element as some revision had it, changed or deleted.
Edit(e, n, nonce, delete) ==
  LET old == SceneAt(log, n)[e] IN
  /\ delete => Live(old)
  /\ Append1(nonce, [EmptyScene EXCEPT ![e] =
                       Delta(old.version + 1, nonce, delete)])
  /\ UNCHANGED <<snapshots, objects, call>>

----------------------------------------------------------------------------
(* createSnapshot.                                                         *)

\* POST snapshots, or the compaction job.  (When a compaction is due is not
\* modelled: users take snapshots at any time.)
TakeSnapshot(p) ==
  /\ At(p, "idle")
  /\ Goto(p, "materialize")
  /\ UNCHANGED <<log, snapshots, objects, drawn>>

\* materializeScene: one query folds the whole log.
Materialize(p) ==
  /\ At(p, "materialize")
  /\ Set(p, [call[p] EXCEPT !.step = "put", !.scene = CurrentScene,
                            !.revision = CurrentRevision])
  /\ UNCHANGED <<log, snapshots, objects, drawn>>

\* Mutant of PutObject: the object is written from the scene as it is now.
PutObjectLate(p) ==
  /\ At(p, "put")
  /\ Len(objects) < MaxObjects
  /\ objects' = Append(objects, CurrentScene)
  /\ Set(p, [call[p] EXCEPT !.step = "insert", !.id = Len(objects) + 1,
                            !.scene = EmptyScene])
  /\ UNCHANGED <<log, snapshots, drawn>>

\* putObject under a new id.
PutObject(p) ==
  /\ At(p, "put")
  /\ Len(objects) < MaxObjects
  /\ objects' = Append(objects, call[p].scene)
  /\ Set(p, [call[p] EXCEPT !.step = "insert", !.id = Len(objects) + 1,
                            !.scene = EmptyScene])
  /\ UNCHANGED <<log, snapshots, drawn>>

\* INSERT INTO diagram_snapshots; the caller goes on or is done.
InsertSnapshot(p) ==
  LET c == call[p] IN
  /\ At(p, "insert")
  /\ snapshots' = snapshots \cup
       {[id |-> c.id, revision |-> c.revision, preAi |-> c.preAi]}
  /\ IF c.after = "idle" THEN Return(p) ELSE Goto(p, c.after)
  /\ UNCHANGED <<log, objects, drawn>>

----------------------------------------------------------------------------
(* restoreSnapshot.                                                        *)

\* The row, then the object it names.  (Neither ever changes.)
Restore(p, s) ==
  /\ At(p, "idle")
  /\ Set(p, [NoCall EXCEPT !.step = "current", !.target = objects[s.id]])
  /\ UNCHANGED <<log, snapshots, objects, drawn>>

\* The current scene, that the deltas are built against.
ReadCurrent(p) ==
  /\ At(p, "current")
  /\ Set(p, [call[p] EXCEPT !.step = "append", !.scene = CurrentScene,
                            !.revision = CurrentRevision])
  /\ UNCHANGED <<log, snapshots, objects, drawn>>

\* Mutant of RestoreDelta: an element keeps the version the snapshot has.
RestoreDeltaAsStored(current, target, nonce) ==
  IF Present(target) THEN Delta(target.version, nonce, FALSE)
  ELSE IF Live(current) THEN Delta(current.version + 1, nonce, TRUE)
  ELSE Absent

\* buildRestoreDeltas, for one element: what the target holds is upserted,
\* deleted or not, and what it does not hold is deleted.
RestoreDelta(current, target, nonce) ==
  IF Present(target)
  THEN Delta((IF Present(current) THEN current ELSE target).version + 1,
             nonce, FALSE)
  ELSE IF Live(current) THEN Delta(current.version + 1, nonce, TRUE)
  ELSE Absent

BuildRestoreDeltas(current, target, nonce) ==
  [e \in Elements |-> RestoreDelta(current[e], target[e], nonce)]

AppendRestore(p, nonce) ==
  /\ At(p, "append")
  /\ call[p].after = "idle"
  /\ Append1(nonce, BuildRestoreDeltas(call[p].scene, call[p].target, nonce))
  /\ Return(p)
  /\ UNCHANGED <<snapshots, objects>>

----------------------------------------------------------------------------
\* A query or a put fails, or the process dies in the middle of the call.
Abandon(p) ==
  /\ ~At(p, "idle")
  /\ Return(p)
  /\ UNCHANGED <<log, snapshots, objects, drawn>>

Editing ==
  \E e \in Elements, n \in Lagging, k \in Nonces, d \in BOOLEAN :
    Edit(e, n, k, d)

HistoryStep(p) ==
  \/ TakeSnapshot(p)
  \/ Materialize(p)
  \/ PutObject(p)
  \/ InsertSnapshot(p)
  \/ \E s \in snapshots : Restore(p, s)
  \/ ReadCurrent(p)
  \/ \E k \in Nonces : AppendRestore(p, k)
  \/ Abandon(p)

Next == Editing \/ \E p \in Calls : HistoryStep(p)

Spec == Init /\ [][Next]_historyVars

----------------------------------------------------------------------------
(* Properties.                                                             *)

HistoryTypeOK ==
  /\ log \in Seq(Operation)
  /\ snapshots \subseteq Snapshot
  /\ objects \in Seq(Scenes)
  /\ drawn \subseteq Nonces
  /\ call \in [Calls -> Call]

\* VER-01: a snapshot that can be listed can be restored: its object is in
\* storage, whole, and holds the scene of exactly the revision of its row,
\* whatever was appended between the read, the put and the insert and
\* whichever of them failed.
SnapshotFaithful ==
  \A s \in snapshots :
    /\ s.id \in DOMAIN objects
    /\ s.revision <= CurrentRevision
    /\ objects[s.id] = SceneAt(log, s.revision)

\* An operation touched e since call p read the scene.
Raced(p, e) ==
  \E k \in (call[p].revision + 1)..CurrentRevision : Present(log[k].deltas[e])

\* VER-02: after a restore every element alive in the snapshot is alive, and
\* every element the snapshot does not know is gone, except where an edit of
\* that element came between the read and the append.
RestoreLands ==
  [][\A p \in Calls, k \in Nonces : AppendRestore(p, k) =>
       \A e \in Elements :
         LET target == call[p].target[e]
             after  == CurrentScene'[e]
         IN  \/ Raced(p, e)
             \/ Live(target) /\ Live(after)
             \/ ~Present(target) /\ ~Live(after)
             \/ Present(target) /\ target.isDeleted]_historyVars

\* The comment of buildRestoreDeltas: the deltas bring the current scene "to
\* exactly targetScene's content", deleted elements of the target included.
RestoreExact ==
  [][\A p \in Calls, k \in Nonces : AppendRestore(p, k) =>
       \A e \in Elements :
         \/ Raced(p, e)
         \/ Live(call[p].target[e]) <=> Live(CurrentScene'[e])
    ]_historyVars
============================================================================
