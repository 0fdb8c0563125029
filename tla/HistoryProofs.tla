--------------------------- MODULE HistoryProofs ---------------------------
(***************************************************************************)
(* Proofs about the history of a diagram with AI runs, for any number of   *)
(* concurrent calls, runs, elements and operations: the invariant of the   *)
(* calls (HInv), then what rests on it, then restores.                     *)
(***************************************************************************)
EXTENDS AiRuns, TLAPS

----------------------------------------------------------------------------
(* The inductive invariant: what each call relies on at each of its steps. *)

\* Statuses a run has while its pipeline writes them, once its user may act
\* on it, and once an approval or a cancel wrote one.
PipelineStatuses == {"none", "queued", "building_context", "calling_model",
                     "validating", "previewing"}

AfterApproval == {"applying", "applied", "cancelled"}

Decidable == AfterApproval \cup {"awaiting_approval"}

\* The scene in the hands of createSnapshot is that of the revision it will
\* write into the row; after the put, the object is.
SnapshotCall(p) ==
  /\ At(p, "put") =>
       /\ call[p].revision <= Len(log)
       /\ call[p].scene = SceneAt(log, call[p].revision)
  /\ At(p, "insert") =>
       /\ call[p].revision <= Len(log)
       /\ call[p].id \in 1..Len(objects)
       /\ objects[call[p].id] = SceneAt(log, call[p].revision)

\* Only the pipeline of a run writes the statuses before the user's.
PipelineCall(p) ==
  At(p, "pipeline") =>
    /\ RunOf(p) \in Runs
    /\ call[p].after = "idle"
    /\ status[RunOf(p)] \in PipelineStatuses
    /\ call[p].revision <= Len(log)

\* A call that decides about a run.
DecidingCall(p) ==
  call[p].step \in {"load", "applying", "cancel", "finish"} =>
    /\ RunOf(p) \in Runs
    /\ status[RunOf(p)] \in Decidable
    /\ At(p, "applying") => source[RunOf(p)] <= Len(log)
    /\ At(p, "finish") => status[RunOf(p)] \in AfterApproval

\* An approval, from its status update to the append: the snapshot it takes
\* is no older than the source revision, and is there before the append.
ApprovingCall(p) ==
  call[p].after = "append" =>
    /\ RunOf(p) \in Runs
    /\ status[RunOf(p)] \in AfterApproval
    /\ call[p].preAi
    /\ call[p].step \in {"materialize", "put", "insert", "append", "finish"}
    /\ source[RunOf(p)] <= Len(log)
    /\ call[p].step \in {"put", "insert"} =>
         source[RunOf(p)] <= call[p].revision
    /\ At(p, "append") =>
         \E s \in snapshots :
           s.id = call[p].id /\ s.preAi /\ source[RunOf(p)] <= s.revision

CallInv(p) ==
  /\ call[p].after \in {"idle", "append"}
  /\ SnapshotCall(p)
  /\ PipelineCall(p)
  /\ DecidingCall(p)
  /\ ApprovingCall(p)

\* While a run is in its pipeline, no other call serves it.
OnePipeline ==
  \A p, q \in Calls : At(p, "pipeline") /\ RunOf(p) = RunOf(q) => p = q

HInv ==
  /\ AiTypeOK
  /\ SnapshotFaithful
  /\ TraceNeedsApproval
  /\ OnePipeline
  /\ \A p \in Calls : CallInv(p)

----------------------------------------------------------------------------
(* Facts about scenes and the log.                                         *)

\* Reconciling deltas with a scene gives a scene.
LEMMA ReconcileType ==
  ASSUME NEW scene \in Scenes, NEW deltas \in Scenes
  PROVE  ReconcileOperation(scene, deltas) \in Scenes
<1>1. Absent \in Stamp
  BY DEF Absent, Stamp
<1>2. ASSUME NEW e \in Elements
      PROVE  (IF Effective(scene[e], deltas[e]) THEN deltas[e] ELSE Absent)
               \in Stamp
  BY <1>1 DEF Scenes
<1>3. ASSUME NEW e \in Elements, NEW remote \in Stamp
      PROVE  MergeElement(scene[e], remote) \in Stamp
  BY DEF MergeElement, Scenes
<1> QED
  BY <1>2, <1>3 DEF ReconcileOperation, MergeScene, Scenes

\* The scene at a revision of the log is a scene.
LEMMA SceneAtType ==
  ASSUME NEW l \in Seq(Operation), NEW n \in 0..Len(l)
  PROVE  SceneAt(l, n) \in Scenes
<1>1. EmptyScene \in Scenes
  BY DEF EmptyScene, Absent, Stamp, Scenes
<1>2. CASE n = 0
  BY <1>1, <1>2 DEF SceneAt
<1>3. CASE n # 0
  <2>1. l[n] \in Operation
    BY <1>3
  <2> QED
    BY <1>3, <2>1 DEF SceneAt, Operation, Scenes
<1> QED
  BY <1>2, <1>3

\* m is l with operations appended: the scene of no revision changed.
Extends(l, m) ==
  /\ Len(l) <= Len(m)
  /\ \A n \in 0..Len(l) : SceneAt(m, n) = SceneAt(l, n)

\* Appending adds one revision and leaves the scenes of the others alone.
LEMMA AppendExtends ==
  ASSUME NEW l \in Seq(Operation), NEW deltas \in Scenes
  PROVE  /\ AppendOperation(l, deltas) \in Seq(Operation)
         /\ Len(AppendOperation(l, deltas)) = Len(l) + 1
         /\ Extends(l, AppendOperation(l, deltas))
<1> DEFINE op == [deltas |-> deltas,
                  scene |-> ReconcileOperation(SceneAt(l, Len(l)), deltas)]
<1>1. SceneAt(l, Len(l)) \in Scenes
  BY SceneAtType
<1>2. op \in Operation
  BY <1>1, ReconcileType DEF Operation, Scenes
<1>3. AppendOperation(l, deltas) = Append(l, op)
  BY DEF AppendOperation
<1> HIDE DEF op
<1>4. \A n \in 1..Len(l) : Append(l, op)[n] = l[n]
  BY <1>2
<1> QED
  BY <1>2, <1>3, <1>4 DEF Extends, SceneAt

----------------------------------------------------------------------------
(* What a step leaves alone.                                               *)

\* A step writes the run of call q only the way an approval or a cancel does.
Steady(q) ==
  RunOf(q) \in Runs =>
    /\ source'[RunOf(q)] = source[RunOf(q)]
    /\ \/ status'[RunOf(q)] = status[RunOf(q)]
       \/ /\ status[RunOf(q)] \in Decidable
          /\ status'[RunOf(q)] \in AfterApproval

\* The log and the storage only grow.
Grows ==
  /\ Extends(log, log')
  /\ Len(objects) <= Len(objects')
  /\ \A k \in 1..Len(objects) : objects'[k] = objects[k]
  /\ snapshots \subseteq snapshots'

\* A call that a step does not advance keeps what it relies on.
LEMMA FrameCall ==
  ASSUME HInv, AiTypeOK', NEW q \in Calls, Grows, Steady(q),
         call'[q] = call[q], serves'[q] = serves[q]
  PROVE  CallInv(q)'
<1>0. /\ CallInv(q)
      /\ call[q] \in Call
      /\ Len(log) \in Nat /\ Len(log') \in Nat
      /\ Len(objects) \in Nat /\ Len(objects') \in Nat
      /\ \A r \in Runs : source[r] \in Nat
  BY DEF HInv, AiTypeOK, HistoryTypeOK, CurrentRevision
<1>1. Len(log) <= Len(log')
  BY DEF Grows, Extends
<1>2. SnapshotCall(q)'
  <2>1. ASSUME At(q, "put")'
        PROVE  /\ call'[q].revision <= Len(log')
               /\ call'[q].scene = SceneAt(log', call'[q].revision)
    BY <1>0, <1>1, <2>1
    DEF CallInv, SnapshotCall, At, Grows, Extends, Call
  <2>2. ASSUME At(q, "insert")'
        PROVE  /\ call'[q].revision <= Len(log')
               /\ call'[q].id \in 1..Len(objects')
               /\ objects'[call'[q].id] = SceneAt(log', call'[q].revision)
    BY <1>0, <1>1, <2>2
    DEF CallInv, SnapshotCall, At, Grows, Extends, Call
  <2> QED
    BY <2>1, <2>2 DEF SnapshotCall
<1>3. PipelineCall(q)'
  BY <1>0, <1>1
  DEF CallInv, PipelineCall, At, RunOf, Steady, Call, Decidable,
      AfterApproval, PipelineStatuses
<1>4. DecidingCall(q)'
  BY <1>0, <1>1
  DEF CallInv, DecidingCall, At, RunOf, Steady, Decidable, AfterApproval
<1>5. ApprovingCall(q)'
  BY <1>0, <1>1
  DEF CallInv, ApprovingCall, At, RunOf, Steady, Decidable, AfterApproval,
      Grows, Call
<1> QED
  BY <1>0, <1>2, <1>3, <1>4, <1>5 DEF CallInv

\* A step of call p preserves the invariant if it preserves p's part of it.
LEMMA StepHInv ==
  ASSUME HInv, AiTypeOK', NEW p \in Calls, Grows, CallInv(p)',
         \A s \in snapshots' \ snapshots :
           /\ s.id \in 1..Len(objects')
           /\ s.revision <= Len(log')
           /\ objects'[s.id] = SceneAt(log', s.revision),
         \A q \in Calls \ {p} :
           /\ call'[q] = call[q]
           /\ serves'[q] = serves[q]
           /\ Steady(q)
           /\ At(p, "pipeline")' \/ At(q, "pipeline") =>
                RunOf(p)' # RunOf(q),
         TraceNeedsApproval'
  PROVE  HInv'
<1>1. SnapshotFaithful'
  <2> SUFFICES ASSUME NEW s \in snapshots'
               PROVE  /\ s.id \in DOMAIN objects'
                      /\ s.revision <= Len(log')
                      /\ objects'[s.id] = SceneAt(log', s.revision)
    BY DEF SnapshotFaithful, CurrentRevision
  <2>1. /\ Len(log) \in Nat /\ Len(log') \in Nat
        /\ DOMAIN objects = 1..Len(objects)
        /\ DOMAIN objects' = 1..Len(objects')
        /\ Len(objects) \in Nat /\ Len(objects') \in Nat
        /\ s.revision \in Nat /\ s.id \in Nat
    BY DEF HInv, AiTypeOK, HistoryTypeOK, Snapshot
  <2>2. CASE s \in snapshots
    <3>1. /\ s.id \in 1..Len(objects)
          /\ s.revision <= Len(log)
          /\ objects[s.id] = SceneAt(log, s.revision)
      BY <2>1, <2>2 DEF HInv, SnapshotFaithful, CurrentRevision
    <3> QED
      BY <2>1, <3>1 DEF Grows, Extends
  <2> QED
    BY <2>1, <2>2
<1>2. OnePipeline'
  BY DEF HInv, OnePipeline, At, RunOf
<1>3. \A q \in Calls : CallInv(q)'
  BY FrameCall
<1> QED
  BY <1>1, <1>2, <1>3 DEF HInv


----------------------------------------------------------------------------
(* Types.                                                                  *)

\* The constants of the state have their types.
LEMMA BasicTypes ==
  /\ Absent \in Stamp
  /\ EmptyScene \in Scenes
  /\ NoCall \in Call
  /\ \A v, k \in Nat, d \in BOOLEAN : Delta(v, k, d) \in Stamp
<1>1. Absent \in Stamp
  BY DEF Absent, Stamp
<1>2. EmptyScene \in Scenes
  BY <1>1 DEF EmptyScene, Scenes
<1>3. NoCall \in Call
  BY <1>2 DEF NoCall, Call, Steps
<1>4. \A v, k \in Nat, d \in BOOLEAN : Delta(v, k, d) \in Stamp
  BY DEF Delta, Stamp
<1> QED
  BY <1>1, <1>2, <1>3, <1>4

\* A call that is over relies on nothing.
LEMMA NoCallInv ==
  ASSUME NEW p \in Calls, call'[p] = NoCall
  PROVE  CallInv(p)' /\ ~At(p, "pipeline")'
BY DEF NoCall, CallInv, SnapshotCall, PipelineCall, DecidingCall,
       ApprovingCall, At

\* A step that neither appends nor puts an object.
LEMMA KeepsGrows ==
  ASSUME HInv, log' = log, objects' = objects, snapshots \subseteq snapshots'
  PROVE  Grows
BY DEF HInv, AiTypeOK, HistoryTypeOK, Grows, Extends

----------------------------------------------------------------------------
(* Steps of the history: each action preserves the invariant.              *)

\* What such a step does to the runs.
LEMMA OtherFrame ==
  ASSUME HInv, NEW p \in Calls, OtherStep(p), NEW c \in Call, Set(p, c)
  PROVE  /\ call' \in [Calls -> Call]
         /\ call'[p] = c
         /\ serves' \in [Calls -> [run: Runs \cup {NoRun},
                                   patch: Patches \cup {NoPatch}]]
         /\ \A q \in Calls \ {p} : call'[q] = call[q] /\ serves'[q] = serves[q]
         /\ serves'[p] \in {serves[p], NoService}
         /\ c # NoCall => serves'[p] = serves[p]
<1>1. /\ call \in [Calls -> Call]
      /\ serves \in [Calls -> [run: Runs \cup {NoRun},
                               patch: Patches \cup {NoPatch}]]
  BY DEF HInv, AiTypeOK, HistoryTypeOK
<1>2. NoService \in [run: Runs \cup {NoRun}, patch: Patches \cup {NoPatch}]
  BY DEF NoService
<1>3. /\ call' \in [Calls -> Call]
      /\ call'[p] = c
      /\ \A q \in Calls \ {p} : call'[q] = call[q]
  BY <1>1 DEF Set
<1>4. serves' = IF c = NoCall THEN [serves EXCEPT ![p] = NoService] ELSE serves
  BY <1>3 DEF OtherStep
<1>5. CASE c = NoCall
  BY <1>1, <1>2, <1>3, <1>4, <1>5
<1>6. CASE c # NoCall
  BY <1>1, <1>3, <1>4, <1>6
<1> QED
  BY <1>5, <1>6

\* The frame of a call that serves no run: what is left to show is its own part.
LEMMA OtherHInv ==
  ASSUME HInv, NEW p \in Calls, OtherStep(p), NEW c \in Call, Set(p, c),
         log' \in Seq(Operation), snapshots' \subseteq Snapshot,
         objects' \in Seq(Scenes), drawn' \subseteq Nonces,
         Grows, CallInv(p)', c.step # "pipeline",
         \A s \in snapshots' \ snapshots :
           /\ s.id \in 1..Len(objects')
           /\ s.revision <= Len(log')
           /\ objects'[s.id] = SceneAt(log', s.revision)
  PROVE  HInv'
<1>0. UNCHANGED <<status, source, store, patched>>
  BY DEF OtherStep
<1>1. /\ call' \in [Calls -> Call]
      /\ call'[p] = c
      /\ serves' \in [Calls -> [run: Runs \cup {NoRun},
                                patch: Patches \cup {NoPatch}]]
      /\ \A q \in Calls \ {p} : call'[q] = call[q] /\ serves'[q] = serves[q]
      /\ serves'[p] \in {serves[p], NoService}
  BY OtherFrame
<1>2. AiTypeOK'
  <2>1. Len(log) \in Nat /\ Len(log') \in Nat /\ Len(log) <= Len(log')
    BY DEF HInv, AiTypeOK, HistoryTypeOK, Grows, Extends
  <2>2. source' \in [Runs -> 0..Len(log')]
    BY <1>0, <2>1 DEF HInv, AiTypeOK, CurrentRevision
  <2>3. patched' \in [Runs -> SUBSET DOMAIN log']
    <3>1. DOMAIN log = 1..Len(log) /\ DOMAIN log' = 1..Len(log')
      BY DEF HInv, AiTypeOK, HistoryTypeOK
    <3>2. DOMAIN log \subseteq DOMAIN log'
      BY <2>1, <3>1
    <3> QED
      BY <1>0, <3>2 DEF HInv, AiTypeOK
  <2> QED
    BY <1>0, <1>1, <2>2, <2>3
    DEF HInv, AiTypeOK, HistoryTypeOK, CurrentRevision
<1>3. TraceNeedsApproval'
  BY <1>0 DEF HInv, TraceNeedsApproval
<1>4. ~At(p, "pipeline")'
  BY <1>1 DEF At
<1>5. ASSUME NEW q \in Calls \ {p}
      PROVE  /\ Steady(q)
             /\ At(q, "pipeline") => RunOf(p)' # RunOf(q)
  <2>1. Steady(q)
    BY <1>0 DEF Steady
  <2>2. ASSUME At(q, "pipeline")
        PROVE  RunOf(p)' # RunOf(q)
    <3>1. RunOf(q) \in Runs /\ RunOf(p) # RunOf(q)
      BY <2>2 DEF HInv, CallInv, PipelineCall, OnePipeline
    <3>2. RunOf(p)' \in {RunOf(p), NoRun}
      BY <1>1 DEF RunOf, NoService
    <3> QED
      BY <3>1, <3>2, NoRunAssumption
  <2> QED
    BY <2>1, <2>2
<1> QED
  BY <1>1, <1>2, <1>3, <1>4, <1>5, StepHInv

\* The parts of the type invariant that the steps below use.
LEMMA CallTypes ==
  ASSUME HInv
  PROVE  /\ log \in Seq(Operation) /\ Len(log) \in Nat
         /\ objects \in Seq(Scenes) /\ Len(objects) \in Nat
         /\ snapshots \subseteq Snapshot
         /\ drawn \subseteq Nonces
         /\ \A p \in Calls : call[p] \in Call /\ CallInv(p)
         /\ \A r \in Runs : source[r] \in 0..Len(log)
         /\ SceneAt(log, Len(log)) \in Scenes
<1>1. /\ log \in Seq(Operation) /\ Len(log) \in Nat
      /\ objects \in Seq(Scenes) /\ Len(objects) \in Nat
      /\ snapshots \subseteq Snapshot
      /\ drawn \subseteq Nonces
      /\ \A p \in Calls : call[p] \in Call /\ CallInv(p)
      /\ \A r \in Runs : source[r] \in 0..Len(log)
  BY DEF HInv, AiTypeOK, HistoryTypeOK, CurrentRevision
<1>2. SceneAt(log, Len(log)) \in Scenes
  BY <1>1, SceneAtType
<1> QED
  BY <1>1, <1>2

\* A user takes a snapshot: the call starts with nothing read.
LEMMA TakeSnapshotStep ==
  ASSUME HInv, NEW p \in Calls, OtherStep(p), TakeSnapshot(p)
  PROVE  HInv'
<1> DEFINE c == [call[p] EXCEPT !.step = "materialize"]
<1>1. Set(p, c) /\ UNCHANGED <<log, snapshots, objects, drawn>>
  BY DEF TakeSnapshot, Goto
<1>2. call[p] \in Call /\ call[p].step = "idle"
  BY CallTypes DEF TakeSnapshot, At
<1>3. c \in Call /\ c.step = "materialize" /\ c.after = call[p].after
  BY <1>2 DEF Call, Steps
<1>4. c.after = "idle"
  BY <1>2, <1>3, CallTypes DEF CallInv, ApprovingCall
<1> HIDE DEF c
<1>5. call'[p] = c
  BY <1>1, <1>3, OtherFrame
<1>6. CallInv(p)'
  BY <1>3, <1>4, <1>5
  DEF CallInv, SnapshotCall, PipelineCall, DecidingCall, ApprovingCall, At
<1>7. Grows
  BY <1>1, KeepsGrows
<1> QED
  BY <1>1, <1>3, <1>6, <1>7, CallTypes, OtherHInv

\* createSnapshot reads the scene: revision and scene go together.
LEMMA MaterializeStep ==
  ASSUME HInv, NEW p \in Calls, OtherStep(p), Materialize(p)
  PROVE  HInv'
<1> DEFINE c == [call[p] EXCEPT !.step = "put", !.scene = CurrentScene,
                                !.revision = CurrentRevision]
<1>1. Set(p, c) /\ UNCHANGED <<log, snapshots, objects, drawn>>
  BY DEF Materialize
<1>2. call[p] \in Call /\ call[p].step = "materialize"
  BY CallTypes DEF Materialize, At
<1>3. /\ c \in Call /\ c # NoCall
      /\ c.step = "put" /\ c.after = call[p].after /\ c.preAi = call[p].preAi
      /\ c.scene = SceneAt(log, Len(log)) /\ c.revision = Len(log)
  BY <1>2, CallTypes DEF Call, Steps, CurrentScene, CurrentRevision, NoCall
<1> HIDE DEF c
<1>5. call'[p] = c /\ serves'[p] = serves[p]
  BY <1>1, <1>3, OtherFrame
<1>6. CallInv(p)'
  <2>1. status' = status /\ source' = source
    BY DEF OtherStep
  <2>2. SnapshotCall(p)'
    BY <1>1, <1>3, <1>5, CallTypes DEF SnapshotCall, At
  <2>3. PipelineCall(p)' /\ DecidingCall(p)'
    BY <1>3, <1>5 DEF PipelineCall, DecidingCall, At
  <2>4. ApprovingCall(p)'
    BY <1>1, <1>2, <1>3, <1>5, <2>1, CallTypes
    DEF CallInv, ApprovingCall, At, RunOf
  <2> QED
    BY <1>3, <1>5, <2>2, <2>3, <2>4, CallTypes DEF CallInv
<1>7. Grows
  BY <1>1, KeepsGrows
<1> QED
  BY <1>1, <1>3, <1>6, <1>7, CallTypes, OtherHInv

\* createSnapshot puts the object: it holds the scene in hand.
LEMMA PutObjectStep ==
  ASSUME HInv, NEW p \in Calls, OtherStep(p), PutObject(p)
  PROVE  HInv'
<1> DEFINE c == [call[p] EXCEPT !.step = "insert", !.id = Len(objects) + 1,
                                !.scene = EmptyScene]
<1>1. Set(p, c) /\ UNCHANGED <<log, snapshots, drawn>>
  BY DEF PutObject
<1>2. /\ call[p] \in Call /\ call[p].step = "put"
      /\ Len(objects) + 1 \in Nat /\ EmptyScene \in Scenes
  BY CallTypes, BasicTypes DEF PutObject, At
<1>3. /\ c \in Call /\ c # NoCall
      /\ c.step = "insert" /\ c.after = call[p].after
      /\ c.preAi = call[p].preAi
      /\ c.id = Len(objects) + 1 /\ c.revision = call[p].revision
  <2> DEFINE n == Len(objects) + 1
  <2> HIDE DEF n
  <2>1. c = [call[p] EXCEPT !.step = "insert", !.id = n, !.scene = EmptyScene]
    BY DEF n
  <2>2. n \in Nat
    BY <1>2 DEF n
  <2>3. /\ c \in Call /\ c.step = "insert" /\ c.after = call[p].after
        /\ c.preAi = call[p].preAi
        /\ c.id = n /\ c.revision = call[p].revision
    BY <1>2, <2>1, <2>2 DEF Call, Steps
  <2> QED
    BY <2>3 DEF n, NoCall
<1> HIDE DEF c
<1>4. /\ objects' \in Seq(Scenes)
      /\ Len(objects') = Len(objects) + 1
      /\ \A k \in 1..Len(objects) : objects'[k] = objects[k]
      /\ objects'[Len(objects) + 1] = call[p].scene
  BY <1>2, CallTypes DEF PutObject, Call
<1>5. call'[p] = c /\ serves'[p] = serves[p]
  BY <1>1, <1>3, OtherFrame
<1>6. CallInv(p)'
  <2>1. status' = status /\ source' = source
    BY DEF OtherStep
  <2>2. SnapshotCall(p)'
    BY <1>1, <1>2, <1>3, <1>4, <1>5, CallTypes
    DEF CallInv, SnapshotCall, At
  <2>3. PipelineCall(p)' /\ DecidingCall(p)'
    BY <1>3, <1>5 DEF PipelineCall, DecidingCall, At
  <2>4. ApprovingCall(p)'
    BY <1>1, <1>2, <1>3, <1>5, <2>1, CallTypes
    DEF CallInv, ApprovingCall, At, RunOf
  <2> QED
    BY <1>3, <1>5, <2>2, <2>3, <2>4, CallTypes DEF CallInv
<1>7. Grows
  BY <1>1, <1>4, CallTypes DEF Grows, Extends
<1> QED
  BY <1>1, <1>3, <1>4, <1>6, <1>7, CallTypes, OtherHInv

\* createSnapshot inserts the row, whose object is there.
LEMMA InsertSnapshotStep ==
  ASSUME HInv, NEW p \in Calls, OtherStep(p), InsertSnapshot(p)
  PROVE  HInv'
<1> DEFINE row == [id |-> call[p].id, revision |-> call[p].revision,
                   preAi |-> call[p].preAi]
<1>1. UNCHANGED <<log, objects, drawn>> /\ snapshots' = snapshots \cup {row}
  BY DEF InsertSnapshot
<1>2. call[p] \in Call /\ call[p].step = "insert" /\ CallInv(p)
  BY CallTypes DEF InsertSnapshot, At
<1>3. /\ row \in Snapshot
      /\ row.id = call[p].id /\ row.revision = call[p].revision
      /\ row.preAi = call[p].preAi
  BY <1>2 DEF Snapshot, Call
<1>4. /\ row.id \in 1..Len(objects')
      /\ row.revision <= Len(log')
      /\ objects'[row.id] = SceneAt(log', row.revision)
  BY <1>1, <1>2, <1>3 DEF CallInv, SnapshotCall, At
<1> HIDE DEF row
<1>5. snapshots' \subseteq Snapshot
  BY <1>1, <1>3, CallTypes
<1>6. Grows
  BY <1>1, KeepsGrows
<1>7. \A s \in snapshots' \ snapshots :
        /\ s.id \in 1..Len(objects')
        /\ s.revision <= Len(log')
        /\ objects'[s.id] = SceneAt(log', s.revision)
  BY <1>1, <1>4
<1>8. CASE call[p].after = "idle"
  <2>1. Set(p, NoCall)
    BY <1>8 DEF InsertSnapshot, Return
  <2>2. call'[p] = NoCall
    BY <2>1, BasicTypes, OtherFrame
  <2>3. CallInv(p)' /\ NoCall.step # "pipeline"
    BY <2>2, NoCallInv DEF NoCall
  <2> QED
    BY <1>1, <1>5, <1>6, <1>7, <2>1, <2>3, CallTypes, BasicTypes, OtherHInv
<1>9. CASE call[p].after # "idle"
  <2> DEFINE c == [call[p] EXCEPT !.step = call[p].after]
  <2>1. Set(p, c) /\ call[p].after = "append"
    BY <1>2, <1>9 DEF InsertSnapshot, Goto, CallInv
  <2>2. /\ c \in Call /\ c # NoCall
        /\ c.step = "append" /\ c.after = "append"
        /\ c.preAi = call[p].preAi /\ c.id = call[p].id
    BY <1>2, <2>1 DEF Call, Steps, NoCall
  <2> HIDE DEF c
  <2>3. call'[p] = c /\ serves'[p] = serves[p]
    BY <2>1, <2>2, OtherFrame
  <2>4. CallInv(p)'
    <3>1. status' = status /\ source' = source
      BY DEF OtherStep
    <3>2. SnapshotCall(p)' /\ PipelineCall(p)' /\ DecidingCall(p)'
      BY <2>2, <2>3 DEF SnapshotCall, PipelineCall, DecidingCall, At
    <3>3. ApprovingCall(p)'
      BY <1>1, <1>2, <1>3, <2>1, <2>2, <2>3, <3>1
      DEF CallInv, ApprovingCall, At, RunOf
    <3> QED
      BY <2>2, <2>3, <3>2, <3>3 DEF CallInv
  <2> QED
    BY <1>1, <1>5, <1>6, <1>7, <2>1, <2>2, <2>4, CallTypes, OtherHInv
<1> QED
  BY <1>8, <1>9

\* A user restores a snapshot: its object is what the row says.
LEMMA RestoreStep ==
  ASSUME HInv, NEW p \in Calls, OtherStep(p),
         NEW s \in snapshots, Restore(p, s)
  PROVE  HInv'
<1> DEFINE c == [NoCall EXCEPT !.step = "current", !.target = objects[s.id]]
<1>1. Set(p, c) /\ UNCHANGED <<log, snapshots, objects, drawn>>
  BY DEF Restore
<1>2. objects[s.id] \in Scenes
  BY CallTypes DEF HInv, SnapshotFaithful
<1>3. c \in Call /\ c.step = "current" /\ c.after = "idle"
  BY <1>2, BasicTypes DEF NoCall, Call, Steps
<1> HIDE DEF c
<1>4. call'[p] = c
  BY <1>1, <1>3, OtherFrame
<1>5. CallInv(p)'
  BY <1>3, <1>4
  DEF CallInv, SnapshotCall, PipelineCall, DecidingCall, ApprovingCall, At
<1>6. Grows
  BY <1>1, KeepsGrows
<1> QED
  BY <1>1, <1>3, <1>5, <1>6, CallTypes, OtherHInv

\* restoreSnapshot reads the scene of now.
LEMMA ReadCurrentStep ==
  ASSUME HInv, NEW p \in Calls, OtherStep(p), ReadCurrent(p)
  PROVE  HInv'
<1> DEFINE c == [call[p] EXCEPT !.step = "append", !.scene = CurrentScene,
                                !.revision = CurrentRevision]
<1>1. Set(p, c) /\ UNCHANGED <<log, snapshots, objects, drawn>>
  BY DEF ReadCurrent
<1>2. /\ call[p] \in Call /\ call[p].step = "current"
      /\ CurrentScene \in Scenes /\ CurrentRevision \in Nat
  BY CallTypes DEF ReadCurrent, At, CurrentScene, CurrentRevision
<1>3. c \in Call /\ c.step = "append" /\ c.after = call[p].after
  BY <1>2 DEF Call, Steps
<1>4. c.after = "idle"
  BY <1>2, <1>3, CallTypes DEF CallInv, ApprovingCall
<1> HIDE DEF c
<1>5. call'[p] = c
  BY <1>1, <1>3, OtherFrame
<1>6. CallInv(p)'
  BY <1>3, <1>4, <1>5
  DEF CallInv, SnapshotCall, PipelineCall, DecidingCall, ApprovingCall, At
<1>7. Grows
  BY <1>1, KeepsGrows
<1> QED
  BY <1>1, <1>3, <1>6, <1>7, CallTypes, OtherHInv

\* What an append does to the log, whoever appends.
LEMMA Append1Grows ==
  ASSUME HInv, NEW k \in Nonces, NEW deltas \in Scenes, Append1(k, deltas),
         UNCHANGED <<snapshots, objects>>
  PROVE  /\ log' \in Seq(Operation)
         /\ Len(log') = Len(log) + 1
         /\ drawn' \subseteq Nonces
         /\ Grows
<1>1. log' = AppendOperation(log, deltas) /\ drawn' = drawn \cup {k}
  BY DEF Append1
<1>2. /\ log' \in Seq(Operation)
      /\ Len(log') = Len(log) + 1
      /\ Extends(log, log')
  BY <1>1, CallTypes, AppendExtends
<1> QED
  BY <1>1, <1>2, CallTypes DEF Grows

\* The deltas of a restore, of a patch and of an edit are well formed.
LEMMA RestoreDeltasType ==
  ASSUME HInv, NEW p \in Calls, NEW k \in Nonces
  PROVE  BuildRestoreDeltas(call[p].scene, call[p].target, k) \in Scenes
<1>1. call[p].scene \in Scenes /\ call[p].target \in Scenes /\ k \in Nat
  BY CallTypes, NoncesAssumption DEF Call
<1>2. ASSUME NEW e \in Elements
      PROVE  RestoreDelta(call[p].scene[e], call[p].target[e], k) \in Stamp
  <2>1. call[p].scene[e] \in Stamp /\ call[p].target[e] \in Stamp
    BY <1>1 DEF Scenes
  <2>2. /\ call[p].scene[e].version + 1 \in Nat
        /\ call[p].target[e].version + 1 \in Nat
    BY <2>1 DEF Stamp
  <2> QED
    BY <1>1, <2>1, <2>2, BasicTypes DEF RestoreDelta
<1> QED
  BY <1>2 DEF BuildRestoreDeltas, Scenes

\* The deltas of a patch are a scene.
LEMMA PatchDeltasType ==
  ASSUME NEW scene \in Scenes, NEW patch, NEW k \in Nonces
  PROVE  PatchToDeltas(scene, patch, k) \in Scenes
<1>1. ASSUME NEW e \in Elements
      PROVE  PatchDelta(patch[e], scene[e], k) \in Stamp
  <2>1. scene[e].version + 1 \in Nat /\ k \in Nat
    BY NoncesAssumption DEF Scenes, Stamp
  <2>2. (patch[e] = "delete") \in BOOLEAN
    OBVIOUS
  <2> QED
    BY <2>1, <2>2, BasicTypes DEF PatchDelta
<1> QED
  BY <1>1 DEF PatchToDeltas, Scenes

\* The deltas of an edit are a scene.
LEMMA EditDeltasType ==
  ASSUME HInv, NEW e \in Elements, NEW n \in Lagging, NEW k \in Nonces,
         NEW d \in BOOLEAN
  PROVE  [EmptyScene EXCEPT ![e] =
            Delta(SceneAt(log, n)[e].version + 1, k, d)] \in Scenes
<1>1. n \in 0..Len(log)
  BY DEF Lagging, CurrentRevision
<1>2. SceneAt(log, n) \in Scenes
  BY <1>1, CallTypes, SceneAtType
<1>3. SceneAt(log, n)[e].version + 1 \in Nat /\ k \in Nat
  BY <1>2, NoncesAssumption DEF Scenes, Stamp
<1>4. Delta(SceneAt(log, n)[e].version + 1, k, d) \in Stamp
  BY <1>3, BasicTypes
<1> QED
  BY <1>4, BasicTypes DEF Scenes

\* restoreSnapshot appends: the log grows, what others read stays.
LEMMA AppendRestoreStep ==
  ASSUME HInv, NEW p \in Calls, OtherStep(p),
         NEW k \in Nonces, AppendRestore(p, k)
  PROVE  HInv'
<1> DEFINE deltas == BuildRestoreDeltas(call[p].scene, call[p].target, k)
<1>1. deltas \in Scenes
  BY RestoreDeltasType
<1>2. Append1(k, deltas) /\ UNCHANGED <<snapshots, objects>>
  BY DEF AppendRestore
<1> HIDE DEF deltas
<1>3. /\ log' \in Seq(Operation)
      /\ drawn' \subseteq Nonces
      /\ Grows
  BY <1>1, <1>2, Append1Grows
<1>4. Set(p, NoCall)
  BY DEF AppendRestore, Return
<1>5. CallInv(p)' /\ NoCall.step # "pipeline"
  BY <1>4, BasicTypes, OtherFrame, NoCallInv DEF NoCall
<1> QED
  BY <1>2, <1>3, <1>4, <1>5, CallTypes, BasicTypes, OtherHInv

\* A call that fails, or ends, relies on nothing.
LEMMA AbandonStep ==
  ASSUME HInv, NEW p \in Calls, OtherStep(p), Abandon(p)
  PROVE  HInv'
<1>1. Set(p, NoCall) /\ UNCHANGED <<log, snapshots, objects, drawn>>
  BY DEF Abandon, Return
<1>2. CallInv(p)' /\ NoCall.step # "pipeline"
  BY <1>1, BasicTypes, OtherFrame, NoCallInv DEF NoCall
<1>3. Grows
  BY <1>1, KeepsGrows
<1> QED
  BY <1>1, <1>2, <1>3, CallTypes, BasicTypes, OtherHInv

\* Every step of a call that serves no run keeps the invariant.
LEMMA OtherStepHInv ==
  ASSUME HInv, NEW p \in Calls, OtherStep(p)
  PROVE  HInv'
<1>1. HistoryStep(p)
  BY DEF OtherStep
<1> QED
  BY <1>1, TakeSnapshotStep, MaterializeStep, PutObjectStep,
     InsertSnapshotStep, RestoreStep, ReadCurrentStep, AppendRestoreStep,
     AbandonStep DEF HistoryStep

----------------------------------------------------------------------------
(* Steps of the runs: each action preserves the invariant.                 *)

Service == [run: Runs \cup {NoRun}, patch: Patches \cup {NoPatch}]

\* The types of the runs and of the calls that serve them.
LEMMA RunTypes ==
  ASSUME HInv
  PROVE  /\ status \in [Runs -> Statuses]
         /\ source \in [Runs -> 0..Len(log)]
         /\ store \in [Runs -> Patches \cup {NoPatch}]
         /\ serves \in [Calls -> Service]
         /\ patched \in [Runs -> SUBSET DOMAIN log]
         /\ NoService \in Service
BY DEF HInv, AiTypeOK, CurrentRevision, Service, NoService

\* What the calls look like after a step of call p, and what the step owes.
LEMMA RunFrame ==
  ASSUME HInv, NEW p \in Calls, NEW c \in Call, NEW v \in Service,
         Set(p, c), serves' = [serves EXCEPT ![p] = v]
  PROVE  /\ call' \in [Calls -> Call] /\ call'[p] = c
         /\ serves' \in [Calls -> Service] /\ serves'[p] = v
         /\ \A q \in Calls \ {p} : call'[q] = call[q] /\ serves'[q] = serves[q]
<1>1. call \in [Calls -> Call] /\ serves \in [Calls -> Service]
  BY RunTypes DEF HInv, AiTypeOK, HistoryTypeOK
<1> QED
  BY <1>1 DEF Set

\* The frame of a call that serves a run: what is left to show is its own part.
LEMMA RunHInv ==
  ASSUME HInv, NEW p \in Calls, NEW c \in Call, NEW v \in Service,
         Set(p, c), serves' = [serves EXCEPT ![p] = v],
         log' \in Seq(Operation), drawn' \subseteq Nonces,
         UNCHANGED <<snapshots, objects>>, Grows,
         status' \in [Runs -> Statuses],
         source' \in [Runs -> 0..Len(log')],
         store' \in [Runs -> Patches \cup {NoPatch}],
         patched' \in [Runs -> SUBSET DOMAIN log'],
         CallInv(p)', TraceNeedsApproval',
         \A q \in Calls \ {p} :
           /\ Steady(q)
           /\ c.step = "pipeline" \/ At(q, "pipeline") => v.run # RunOf(q)
  PROVE  HInv'
<1>1. /\ call' \in [Calls -> Call] /\ call'[p] = c
      /\ serves' \in [Calls -> Service] /\ serves'[p] = v
      /\ \A q \in Calls \ {p} : call'[q] = call[q] /\ serves'[q] = serves[q]
  BY RunFrame
<1>2. AiTypeOK'
  BY <1>1, CallTypes DEF AiTypeOK, HistoryTypeOK, CurrentRevision, Service
<1>3. At(p, "pipeline")' <=> c.step = "pipeline"
  BY <1>1 DEF At
<1>4. RunOf(p)' = v.run
  BY <1>1 DEF RunOf
<1> QED
  BY <1>1, <1>2, <1>3, <1>4, StepHInv

\* The same for a step that leaves the log and the storage alone.
LEMMA QuietHInv ==
  ASSUME HInv, NEW p \in Calls, NEW c \in Call, NEW v \in Service,
         Set(p, c), serves' = [serves EXCEPT ![p] = v],
         UNCHANGED <<log, snapshots, objects, drawn, patched>>,
         status' \in [Runs -> Statuses],
         source' \in [Runs -> 0..Len(log)],
         store' \in [Runs -> Patches \cup {NoPatch}],
         CallInv(p)', TraceNeedsApproval',
         \A q \in Calls \ {p} :
           /\ Steady(q)
           /\ c.step = "pipeline" \/ At(q, "pipeline") => v.run # RunOf(q)
  PROVE  HInv'
<1>1. Grows
  BY KeepsGrows
<1> QED
  BY <1>1, CallTypes, RunTypes, RunHInv

\* The call that runs the pipeline of a run is alone with it.
LEMMA PipelineFacts ==
  ASSUME HInv, NEW p \in Calls, At(p, "pipeline")
  PROVE  /\ RunOf(p) \in Runs
         /\ status[RunOf(p)] \in PipelineStatuses
         /\ patched[RunOf(p)] = {}
         /\ call[p].after = "idle"
         /\ call[p].revision \in 0..Len(log)
         /\ \A q \in Calls \ {p} : RunOf(q) # RunOf(p)
<1>1. /\ RunOf(p) \in Runs
      /\ status[RunOf(p)] \in PipelineStatuses
      /\ call[p].after = "idle"
      /\ call[p].revision <= Len(log)
      /\ call[p].revision \in Nat /\ Len(log) \in Nat
  BY CallTypes DEF CallInv, PipelineCall, Call
<1>2. \A q \in Calls \ {p} : RunOf(q) # RunOf(p)
  BY DEF HInv, OnePipeline
<1>3. patched[RunOf(p)] = {}
  BY <1>1 DEF HInv, TraceNeedsApproval, PipelineStatuses
<1> QED
  BY <1>1, <1>2, <1>3

\* Whatever status the pipeline writes.
LEMMA PipelineWrites ==
  ASSUME HInv, NEW p \in Calls, At(p, "pipeline"), NEW s \in Statuses,
         UpdateStatus(RunOf(p), s), patched' = patched,
         \A r \in Runs \ {RunOf(p)} : source'[r] = source[r]
  PROVE  /\ status' \in [Runs -> Statuses]
         /\ status'[RunOf(p)] = s
         /\ TraceNeedsApproval'
         /\ \A q \in Calls \ {p} : Steady(q)
<1>1. /\ status' \in [Runs -> Statuses]
      /\ status'[RunOf(p)] = s
      /\ \A r \in Runs \ {RunOf(p)} : status'[r] = status[r]
  BY RunTypes, PipelineFacts DEF UpdateStatus
<1>2. TraceNeedsApproval'
  BY <1>1, PipelineFacts DEF HInv, TraceNeedsApproval
<1>3. \A q \in Calls \ {p} : Steady(q)
  BY <1>1, PipelineFacts DEF Steady
<1> QED
  BY <1>1, <1>2, <1>3

\* Whatever an approval or a cancel writes, with other calls about the run.
LEMMA DecisionWrites ==
  ASSUME HInv, NEW p \in Calls, call[p].step \in {"applying", "cancel", "finish"},
         NEW s \in AfterApproval, UpdateStatus(RunOf(p), s),
         patched' = patched, source' = source
  PROVE  /\ RunOf(p) \in Runs
         /\ status' \in [Runs -> Statuses]
         /\ status'[RunOf(p)] = s
         /\ TraceNeedsApproval'
         /\ \A q \in Calls \ {p} : Steady(q)
<1>0. RunOf(p) \in Runs /\ status[RunOf(p)] \in Decidable /\ s \in Statuses
  BY CallTypes DEF CallInv, DecidingCall, AfterApproval, Statuses
<1>1. /\ status' \in [Runs -> Statuses]
      /\ status'[RunOf(p)] = s
      /\ \A r \in Runs \ {RunOf(p)} : status'[r] = status[r]
  BY <1>0, RunTypes DEF UpdateStatus
<1>2. TraceNeedsApproval'
  BY <1>0, <1>1 DEF HInv, TraceNeedsApproval, AfterApproval
<1>3. \A q \in Calls \ {p} : Steady(q)
  BY <1>0, <1>1 DEF Steady
<1> QED
  BY <1>0, <1>1, <1>2, <1>3

\* A step after which call p is over.
LEMMA ReplyHInv ==
  ASSUME HInv, NEW p \in Calls, Reply(p),
         UNCHANGED <<log, snapshots, objects, drawn, source, patched>>,
         status' \in [Runs -> Statuses],
         store' \in [Runs -> Patches \cup {NoPatch}],
         TraceNeedsApproval', \A q \in Calls \ {p} : Steady(q)
  PROVE  HInv'
<1>1. Set(p, NoCall) /\ serves' = [serves EXCEPT ![p] = NoService]
  BY DEF Reply, Return
<1>2. NoService \in Service /\ NoCall \in Call
  BY RunTypes, BasicTypes
<1>3. CallInv(p)'
  BY <1>1, <1>2, RunFrame, NoCallInv
<1>4. \A q \in Calls \ {p} : At(q, "pipeline") => NoService.run # RunOf(q)
  BY PipelineFacts, NoRunAssumption DEF NoService
<1>5. NoCall.step # "pipeline"
  BY DEF NoCall
<1> QED
  BY <1>1, <1>2, <1>3, <1>4, <1>5, RunTypes, QuietHInv

\* A run is created, with the call that drives its pipeline.
LEMMA CreateRunStep ==
  ASSUME HInv, NEW p \in Calls, NEW r \in Runs, CreateRun(p, r)
  PROVE  HInv'
<1> DEFINE c == [NoCall EXCEPT !.step = "pipeline",
                               !.revision = CurrentRevision]
           v == [serves[p] EXCEPT !.run = r]
<1>1. /\ Set(p, c) /\ serves' = [serves EXCEPT ![p] = v]
      /\ UNCHANGED <<log, snapshots, objects, drawn, status, source, store,
                     patched>>
  BY DEF CreateRun
<1>2. CurrentRevision \in Nat
  BY CallTypes DEF CurrentRevision
<1>3. /\ c \in Call /\ c.step = "pipeline" /\ c.after = "idle"
      /\ c.revision = CurrentRevision
  BY <1>2, BasicTypes DEF NoCall, Call, Steps
<1>4. v \in Service /\ v.run = r
  BY RunTypes DEF Service
<1> HIDE DEF c, v
<1>5. call'[p] = c /\ serves'[p] = v
  BY <1>1, <1>3, <1>4, RunFrame
<1>6. CallInv(p)'
  <2>1. PipelineCall(p)'
    BY <1>1, <1>2, <1>3, <1>4, <1>5
    DEF CreateRun, PipelineCall, At, RunOf, PipelineStatuses, CurrentRevision
  <2>2. SnapshotCall(p)' /\ DecidingCall(p)' /\ ApprovingCall(p)'
    BY <1>3, <1>5 DEF SnapshotCall, DecidingCall, ApprovingCall, At
  <2> QED
    BY <1>3, <1>5, <2>1, <2>2 DEF CallInv
<1>7. TraceNeedsApproval'
  BY <1>1 DEF HInv, TraceNeedsApproval
<1>8. \A q \in Calls \ {p} : Steady(q) /\ v.run # RunOf(q)
  BY <1>1, <1>4 DEF CreateRun, Steady
<1> QED
  BY <1>1, <1>3, <1>4, <1>6, <1>7, <1>8, RunTypes, QuietHInv

\* The pipeline moves its run to the next status.
LEMMA AdvanceStep ==
  ASSUME HInv, NEW p \in Calls, Advance(p)
  PROVE  HInv'
<1> DEFINE s == NextStatus[status[RunOf(p)]]
<1>1. /\ At(p, "pipeline")
      /\ UpdateStatus(RunOf(p), s)
      /\ source' = [source EXCEPT ![RunOf(p)] = call[p].revision]
      /\ UNCHANGED <<historyVars, store, serves, patched>>
  BY DEF Advance
<1>2. s \in PipelineStatuses /\ s \in Statuses
  BY DEF Advance, NextStatus, PipelineStatuses, Statuses
<1> HIDE DEF s
<1>3. /\ source' \in [Runs -> 0..Len(log)]
      /\ \A r \in Runs \ {RunOf(p)} : source'[r] = source[r]
  BY <1>1, RunTypes, PipelineFacts
<1>4. /\ status' \in [Runs -> Statuses]
      /\ status'[RunOf(p)] = s
      /\ TraceNeedsApproval'
      /\ \A q \in Calls \ {p} : Steady(q)
  BY <1>1, <1>2, <1>3, PipelineWrites
<1>5. CallInv(p)'
  <2>1. PipelineCall(p)'
    BY <1>1, <1>2, <1>4, PipelineFacts, CallTypes
    DEF historyVars, CallInv, PipelineCall, RunOf, At
  <2>2. SnapshotCall(p)' /\ DecidingCall(p)' /\ ApprovingCall(p)'
    BY <1>1, PipelineFacts
    DEF historyVars, SnapshotCall, DecidingCall, ApprovingCall, At
  <2> QED
    BY <1>1, <2>1, <2>2, PipelineFacts DEF historyVars, CallInv
<1>6. /\ call[p] \in Call /\ Set(p, call[p])
      /\ serves[p] \in Service /\ serves' = [serves EXCEPT ![p] = serves[p]]
  BY <1>1, CallTypes, RunTypes
  DEF historyVars, Set, HInv, AiTypeOK, HistoryTypeOK
<1>7. UNCHANGED <<log, snapshots, objects, drawn, patched>>
      /\ store' \in [Runs -> Patches \cup {NoPatch}]
  BY <1>1, RunTypes DEF historyVars
<1>8. \A q \in Calls \ {p} : serves[p].run # RunOf(q)
  BY <1>1, PipelineFacts DEF RunOf
<1> QED
  BY <1>3, <1>4, <1>5, <1>6, <1>7, <1>8, QuietHInv

\* The pipeline fails its run.
LEMMA FailRunStep ==
  ASSUME HInv, NEW p \in Calls, FailRun(p)
  PROVE  HInv'
<1>1. /\ status' \in [Runs -> Statuses]
      /\ TraceNeedsApproval'
      /\ \A q \in Calls \ {p} : Steady(q)
  BY PipelineWrites DEF FailRun, Statuses
<1> QED
  BY <1>1, RunTypes, ReplyHInv DEF FailRun

\* The pipeline computes the preview from the scene of now.
LEMMA PreviewStep ==
  ASSUME HInv, NEW p \in Calls, Preview(p)
  PROVE  HInv'
<1>1. /\ At(p, "pipeline")
      /\ UpdateStatus(RunOf(p), "previewing")
      /\ UNCHANGED <<historyVars, source, serves, patched>>
  BY DEF Preview
<1>2. store' \in [Runs -> Patches \cup {NoPatch}]
  BY RunTypes DEF Preview, Proposable
<1>4. /\ status' \in [Runs -> Statuses]
      /\ status'[RunOf(p)] = "previewing"
      /\ TraceNeedsApproval'
      /\ \A q \in Calls \ {p} : Steady(q)
  BY <1>1, PipelineWrites DEF Statuses
<1>5. CallInv(p)'
  <2>1. PipelineCall(p)'
    BY <1>1, <1>4, PipelineFacts, CallTypes
    DEF historyVars, CallInv, PipelineCall, RunOf, At, PipelineStatuses
  <2>2. SnapshotCall(p)' /\ DecidingCall(p)' /\ ApprovingCall(p)'
    BY <1>1, PipelineFacts
    DEF historyVars, SnapshotCall, DecidingCall, ApprovingCall, At
  <2> QED
    BY <1>1, <2>1, <2>2, PipelineFacts DEF historyVars, CallInv
<1>6. /\ call[p] \in Call /\ Set(p, call[p])
      /\ serves[p] \in Service /\ serves' = [serves EXCEPT ![p] = serves[p]]
  BY <1>1, CallTypes, RunTypes
  DEF historyVars, Set, HInv, AiTypeOK, HistoryTypeOK
<1>7. UNCHANGED <<log, snapshots, objects, drawn, patched>>
      /\ source' \in [Runs -> 0..Len(log)]
  BY <1>1, RunTypes DEF historyVars
<1>8. \A q \in Calls \ {p} : serves[p].run # RunOf(q)
  BY <1>1, PipelineFacts DEF RunOf
<1> QED
  BY <1>2, <1>4, <1>5, <1>6, <1>7, <1>8, QuietHInv

\* The pipeline stores the preview and waits for approval.
LEMMA AttachPreviewStep ==
  ASSUME HInv, NEW p \in Calls, AttachPreview(p)
  PROVE  HInv'
<1>1. /\ status' \in [Runs -> Statuses]
      /\ TraceNeedsApproval'
      /\ \A q \in Calls \ {p} : Steady(q)
  BY PipelineWrites DEF AttachPreview, Statuses
<1> QED
  BY <1>1, RunTypes, ReplyHInv DEF AttachPreview

\* Approve and Cancel begin a call about a run that awaits approval.
LEMMA DecideStep ==
  ASSUME HInv, NEW p \in Calls, NEW r \in Runs, NEW v \in Service,
         NEW step \in {"load", "cancel"},
         At(p, "idle"), status[r] = "awaiting_approval", v.run = r,
         Goto(p, step), serves' = [serves EXCEPT ![p] = v],
         UNCHANGED <<log, snapshots, objects, drawn, status, source, store,
                     patched>>
  PROVE  HInv'
<1> DEFINE c == [call[p] EXCEPT !.step = step]
<1>1. Set(p, c)
  BY DEF Goto
<1>2. call[p] \in Call /\ call[p].after = "idle"
  BY CallTypes DEF CallInv, ApprovingCall, At
<1>3. c \in Call /\ c.step = step /\ c.after = "idle"
  BY <1>2 DEF Call, Steps
<1> HIDE DEF c
<1>4. call'[p] = c /\ serves'[p] = v
  BY <1>1, <1>3, RunFrame
<1>5. CallInv(p)'
  BY <1>3, <1>4
  DEF CallInv, SnapshotCall, PipelineCall, DecidingCall, ApprovingCall, At,
      RunOf, Decidable
<1>6. TraceNeedsApproval'
  BY DEF HInv, TraceNeedsApproval
<1>7. \A q \in Calls \ {p} :
        Steady(q) /\ (At(q, "pipeline") => v.run # RunOf(q))
  BY PipelineFacts DEF Steady, PipelineStatuses
<1> QED
  BY <1>1, <1>3, <1>5, <1>6, <1>7, RunTypes, QuietHInv

\* An approval checks the run's status.
LEMMA ApproveStep ==
  ASSUME HInv, NEW p \in Calls, NEW r \in Runs, Approve(p, r)
  PROVE  HInv'
<1>1. [run |-> r, patch |-> store[r]] \in Service
  BY RunTypes DEF Service
<1> QED
  BY <1>1, DecideStep DEF Approve

\* A cancel checks the run's status.
LEMMA CancelStep ==
  ASSUME HInv, NEW p \in Calls, NEW r \in Runs, Cancel(p, r)
  PROVE  HInv'
<1> DEFINE v == [serves[p] EXCEPT !.run = r]
<1>1. v \in Service /\ v.run = r
  BY RunTypes DEF Service
<1>2. serves' = [serves EXCEPT ![p] = v]
  BY DEF Cancel
<1> HIDE DEF v
<1> QED
  BY <1>1, <1>2, DecideStep DEF Cancel

\* An approval loads the scene and compares its revision.
LEMMA LoadSceneStep ==
  ASSUME HInv, NEW p \in Calls, LoadScene(p)
  PROVE  HInv'
<1>1. UNCHANGED <<log, snapshots, objects, drawn, status, source, store,
                  patched>>
  BY DEF LoadScene
<1>2. TraceNeedsApproval' /\ \A q \in Calls \ {p} : Steady(q)
  BY <1>1 DEF HInv, TraceNeedsApproval, Steady
<1>3. /\ call[p] \in Call /\ call[p].after = "idle"
      /\ RunOf(p) \in Runs /\ status[RunOf(p)] \in Decidable
  BY CallTypes DEF LoadScene, CallInv, DecidingCall, ApprovingCall, At
<1>4. CASE CurrentRevision = source[RunOf(p)]
  <2> DEFINE c == [call[p] EXCEPT !.step = "applying"]
  <2>1. /\ Set(p, c)
        /\ serves[p] \in Service /\ serves' = [serves EXCEPT ![p] = serves[p]]
    BY <1>4, RunTypes DEF LoadScene, Goto
  <2>2. c \in Call /\ c.step = "applying" /\ c.after = "idle"
    BY <1>3 DEF Call, Steps
  <2> HIDE DEF c
  <2>3. call'[p] = c /\ serves'[p] = serves[p]
    BY <2>1, <2>2, RunFrame
  <2>4. CallInv(p)'
    <3>1. DecidingCall(p)'
      BY <1>1, <1>3, <1>4, <2>2, <2>3, CallTypes
      DEF DecidingCall, At, RunOf, CurrentRevision
    <3>2. SnapshotCall(p)' /\ PipelineCall(p)' /\ ApprovingCall(p)'
      BY <2>2, <2>3 DEF SnapshotCall, PipelineCall, ApprovingCall, At
    <3> QED
      BY <2>2, <2>3, <3>1, <3>2 DEF CallInv
  <2>5. \A q \in Calls \ {p} : At(q, "pipeline") => serves[p].run # RunOf(q)
    BY PipelineFacts DEF RunOf
  <2> QED
    BY <1>1, <1>2, <2>1, <2>2, <2>4, <2>5, RunTypes, QuietHInv
<1>5. CASE CurrentRevision # source[RunOf(p)]
  BY <1>1, <1>2, <1>5, RunTypes, ReplyHInv DEF LoadScene
<1> QED
  BY <1>4, <1>5

\* An approval writes applying and goes on to its snapshot.
LEMMA SetApplyingStep ==
  ASSUME HInv, NEW p \in Calls, SetApplying(p)
  PROVE  HInv'
<1> DEFINE c == [NoCall EXCEPT !.step = "materialize", !.after = "append",
                               !.preAi = TRUE]
<1>1. /\ Set(p, c)
      /\ serves[p] \in Service /\ serves' = [serves EXCEPT ![p] = serves[p]]
      /\ UNCHANGED <<log, snapshots, objects, drawn, source, store, patched>>
  BY RunTypes DEF SetApplying
<1>2. /\ c \in Call /\ c.step = "materialize" /\ c.after = "append"
      /\ c.preAi
  BY BasicTypes DEF NoCall, Call, Steps
<1> HIDE DEF c
<1>3. /\ RunOf(p) \in Runs
      /\ status' \in [Runs -> Statuses]
      /\ status'[RunOf(p)] = "applying"
      /\ TraceNeedsApproval'
      /\ \A q \in Calls \ {p} : Steady(q)
  BY DecisionWrites DEF SetApplying, At, AfterApproval
<1>4. call'[p] = c /\ serves'[p] = serves[p]
  BY <1>1, <1>2, RunFrame
<1>5. CallInv(p)'
  <2>1. ApprovingCall(p)'
    BY <1>1, <1>2, <1>3, <1>4, CallTypes
    DEF ApprovingCall, At, RunOf, AfterApproval
  <2>2. SnapshotCall(p)' /\ PipelineCall(p)' /\ DecidingCall(p)'
    BY <1>2, <1>4 DEF SnapshotCall, PipelineCall, DecidingCall, At
  <2> QED
    BY <1>2, <1>4, <2>1, <2>2 DEF CallInv
<1>6. \A q \in Calls \ {p} : At(q, "pipeline") => serves[p].run # RunOf(q)
  BY PipelineFacts DEF RunOf
<1> QED
  BY <1>1, <1>2, <1>3, <1>5, <1>6, RunTypes, QuietHInv

\* An approval appends its patch, with the undo point behind it.
LEMMA AppendPatchStep ==
  ASSUME HInv, NEW p \in Calls, NEW k \in Nonces, AppendPatch(p, k)
  PROVE  HInv'
<1> DEFINE c == [call[p] EXCEPT !.step = "finish"]
           deltas == PatchToDeltas(SceneAt(log, source[RunOf(p)]),
                                   serves[p].patch, k)
<1>1. /\ Set(p, c)
      /\ serves[p] \in Service /\ serves' = [serves EXCEPT ![p] = serves[p]]
      /\ UNCHANGED <<snapshots, objects, status, source, store>>
  BY RunTypes DEF AppendPatch, Goto
<1>2. /\ call[p] \in Call /\ call[p].after = "append"
      /\ RunOf(p) \in Runs /\ status[RunOf(p)] \in AfterApproval
      /\ call[p].preAi
      /\ source[RunOf(p)] \in 0..Len(log)
  BY CallTypes DEF AppendPatch, CallInv, ApprovingCall
<1>3. c \in Call /\ c.step = "finish" /\ c.after = "append" /\ c.preAi
  BY <1>2 DEF Call, Steps
<1>4. deltas \in Scenes
  <2>1. SceneAt(log, source[RunOf(p)]) \in Scenes
    BY <1>2, CallTypes, SceneAtType
  <2> QED
    BY <2>1, PatchDeltasType
<1>5. \/ Append1(k, deltas) /\
           patched' = [patched EXCEPT ![RunOf(p)] = @ \cup {Len(log')}]
      \/ UNCHANGED <<log, drawn, patched>>
  BY DEF AppendPatch
<1> HIDE DEF c, deltas
<1>6. /\ log' \in Seq(Operation) /\ drawn' \subseteq Nonces /\ Grows
      /\ Len(log) <= Len(log')
      /\ patched' \in [Runs -> SUBSET DOMAIN log']
      /\ \A r \in Runs \ {RunOf(p)} : patched'[r] = patched[r]
  <2>1. CASE /\ Append1(k, deltas)
             /\ patched' = [patched EXCEPT ![RunOf(p)] = @ \cup {Len(log')}]
    <3>1. /\ log' \in Seq(Operation) /\ Len(log') = Len(log) + 1
          /\ drawn' \subseteq Nonces /\ Grows
      BY <1>1, <1>4, <2>1, Append1Grows
    <3>2. DOMAIN log = 1..Len(log) /\ DOMAIN log' = 1..Len(log')
          /\ Len(log) \in Nat
      BY <3>1, CallTypes
    <3>3. DOMAIN log \subseteq DOMAIN log' /\ Len(log') \in DOMAIN log'
      BY <3>1, <3>2
    <3>4. /\ patched' \in [Runs -> SUBSET DOMAIN log']
          /\ \A r \in Runs \ {RunOf(p)} : patched'[r] = patched[r]
      BY <1>2, <2>1, <3>3, RunTypes
    <3> QED
      BY <3>1, <3>2, <3>4
  <2>2. CASE UNCHANGED <<log, drawn, patched>>
    BY <1>1, <2>2, CallTypes, RunTypes, KeepsGrows
  <2> QED
    BY <1>5, <2>1, <2>2
<1>7. TraceNeedsApproval'
  BY <1>1, <1>2, <1>6 DEF HInv, TraceNeedsApproval, AfterApproval
<1>8. call'[p] = c /\ serves'[p] = serves[p]
  BY <1>1, <1>3, RunFrame
<1>9. CallInv(p)'
  <2>1. source[RunOf(p)] <= Len(log') /\ RunOf(p)' = RunOf(p)
    BY <1>2, <1>6, <1>8, CallTypes DEF RunOf
  <2>2. DecidingCall(p)' /\ ApprovingCall(p)'
    BY <1>1, <1>2, <1>3, <1>8, <2>1
    DEF DecidingCall, ApprovingCall, At, Decidable
  <2>3. SnapshotCall(p)' /\ PipelineCall(p)'
    BY <1>3, <1>8 DEF SnapshotCall, PipelineCall, At
  <2> QED
    BY <1>3, <1>8, <2>2, <2>3 DEF CallInv
<1>10. source' \in [Runs -> 0..Len(log')]
  BY <1>1, <1>6, CallTypes, RunTypes
<1>11. \A q \in Calls \ {p} :
         Steady(q) /\ (At(q, "pipeline") => serves[p].run # RunOf(q))
  BY <1>1, PipelineFacts DEF RunOf, Steady
<1> QED
  BY <1>1, <1>3, <1>6, <1>7, <1>9, <1>10, <1>11, RunTypes, RunHInv

\* An approval ends its run as applied.
LEMMA FinishApprovalStep ==
  ASSUME HInv, NEW p \in Calls, FinishApproval(p)
  PROVE  HInv'
<1>1. /\ status' \in [Runs -> Statuses]
      /\ TraceNeedsApproval'
      /\ \A q \in Calls \ {p} : Steady(q)
  BY DecisionWrites DEF FinishApproval, At, AfterApproval
<1>2. store' \in [Runs -> Patches \cup {NoPatch}]
  BY RunTypes DEF FinishApproval
<1> QED
  BY <1>1, <1>2, ReplyHInv DEF FinishApproval

\* A cancel writes its status.
LEMMA CancelWriteStep ==
  ASSUME HInv, NEW p \in Calls, CancelWrite(p)
  PROVE  HInv'
<1>1. /\ status' \in [Runs -> Statuses]
      /\ TraceNeedsApproval'
      /\ \A q \in Calls \ {p} : Steady(q)
  BY DecisionWrites DEF CancelWrite, At, AfterApproval
<1>2. store' \in [Runs -> Patches \cup {NoPatch}]
  BY RunTypes DEF CancelWrite
<1> QED
  BY <1>1, <1>2, ReplyHInv DEF CancelWrite

\* Every step of a call that serves a run keeps the invariant.
LEMMA RunStepHInv ==
  ASSUME HInv, NEW p \in Calls, RunStep(p)
  PROVE  HInv'
BY CreateRunStep, ApproveStep, CancelStep, AdvanceStep, FailRunStep,
   PreviewStep, AttachPreviewStep, LoadSceneStep, SetApplyingStep,
   AppendPatchStep, FinishApprovalStep, CancelWriteStep DEF RunStep

----------------------------------------------------------------------------
(* Steps of no call.                                                       *)

\* An editor's operation is appended.
LEMMA EditsStep ==
  ASSUME HInv, Edits
  PROVE  HInv'
<1>1. PICK e \in Elements, n \in Lagging, k \in Nonces, d \in BOOLEAN :
        Edit(e, n, k, d)
  BY DEF Edits, Editing
<1> DEFINE deltas == [EmptyScene EXCEPT ![e] =
                        Delta(SceneAt(log, n)[e].version + 1, k, d)]
<1>2. /\ Append1(k, deltas)
      /\ UNCHANGED <<snapshots, objects, call>>
      /\ UNCHANGED <<status, source, store, serves, patched>>
  BY <1>1 DEF Edit, Edits, runVars
<1>3. deltas \in Scenes
  BY EditDeltasType
<1> HIDE DEF deltas
<1>4. /\ log' \in Seq(Operation) /\ Len(log') = Len(log) + 1
      /\ drawn' \subseteq Nonces /\ Grows
  BY <1>2, <1>3, Append1Grows
<1>5. AiTypeOK'
  <2>1. /\ Len(log) \in Nat
        /\ DOMAIN log = 1..Len(log) /\ DOMAIN log' = 1..Len(log')
    BY <1>4, CallTypes
  <2>2. DOMAIN log \subseteq DOMAIN log' /\ 0..Len(log) \subseteq 0..Len(log')
    BY <1>4, <2>1
  <2>3. /\ source' \in [Runs -> 0..Len(log')]
        /\ patched' \in [Runs -> SUBSET DOMAIN log']
    BY <1>2, <2>2, RunTypes
  <2> QED
    BY <1>2, <1>4, <2>3
    DEF HInv, AiTypeOK, HistoryTypeOK, CurrentRevision
<1>6. SnapshotFaithful'
  BY <1>2, <1>4, CallTypes
  DEF HInv, SnapshotFaithful, CurrentRevision, Grows, Extends, Snapshot
<1>7. TraceNeedsApproval' /\ OnePipeline'
  BY <1>2 DEF HInv, TraceNeedsApproval, OnePipeline, At, RunOf
<1>8. \A q \in Calls : CallInv(q)'
  BY <1>2, <1>4, <1>5, FrameCall DEF Steady
<1> QED
  BY <1>5, <1>6, <1>7, <1>8 DEF HInv

\* A restart ends every call and forgets the pending patches.
LEMMA RestartStep ==
  ASSUME HInv, Restart
  PROVE  HInv'
<1>1. /\ call' = [p \in Calls |-> NoCall]
      /\ UNCHANGED <<log, snapshots, objects, drawn, status, source, patched>>
  BY DEF Restart
<1>2. AiTypeOK'
  <2>1. /\ call' \in [Calls -> Call]
        /\ serves' \in [Calls -> Service]
        /\ store' \in [Runs -> Patches \cup {NoPatch}]
    BY BasicTypes, RunTypes DEF Restart
  <2> QED
    BY <1>1, <2>1 DEF HInv, AiTypeOK, HistoryTypeOK, CurrentRevision, Service
<1>3. \A q \in Calls : CallInv(q)' /\ ~At(q, "pipeline")'
  BY <1>1, NoCallInv
<1>4. SnapshotFaithful' /\ TraceNeedsApproval'
  BY <1>1 DEF HInv, SnapshotFaithful, TraceNeedsApproval, CurrentRevision
<1>5. OnePipeline'
  BY <1>3 DEF OnePipeline
<1> QED
  BY <1>2, <1>3, <1>4, <1>5 DEF HInv

\* A step that changes nothing keeps the invariant.
LEMMA StutterHInv ==
  ASSUME HInv, UNCHANGED vars
  PROVE  HInv'
<1>1. UNCHANGED <<log, snapshots, objects, drawn, call, status, source, store,
                  serves, patched>>
  BY DEF vars, historyVars, runVars
<1>2. AiTypeOK'
  BY <1>1 DEF HInv, AiTypeOK, HistoryTypeOK, CurrentRevision
<1>3. SnapshotFaithful' /\ TraceNeedsApproval' /\ OnePipeline'
  BY <1>1 DEF HInv, SnapshotFaithful, TraceNeedsApproval, OnePipeline, At,
     RunOf, CurrentRevision
<1>4. Grows
  BY <1>1, KeepsGrows
<1>5. \A q \in Calls : CallInv(q)'
  BY <1>1, <1>2, <1>4, FrameCall DEF Steady
<1> QED
  BY <1>2, <1>3, <1>5 DEF HInv

\* The invariant holds at first.
LEMMA InitHInv ==
  ASSUME AiInit
  PROVE  HInv
<1>1. log \in Seq(Operation)
  <2> DEFINE deltas == [e \in Elements |-> [version |-> 1, versionNonce |-> 0,
                                            isDeleted |-> FALSE]]
  <2>1. deltas \in Scenes
    BY DEF Scenes, Stamp
  <2>2. << >> \in Seq(Operation)
    OBVIOUS
  <2>3. AppendOperation(<< >>, deltas) \in Seq(Operation)
    BY <2>1, <2>2, AppendExtends
  <2> QED
    BY <2>2, <2>3 DEF AiInit, Init, InitialLogs
<1>2. /\ snapshots = {} /\ objects = << >> /\ drawn = {}
      /\ call = [p \in Calls |-> NoCall]
  BY DEF AiInit, Init
<1>3. AiTypeOK
  <2>1. call \in [Calls -> Call] /\ serves \in [Calls -> Service]
    BY <1>2, BasicTypes DEF AiInit, NoService, Service
  <2>2. Len(log) \in Nat /\ objects \in Seq(Scenes)
    BY <1>1, <1>2
  <2>3. source \in [Runs -> 0..Len(log)]
    BY <2>2 DEF AiInit
  <2>4. status \in [Runs -> Statuses]
    BY DEF AiInit, Statuses
  <2> QED
    BY <1>1, <1>2, <2>1, <2>2, <2>3, <2>4
    DEF AiInit, AiTypeOK, HistoryTypeOK, CurrentRevision, Service
<1>4. \A p \in Calls : CallInv(p) /\ ~At(p, "pipeline")
  BY <1>2 DEF NoCall, CallInv, SnapshotCall, PipelineCall, DecidingCall,
     ApprovingCall, At
<1>5. SnapshotFaithful /\ TraceNeedsApproval /\ OnePipeline
  BY <1>2, <1>4 DEF AiInit, SnapshotFaithful, TraceNeedsApproval, OnePipeline
<1> QED
  BY <1>3, <1>4, <1>5 DEF HInv

----------------------------------------------------------------------------
(* The theorems.                                                           *)

\* Everything below rests on this: the invariant of the calls, the runs and
\* the two stores is inductive over all the handlers, crashes included.
THEOREM HistoryInvariant == AiSpec => []HInv
<1>1. AiInit => HInv
  BY InitHInv
<1>2. HInv /\ [AiNext]_vars => HInv'
  BY OtherStepHInv, RunStepHInv, EditsStep, RestartStep, StutterHInv
  DEF AiNext
<1> QED
  BY <1>1, <1>2, PTL DEF AiSpec

\* The rows, the objects, the locals of the calls and the entries of RunStore
\* keep their shape; no run is computed for a revision the log lacks.
THEOREM AiTyping == AiSpec => []AiTypeOK
<1>1. HInv => AiTypeOK
  BY DEF HInv
<1> QED
  BY <1>1, HistoryInvariant, PTL

\* VER-01: every row of diagram_snapshots names an object that createSnapshot
\* stored before it, with the scene of exactly the row's revision.
THEOREM Faithfulness == AiSpec => []SnapshotFaithful
<1>1. HInv => SnapshotFaithful
  BY DEF HInv
<1> QED
  BY <1>1, HistoryInvariant, PTL

\* A run whose patch landed is applying, applied or cancelled, however many
\* approvals and cancels of it ran at once and wherever the process died.
THEOREM TraceIsApproved == AiSpec => []TraceNeedsApproval
<1>1. HInv => TraceNeedsApproval
  BY DEF HInv
<1> QED
  BY <1>1, HistoryInvariant, PTL

\* AIG-05: whenever approveAiRun appends its patch, the pre_ai snapshot that
\* it took is listed and readable, of a revision no older than the one the
\* patch was computed for.
THEOREM UndoIsThere == AiSpec => UndoPoint
<1>1. ASSUME HInv, NEW p \in Calls, NEW k \in Nonces, AppendPatch(p, k)
      PROVE  \E s \in snapshots :
               /\ s.id = call[p].id
               /\ s.preAi
               /\ s.revision \in source[RunOf(p)]..CurrentRevision
               /\ objects[s.id] = SceneAt(log, s.revision)
  <2>1. PICK s \in snapshots :
          s.id = call[p].id /\ s.preAi /\ source[RunOf(p)] <= s.revision
    BY <1>1, CallTypes DEF AppendPatch, CallInv, ApprovingCall
  <2>2. RunOf(p) \in Runs
    BY <1>1, CallTypes DEF AppendPatch, CallInv, ApprovingCall
  <2>3. /\ s.revision \in Nat /\ s.revision <= CurrentRevision
        /\ CurrentRevision \in Nat /\ source[RunOf(p)] \in Nat
        /\ objects[s.id] = SceneAt(log, s.revision)
    BY <1>1, <2>2, CallTypes
    DEF HInv, SnapshotFaithful, Snapshot, CurrentRevision
  <2> QED
    BY <2>1, <2>3
<1>2. HInv => [\A p \in Calls, k \in Nonces : AppendPatch(p, k) =>
                 \E s \in snapshots :
                   /\ s.id = call[p].id
                   /\ s.preAi
                   /\ s.revision \in source[RunOf(p)]..CurrentRevision
                   /\ objects[s.id] = SceneAt(log, s.revision)]_vars
  BY <1>1
<1> QED
  BY <1>2, HistoryInvariant, PTL DEF UndoPoint

----------------------------------------------------------------------------
(* Restores.  A call that read the current scene relies, element by        *)
(* element, on nobody having touched it since: its own invariant.          *)

RestoreRead(p) ==
  At(p, "append") /\ call[p].after = "idle" =>
    /\ call[p].revision <= CurrentRevision
    /\ \A e \in Elements :
         Raced(p, e) \/ CurrentScene[e] = call[p].scene[e]

\* The last operation of a log that was appended to.
LEMMA AppendedScene ==
  ASSUME NEW l \in Seq(Operation), NEW deltas \in Scenes, NEW m,
         m = AppendOperation(l, deltas)
  PROVE  /\ Len(m) = Len(l) + 1
         /\ \A n \in 1..Len(l) : m[n] = l[n]
         /\ m[Len(m)].deltas = deltas
         /\ SceneAt(m, Len(m)) =
              ReconcileOperation(SceneAt(l, Len(l)), deltas)
<1> DEFINE op == [deltas |-> deltas,
                  scene |-> ReconcileOperation(SceneAt(l, Len(l)), deltas)]
<1>1. m = Append(l, op)
  BY DEF AppendOperation
<1>2. /\ op.deltas = deltas
      /\ op.scene = ReconcileOperation(SceneAt(l, Len(l)), deltas)
  OBVIOUS
<1>3. SceneAt(l, Len(l)) \in Scenes
  BY SceneAtType
<1>4. op \in Operation
  BY <1>3, ReconcileType DEF Operation, Scenes
<1> HIDE DEF op
<1>5. /\ Len(m) = Len(l) + 1
      /\ \A n \in 1..Len(l) : m[n] = l[n]
      /\ m[Len(m)] = op
  BY <1>1, <1>4
<1>6. Len(m) # 0
  BY <1>5
<1> QED
  BY <1>2, <1>5, <1>6 DEF SceneAt

\* An operation leaves alone the elements it has no delta for.
LEMMA Untouched ==
  ASSUME NEW scene, NEW deltas, NEW e \in Elements, ~Present(deltas[e])
  PROVE  ReconcileOperation(scene, deltas)[e] = scene[e]
BY DEF ReconcileOperation, MergeScene, MergeElement, Present, Absent

\* The log moves by whole operations.
LEMMA LogSteps ==
  ASSUME HInv, [AiNext]_vars
  PROVE  \/ log' = log
         \/ \E deltas \in Scenes : log' = AppendOperation(log, deltas)
<1>1. CASE Edits
  BY <1>1, EditDeltasType DEF Edits, Editing, Edit, Append1
<1>2. ASSUME NEW p \in Calls, RunStep(p)
      PROVE  \/ log' = log
             \/ \E deltas \in Scenes : log' = AppendOperation(log, deltas)
  <2>1. ASSUME NEW k \in Nonces, AppendPatch(p, k)
        PROVE  \/ log' = log
               \/ \E deltas \in Scenes : log' = AppendOperation(log, deltas)
    <3>1. source[RunOf(p)] \in 0..Len(log)
      BY <2>1, CallTypes DEF AppendPatch, CallInv, ApprovingCall
    <3>2. SceneAt(log, source[RunOf(p)]) \in Scenes
      BY <3>1, CallTypes, SceneAtType
    <3> QED
      BY <2>1, <3>2, PatchDeltasType DEF AppendPatch, Append1
  <2> QED
    BY <1>2, <2>1
    DEF RunStep, CreateRun, Approve, Cancel, Advance, FailRun, Preview,
        AttachPreview, LoadScene, SetApplying, FinishApproval, CancelWrite,
        historyVars
<1>3. ASSUME NEW p \in Calls, OtherStep(p)
      PROVE  \/ log' = log
             \/ \E deltas \in Scenes : log' = AppendOperation(log, deltas)
  BY <1>3, RestoreDeltasType
  DEF OtherStep, HistoryStep, TakeSnapshot, Materialize, PutObject,
      InsertSnapshot, Restore, ReadCurrent, AppendRestore, Append1, Abandon
<1>4. CASE Restart
  BY <1>4 DEF Restart
<1>5. CASE UNCHANGED vars
  BY <1>5 DEF vars, historyVars
<1> QED
  BY <1>1, <1>2, <1>3, <1>4, <1>5 DEF AiNext

\* Only ReadCurrent makes a call ready to append a restore.
LEMMA CallSteps ==
  ASSUME HInv, [AiNext]_vars, NEW q \in Calls
  PROVE  \/ call'[q] = call[q]
         \/ ReadCurrent(q)
         \/ call'[q].step # "append"
         \/ call'[q].after = "append"
<1>0. /\ call \in [Calls -> Call]
      /\ \A p \in Calls : call[p].after \in {"idle", "append"}
  BY CallTypes DEF HInv, AiTypeOK, HistoryTypeOK, CallInv
<1>1. CASE Edits
  BY <1>1 DEF Edits, Editing, Edit
<1>2. ASSUME NEW p \in Calls, NEW c, Set(p, c), c.step # "append"
      PROVE  call'[q] = call[q] \/ call'[q].step # "append"
  BY <1>0, <1>2 DEF Set
<1>3. ASSUME NEW p \in Calls, NEW step, step # "append", Goto(p, step)
      PROVE  call'[q] = call[q] \/ call'[q].step # "append"
  <2>1. [call[p] EXCEPT !.step = step].step = step
    BY <1>0 DEF Call
  <2> QED
    BY <1>2, <1>3, <2>1 DEF Goto
<1>4. ASSUME NEW p \in Calls, Return(p)
      PROVE  call'[q] = call[q] \/ call'[q].step # "append"
  BY <1>2, <1>4 DEF Return, NoCall
<1>5. ASSUME NEW p \in Calls, RunStep(p)
      PROVE  call'[q] = call[q] \/ call'[q].step # "append"
  <2>1. CASE Advance(p) \/ Preview(p)
    BY <2>1 DEF Advance, Preview, historyVars
  <2>2. CASE \E r \in Runs : CreateRun(p, r)
    BY <1>2, <2>2 DEF CreateRun, NoCall
  <2>3. CASE SetApplying(p)
    BY <1>2, <2>3 DEF SetApplying, NoCall
  <2>4. CASE \E r \in Runs : Approve(p, r) \/ Cancel(p, r)
    BY <1>3, <2>4 DEF Approve, Cancel
  <2>5. CASE \E k \in Nonces : AppendPatch(p, k)
    BY <1>3, <2>5 DEF AppendPatch
  <2>6. CASE LoadScene(p)
    BY <1>3, <1>4, <2>6 DEF LoadScene, Reply
  <2>7. CASE FailRun(p) \/ AttachPreview(p) \/ FinishApproval(p)
             \/ CancelWrite(p)
    BY <1>4, <2>7 DEF FailRun, AttachPreview, FinishApproval, CancelWrite,
       Reply
  <2> QED
    BY <1>5, <2>1, <2>2, <2>3, <2>4, <2>5, <2>6, <2>7 DEF RunStep
<1>6. ASSUME NEW p \in Calls, OtherStep(p)
      PROVE  \/ call'[q] = call[q]
             \/ ReadCurrent(q)
             \/ call'[q].step # "append"
             \/ call'[q].after = "append"
  <2>1. CASE TakeSnapshot(p)
    BY <1>3, <2>1 DEF TakeSnapshot
  <2>2. CASE Materialize(p) \/ PutObject(p)
    BY <1>0, <1>2, <2>2 DEF Materialize, PutObject, Call
  <2>3. CASE InsertSnapshot(p)
    <3>1. CASE call[p].after = "idle"
      BY <1>4, <2>3, <3>1 DEF InsertSnapshot
    <3>2. CASE call[p].after = "append"
      <4>1. [call[p] EXCEPT !.step = "append"].after = "append"
        BY <1>0, <3>2 DEF Call
      <4> QED
        BY <1>0, <2>3, <3>2, <4>1 DEF InsertSnapshot, Goto, Set
    <3> QED
      BY <1>0, <3>1, <3>2
  <2>4. CASE \E s \in snapshots : Restore(p, s)
    BY <1>2, <2>4 DEF Restore, NoCall
  <2>5. CASE ReadCurrent(p)
    BY <1>0, <2>5 DEF ReadCurrent, Set
  <2>6. CASE Abandon(p) \/ \E k \in Nonces : AppendRestore(p, k)
    BY <1>4, <2>6 DEF Abandon, AppendRestore
  <2> QED
    BY <1>6, <2>1, <2>2, <2>3, <2>4, <2>5, <2>6 DEF OtherStep, HistoryStep
<1>7. CASE Restart
  BY <1>7 DEF Restart, NoCall
<1>8. CASE UNCHANGED vars
  BY <1>8 DEF vars, historyVars
<1> QED
  BY <1>1, <1>5, <1>6, <1>7, <1>8 DEF AiNext

\* A call that waits to append keeps what it relies on as others append.
LEMMA RestoreReadFrame ==
  ASSUME HInv, NEW p \in Calls, RestoreRead(p), call'[p] = call[p],
         \/ log' = log
         \/ \E deltas \in Scenes : log' = AppendOperation(log, deltas)
  PROVE  RestoreRead(p)'
<1> SUFFICES ASSUME At(p, "append"), call[p].after = "idle"
             PROVE  /\ call[p].revision <= Len(log')
                    /\ \A e \in Elements :
                         \/ Raced(p, e)'
                         \/ SceneAt(log', Len(log'))[e] = call[p].scene[e]
  BY DEF RestoreRead, At, CurrentRevision, CurrentScene
<1>0. /\ log \in Seq(Operation) /\ Len(log) \in Nat
      /\ call[p].revision \in Nat /\ call[p].revision <= Len(log)
      /\ \A e \in Elements :
           Raced(p, e) \/ SceneAt(log, Len(log))[e] = call[p].scene[e]
  BY CallTypes DEF RestoreRead, CurrentRevision, CurrentScene, Call
<1>1. CASE log' = log
  BY <1>0, <1>1 DEF Raced, CurrentRevision
<1>2. ASSUME NEW deltas \in Scenes, log' = AppendOperation(log, deltas)
      PROVE  /\ call[p].revision <= Len(log')
             /\ \A e \in Elements :
                  \/ Raced(p, e)'
                  \/ SceneAt(log', Len(log'))[e] = call[p].scene[e]
  <2>1. /\ Len(log') = Len(log) + 1
        /\ \A n \in 1..Len(log) : log'[n] = log[n]
        /\ log'[Len(log')].deltas = deltas
        /\ SceneAt(log', Len(log')) =
             ReconcileOperation(SceneAt(log, Len(log)), deltas)
    BY <1>0, <1>2, AppendedScene
  <2>2. ASSUME NEW e \in Elements, Raced(p, e)
        PROVE  Raced(p, e)'
    <3>1. PICK k \in (call[p].revision + 1)..Len(log) :
            Present(log[k].deltas[e])
      BY <2>2 DEF Raced, CurrentRevision
    <3>2. /\ k \in (call[p].revision + 1)..Len(log')
          /\ log'[k] = log[k]
      BY <1>0, <2>1
    <3> QED
      BY <3>1, <3>2 DEF Raced, CurrentRevision
  <2>3. ASSUME NEW e \in Elements, Present(deltas[e])
        PROVE  Raced(p, e)'
    <3>1. Len(log') \in (call[p].revision + 1)..Len(log')
      BY <1>0, <2>1
    <3> QED
      BY <2>1, <2>3, <3>1 DEF Raced, CurrentRevision
  <2>4. ASSUME NEW e \in Elements, ~Present(deltas[e])
        PROVE  SceneAt(log', Len(log'))[e] = SceneAt(log, Len(log))[e]
    BY <2>1, <2>4, Untouched
  <2> QED
    BY <1>0, <2>1, <2>2, <2>3, <2>4
<1> QED
  BY <1>1, <1>2

\* What buildRestoreDeltas was built on is still there when the restore is
\* appended, for each element no operation touched in between.
THEOREM RestoreReadInvariant == AiSpec => [](\A p \in Calls : RestoreRead(p))
<1> DEFINE RInv == \A p \in Calls : RestoreRead(p)
<1>1. AiInit => RInv
  BY DEF AiInit, Init, NoCall, RestoreRead, At
<1>2. HInv /\ RInv /\ [AiNext]_vars => RInv'
  <2> SUFFICES ASSUME HInv, RInv, [AiNext]_vars, NEW p \in Calls
               PROVE  RestoreRead(p)'
    OBVIOUS
  <2>1. CASE call'[p] = call[p]
    BY <2>1, LogSteps, RestoreReadFrame
  <2>2. CASE ReadCurrent(p)
    <3>1. /\ call \in [Calls -> Call] /\ log' = log
          /\ Len(log) \in Nat
      BY <2>2, CallTypes DEF ReadCurrent, HInv, AiTypeOK, HistoryTypeOK
    <3>2. call'[p].scene = CurrentScene /\ call'[p].revision = CurrentRevision
      BY <2>2, <3>1 DEF ReadCurrent, Set, Call
    <3> QED
      BY <3>1, <3>2 DEF RestoreRead, CurrentScene, CurrentRevision
  <2>3. CASE call'[p].step # "append" \/ call'[p].after = "append"
    BY <2>3 DEF RestoreRead, At
  <2> QED
    BY <2>1, <2>2, <2>3, CallSteps
<1> HIDE DEF RInv
<1>3. AiSpec => []RInv
  BY <1>1, <1>2, HistoryInvariant, PTL DEF AiSpec
<1> QED
  BY <1>3 DEF RInv

\* One element of a restore: the delta outbids the element it was built on.
LEMMA DeltaLands ==
  ASSUME NEW current \in Stamp, NEW target \in Stamp, NEW k \in Nat,
         NEW delta, delta = RestoreDelta(current, target, k),
         NEW after,
         after = MergeElement(current,
                   IF Effective(current, delta) THEN delta ELSE Absent)
  PROVE  \/ Live(target) /\ Live(after)
         \/ ~Present(target) /\ ~Live(after)
         \/ Present(target) /\ target.isDeleted
<1>1. CASE Live(target)
  <2> DEFINE v == (IF Present(current) THEN current ELSE target).version
  <2>1. /\ v \in Nat /\ v >= current.version
        /\ current.version \in Nat
    BY DEF Stamp, Present
  <2>2. delta = Delta(v + 1, k, FALSE)
    BY <1>1 DEF RestoreDelta, Live
  <2> HIDE DEF v
  <2>3. /\ delta.version = v + 1 /\ delta.isDeleted = FALSE
    BY <2>2 DEF Delta
  <2>4. Effective(current, delta) /\ Present(delta) /\ Live(delta)
        /\ RemoteWins(current, delta)
    BY <2>1, <2>3 DEF Effective, Present, Live, RemoteWins
  <2>5. after = delta
    BY <2>4 DEF MergeElement
  <2> QED
    BY <1>1, <2>4, <2>5
<1>2. CASE ~Present(target) /\ Live(current)
  <2>1. delta = Delta(current.version + 1, k, TRUE)
    BY <1>2 DEF RestoreDelta
  <2>2. delta.version = current.version + 1 /\ delta.isDeleted = TRUE
    BY <2>1 DEF Delta
  <2>3. /\ Effective(current, delta) /\ Present(delta) /\ ~Live(delta)
        /\ RemoteWins(current, delta)
    BY <1>2, <2>2 DEF Effective, Present, Live, RemoteWins, Stamp
  <2>4. after = delta
    BY <2>3 DEF MergeElement
  <2> QED
    BY <1>2, <2>3, <2>4
<1>3. CASE ~Present(target) /\ ~Live(current)
  <2>1. delta = Absent
    BY <1>3 DEF RestoreDelta
  <2>2. after = current
    BY <2>1 DEF MergeElement, Present, Absent
  <2> QED
    BY <1>3, <2>2
<1> QED
  BY <1>1, <1>2, <1>3 DEF Live

\* VER-02: a restore lands on every element that nobody edited between its
\* read and its append, whatever else was appended between the two.
THEOREM RestoresLand == AiSpec => RestoreLands
<1> DEFINE Landed(p, e) ==
             LET target == call[p].target[e]
                 after  == CurrentScene'[e]
             IN  \/ Raced(p, e)
                 \/ Live(target) /\ Live(after)
                 \/ ~Present(target) /\ ~Live(after)
                 \/ Present(target) /\ target.isDeleted
<1>1. ASSUME HInv, \A p \in Calls : RestoreRead(p),
             NEW p \in Calls, NEW k \in Nonces, AppendRestore(p, k),
             NEW e \in Elements
      PROVE  Landed(p, e)
  <2> DEFINE deltas == BuildRestoreDeltas(call[p].scene, call[p].target, k)
  <2>1. deltas \in Scenes /\ log' = AppendOperation(log, deltas)
    BY <1>1, RestoreDeltasType DEF AppendRestore, Append1
  <2>2. /\ call[p].scene[e] \in Stamp /\ call[p].target[e] \in Stamp
        /\ k \in Nat /\ log \in Seq(Operation)
    BY <1>1, CallTypes, NoncesAssumption DEF Call, Scenes
  <2>3. deltas[e] = RestoreDelta(call[p].scene[e], call[p].target[e], k)
    BY DEF BuildRestoreDeltas
  <2>4. \/ Raced(p, e)
        \/ SceneAt(log, Len(log))[e] = call[p].scene[e]
    BY <1>1 DEF AppendRestore, RestoreRead, CurrentScene
  <2> HIDE DEF deltas
  <2>5. CurrentScene' = ReconcileOperation(SceneAt(log, Len(log)), deltas)
    BY <2>1, <2>2, AppendedScene DEF CurrentScene
  <2>6. CurrentScene'[e] =
          MergeElement(SceneAt(log, Len(log))[e],
            IF Effective(SceneAt(log, Len(log))[e], deltas[e])
            THEN deltas[e] ELSE Absent)
    BY <2>5 DEF ReconcileOperation, MergeScene
  <2>7. CASE SceneAt(log, Len(log))[e] = call[p].scene[e]
    BY <2>2, <2>3, <2>6, <2>7, DeltaLands
  <2> QED
    BY <2>4, <2>7
<1>2. HInv /\ (\A p \in Calls : RestoreRead(p)) =>
        [\A p \in Calls, k \in Nonces : AppendRestore(p, k) =>
           \A e \in Elements :
             LET target == call[p].target[e]
                 after  == CurrentScene'[e]
             IN  \/ Raced(p, e)
                 \/ Live(target) /\ Live(after)
                 \/ ~Present(target) /\ ~Live(after)
                 \/ Present(target) /\ target.isDeleted]_historyVars
  BY <1>1
<1> QED
  BY <1>2, HistoryInvariant, RestoreReadInvariant, PTL DEF RestoreLands

============================================================================
