------------------------------- MODULE Scene -------------------------------
(***************************************************************************)
(* Scenes and their per-element last-writer-wins merge: mergeScene and     *)
(* reconcileOperation of packages/diagram-domain, computeDiff of           *)
(* packages/editor-adapter, and the fold of loadDiagramScene.              *)
(*                                                                         *)
(* An element is its version, its versionNonce and isDeleted: the only     *)
(* fields these functions read.  A delta is the element it carries; its    *)
(* kind is 'delete' when isDeleted holds.  The deltas of an operation are  *)
(* a function, because the mutation queue keys them by element id.         *)
(***************************************************************************)
EXTENDS Naturals, Sequences

CONSTANT Elements

\* There are element ids.
ASSUME ElementsAssumption == Elements # {}

Stamp == [version: Nat, versionNonce: Nat, isDeleted: BOOLEAN]

\* An id that a scene does not hold, or for which an operation has no delta.
Absent == [version |-> 0, versionNonce |-> 0, isDeleted |-> FALSE]

Present(s) == s.version > 0

Live(s) == Present(s) /\ ~s.isDeleted

EmptyScene == [e \in Elements |-> Absent]

\* The higher version wins; at equal versions the lower nonce wins.
RemoteWins(local, remote) ==
  \/ remote.version > local.version
  \/ /\ remote.version = local.version
     /\ remote.versionNonce < local.versionNonce

\* Mutant of MergeElement: the later operation wins, whatever its version.
MergeElementBlind(local, remote) ==
  IF Present(remote) THEN remote ELSE local

MergeElement(local, remote) ==
  IF Present(remote) /\ (~Present(local) \/ RemoteWins(local, remote))
  THEN remote ELSE local

MergeScene(local, remote) ==
  [e \in Elements |-> MergeElement(local[e], remote[e])]

\* A delete becomes a tombstone of the element the scene holds; a delete of
\* an element it does not hold is dropped.
Effective(scene, delta) == Present(scene) \/ ~delta.isDeleted

ReconcileOperation(scene, deltas) ==
  MergeScene(scene,
    [e \in Elements |-> IF Effective(scene[e], deltas[e])
                        THEN deltas[e] ELSE Absent])

\* An operation of the log, with the scene that loadDiagramScene folds from
\* the log up to and including it: each fold is the fold before it with one
\* more operation reconciled, so it is computed once, when the log grows.
Operation == [deltas: [Elements -> Stamp], scene: [Elements -> Stamp]]

SceneAt(log, n) == IF n = 0 THEN EmptyScene ELSE log[n].scene

AppendOperation(log, deltas) ==
  Append(log, [deltas |-> deltas,
               scene |-> ReconcileOperation(SceneAt(log, Len(log)), deltas)])

SameVersion(s, t) ==
  s.version = t.version /\ s.versionNonce = t.versionNonce

\* The delta between what was last known of an element and what it is now: a
\* deletion of a live element (one that left the scene keeps its old
\* version), or an upsert of a new or changed one.
DeltaOf(prior, next) ==
  IF Live(next) /\ (~Present(prior) \/ ~SameVersion(prior, next)) THEN next
  ELSE IF Live(prior) /\ Present(next) /\ next.isDeleted THEN next
  ELSE IF Live(prior) /\ ~Present(next) THEN [prior EXCEPT !.isDeleted = TRUE]
  ELSE Absent

ComputeDiff(prev, next) == [e \in Elements |-> DeltaOf(prev[e], next[e])]
============================================================================
