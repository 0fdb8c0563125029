------------------------------- MODULE AiRuns -------------------------------
(***************************************************************************)
(* AI runs on one diagram: the pipeline that proposes a patch, and its     *)
(* approval, which takes a pre_ai snapshot and appends the patch, or       *)
(* cancellation; interleaved with the history of the diagram (Snapshots).  *)
(* The pending patch lives in the memory of the process (RunStore): a      *)
(* restart loses it, and every call with it.                               *)
(*                                                                         *)
(* Of a patch the model keeps, per element, whether it is upserted or      *)
(* deleted.  A run's id is known to its user once the creating request was *)
(* answered.                                                               *)
(***************************************************************************)
EXTENDS Snapshots

CONSTANTS Runs,
          NoRun,   \* the run of a call that serves none
          NoPatch  \* the entry of a run that RunStore does not hold

ASSUME NoRunAssumption == NoRun \notin Runs

VARIABLES
  status,   \* status[r]: ai_runs.status, "none" before the row exists
  source,   \* source[r]: ai_runs.source_revision
  store,    \* store[r]: the entry of RunStore
  serves,   \* serves[p]: the run that call p is about, with the entry it got
  patched   \* observation only: patched[r], the sequences of r's patches

runVars == <<status, source, store, serves, patched>>
vars == <<historyVars, runVars>>

PatchOps == {"none", "upsert", "delete"}

Patches == [Elements -> PatchOps]

Statuses == {"none", "queued", "building_context", "calling_model",
             "validating", "previewing", "awaiting_approval", "applying",
             "applied", "failed", "cancelled"}

NoService == [run |-> NoRun, patch |-> NoPatch]

AiInit ==
  /\ Init
  /\ status = [r \in Runs |-> "none"]
  /\ source = [r \in Runs |-> 0]
  /\ store = [r \in Runs |-> NoPatch]
  /\ serves = [p \in Calls |-> NoService]
  /\ patched = [r \in Runs |-> {}]

----------------------------------------------------------------------------
RunOf(p) == serves[p].run

\* updateAiRunStatus: an UPDATE that does not look at the status there is.
UpdateStatus(r, s) == status' = [status EXCEPT ![r] = s]

\* The call is over.
Reply(p) ==
  /\ Return(p)
  /\ serves' = [serves EXCEPT ![p] = NoService]

----------------------------------------------------------------------------
(* POST ai/runs.                                                           *)

\* The scene is loaded, then the row is inserted with its revision.
CreateRun(p, r) ==
  /\ At(p, "idle")
  /\ status[r] = "none"
  /\ \A q \in Calls : RunOf(q) # r
  /\ Set(p, [NoCall EXCEPT !.step = "pipeline", !.revision = CurrentRevision])
  /\ serves' = [serves EXCEPT ![p].run = r]
  /\ UNCHANGED <<log, snapshots, objects, drawn, status, source,
                 store, patched>>

NextStatus == [none |-> "queued", queued |-> "building_context",
               building_context |-> "calling_model",
               calling_model |-> "validating"]

\* Mutant of Advance: the row gets the number of the next revision.
AdvanceNextRevision(p) ==
  LET r == RunOf(p) IN
  /\ At(p, "pipeline")
  /\ status[r] \in DOMAIN NextStatus
  /\ UpdateStatus(r, NextStatus[status[r]])
  /\ source' = [source EXCEPT ![r] = call[p].revision + 1]
  /\ UNCHANGED <<historyVars, store, serves, patched>>

\* The row is inserted, the context built, the provider called.
Advance(p) ==
  LET r == RunOf(p) IN
  /\ At(p, "pipeline")
  /\ status[r] \in DOMAIN NextStatus
  /\ UpdateStatus(r, NextStatus[status[r]])
  /\ source' = [source EXCEPT ![r] = call[p].revision]
  /\ UNCHANGED <<historyVars, store, serves, patched>>

\* The provider or a tool call failed.
FailRun(p) ==
  /\ At(p, "pipeline")
  /\ status[RunOf(p)] \in {"calling_model", "validating"}
  /\ UpdateStatus(RunOf(p), "failed")
  /\ Reply(p)
  /\ UNCHANGED <<log, snapshots, objects, drawn, source, store,
                 patched>>

\* The tools ran on the scene loaded first: they delete what it holds.
Proposable(scene) ==
  {patch \in Patches : \A e \in Elements :
     patch[e] = "delete" => Present(scene[e])}

Preview(p) ==
  LET r == RunOf(p) IN
  /\ At(p, "pipeline")
  /\ status[r] = "validating"
  /\ UpdateStatus(r, "previewing")
  /\ \E patch \in Proposable(SceneAt(log, source[r])) :
       store' = [store EXCEPT ![r] = patch]
  /\ UNCHANGED <<historyVars, source, serves, patched>>

\* attachPreview, and the reply.
AttachPreview(p) ==
  /\ At(p, "pipeline")
  /\ status[RunOf(p)] = "previewing"
  /\ UpdateStatus(RunOf(p), "awaiting_approval")
  /\ Reply(p)
  /\ UNCHANGED <<log, snapshots, objects, drawn, source, store,
                 patched>>

----------------------------------------------------------------------------
(* approveAiRun.                                                           *)

\* The run awaits approval and its patch is still there.
Approve(p, r) ==
  /\ At(p, "idle")
  /\ status[r] = "awaiting_approval"
  /\ store[r] # NoPatch
  /\ Goto(p, "load")
  /\ serves' = [serves EXCEPT ![p] = [run |-> r, patch |-> store[r]]]
  /\ UNCHANGED <<log, snapshots, objects, drawn, status, source,
                 store, patched>>

\* loadDiagramScene and the staleness check: 409 if the revision moved.
LoadScene(p) ==
  /\ At(p, "load")
  /\ IF CurrentRevision = source[RunOf(p)]
     THEN Goto(p, "applying") /\ UNCHANGED serves
     ELSE Reply(p)
  /\ UNCHANGED <<log, snapshots, objects, drawn, status, source,
                 store, patched>>

\* Mutant of SetApplying: the patch lands before the undo point is taken.
SetApplyingNoSnapshot(p) ==
  /\ At(p, "applying")
  /\ UpdateStatus(RunOf(p), "applying")
  /\ Set(p, [NoCall EXCEPT !.step = "append", !.after = "append",
                           !.preAi = TRUE])
  /\ UNCHANGED <<log, snapshots, objects, drawn, source, store,
                 serves, patched>>

\* Mutant of SetApplying: the status is only written at the end.
SetApplyingLater(p) ==
  /\ At(p, "applying")
  /\ Set(p, [NoCall EXCEPT !.step = "materialize", !.after = "append",
                           !.preAi = TRUE])
  /\ UNCHANGED <<log, snapshots, objects, drawn, status, source,
                 store, serves, patched>>

\* The status, then createSnapshot, then on to the patch.
SetApplying(p) ==
  /\ At(p, "applying")
  /\ UpdateStatus(RunOf(p), "applying")
  /\ Set(p, [NoCall EXCEPT !.step = "materialize", !.after = "append",
                           !.preAi = TRUE])
  /\ UNCHANGED <<log, snapshots, objects, drawn, source, store,
                 serves, patched>>

\* patchToDeltas, for one element of the scene the approval loaded.
PatchDelta(op, current, nonce) ==
  IF op = "none" THEN Absent
  ELSE Delta(current.version + 1, nonce, op = "delete")

PatchToDeltas(scene, patch, nonce) ==
  [e \in Elements |-> PatchDelta(patch[e], scene[e], nonce)]

\* appendOperation, unless the patch has no deltas.
AppendPatch(p, nonce) ==
  LET r == RunOf(p)
      deltas == PatchToDeltas(SceneAt(log, source[r]), serves[p].patch, nonce)
  IN
  /\ At(p, "append")
  /\ call[p].after = "append"
  /\ \/ /\ deltas # EmptyScene
        /\ Append1(nonce, deltas)
        /\ patched' = [patched EXCEPT ![r] = @ \cup {Len(log')}]
     \/ /\ deltas = EmptyScene
        /\ UNCHANGED <<log, drawn, patched>>
  /\ Goto(p, "finish")
  /\ UNCHANGED <<snapshots, objects, status, source, store, serves>>

\* The metadata, the tool calls, the status, the entry and the audit row.
FinishApproval(p) ==
  /\ At(p, "finish")
  /\ UpdateStatus(RunOf(p), "applied")
  /\ store' = [store EXCEPT ![RunOf(p)] = NoPatch]
  /\ Reply(p)
  /\ UNCHANGED <<log, snapshots, objects, drawn, source, patched>>

----------------------------------------------------------------------------
(* cancelAiRun.                                                            *)

\* The run is read; of the cancellable statuses its user sees only this one.
Cancel(p, r) ==
  /\ At(p, "idle")
  /\ status[r] = "awaiting_approval"
  /\ Goto(p, "cancel")
  /\ serves' = [serves EXCEPT ![p].run = r]
  /\ UNCHANGED <<log, snapshots, objects, drawn, status, source,
                 store, patched>>

CancelWrite(p) ==
  /\ At(p, "cancel")
  /\ UpdateStatus(RunOf(p), "cancelled")
  /\ store' = [store EXCEPT ![RunOf(p)] = NoPatch]
  /\ Reply(p)
  /\ UNCHANGED <<log, snapshots, objects, drawn, source, patched>>

----------------------------------------------------------------------------
\* The process restarts: every call is cut off, every pending patch is gone.
Restart ==
  /\ call' = [p \in Calls |-> NoCall]
  /\ serves' = [p \in Calls |-> NoService]
  /\ store' = [r \in Runs |-> NoPatch]
  /\ UNCHANGED <<log, snapshots, objects, drawn, status, source, patched>>

RunStep(p) ==
  \/ \E r \in Runs : CreateRun(p, r) \/ Approve(p, r) \/ Cancel(p, r)
  \/ Advance(p)
  \/ FailRun(p)
  \/ Preview(p)
  \/ AttachPreview(p)
  \/ LoadScene(p)
  \/ SetApplying(p)
  \/ \E k \in Nonces : AppendPatch(p, k)
  \/ FinishApproval(p)
  \/ CancelWrite(p)

\* A step of the history: the runs notice only that a call of theirs died.
OtherStep(p) ==
  /\ HistoryStep(p)
  /\ serves' = IF call'[p] = NoCall
               THEN [serves EXCEPT ![p] = NoService] ELSE serves
  /\ UNCHANGED <<status, source, store, patched>>

Edits == Editing /\ UNCHANGED runVars

AiNext ==
  \/ Edits
  \/ \E p \in Calls : RunStep(p) \/ OtherStep(p)
  \/ Restart

AiSpec == AiInit /\ [][AiNext]_vars

----------------------------------------------------------------------------
(* Properties.                                                             *)

\* The shape of the state; a run is never computed for a revision that the
\* log has not reached.
AiTypeOK ==
  /\ HistoryTypeOK
  /\ status \in [Runs -> Statuses]
  /\ source \in [Runs -> 0..CurrentRevision]
  /\ store \in [Runs -> Patches \cup {NoPatch}]
  /\ serves \in [Calls -> [run: Runs \cup {NoRun},
                           patch: Patches \cup {NoPatch}]]
  /\ patched \in [Runs -> SUBSET DOMAIN log]

\* AIG-05: when a patch lands there is a pre_ai snapshot of its own approval,
\* readable, of a revision no older than the one the patch was computed for
\* and older than the patch: the undo point.
UndoPoint ==
  [][\A p \in Calls, k \in Nonces : AppendPatch(p, k) =>
       \E s \in snapshots :
         /\ s.id = call[p].id
         /\ s.preAi
         /\ s.revision \in source[RunOf(p)]..CurrentRevision
         /\ objects[s.id] = SceneAt(log, s.revision)]_vars

\* A run whose patch is in the log never asks for approval again and never
\* reads as failed, through double approvals, cancels that race them, and
\* crashes at any step.
TraceNeedsApproval ==
  \A r \in Runs : patched[r] # {} =>
    status[r] \in {"applying", "applied", "cancelled"}

\* AIE-03: a patch never overwrites an element that changed since the
\* revision it was computed for.
NeverOverwritesNewer ==
  [][\A p \in Calls, k \in Nonces : AppendPatch(p, k) =>
       \A e \in Elements :
         (\E j \in (source[RunOf(p)] + 1)..CurrentRevision :
            Present(log[j].deltas[e]))
         => CurrentScene'[e] = CurrentScene[e]]_vars
============================================================================
