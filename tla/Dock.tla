-------------------------------- MODULE Dock --------------------------------
(***************************************************************************)
(* The AI dock of one editor session: its store, the buttons it offers in  *)
(* each phase, and the calls it has in flight, against AI runs of which    *)
(* only the status and the snapshot taken before applying matter here.     *)
(* The reload of the canvas after a change is one step, with its answer.   *)
(***************************************************************************)
EXTENDS Integers, Sequences, FiniteSets

CONSTANTS
    DockRuns,    \* bound: runs, named by numbers in the order they are created
    DockCalls    \* bound: calls of the dock in flight

\* 0 stands for no run
ASSUME DockAssumption == DockRuns \subseteq Nat \ {0}

VARIABLES
    dock,        \* the store: [phase, run, last, conflict]; last is the run whose snapshot undo restores
    sent,        \* [DockCalls -> call with its answer]
    runs,        \* [DockRuns -> status of the run]
    applied,     \* the runs applied to the diagram and not undone, oldest first
    before,      \* [DockRuns -> what was applied when the run's snapshot was taken]
    canvasNow,   \* does the canvas show the diagram as it is
    orderly      \* history: calls never overlapped, no answer and no reload failed

dockVars == <<dock, sent, runs, applied, before, canvasNow, orderly>>

NoDockRun == 0
NoCallOut == [op |-> "none", run |-> NoDockRun, ans |-> "none"]
InitialState == [phase |-> "idle", run |-> NoDockRun, last |-> NoDockRun, conflict |-> FALSE]
RunOngoing == {"submitting", "awaiting_approval", "approving", "restoring"}

DockInit ==
    /\ dock = InitialState
    /\ sent = [c \in DockCalls |-> NoCallOut]
    /\ runs = [r \in DockRuns |-> "none"]
    /\ applied = <<>> /\ before = [r \in DockRuns |-> <<>>]
    /\ canvasNow = TRUE /\ orderly = TRUE

-----------------------------------------------------------------------------
(* The store (aiDockStore) and the buttons (AiDock)                        *)

SubmitStart(d) == [d EXCEPT !.phase = "submitting", !.run = NoDockRun, !.conflict = FALSE]
SubmitSuccess(d, r) == [d EXCEPT !.phase = "awaiting_approval", !.run = r]
SubmitFailed(d) == [d EXCEPT !.phase = "error", !.run = NoDockRun]
RateLimited(d) == [d EXCEPT !.phase = "rate_limited"]
ApproveSuccess(d, snapshot) == [d EXCEPT !.phase = "applied", !.last = snapshot]
\* a conflict and a discard both end idle, with the run and its preview gone
ApproveConflict(d) == [d EXCEPT !.phase = "idle", !.run = NoDockRun, !.conflict = TRUE]
Cancelled(d) == [d EXCEPT !.phase = "idle", !.run = NoDockRun]
\* for the mutant: what was undone stays on offer
UndoSuccessOffered(d) == [d EXCEPT !.phase = "idle"]
UndoSuccess(d) == [d EXCEPT !.phase = "idle", !.last = NoDockRun]
UndoFailed(d) == [d EXCEPT !.phase = "applied"]

DockCall(c, op, r, d) ==
    /\ sent[c].op = "none"
    /\ sent' = [sent EXCEPT ![c] = [op |-> op, run |-> r, ans |-> "sent"]]
    /\ dock' = d
    /\ orderly' = (orderly /\ \A k \in DockCalls : sent[k].op = "none")
    /\ UNCHANGED <<runs, applied, before, canvasNow>>

\* a run that is going on, or the minute after a 429, disables the button
HandleAsk(c) == dock.phase \notin RunOngoing \cup {"rate_limited"} /\ DockCall(c, "submit", NoDockRun, SubmitStart(dock))
RateLimitEnds(c) == dock.phase = "rate_limited" /\ DockCall(c, "submit", NoDockRun, SubmitStart(dock))
HandleApprove(c) ==
    dock.phase = "awaiting_approval" /\ dock.run # NoDockRun /\ DockCall(c, "approve", dock.run, [dock EXCEPT !.phase = "approving"])
\* the phase does not change until the answer: approve can still be pressed
HandleDiscard(c) ==
    dock.phase = "awaiting_approval" /\ dock.run # NoDockRun /\ DockCall(c, "cancel", dock.run, dock)
\* offered in every phase but restoring
HandleUndo(c) ==
    dock.last # NoDockRun /\ dock.phase # "restoring" /\ DockCall(c, "undo", dock.last, [dock EXCEPT !.phase = "restoring"])

-----------------------------------------------------------------------------
(* The server, as the dock's client sees it                                *)

Arrived(c, op) == sent[c].op = op /\ sent[c].ans = "sent"
Reply(c, ans) == sent' = [sent EXCEPT ![c].ans = ans]

\* POST /diagrams/:id/ai/runs: a run with a preview, a run that failed before it, or no run at all
CreateAiRun(c) ==
    /\ Arrived(c, "submit")
    /\ \/ \E r \in DockRuns :
            /\ runs[r] = "none" /\ \A q \in DockRuns : q < r => runs[q] # "none"
            /\ \E st \in {"awaiting", "failed"} :
                 /\ runs' = [runs EXCEPT ![r] = st]
                 /\ sent' = [sent EXCEPT ![c].run = r, ![c].ans = IF st = "awaiting" THEN "ok" ELSE "error"]
       \/ Reply(c, "limited") /\ UNCHANGED runs
       \/ Reply(c, "error") /\ UNCHANGED runs
    /\ UNCHANGED <<dock, applied, before, canvasNow, orderly>>
\* POST /ai/runs/:id:approve applies a run that waits, or refuses with 409 and leaves it, or knows no such patch
ApproveAiRun(c) ==
    /\ Arrived(c, "approve")
    /\ \/ /\ runs[sent[c].run] = "awaiting"
          /\ runs' = [runs EXCEPT ![sent[c].run] = "applied"]
          /\ applied' = Append(applied, sent[c].run) /\ before' = [before EXCEPT ![sent[c].run] = applied]
          /\ canvasNow' = FALSE
          /\ Reply(c, "ok")
       \/ \E ans \in {"conflict", "error"} : Reply(c, ans) /\ UNCHANGED <<runs, applied, before, canvasNow>>
    /\ UNCHANGED <<dock, orderly>>
CancelAiRun(c) ==
    /\ Arrived(c, "cancel")
    /\ runs' = [runs EXCEPT ![sent[c].run] = IF @ = "awaiting" THEN "cancelled" ELSE @]
    /\ Reply(c, IF runs[sent[c].run] = "awaiting" THEN "ok" ELSE "error")
    /\ UNCHANGED <<dock, applied, before, canvasNow, orderly>>
\* POST snapshots/:id:restore brings back the scene from before the run, whatever was applied or undone since
RestoreBefore(c) ==
    /\ Arrived(c, "undo")
    /\ \/ /\ applied' = before[sent[c].run] /\ canvasNow' = FALSE
          /\ Reply(c, "ok")
       \/ Reply(c, "error") /\ UNCHANGED <<applied, canvasNow>>
    /\ UNCHANGED <<dock, runs, before, orderly>>

\* the call or its answer is lost: fetch rejects
LoseCall(c) ==
    /\ sent[c].op # "none" /\ sent[c].ans # "lost"
    /\ orderly' = (orderly /\ (sent[c].ans # "ok" \/ sent[c].op = "submit"))
    /\ Reply(c, "lost")
    /\ UNCHANGED <<dock, runs, applied, before, canvasNow>>

-----------------------------------------------------------------------------
(* AiDockClient: one branch per answer, then the dock's own continuation   *)

\* POST ai/runs
SubmitRequest(d, k) ==
    CASE k.ans = "limited" -> RateLimited(d)
      [] k.ans = "ok" -> SubmitSuccess(d, k.run)
      [] OTHER -> SubmitFailed(d)
ApproveAnswer(d, k) ==
    CASE k.ans = "conflict" -> ApproveConflict(d)
      [] k.ans = "ok" -> ApproveSuccess(d, k.run)
      [] OTHER -> SubmitFailed(d)
\* any answer, or none, ends a discard and an undo the same way
Undo(d, k) == IF k.ans = "ok" THEN UndoSuccess(d) ELSE UndoFailed(d)

AfterCall(d, k) ==
    CASE k.op = "submit" -> SubmitRequest(d, k)
      [] k.op = "approve" -> ApproveAnswer(d, k)
      [] k.op = "cancel" -> Cancelled(d)
      [] OTHER -> Undo(d, k)
\* onApproved: refreshScene, after an approval that ended applied and an undo that ended idle; it may fail
OnApproved(d, k) ==
    (k.op = "approve" /\ d.phase = "applied") \/ (k.op = "undo" /\ d.phase = "idle")
FinishCall(c) ==
    LET d == AfterCall(dock, sent[c]) IN
    /\ sent[c].op # "none" /\ sent[c].ans # "sent"
    /\ dock' = d
    /\ \/ OnApproved(d, sent[c]) /\ canvasNow' = TRUE /\ UNCHANGED orderly
       \/ OnApproved(d, sent[c]) /\ orderly' = FALSE /\ UNCHANGED canvasNow
       \/ ~OnApproved(d, sent[c]) /\ UNCHANGED <<canvasNow, orderly>>
    /\ sent' = [sent EXCEPT ![c] = NoCallOut]
    /\ UNCHANGED <<runs, applied, before>>
\* the answer is ok and its body cannot be read: nothing more happens
UnreadableBody(c) ==
    /\ sent[c].op \in {"submit", "approve"} /\ sent[c].ans = "ok"
    /\ sent' = [sent EXCEPT ![c] = NoCallOut]
    /\ orderly' = FALSE
    /\ UNCHANGED <<dock, runs, applied, before, canvasNow>>

DockNext ==
    \E c \in DockCalls :
      \/ HandleAsk(c) \/ RateLimitEnds(c) \/ HandleApprove(c) \/ HandleDiscard(c) \/ HandleUndo(c)
      \/ CreateAiRun(c) \/ ApproveAiRun(c) \/ CancelAiRun(c) \/ RestoreBefore(c)
      \/ LoseCall(c) \/ FinishCall(c) \/ UnreadableBody(c)

DockSpec == DockInit /\ [][DockNext]_dockVars

-----------------------------------------------------------------------------
\* In a session that presses one button at a time and loses no answer, undo is on offer only for the run that was
\* applied last and is still in the diagram, a run shown for approval is one the server still holds open, a dock
\* that says "applied" can undo, and the canvas shows what was applied or undone (DOCK-13, DOCK-15, DOCK-18..20).
UndoTargetsLastApplied ==
    orderly /\ (\A c \in DockCalls : sent[c].op = "none") =>
      /\ dock.last # NoDockRun => applied # <<>> /\ dock.last = applied[Len(applied)]
      /\ dock.phase = "awaiting_approval" => runs[dock.run] = "awaiting"
      /\ dock.phase = "applied" => dock.last # NoDockRun
      /\ canvasNow
=============================================================================
