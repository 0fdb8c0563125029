------------------------------ MODULE History ------------------------------
(***************************************************************************)
(* The history panel and the comparison view of the editor page, the calls *)
(* they have in flight and the routes that serve them.  A snapshot is its  *)
(* number, in order of time; a restore is its clientMutationId, which    *)
(* appends at most one operation (module OpLog).  Two snapshots of one     *)
(* revision, listed in either order by the server, are not told apart.     *)
(***************************************************************************)
EXTENDS Integers, Sequences

CONSTANTS
    HistoryCalls,    \* bound: calls in flight
    MaxSnapshots,    \* bound: snapshots of the diagram
    MaxDialogs       \* bound: restore dialogs opened

VARIABLES
    timeline,       \* HistoryPanel: [status, items, target, mid, dialog]; target 0 is no dialog, mid 0 no id
    compare,     \* DiffView: [status, snaps, from, to, result]
    historyCall,       \* [HistoryCalls -> call with its answer]
    taken,      \* how many snapshots there are
    minted,      \* history: the dialog each clientMutationId was drawn in
    restored,    \* the clientMutationIds whose operation is in the log
    reloaded,    \* history: those that were there when the canvas was last reloaded
    heard        \* history: every appended restore was answered 200, and every reload worked

historyPanelVars == <<timeline, compare, historyCall, taken, minted, restored, reloaded, heard>>

NoHistoryCall == [op |-> "none", id |-> 0, to |-> 0, code |-> "sent", list |-> <<>>, here |-> FALSE]
PanelClosed == [status |-> "closed", items |-> <<>>, target |-> 0, mid |-> 0, dialog |-> 0]
CompareClosed == [status |-> "closed", snaps |-> <<>>, from |-> 0, to |-> 0, result |-> "none"]

HistoryInit ==
    /\ timeline = PanelClosed /\ compare = CompareClosed
    /\ historyCall = [c \in HistoryCalls |-> NoHistoryCall]
    /\ taken \in 0..1
    /\ minted = <<>> /\ restored = {} /\ reloaded = {} /\ heard = TRUE

-----------------------------------------------------------------------------
(* HistoryPanel: what the user does                                        *)

Ask(c, op, id, to) ==
    /\ historyCall[c].op = "none"
    /\ historyCall' = [historyCall EXCEPT ![c] = [NoHistoryCall EXCEPT !.op = op, !.id = id, !.to = to, !.here = TRUE]]

OpenHistory(c) ==
    /\ timeline.status = "closed"
    /\ timeline' = [timeline EXCEPT !.status = "loading"]
    /\ Ask(c, "list", 0, 0)
    /\ UNCHANGED <<compare, taken, minted, restored, reloaded, heard>>
\* unmounting: what its calls are answered is set on a component that is gone
CloseHistory ==
    /\ timeline.status # "closed"
    /\ timeline' = [PanelClosed EXCEPT !.dialog = timeline.dialog]
    /\ historyCall' = [c \in HistoryCalls |->
                   IF historyCall[c].op \in {"pick", "diff"} THEN historyCall[c] ELSE [historyCall[c] EXCEPT !.here = FALSE]]
    /\ UNCHANGED <<compare, taken, minted, restored, reloaded, heard>>
\* the form is behind the modal dialog while one is open; it is never disabled
HandleCreateSnapshot(c) ==
    /\ timeline.status # "closed" /\ timeline.target = 0
    /\ Ask(c, "create", 0, 0)
    /\ UNCHANGED <<timeline, compare, taken, minted, restored, reloaded, heard>>
RequestRestore(i) ==
    /\ timeline.status = "ready" /\ timeline.target = 0
    /\ timeline.dialog < MaxDialogs
    /\ timeline' = [timeline EXCEPT !.target = timeline.items[i], !.mid = 0, !.dialog = @ + 1]
    /\ UNCHANGED <<compare, historyCall, taken, minted, restored, reloaded, heard>>
Closed(p) == [p EXCEPT !.target = 0]
CancelRestore ==
    /\ timeline.target # 0
    /\ timeline' = Closed(timeline)
    /\ UNCHANGED <<compare, historyCall, taken, minted, restored, reloaded, heard>>
\* for the mutant: every click draws an id
ConfirmRestoreFresh(c) ==
    /\ timeline.target # 0
    /\ timeline' = [timeline EXCEPT !.mid = Len(minted) + 1]
    /\ minted' = Append(minted, timeline.dialog)
    /\ Ask(c, "restore", timeline'.mid, 0)
    /\ UNCHANGED <<compare, taken, restored, reloaded, heard>>
\* the button is not disabled: a click before the answer sends the same id again
ConfirmRestore(c) ==
    /\ timeline.target # 0
    /\ IF timeline.mid = 0
       THEN timeline' = [timeline EXCEPT !.mid = Len(minted) + 1] /\ minted' = Append(minted, timeline.dialog)
       ELSE UNCHANGED <<timeline, minted>>
    /\ Ask(c, "restore", timeline'.mid, 0)
    /\ UNCHANGED <<compare, taken, restored, reloaded, heard>>

-----------------------------------------------------------------------------
(* The routes; each may also refuse or fail, and an answer may be lost     *)

\* most recent first
ListSnapshots == [i \in 1..taken |-> taken + 1 - i]

HistoryAnswer(c, code, list) == historyCall' = [historyCall EXCEPT ![c].code = code, ![c].list = list]
ServerKeeps == UNCHANGED <<timeline, compare, minted, reloaded>>

ServeList(c) ==
    /\ historyCall[c].op \in {"list", "refresh", "relist", "pick"} /\ historyCall[c].code = "sent"
    /\ HistoryAnswer(c, "ok", ListSnapshots)
    /\ ServerKeeps /\ UNCHANGED <<taken, restored, heard>>
ServeCreate(c) ==
    /\ historyCall[c].op = "create" /\ historyCall[c].code = "sent" /\ taken < MaxSnapshots
    /\ taken' = taken + 1
    /\ HistoryAnswer(c, "ok", <<taken + 1>>)
    /\ ServerKeeps /\ UNCHANGED <<restored, heard>>
\* the operation is appended once per id; the audit row comes after it, and its failure is a 500
ServeRestore(c) ==
    /\ historyCall[c].op = "restore" /\ historyCall[c].code = "sent"
    /\ restored' = restored \cup {historyCall[c].id}
    /\ \/ HistoryAnswer(c, "ok", <<>>) /\ UNCHANGED heard
       \/ HistoryAnswer(c, "error", <<>>) /\ heard' = FALSE
    /\ ServerKeeps /\ UNCHANGED taken
\* both ends resolved to revisions, and the scenes there compared
ServeDiff(c) ==
    /\ historyCall[c].op = "diff" /\ historyCall[c].code = "sent"
    /\ HistoryAnswer(c, "ok", <<historyCall[c].id, historyCall[c].to>>)
    /\ ServerKeeps /\ UNCHANGED <<taken, restored, heard>>
\* 404 to who is no member any more; 403, a failure, or a request that never arrives
ServerRefuses(c) ==
    /\ historyCall[c].op # "none" /\ historyCall[c].code = "sent"
    /\ \E code \in {"not_found", "error"} : HistoryAnswer(c, code, <<>>)
    /\ ServerKeeps /\ UNCHANGED <<taken, restored, heard>>
LoseAnswer(c) ==
    /\ historyCall[c].code = "ok"
    /\ HistoryAnswer(c, "error", <<>>)
    /\ heard' = (heard /\ historyCall[c].op # "restore")
    /\ ServerKeeps /\ UNCHANGED <<taken, restored>>
\* a snapshot taken by somebody else or by the compaction job
OthersSnapshot ==
    /\ taken < MaxSnapshots
    /\ taken' = taken + 1
    /\ UNCHANGED <<timeline, compare, historyCall, minted, restored, reloaded, heard>>

-----------------------------------------------------------------------------
(* HistoryPanel: the answers                                               *)

AnsweredTo(c, op) == historyCall[c].op = op /\ historyCall[c].code # "sent"
Done(c) == historyCall' = [historyCall EXCEPT ![c] = NoHistoryCall]
\* setState, if the component is still there
SetPanel(c, p) == timeline' = IF historyCall[c].here THEN p ELSE timeline
AfterList(p, code, list) ==
    IF code = "ok" THEN [p EXCEPT !.items = list, !.status = "ready"] ELSE [p EXCEPT !.status = "error"]

Loaded(c) ==
    /\ \E op \in {"list", "relist"} : AnsweredTo(c, op)
    /\ SetPanel(c, AfterList(timeline, historyCall[c].code, historyCall[c].list))
    /\ Done(c)
    /\ UNCHANGED <<compare, taken, minted, restored, reloaded, heard>>
\* after a restore the list is read first, and whether or not it comes onRestored reloads the canvas
Refreshed(c) ==
    /\ AnsweredTo(c, "refresh")
    /\ SetPanel(c, AfterList(timeline, historyCall[c].code, historyCall[c].list))
    /\ \/ reloaded' = restored /\ UNCHANGED heard
       \/ heard' = FALSE /\ UNCHANGED reloaded
    /\ Done(c)
    /\ UNCHANGED <<compare, taken, minted, restored>>
\* put on top of whatever list is shown by then
AfterCreate(p, code, list) == IF code = "ok" THEN [p EXCEPT !.items = list \o @] ELSE p
CreatedSnapshot(c) ==
    /\ AnsweredTo(c, "create")
    /\ SetPanel(c, AfterCreate(timeline, historyCall[c].code, historyCall[c].list))
    /\ Done(c)
    /\ UNCHANGED <<compare, taken, minted, restored, reloaded, heard>>
\* what follows an answer: the list is read again after a 200 and after a 404
AfterRestore(code) == CASE code = "ok" -> "refresh" [] code = "not_found" -> "relist" [] OTHER -> "none"
\* whichever dialog is open is closed, with the id: by now it may be another one
RestoreAnswered(c) ==
    /\ AnsweredTo(c, "restore")
    /\ SetPanel(c, Closed([timeline EXCEPT !.mid = 0]))
    /\ LET next == AfterRestore(historyCall[c].code)
       IN  historyCall' = [historyCall EXCEPT ![c] = [NoHistoryCall EXCEPT !.op = next, !.here = historyCall[c].here /\ next # "none"]]
    /\ UNCHANGED <<compare, taken, minted, restored, reloaded, heard>>
\* a 200 whose body cannot be read: the dialog stays, with the id it will send again
RestoreUnreadable(c) ==
    /\ AnsweredTo(c, "restore") /\ historyCall[c].code = "ok"
    /\ heard' = FALSE
    /\ Done(c)
    /\ UNCHANGED <<timeline, compare, taken, minted, restored, reloaded>>

HistoryNext ==
    \/ \E c \in HistoryCalls :
         \/ OpenHistory(c) \/ HandleCreateSnapshot(c) \/ ConfirmRestore(c)
         \/ ServeList(c) \/ ServeCreate(c) \/ ServeRestore(c) \/ ServerRefuses(c) \/ LoseAnswer(c)
         \/ Loaded(c) \/ Refreshed(c) \/ CreatedSnapshot(c) \/ RestoreAnswered(c) \/ RestoreUnreadable(c)
    \/ CloseHistory \/ CancelRestore \/ OthersSnapshot
    \/ \E i \in DOMAIN timeline.items : RequestRestore(i)

-----------------------------------------------------------------------------
(* DiffView                                                                *)

CompareKeeps == UNCHANGED <<timeline, taken, minted, restored, reloaded, heard>>

OpenCompare(c) ==
    /\ compare.status = "closed"
    /\ compare' = [compare EXCEPT !.status = "loading"]
    /\ Ask(c, "pick", 0, 0)
    /\ CompareKeeps
\* the two most recent points, where nothing is picked yet
DefaultPair(d, list) ==
    IF Len(list) < 2 THEN d
    ELSE [d EXCEPT !.from = IF @ = 0 THEN list[2] ELSE @, !.to = IF @ = 0 THEN list[1] ELSE @]
PickersLoaded(c) ==
    /\ AnsweredTo(c, "pick")
    /\ compare' = IF historyCall[c].code = "ok"
                  THEN DefaultPair([compare EXCEPT !.snaps = historyCall[c].list, !.status = "ready"], historyCall[c].list)
                  ELSE [compare EXCEPT !.status = "error"]
    /\ Done(c)
    /\ CompareKeeps
\* with fewer than two points there is no form
Pick(i, j) ==
    /\ compare.status = "ready" /\ Len(compare.snaps) >= 2
    /\ compare' = [compare EXCEPT !.from = compare.snaps[i], !.to = compare.snaps[j]]
    /\ UNCHANGED historyCall /\ CompareKeeps
HandleCompare(c) ==
    /\ compare.status = "ready" /\ Len(compare.snaps) >= 2 /\ compare.from # 0 /\ compare.to # 0
    /\ Ask(c, "diff", compare.from, compare.to)
    /\ UNCHANGED compare /\ CompareKeeps
DiffShown(code) == IF code = "ok" THEN "diff" ELSE "none"
\* the answer that comes last is the one shown, whichever question it answers
DiffAnswered(c) ==
    /\ AnsweredTo(c, "diff")
    /\ compare' = [compare EXCEPT !.result = DiffShown(historyCall[c].code)]
    /\ Done(c)
    /\ CompareKeeps

CompareNext ==
    \/ \E c \in HistoryCalls :
         \/ OpenCompare(c) \/ PickersLoaded(c) \/ HandleCompare(c) \/ DiffAnswered(c)
         \/ ServeList(c) \/ ServeDiff(c) \/ ServerRefuses(c) \/ LoseAnswer(c)
    \/ \E i, j \in DOMAIN compare.snaps : Pick(i, j)
    \/ OthersSnapshot

HistorySpec == HistoryInit /\ [][HistoryNext \/ CompareNext]_historyPanelVars

-----------------------------------------------------------------------------
\* SNAP-06: a confirmation dialog appends at most one restore, however often confirm is pressed, whichever answers
\* are lost or fail and in whatever order they come; an answer to an earlier dialog may close a later one, but never
\* lets it draw a second id.  SNAP-08: when every restore was heard of, nothing in flight means the canvas was
\* reloaded after the last of them, also when the panel was left meanwhile.
RestoredOncePerDialog ==
    /\ \A m, n \in restored : minted[m] = minted[n] => m = n
    /\ heard /\ (\A c \in HistoryCalls : historyCall[c].op = "none") => reloaded = restored
=============================================================================
