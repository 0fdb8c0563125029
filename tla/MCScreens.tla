----------------------------- MODULE MCScreens -----------------------------
(***************************************************************************)
(* One run for the browser's pages and panels, the tools of the AI agent,  *)
(* the diagram documents and what goes into and out of a diagram, which    *)
(* share no state: a behaviour is about one of them, and the others rest   *)
(* in one initial state.  Where one has many initial states the run starts *)
(* from those that differ in what the properties look at.                  *)
(***************************************************************************)
EXTENDS Pages, Agent, Ir, Presentations, Comments, Dock, History, Transfers, Assets

VARIABLE part    \* the screen or tool this behaviour is about

screensVars == <<part, pageVars, agentVars, irVars, presentationVars, commentVars, dockVars, historyPanelVars, transferVars, assetVars>>

\* the element ids that a model's tool calls may name
MCNamed == {<<"a">>, <<"b">>, <<"k">>, <<"n">>}

\* documents of two nodes, or three one of which has a name like a Mermaid header, in two containers that may
\* hold each other, with no edge, one or two
MCEdge(f, t, d, l) == [from |-> f, to |-> t, dir |-> d, mode |-> "sync", label |-> l]
MCEdges == {<<>>, <<MCEdge("n1", "c1", "oneway", "")>>,
            <<MCEdge("n2", "n1", "oneway", "calls"), MCEdge("n1", "graph", "bidirectional", "")>>,
            <<MCEdge("n1", "n2", "bidirectional", ""), MCEdge("n2", "n1", "oneway", "calls")>>}
MCKids == [c1 : {<<>>, <<"n1">>, <<"n2", "n1">>, <<"c2", "n1">>, <<"c2">>},
           c2 : {<<>>, <<"n2">>, <<"n1">>, <<"graph", "n2">>, <<"c2", "n2">>, <<"c1">>}]
MCDocuments ==
    [kind : {"c4-context", "business-flow"}, nodes : {<<"n1", "n2">>, <<"n1", "n2", "graph">>},
     conts : {<<"c1", "c2">>}, kids : MCKids, lane : {{"c1"}, {"c1", "c2"}}, edges : MCEdges]

\* an .excalidraw file reads as a DSL of no lines; a flowchart is no .excalidraw file
MCValid == {<<"drawing", "excalidraw">>, <<"drawing", "mermaid">>, <<"flowchart", "mermaid">>}

-----------------------------------------------------------------------------
(* Where each component starts, and where it rests                         *)

\* the user who looks at a members page is its administrator
PageStarts ==
    /\ rows[Self] = [val |-> "admin", on |-> FALSE, key |-> 0]
    /\ \A i \in Rows : rows[i].val # "other" \/ page.kind = "members"
    /\ part # "pages" => page.kind = "projects" /\ ~page.may /\ \A i \in Rows \ {Self} : rows[i] = NoRow

\* nobody has configured a model, or both a workspace and the instance have, or the instance alone
AgentStarts ==
    /\ agent.sel = {} <=> ~Alive(canvas, Label(Arrow1))
    /\ agent.enabled # {"workspace"} /\ (agent.enabled = {"global"} => ~Alive(canvas, Shape2))
    /\ part # "agent" => canvas = Drawing({}) /\ agent.enabled = {}

\* two frames; the editor begins with no link and nothing published, the audience with a link and a frame to jump to
DeckStarts ==
    /\ deck.frames["f1"].pos = 0 /\ deck.frames["f2"].pos = 1 /\ deck.frames["f3"].pos = -1
    /\ deck.frames["f2"].nav = {}
    /\ IF part = "seat"
       THEN deck.frames["f1"].nav = {"f2"} /\ shares["l1"].role = "viewer" /\ standing \in {"editor", "none"}
       ELSE deck.frames["f1"].nav = {} /\ shares["l1"] = NoLink /\ deck.snap = 0
    /\ part \notin {"deck", "seat"} => standing = "none"

\* nothing said yet, or a reply to somebody else's comment
CommentStarts ==
    /\ anchor = [selected |-> TRUE, live |-> FALSE]
    /\ \/ thread = <<>>
       \/ part = "comments" /\ thread = <<NewComment("c1", "other", NoParent, FALSE, {}),
                                          NewComment("c2", "other", "c1", FALSE, {})>>

ScreensInit ==
    /\ part \in {"pages", "agent", "ir", "deck", "seat", "comments", "dock", "history", "compare", "import", "export", "assets"}
    /\ PresentationInit /\ DeckStarts
    /\ IrInit /\ (part = "ir" \/ doc = CHOOSE d \in Documents : TRUE)
    /\ PageInit /\ PageStarts
    /\ CommentInit /\ CommentStarts
    /\ AgentInit /\ AgentStarts
    /\ DockInit
    /\ HistoryInit /\ taken = 1
    /\ TransferInit /\ AssetInit

-----------------------------------------------------------------------------
ScreensNext ==
    \/ part = "pages" /\ PageNext /\ UNCHANGED <<agentVars, irVars, presentationVars, commentVars, dockVars, historyPanelVars, transferVars, assetVars>>
    \/ part = "agent" /\ AgentNext /\ UNCHANGED <<pageVars, irVars, presentationVars, commentVars, dockVars, historyPanelVars, transferVars, assetVars>>
    \/ part = "ir" /\ IrNext /\ UNCHANGED <<pageVars, agentVars, presentationVars, commentVars, dockVars, historyPanelVars, transferVars, assetVars>>
    \/ /\ \/ part = "deck" /\ EditorNext
          \/ part = "seat" /\ SeatNext
          \/ part \in {"deck", "seat"} /\ OthersNext
       /\ UNCHANGED <<pageVars, agentVars, irVars, commentVars, dockVars, historyPanelVars, transferVars, assetVars>>
    \/ part = "comments" /\ CommentNext /\ UNCHANGED <<pageVars, agentVars, irVars, presentationVars, dockVars, historyPanelVars, transferVars, assetVars>>
    \/ part = "dock" /\ DockNext /\ UNCHANGED <<pageVars, agentVars, irVars, presentationVars, commentVars, historyPanelVars, transferVars, assetVars>>
    \/ /\ \/ part = "history" /\ HistoryNext
          \/ part = "compare" /\ CompareNext
       /\ UNCHANGED <<pageVars, agentVars, irVars, presentationVars, commentVars, dockVars, transferVars, assetVars>>
    \/ /\ \/ part = "import" /\ ImportNext
          \/ part = "export" /\ ExportNext
       /\ UNCHANGED <<pageVars, agentVars, irVars, presentationVars, commentVars, dockVars, historyPanelVars, assetVars>>
    \/ /\ part = "assets" /\ AssetNext
       /\ UNCHANGED <<pageVars, agentVars, irVars, presentationVars, commentVars, dockVars, historyPanelVars, transferVars>>

ScreensStep == UNCHANGED part /\ ScreensNext

ScreensSpec == ScreensInit /\ [][ScreensStep]_screensVars
=============================================================================
