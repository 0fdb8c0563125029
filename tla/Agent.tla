------------------------------- MODULE Agent -------------------------------
(***************************************************************************)
(* One run of the drawing agent: the context shown to the model, the       *)
(* provider call, the tools the model's answer names, the preview and its  *)
(* approval threshold, and the patch as it is applied.  Every tool reads   *)
(* the scene the context was built from, never the patch of the tool       *)
(* before it.  A collaborator edits the diagram meanwhile.                 *)
(*                                                                         *)
(* An element keeps what the tools refer to (type, bindings, container,    *)
(* frame) and two bits for the rest: `pos` for where it is, `look` for its *)
(* size, colours, text and arrowheads.  A label's id is its element's id   *)
(* with a suffix; a list of ids names each id once.                        *)
(***************************************************************************)
EXTENDS Naturals, FiniteSets, Sequences, Functions

CONSTANTS
    Named,      \* ids a tool call may name; a UUID stays unknown to the scene
    MaxTurns    \* bound: tool calls and edits of the collaborator, together

VARIABLES
    canvas,     \* the scene of the log: [DrawIds -> element or NoElement]
    revision,   \* its revision
    agent       \* the run

agentVars == <<canvas, revision, agent>>

Shape1 == <<"a">>
Shape2 == <<"b">>
Arrow1 == <<"k">>
NoRef == <<>>
Label(i) == Append(i, "label")
DrawIds == Named \cup {Label(i) : i \in Named}

ASSUME AgentAssumption == {Shape1, Shape2, Arrow1} \subseteq Named /\ MaxTurns \in Nat

\* baseFields: a new element has version 1, no group and no frame
BaseFields(t) == [type |-> t, ver |-> 1, dead |-> FALSE, ct |-> NoRef, from |-> NoRef, to |-> NoRef,
                  frame |-> NoRef, grp |-> FALSE, pos |-> 0, look |-> 0]
NoElement == [BaseFields("none") EXCEPT !.ver = 0]
BuildText(c) == [BaseFields("text") EXCEPT !.ct = c]
BuildFrame == BaseFields("frame")
BuildArrow(f, t) == [BaseFields("arrow") EXCEPT !.from = f, !.to = t]

Alive(s, i) == s[i].ver > 0 /\ ~s[i].dead
AliveIds(s) == {i \in DOMAIN s : Alive(s, i)}

\* collectEdges: live arrows bound at both ends
CollectEdges(s) == {<<s[i].from, s[i].to>> : i \in {j \in AliveIds(s) : s[j].type = "arrow" /\ s[j].from # NoRef /\ s[j].to # NoRef}}

\* expandNeighborhood: the ids one edge away, and the ids themselves
ExpandNeighborhood(ids, s) ==
    ids \cup {e[2] : e \in {d \in CollectEdges(s) : d[1] \in ids}}
        \cup {e[1] : e \in {d \in CollectEdges(s) : d[2] \in ids}}

\* buildContext: the elements whose content reaches the model
BuildContext(s, selection) ==
    IF selection = {} THEN AliveIds(s) ELSE AliveIds(s) \cap ExpandNeighborhood(selection, s)

-----------------------------------------------------------------------------
(* A drawing of two shapes, an arrow between them and its label, some of   *)
(* them deleted: an arrow keeps its binding to a shape that is gone.       *)

Drawing(gone) ==
    [i \in DrawIds |-> CASE i \in {Shape1, Shape2} -> [BaseFields("shape") EXCEPT !.dead = i \in gone]
                         [] i = Arrow1 -> BuildArrow(Shape1, Shape2)
                         [] i = Label(Arrow1) -> [BuildText(Arrow1) EXCEPT !.dead = i \in gone]
                         [] OTHER -> NoElement]

NoRunYet == [phase |-> "context", enabled |-> {}, ctx |-> Drawing({}), rev |-> 0, sel |-> {}, seen |-> {},
             patch |-> <<>>, meta |-> {}, calls |-> 0, preview |-> Drawing({}), explicit |-> FALSE, at |-> 0]

AgentInit ==
    /\ \E gone \in {{}, {Shape2}, {Label(Arrow1)}} : canvas = Drawing(gone)
    /\ revision = 0
    /\ \E sel \in {{}, {Shape1}}, scopes \in SUBSET {"workspace", "global"} :
          agent = [NoRunYet EXCEPT !.enabled = scopes, !.sel = sel]

\* a collaborator deletes an element; the revision moves
Collaborate(i) ==
    /\ revision + agent.calls < MaxTurns
    /\ Alive(canvas, i)
    /\ canvas' = [canvas EXCEPT ![i].dead = TRUE, ![i].ver = @ + 1]
    /\ revision' = revision + 1
    /\ UNCHANGED agent

AgentOnly == UNCHANGED <<canvas, revision>>
EndRun(phase) == agent' = [NoRunYet EXCEPT !.phase = phase, !.calls = agent.calls]
RunFails == EndRun("failed")

\* createAiRun: the scene and its revision are read once, for the context and for every tool
ReadContext ==
    /\ agent.phase = "context" /\ agent.enabled # {}
    /\ agent' = [agent EXCEPT !.phase = "call", !.enabled = {}, !.ctx = canvas, !.rev = revision,
                              !.seen = BuildContext(canvas, agent.sel)]
    /\ AgentOnly

\* resolveProviderConfig: the workspace's enabled configuration, else the global one, else the run fails
NoProvider == agent.phase = "context" /\ agent.enabled = {} /\ RunFails /\ AgentOnly

\* callProvider: an answer, or one of the structured errors; each error fails the run
CallProvider ==
    /\ agent.phase = "call"
    /\ \/ agent' = [agent EXCEPT !.phase = "tools"]
       \/ \E e \in {"token_budget_exceeded", "invalid_token", "timeout", "network_error", "http_error", "malformed_response"} : RunFails
    /\ AgentOnly

-----------------------------------------------------------------------------
(* The tools.  A tool's patch is a sequence of functions from the ids it   *)
(* touches to what it does to them; an id is in two of them only when the  *)
(* tool itself touches it twice.                                           *)

Upsert(e) == [op |-> "upsert", el |-> e]
Removal == [op |-> "delete", el |-> NoElement]
Piece(i, e) == [j \in {i} |-> Upsert(e)]
\* both; the first where they touch one id
Beside(p, q) == [i \in DOMAIN p \cup DOMAIN q |-> IF i \in DOMAIN p THEN p[i] ELSE q[i]]

Answering == agent.phase = "tools" /\ revision + agent.calls < MaxTurns /\ AgentOnly
ToolOk(patch, meta) ==
    agent' = [agent EXCEPT !.patch = @ \o patch, !.meta = @ \cup meta, !.calls = @ + 1]
ToolError == RunFails

FindElement(i) == Alive(agent.ctx, i)

\* checkAllExist
CheckAllExist(ids, patch, meta) ==
    IF \A i \in ids : FindElement(i) THEN ToolOk(patch, meta) ELSE ToolError

\* the ids of newElementId: neither in the scene nor in the patch
FreshIds == {i \in Named : agent.ctx[i] = NoElement /\ \A n \in DOMAIN agent.patch : i \notin DOMAIN agent.patch[n]}
Lists(n) == {ids \in SUBSET Named : Cardinality(ids) >= n}
WithLabel(i, e, labelled) == IF labelled THEN Beside(Piece(i, e), Piece(Label(i), BuildText(i))) ELSE Piece(i, e)
Redraw(ids, F(_, _)) == <<[i \in ids |-> Upsert(F(agent.ctx[i], i))]>>

\* the read tools patch nothing; get_neighbors and get_library_component refuse what they do not find
ReadDiagram == Answering /\ \/ ToolOk(<<>>, {})
                            \/ \E i \in Named : CheckAllExist({i}, <<>>, {})
ReadLibrary == Answering /\ \E known \in BOOLEAN : IF known THEN ToolOk(<<>>, {}) ELSE ToolError

\* the schema of the arguments, an unknown tool name or unparseable arguments fail the run
RejectArguments == Answering /\ ToolError

CreateElement == Answering /\ \E i \in Named, t \in {"shape", "text"}, l \in BOOLEAN :
    ToolOk(<<WithLabel(i, BaseFields(t), l /\ t # "text")>>, {})

CreateComponent == Answering /\ \E i \in Named, known \in BOOLEAN :
    IF known THEN ToolOk(<<WithLabel(i, BaseFields("shape"), TRUE)>>, {i}) ELSE ToolError

CreateGroup == Answering /\ \E ids \in Lists(2) :
    CheckAllExist(ids, Redraw(ids, LAMBDA e, i : [e EXCEPT !.grp = TRUE]), {})

CreateFrame == Answering /\ \E f \in Named, ids \in Lists(0) :
    CheckAllExist(ids, <<Piece(f, BuildFrame)>> \o Redraw(ids, LAMBDA e, i : [e EXCEPT !.frame = f]), {})

UpdateElement == Answering /\ \E i \in DrawIds, moves \in BOOLEAN :
    CheckAllExist({i}, Redraw({i}, LAMBDA e, j : IF moves THEN [e EXCEPT !.pos = 1] ELSE [e EXCEPT !.look = 1]), {})

DeleteElements == Answering /\ \E ids \in Lists(1) : CheckAllExist(ids, <<[i \in ids |-> Removal]>>, {})

DuplicateElements == Answering /\ \E ids \in Lists(1) : \E new \in [ids -> FreshIds] :
    /\ IsInjective(new)
    /\ CheckAllExist(ids, <<[n \in Range(new) |-> Upsert(
           [agent.ctx[CHOOSE i \in ids : new[i] = n] EXCEPT !.pos = 1, !.grp = FALSE, !.frame = NoRef])]>>, {})

\* for the mutant: only one end is looked up
ConnectOneEnd == Answering /\ \E i, f, t \in Named, l \in BOOLEAN :
    CheckAllExist({f}, <<WithLabel(i, BuildArrow(f, t), l)>>, {})
ConnectElements == Answering /\ \E i, f, t \in Named, l \in BOOLEAN :
    CheckAllExist({f, t}, <<WithLabel(i, BuildArrow(f, t), l)>>, {})

\* the label of a connector is looked up among deleted elements too
ConnectorLabel(i) ==
    LET bound == {j \in DrawIds : agent.ctx[j].type = "text" /\ agent.ctx[j].ct = i}
    IN IF bound # {} THEN LET j == CHOOSE j \in bound : TRUE IN Piece(j, [agent.ctx[j] EXCEPT !.look = 1])
       ELSE Piece(Label(i), BuildText(i))

UpdateConnector == Answering /\ \E i \in Named, direction, label, meta \in BOOLEAN :
    /\ direction \/ label \/ meta
    /\ IF ~FindElement(i) \/ agent.ctx[i].type # "arrow" THEN ToolError
       ELSE ToolOk((IF direction THEN Redraw({i}, LAMBDA e, j : [e EXCEPT !.look = 1]) ELSE <<>>)
                     \o (IF label THEN <<ConnectorLabel(i)>> ELSE <<>>),
                   IF meta THEN {i} ELSE {})

SetSemanticMetadata == Answering /\ \E i \in Named : CheckAllExist({i}, <<>>, {i})

\* the three tools that move elements: where to is not modelled
Moves(n) == \E ids \in Lists(n) : CheckAllExist(ids, Redraw(ids, LAMBDA e, i : [e EXCEPT !.pos = 1]), {})
AlignElements == Answering /\ Moves(2)
DistributeElements == Answering /\ Moves(3)
AutoLayout == Answering /\ Moves(1)

ResizeContainer == Answering /\ \E i \in Named :
    CheckAllExist({i}, Redraw({i}, LAMBDA e, j : [e EXCEPT !.look = 1]), {})

AddAnnotation == Answering /\ \E i \in FreshIds, target \in SUBSET Named :
    /\ Cardinality(target) <= 1
    /\ CheckAllExist(target, <<Piece(i, BuildText(NoRef))>>, {})

GenerateIr == Answering /\ \E valid \in BOOLEAN : IF valid THEN ToolOk(<<>>, {}) ELSE ToolError

\* the first edge of every document is the element "edge-0": Arrow1 stands for it
CompileIr == Answering /\ \E f, t \in Named, ok, edge \in BOOLEAN :
    IF ~ok THEN ToolError
    ELSE ToolOk(<<Beside(WithLabel(f, BaseFields("shape"), TRUE), WithLabel(t, BaseFields("shape"), TRUE))>>
                  \o (IF edge THEN <<WithLabel(Arrow1, BuildArrow(f, t), TRUE)>> ELSE <<>>), {})

WriteTool ==
    \/ CreateElement \/ CreateComponent \/ CreateGroup \/ CreateFrame \/ UpdateElement \/ DeleteElements
    \/ DuplicateElements \/ ConnectElements \/ UpdateConnector \/ SetSemanticMetadata \/ AlignElements
    \/ DistributeElements \/ AutoLayout \/ ResizeContainer \/ AddAnnotation \/ GenerateIr \/ CompileIr

-----------------------------------------------------------------------------
\* the pieces of a patch that touch an id, and the last of them that upserts it, or 0
Touching(patch, i) == {n \in DOMAIN patch : i \in DOMAIN patch[n]}
LastUpsert(patch, i) ==
    LET upserts == {n \in Touching(patch, i) : patch[n][i].op = "upsert"}
    IN IF upserts = {} THEN 0 ELSE CHOOSE n \in upserts : \A m \in upserts : m <= n
Touched == UNION {DOMAIN agent.patch[n] : n \in DOMAIN agent.patch}

\* applyPatchInMemory: the last upsert of an id wins, a removal after it marks what is there
ApplyPatchInMemory(s, patch) ==
    [i \in DrawIds |->
        LET last == LastUpsert(patch, i)
            e == IF last = 0 THEN s[i] ELSE [patch[last][i].el EXCEPT !.dead = FALSE]
        IN IF \E n \in Touching(patch, i) : n > last THEN [e EXCEPT !.dead = e.ver > 0] ELSE e]

\* its first rule
RemovesElements(s) == \E n \in DOMAIN agent.patch : Removal \in Range(agent.patch[n])

\* computeApprovalThreshold: a removal, or an element outside the selection; fifty elements are out of reach
ComputeApprovalThreshold(s) ==
    \/ RemovesElements(s)
    \/ agent.sel # {} /\ \E i \in Touched \cup agent.meta : s[i].ver > 0 /\ i \notin agent.sel

\* the answer's calls are done; attachPreview loads the scene afresh
AttachPreview ==
    /\ agent.phase = "tools"
    /\ agent' = [agent EXCEPT !.phase = "awaiting_approval", !.preview = ApplyPatchInMemory(canvas, agent.patch),
                              !.explicit = ComputeApprovalThreshold(canvas)]
    /\ AgentOnly

\* patchToDeltas, against the scene approveAiRun loaded: a delta of an id that scene holds has the version
\* after its own, a delta of a new id the version the tool gave it
PatchToDeltas(i) ==
    LET base == agent.ctx[i].ver
        ops == {agent.patch[n][i] : n \in Touching(agent.patch, i)}
    IN {IF o.op = "upsert"
        THEN [o.el EXCEPT !.dead = FALSE, !.ver = IF base > 0 THEN base + 1 ELSE @]
        ELSE [canvas[i] EXCEPT !.dead = TRUE, !.ver = base + 1] : o \in ops}

\* mergeScene: the highest version; between equal ones the random nonces decide
Winners(i) == LET all == {canvas[i]} \cup PatchToDeltas(i) IN {d \in all : \A e \in all : e.ver <= d.ver}

\* for the mutant: the revision is not compared
ApproveStale ==
    /\ agent.phase = "awaiting_approval"
    /\ agent' = [agent EXCEPT !.phase = "applying", !.ctx = canvas, !.at = revision] /\ AgentOnly

\* approveAiRun loads the scene; refused when the revision moved since the context was read
Approve ==
    /\ agent.phase = "awaiting_approval"
    /\ IF revision # agent.rev THEN EndRun("stale")
       ELSE agent' = [agent EXCEPT !.phase = "applying", !.ctx = canvas, !.at = revision]
    /\ AgentOnly

\* ... and, after the snapshot, appends the deltas; a patch without deltas appends no operation
ApplyPatch ==
    LET contested == {i \in DrawIds : Cardinality(Winners(i)) > 1}
    IN /\ agent.phase = "applying"
       /\ \E won \in [contested -> UNION {Winners(i) : i \in contested}] :
             /\ \A i \in contested : won[i] \in Winners(i)
             /\ canvas' = [i \in DrawIds |-> IF i \in contested THEN won[i] ELSE CHOOSE e \in Winners(i) : TRUE]
       /\ revision' = revision + (IF Touched = {} THEN 0 ELSE 1)
       /\ EndRun("applied")

AgentNext ==
    \/ \E i \in DrawIds : Collaborate(i)
    \/ ReadContext \/ NoProvider \/ CallProvider \/ ReadDiagram \/ ReadLibrary \/ RejectArguments
    \/ WriteTool \/ AttachPreview \/ Approve \/ ApplyPatch

AgentSpec == AgentInit /\ [][AgentNext]_agentVars

-----------------------------------------------------------------------------
\* elements that a live element refers to and that are not there
Dangling(s) ==
    (UNION {{s[i].ct, s[i].from, s[i].to, s[i].frame} : i \in AliveIds(s)}) \ (AliveIds(s) \cup {NoRef})

\* the patch lands on the scene that approveAiRun checked: AiRuns has the race between the two
LandsAsChecked == agent.phase = "applying" /\ agent'.phase = "applied" /\ agent.at = revision

\* A run whose patch removes nothing leaves no reference to a missing element that was not dangling
\* before: what checkAllExist found in the context is still there when approveAiRun applies the patch.
NoNewDanglingReference ==
    [][LandsAsChecked /\ ~RemovesElements(canvas) => Dangling(canvas') \subseteq Dangling(canvas)]_agentVars

\* What the user approved is what the diagram becomes, for every element that the calls touch at most
\* once: the preview of applyPatchInMemory and the merged deltas of patchToDeltas agree but for versions.
AppliesThePreview ==
    [][LandsAsChecked => \A i \in DrawIds : (\A m, n \in Touching(agent.patch, i) : m = n)
         => [canvas'[i] EXCEPT !.ver = 0] = [agent.preview[i] EXCEPT !.ver = 0]]_agentVars
============================================================================
