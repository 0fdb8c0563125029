----------------------------- MODULE Resources ------------------------------
(***************************************************************************)
(* Workspaces, projects and diagrams as metadata: created, changed and     *)
(* soft-deleted by requests that check first (existence, role) and write   *)
(* in a later statement, so a deletion may fall between the two.           *)
(***************************************************************************)
EXTENDS Access

CONSTANTS
    Projects,
    Diagrams,
    Calls      \* concurrent requests

VARIABLES
    project,   \* [Projects -> [st, ws, rev]]
    diagram,   \* [Diagrams -> [st, project, rev]]
    call       \* [Calls -> [op, id, under]]: requests between check and write

resourceVars == <<project, diagram, call>>

Nothing == "nothing"

\* no id
ASSUME NothingAssumption == Nothing \notin Workspaces

NoCall == [op |-> "idle", id |-> Nothing, under |-> Nothing]

ResourceInit ==
    /\ project = [p \in Projects |-> [st |-> "unborn", ws |-> Nothing, rev |-> 0]]
    /\ diagram = [d \in Diagrams |-> [st |-> "unborn", project |-> Nothing, rev |-> 0]]
    /\ call = [c \in Calls |-> NoCall]

-----------------------------------------------------------------------------
(* What a caller sees.                                                     *)

\* mutant: a project's deletion is not looked at
DiagramWorkspaceAnyProject(d) ==
    IF diagram[d].st = "live" THEN project[diagram[d].project].ws ELSE Nothing

\* resolveDiagramWorkspaceId: the workspace through the project, or nothing
DiagramWorkspace(d) ==
    IF diagram[d].st = "live" /\ project[diagram[d].project].st = "live"
    THEN project[diagram[d].project].ws ELSE Nothing

ProjectWorkspace(p) == IF project[p].st = "live" THEN project[p].ws ELSE Nothing

RoleIn(ws, u) == IF ws = Nothing THEN NoRole ELSE EffectiveRole(ws, u)

\* listWorkspacesForUser: the direct rows, then every workspace of the
\* organisation as org_admin
ListWorkspaces(u) ==
    LET direct == {ws \in Workspaces : wsStatus[ws] = "live" /\ members[ws][u] # NoRole}
        administered == {ws \in Workspaces : wsStatus[ws] = "live" /\ u \in orgAdmins}
    IN [ws \in direct \cup administered |-> IF ws \in administered THEN "org_admin" ELSE members[ws][u]]

\* GET /workspaces/:id
GetWorkspace(u, ws) == Can(RoleIn(ws, u), "workspace:read") /\ wsStatus[ws] = "live"

ListProjects(u, ws) == {p \in Projects : Can(RoleIn(ws, u), "project:read")
                                         /\ project[p].st = "live" /\ project[p].ws = ws}

GetProject(u, p) == project[p].st = "live" /\ Can(RoleIn(project[p].ws, u), "project:read")

ListDiagrams(u, p) == {d \in Diagrams : Can(RoleIn(ProjectWorkspace(p), u), "diagram:read")
                                        /\ diagram[d].st = "live" /\ diagram[d].project = p}

GetDiagram(u, d) == diagram[d].st = "live" /\ Can(RoleIn(DiagramWorkspace(d), u), "diagram:read")

-----------------------------------------------------------------------------
(* The check of a request, up to its write.                                *)

Admitted(c, op, id, under) ==
    /\ call[c].op = "idle"
    /\ call' = [call EXCEPT ![c] = [op |-> op, id |-> id, under |-> under]]
    /\ UNCHANGED <<project, diagram, accessVars>>

\* PATCH and DELETE /workspaces/:id
ChangeWorkspace(c, u, ws) ==
    /\ Can(RoleIn(ws, u), "workspace:write")
    /\ \E op \in {"updateWorkspace", "deleteWorkspace"} : Admitted(c, op, ws, Nothing)

PostProject(c, u, ws) ==
    /\ Can(RoleIn(ws, u), "project:write")
    /\ Admitted(c, "createProject", Nothing, ws)

ChangeProject(c, u, p) ==
    /\ Can(RoleIn(ProjectWorkspace(p), u), "project:write")
    /\ \E op \in {"updateProject", "deleteProject"} : Admitted(c, op, p, Nothing)

PostDiagram(c, u, p) ==
    /\ Can(RoleIn(ProjectWorkspace(p), u), "diagram:write")
    /\ Admitted(c, "createDiagram", Nothing, p)

ChangeDiagram(c, u, d) ==
    /\ Can(RoleIn(DiagramWorkspace(d), u), "diagram:write")
    /\ \E op \in {"updateDiagram", "deleteDiagram"} : Admitted(c, op, d, Nothing)

-----------------------------------------------------------------------------
(* The write.  An UPDATE of a row deleted meanwhile matches nothing (404). *)

Answer(c) == call' = [call EXCEPT ![c] = NoCall]

UpdateWorkspace(c) ==
    /\ call[c].op = "updateWorkspace"   \* name and slug, which nothing here tells apart
    /\ Answer(c)
    /\ UNCHANGED <<project, diagram, accessVars>>

DeleteWorkspace(c) ==
    /\ call[c].op = "deleteWorkspace"
    /\ wsStatus' = [wsStatus EXCEPT ![call[c].id] = "deleted"]
    /\ Answer(c)
    /\ UNCHANGED <<project, diagram, members, orgAdmins, req, oidcLogins, waived>>

CreateProject(c, p) ==
    /\ call[c].op = "createProject" /\ project[p].st = "unborn"
    /\ project' = [project EXCEPT ![p] = [st |-> "live", ws |-> call[c].under, rev |-> 0]]
    /\ Answer(c)
    /\ UNCHANGED <<diagram, accessVars>>

UpdateProject(c) ==
    /\ call[c].op = "updateProject"
    /\ project' = IF project[call[c].id].st = "live"
                  THEN [project EXCEPT ![call[c].id].rev = 1 - @] ELSE project
    /\ Answer(c)
    /\ UNCHANGED <<diagram, accessVars>>

DeleteProject(c) ==
    /\ call[c].op = "deleteProject"
    /\ project' = [project EXCEPT ![call[c].id].st = "deleted"]
    /\ Answer(c)
    /\ UNCHANGED <<diagram, accessVars>>

CreateDiagram(c, d) ==
    /\ call[c].op = "createDiagram" /\ diagram[d].st = "unborn"
    /\ diagram' = [diagram EXCEPT ![d] = [st |-> "live", project |-> call[c].under, rev |-> 0]]
    /\ Answer(c)
    /\ UNCHANGED <<project, accessVars>>

UpdateDiagram(c) ==
    /\ call[c].op = "updateDiagram"
    /\ diagram' = IF diagram[call[c].id].st = "live"
                  THEN [diagram EXCEPT ![call[c].id].rev = 1 - @] ELSE diagram
    /\ Answer(c)
    /\ UNCHANGED <<project, accessVars>>

DeleteDiagram(c) ==
    /\ call[c].op = "deleteDiagram"
    /\ diagram' = [diagram EXCEPT ![call[c].id].st = "deleted"]
    /\ Answer(c)
    /\ UNCHANGED <<project, accessVars>>

ResourceNext ==
    \/ \E c \in Calls, u \in Users :
        \/ \E ws \in Workspaces : ChangeWorkspace(c, u, ws) \/ PostProject(c, u, ws)
        \/ \E p \in Projects : ChangeProject(c, u, p) \/ PostDiagram(c, u, p)
        \/ \E d \in Diagrams : ChangeDiagram(c, u, d)
    \/ \E c \in Calls :
        \/ UpdateWorkspace(c) \/ DeleteWorkspace(c)
        \/ \E p \in Projects : CreateProject(c, p)
        \/ UpdateProject(c) \/ DeleteProject(c)
        \/ \E d \in Diagrams : CreateDiagram(c, d)
        \/ UpdateDiagram(c) \/ DeleteDiagram(c)

\* Roles change meanwhile.
ResourceSpec ==
    /\ AccessInit /\ ResourceInit
    /\ [][ResourceNext \/ (AccessNext /\ UNCHANGED resourceVars)]_<<accessVars, resourceVars>>

-----------------------------------------------------------------------------
(* Properties.                                                             *)

\* The lists and the lookups by id, which decide access along different
\* queries, agree: what a list shows can be opened, what can be opened is
\* listed, and the role listed is the effective one (RBAC-05: one answer to
\* "what may this person do here", from two code paths).
ListsAgreeWithLookups ==
    \A u \in Users :
        /\ \A ws \in Workspaces :
            /\ ws \in DOMAIN ListWorkspaces(u) <=> GetWorkspace(u, ws)
            /\ ws \in DOMAIN ListWorkspaces(u) => ListWorkspaces(u)[ws] = EffectiveRole(ws, u)
        /\ \A p \in Projects, ws \in Workspaces :
            p \in ListProjects(u, ws) <=> GetProject(u, p) /\ project[p].ws = ws
        /\ \A d \in Diagrams, p \in Projects :
            d \in ListDiagrams(u, p) <=> GetDiagram(u, d) /\ diagram[d].project = p
=============================================================================
