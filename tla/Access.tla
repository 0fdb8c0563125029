------------------------------- MODULE Access -------------------------------
(***************************************************************************)
(* Who may do what: workspace members, administrators of the organisation  *)
(* and the guards that keep a last administrator, with the requests that   *)
(* change them running concurrently.  One organisation, as the product has *)
(* it.  A request is admitted by the role its actor has then; the change   *)
(* itself runs later in a transaction of its own.                          *)
(***************************************************************************)
EXTENDS Naturals, FiniteSets

CONSTANTS
    Users,
    Workspaces,
    GivenRoles,     \* bound: the roles requests and logins assign
    Requests,       \* bound: identities of member requests, each used once
    OidcWorkspace,  \* defaultWorkspaceId of the OIDC configuration
    MaxOidcLogins,  \* bound: OIDC logins that carry a mapped role
    Founded         \* TRUE: the instance began with the first-run form;
                    \* FALSE: with an OIDC login, which grants no organisation role

ASSUME AccessAssumption == Founded \in BOOLEAN /\ MaxOidcLogins \in Nat /\ OidcWorkspace \in Workspaces
                           /\ GivenRoles \subseteq {"org_admin", "workspace_admin", "editor", "reviewer", "viewer"}

VARIABLES
    wsStatus,    \* [Workspaces -> "unborn", "live" or "deleted"]; deletion is soft
    members,     \* workspace_members: [Workspaces -> [Users -> role or NoRole]]
    orgAdmins,   \* organization_members: SUBSET Users
    req,         \* [Requests -> a member request]
    oidcLogins,
    waived       \* history: workspaces whose last administrator row went by a
                 \* path the guard does not refuse (RBAC-10, OIDC)

accessVars == <<wsStatus, members, orgAdmins, req, oidcLogins, waived>>

NoRole == "none"
Born == {ws \in Workspaces : wsStatus[ws] # "unborn"}
Roles == {"org_admin", "workspace_admin", "editor", "reviewer", "viewer"}

-----------------------------------------------------------------------------
(* packages/auth: can()                                                    *)

ReadActions == {"workspace:read", "project:read", "diagram:read"}
WriteActions == {"workspace:write", "workspace:manage_members", "project:write",
                 "diagram:write", "diagram:mutate"}
CommentActions == {"comment:create", "comment:resolve"}
AllActions == ReadActions \cup WriteActions \cup CommentActions

RoleGrants ==
    [org_admin |-> AllActions,
     workspace_admin |-> AllActions,
     editor |-> ReadActions \cup {"project:write", "diagram:write", "diagram:mutate"} \cup CommentActions,
     reviewer |-> ReadActions \cup CommentActions,
     viewer |-> ReadActions \cup {"comment:create"}]

Can(role, action) == role # NoRole /\ action \in RoleGrants[role]

Privilege == [org_admin |-> 1, workspace_admin |-> 2, editor |-> 3, reviewer |-> 4, viewer |-> 5]

MorePermissive(left, right) ==
    IF left = NoRole THEN right
    ELSE IF right = NoRole THEN left
    ELSE IF Privilege[left] <= Privilege[right] THEN left ELSE right

ResolveOrganizationRole(ws, u) == IF ws \in Born /\ u \in orgAdmins THEN "org_admin" ELSE NoRole

\* resolveEffectiveRole; it does not ask whether the workspace is archived
EffectiveRole(ws, u) == MorePermissive(members[ws][u], ResolveOrganizationRole(ws, u))

IsAdmin(role) == role \in {"org_admin", "workspace_admin"}

AdminRows(ws) == {u \in Users : IsAdmin(members[ws][u])}

-----------------------------------------------------------------------------
NewRequest == [pc |-> "new", kind |-> "none", ws |-> OidcWorkspace, target |-> "none", role |-> NoRole]

MemberRequest(pc, kind, ws, target, role) ==
    [pc |-> pc, kind |-> kind, ws |-> ws, target |-> target, role |-> role]

\* Each workspace has its creator as administrator.  The first-run form also
\* makes its account org_admin of its workspace and of the organisation,
\* where it may have been joined by others.
AccessInit ==
    /\ wsStatus \in [Workspaces -> {"unborn", "live"}]
    /\ \E owner \in [Workspaces -> Users], first \in Born :
        /\ members = [ws \in Workspaces |-> [u \in Users |->
                        IF ws \notin Born \/ u # owner[ws] THEN NoRole
                        ELSE IF Founded /\ ws = first THEN "org_admin" ELSE "workspace_admin"]]
        /\ IF Founded THEN \E more \in SUBSET Users : orgAdmins = more \cup {owner[first]}
                      ELSE orgAdmins = {}
    /\ req = [r \in Requests |-> NewRequest]
    /\ oidcLogins = 0
    /\ waived = {}

\* POST /workspaces: the workspace and its creator's membership, atomically
CreateWorkspace(u, ws) ==
    /\ ws \notin Born
    /\ wsStatus' = [wsStatus EXCEPT ![ws] = "live"]
    /\ members' = [members EXCEPT ![ws][u] = "workspace_admin"]
    /\ UNCHANGED <<orgAdmins, req, oidcLogins, waived>>

Free(r) == req[r].pc = "new"
Finish(r) == [req EXCEPT ![r] = [NewRequest EXCEPT !.pc = "done"]]

\* PATCH and DELETE members/:userId, up to the transaction
AdmitChange(r, actor) ==
    /\ Free(r)
    /\ \E ws \in Workspaces, target \in Users, role \in GivenRoles \cup {NoRole} :
        /\ Can(EffectiveRole(ws, actor), "workspace:manage_members")
        /\ req' = [req EXCEPT ![r] = MemberRequest("admitted", "change", ws, target, role)]
    /\ UNCHANGED <<wsStatus, members, orgAdmins, oidcLogins, waived>>

\* POST members, up to the insert
AdmitAdd(r, actor) ==
    /\ Free(r)
    /\ \E ws \in Workspaces, target \in Users, role \in GivenRoles :
        /\ Can(EffectiveRole(ws, actor), "workspace:manage_members")
        /\ req' = [req EXCEPT ![r] = MemberRequest("admitted", "add", ws, target, role)]
    /\ UNCHANGED <<wsStatus, members, orgAdmins, oidcLogins, waived>>

\* POST organization-admins, up to the insert
AdmitGrantOrg(r, actor) ==
    /\ Free(r)
    /\ \E ws \in Workspaces, target \in Users :
        /\ EffectiveRole(ws, actor) = "org_admin"
        /\ req' = [req EXCEPT ![r] = MemberRequest("admitted", "grantOrg", ws, target, NoRole)]
    /\ UNCHANGED <<wsStatus, members, orgAdmins, oidcLogins, waived>>

\* DELETE organization-admins/:userId, up to the transaction
AdmitRevokeOrg(r, actor) ==
    /\ Free(r)
    /\ \E ws \in Workspaces, target \in Users :
        /\ EffectiveRole(ws, actor) = "org_admin"
        /\ req' = [req EXCEPT ![r] = MemberRequest("admitted", "revokeOrg", ws, target, NoRole)]
    /\ UNCHANGED <<wsStatus, members, orgAdmins, oidcLogins, waived>>

-----------------------------------------------------------------------------
(* withLastAdminGuard: the workspace's rows are locked, then counted; the  *)
(* rows of other workspaces are counted without a lock.                    *)

HoldsRows(r, ws) == req[r].kind = "change" /\ req[r].ws = ws /\ req[r].pc \in {"locked", "allowed"}

\* mutant: the rows are counted without the lock
CountUnlocked(r) ==
    /\ req[r].pc = "admitted" /\ req[r].kind = "change"
    /\ req' = [req EXCEPT ![r].pc = "locked"]
    /\ UNCHANGED <<wsStatus, members, orgAdmins, oidcLogins, waived>>

LockMembers(r) ==
    /\ req[r].pc = "admitted" /\ req[r].kind = "change"
    /\ ~\E other \in Requests : HoldsRows(other, req[r].ws)
    /\ req' = [req EXCEPT ![r].pc = "locked"]
    /\ UNCHANGED <<wsStatus, members, orgAdmins, oidcLogins, waived>>

\* RBAC-10: an org_admin ROW in another workspace of the organisation
OrganizationHasAdminBesides(ws, target) ==
    \E other \in Workspaces \ {ws}, u \in Users \ {target} : members[other][u] = "org_admin"

GuardCount(r) ==
    LET ws == req[r].ws
        target == req[r].target
        keeps == \/ ~IsAdmin(members[ws][target])
                 \/ IsAdmin(req[r].role)
                 \/ AdminRows(ws) \ {target} # {}
        elsewhere == OrganizationHasAdminBesides(ws, target)
    IN
    /\ req[r].pc = "locked" /\ req[r].kind = "change"
    /\ req' = IF keeps \/ elsewhere THEN [req EXCEPT ![r].pc = "allowed"] ELSE Finish(r)
    /\ waived' = IF keeps \/ ~elsewhere THEN waived ELSE waived \cup {ws}
    /\ UNCHANGED <<wsStatus, members, orgAdmins, oidcLogins>>

\* the UPDATE or DELETE by workspace and user, and the commit
ApplyChange(r) ==
    LET ws == req[r].ws
        target == req[r].target
    IN
    /\ req[r].pc = "allowed"
    /\ members' = IF members[ws][target] = NoRole THEN members
                  ELSE [members EXCEPT ![ws][target] = req[r].role]
    /\ req' = Finish(r)
    /\ UNCHANGED <<wsStatus, orgAdmins, oidcLogins, waived>>

\* the unique index refuses a second row (409)
AddWorkspaceMember(r) ==
    LET ws == req[r].ws
        target == req[r].target
    IN
    /\ req[r].pc = "admitted" /\ req[r].kind = "add"
    /\ members' = IF members[ws][target] # NoRole THEN members
                  ELSE [members EXCEPT ![ws][target] = req[r].role]
    /\ req' = Finish(r)
    /\ UNCHANGED <<wsStatus, orgAdmins, oidcLogins, waived>>

-----------------------------------------------------------------------------
(* organizationAdmins.ts                                                   *)

AddOrganizationAdmin(r) ==
    /\ req[r].pc = "admitted" /\ req[r].kind = "grantOrg"
    /\ orgAdmins' = orgAdmins \cup {req[r].target}
    /\ req' = Finish(r)
    /\ UNCHANGED <<wsStatus, members, oidcLogins, waived>>

\* withLastOrgAdminGuard: lock, count
LockOrganization(r) ==
    /\ req[r].pc = "admitted" /\ req[r].kind = "revokeOrg"
    /\ ~\E other \in Requests : req[other].pc = "counted"
    /\ req' = IF orgAdmins = {req[r].target} THEN Finish(r) ELSE [req EXCEPT ![r].pc = "counted"]
    /\ UNCHANGED <<wsStatus, members, orgAdmins, oidcLogins, waived>>

RemoveOrganizationAdmin(r) ==
    /\ req[r].pc = "counted"
    /\ orgAdmins' = orgAdmins \ {req[r].target}
    /\ req' = Finish(r)
    /\ UNCHANGED <<wsStatus, members, oidcLogins, waived>>

-----------------------------------------------------------------------------
\* syncOidcWorkspaceRole: an upsert at login, with no guard; it waits for a
\* transaction that holds the row
SyncOidcWorkspaceRole(u, role) ==
    /\ oidcLogins < MaxOidcLogins /\ OidcWorkspace \in Born
    /\ ~\E r \in Requests : HoldsRows(r, OidcWorkspace) /\ members[OidcWorkspace][u] # NoRole
    /\ members' = [members EXCEPT ![OidcWorkspace][u] = role]
    /\ waived' = IF AdminRows(OidcWorkspace) \subseteq {u} /\ ~IsAdmin(role)
                 THEN waived \cup {OidcWorkspace} ELSE waived
    /\ oidcLogins' = oidcLogins + 1
    /\ UNCHANGED <<wsStatus, orgAdmins, req>>

AccessNext ==
    \/ \E u \in Users, ws \in Workspaces : CreateWorkspace(u, ws)
    \/ \E r \in Requests, actor \in Users :
        AdmitChange(r, actor) \/ AdmitAdd(r, actor) \/ AdmitGrantOrg(r, actor) \/ AdmitRevokeOrg(r, actor)
    \/ \E r \in Requests :
        \/ LockMembers(r) \/ GuardCount(r) \/ ApplyChange(r)
        \/ AddWorkspaceMember(r)
        \/ AddOrganizationAdmin(r) \/ LockOrganization(r) \/ RemoveOrganizationAdmin(r)
    \/ \E u \in Users, role \in GivenRoles : SyncOidcWorkspaceRole(u, role)

AccessSpec == AccessInit /\ [][AccessNext]_accessVars

-----------------------------------------------------------------------------
(* Properties.                                                             *)

\* README.md:39: "um workspace nunca perde seu ultimo administrador": somebody
\* holds an administrator's effective role in every workspace.
NeverLosesLastAdmin ==
    \A ws \in Born : \E u \in Users : IsAdmin(EffectiveRole(ws, u))

\* Administration is never lost, whatever demotions, removals, revocations
\* and logins run at once.  A workspace keeps an administrator ROW (the row
\* lock of withLastAdminGuard) except where RBAC-10 let it go or an OIDC login
\* overwrote it; an instance founded by the first-run form also keeps an
\* administrator of the organisation (the lock of withLastOrgAdminGuard), and
\* with it every workspace is administered.
AdministratorsRemain ==
    /\ \A ws \in Born \ waived : AdminRows(ws) # {}
    /\ Founded => orgAdmins # {} /\ NeverLosesLastAdmin
=============================================================================
