---------------------------- MODULE AccessProofs ----------------------------
(***************************************************************************)
(* Proofs about who may do what.  For any number of users, workspaces and  *)
(* requests: administration is never lost, also while workspaces are       *)
(* archived, and the lists and lookups of workspaces, projects and         *)
(* diagrams agree.  For any number of tabs and tokens: the instance is     *)
(* founded at most once, and a refresh keeps the browser's session.        *)
(***************************************************************************)
EXTENDS Resources, Auth, TLAPS

Request == [pc : {"new", "done", "admitted", "locked", "allowed", "counted"},
            kind : {"none", "change", "add", "grantOrg", "revokeOrg"},
            ws : Workspaces, target : Users \cup {"none"}, role : Roles \cup {NoRole}]

AccessTypeOK ==
  /\ wsStatus \in [Workspaces -> {"unborn", "live", "deleted"}]
  /\ members \in [Workspaces -> [Users -> Roles \cup {NoRole}]]
  /\ req \in [Requests -> Request]

\* A request past its admission names a user and a workspace that exists.
TargetsExist ==
  \A r \in Requests : req[r].pc \notin {"new", "done"} => req[r].target \in Users /\ req[r].ws \in Born

\* Nobody is a member of a workspace that does not exist.
BornOnly == \A ws \in Workspaces \ Born, u \in Users : members[ws][u] = NoRole

\* The row lock of withLastAdminGuard.
OneHolder == \A r, s \in Requests : HoldsRows(r, req[r].ws) /\ HoldsRows(s, req[r].ws) => r = s

\* What the guard found stays true until the change it allowed is made: only
\* the holder of the lock takes an administrator away.
AllowedKeeps ==
  \A r \in Requests : req[r].pc = "allowed" =>
    /\ req[r].kind = "change"
    /\ \/ IsAdmin(req[r].role)
       \/ AdminRows(req[r].ws) \ {req[r].target} # {}
       \/ req[r].ws \in waived

RowsKept == \A ws \in Born \ waived : AdminRows(ws) # {}

AccessInv == AccessTypeOK /\ TargetsExist /\ BornOnly /\ OneHolder /\ AllowedKeeps /\ RowsKept

\* The lock of withLastOrgAdminGuard.
OrgInv ==
  /\ orgAdmins \subseteq Users
  /\ \A r, s \in Requests : req[r].pc = "counted" /\ req[s].pc = "counted" => r = s
  /\ Founded => orgAdmins # {} /\ \A r \in Requests : req[r].pc = "counted" => orgAdmins \ {req[r].target} # {}

-----------------------------------------------------------------------------
\* A request that ends.
LEMMA FinishTyped ==
  ASSUME AccessTypeOK, NEW r \in Requests
  PROVE  /\ Finish(r) \in [Requests -> Request]
         /\ Finish(r)[r].pc = "done"
         /\ \A s \in Requests \ {r} : Finish(r)[s] = req[s]
BY AccessAssumption DEF AccessTypeOK, Finish, NewRequest, Request

\* A write of one member's row.
LEMMA WriteRow ==
  ASSUME AccessTypeOK, NEW ws \in Workspaces, NEW u \in Users, NEW role \in Roles \cup {NoRole},
         members' = [members EXCEPT ![ws][u] = role]
  PROVE  /\ members' \in [Workspaces -> [Users -> Roles \cup {NoRole}]]
         /\ members'[ws][u] = role
         /\ \A v \in Users \ {u} : members'[ws][v] = members[ws][v]
         /\ \A x \in Workspaces \ {ws} : members'[x] = members[x] /\ AdminRows(x)' = AdminRows(x)
         /\ IsAdmin(role) => u \in AdminRows(ws)'
         /\ AdminRows(ws) \ {u} \subseteq AdminRows(ws)'
         /\ IsAdmin(role) \/ ~IsAdmin(members[ws][u]) => AdminRows(ws) \subseteq AdminRows(ws)'
<1>1. members' \in [Workspaces -> [Users -> Roles \cup {NoRole}]]
  BY DEF AccessTypeOK
<1>2. members'[ws][u] = role /\ \A v \in Users \ {u} : members'[ws][v] = members[ws][v]
  BY DEF AccessTypeOK
<1>3. \A x \in Workspaces \ {ws} : members'[x] = members[x]
  BY DEF AccessTypeOK
<1>4. QED
  BY <1>1, <1>2, <1>3 DEF AdminRows

\* A workspace that is written about exists.
LEMMA ManagedIsBorn ==
  ASSUME AccessInv, NEW ws \in Workspaces, NEW u \in Users, EffectiveRole(ws, u) # NoRole
  PROVE  ws \in Born
BY DEF AccessInv, BornOnly, EffectiveRole, MorePermissive, ResolveOrganizationRole

\* The last check before a request: its actor administers the workspace.
LEMMA AdmitOnlyBorn ==
  ASSUME AccessInv, NEW r \in Requests, NEW actor \in Users,
         AdmitChange(r, actor) \/ AdmitAdd(r, actor) \/ AdmitGrantOrg(r, actor) \/ AdmitRevokeOrg(r, actor)
  PROVE  /\ UNCHANGED <<wsStatus, members, orgAdmins, waived>>
         /\ \E x \in Request : /\ req' = [req EXCEPT ![r] = x]
                               /\ x.pc = "admitted" /\ x.target \in Users /\ x.ws \in Born
<1>1. \A role \in GivenRoles : role \in Roles
  BY AccessAssumption DEF Roles
<1>2. CASE AdmitChange(r, actor)
  <2>1. PICK ws \in Workspaces, target \in Users, role \in GivenRoles \cup {NoRole} :
           /\ Can(EffectiveRole(ws, actor), "workspace:manage_members")
           /\ req' = [req EXCEPT ![r] = MemberRequest("admitted", "change", ws, target, role)]
    BY <1>2 DEF AdmitChange
  <2>2. ws \in Born
    BY <2>1, ManagedIsBorn DEF Can
  <2>3. MemberRequest("admitted", "change", ws, target, role) \in Request
    BY <1>1 DEF MemberRequest, Request
  <2>4. QED
    BY <1>2, <2>1, <2>2, <2>3 DEF AdmitChange, MemberRequest
<1>3. CASE AdmitAdd(r, actor)
  <2>1. PICK ws \in Workspaces, target \in Users, role \in GivenRoles :
           /\ Can(EffectiveRole(ws, actor), "workspace:manage_members")
           /\ req' = [req EXCEPT ![r] = MemberRequest("admitted", "add", ws, target, role)]
    BY <1>3 DEF AdmitAdd
  <2>2. ws \in Born
    BY <2>1, ManagedIsBorn DEF Can
  <2>3. MemberRequest("admitted", "add", ws, target, role) \in Request
    BY <1>1 DEF MemberRequest, Request
  <2>4. QED
    BY <1>3, <2>1, <2>2, <2>3 DEF AdmitAdd, MemberRequest
<1>4. CASE AdmitGrantOrg(r, actor)
  <2>1. PICK ws \in Workspaces, target \in Users :
           /\ EffectiveRole(ws, actor) = "org_admin"
           /\ req' = [req EXCEPT ![r] = MemberRequest("admitted", "grantOrg", ws, target, NoRole)]
    BY <1>4 DEF AdmitGrantOrg
  <2>2. ws \in Born
    BY <2>1, ManagedIsBorn DEF NoRole
  <2>3. MemberRequest("admitted", "grantOrg", ws, target, NoRole) \in Request
    BY DEF MemberRequest, Request
  <2>4. QED
    BY <1>4, <2>1, <2>2, <2>3 DEF AdmitGrantOrg, MemberRequest
<1>5. CASE AdmitRevokeOrg(r, actor)
  <2>1. PICK ws \in Workspaces, target \in Users :
           /\ EffectiveRole(ws, actor) = "org_admin"
           /\ req' = [req EXCEPT ![r] = MemberRequest("admitted", "revokeOrg", ws, target, NoRole)]
    BY <1>5 DEF AdmitRevokeOrg
  <2>2. ws \in Born
    BY <2>1, ManagedIsBorn DEF NoRole
  <2>3. MemberRequest("admitted", "revokeOrg", ws, target, NoRole) \in Request
    BY DEF MemberRequest, Request
  <2>4. QED
    BY <1>5, <2>1, <2>2, <2>3 DEF AdmitRevokeOrg, MemberRequest
<1>6. QED
  BY <1>2, <1>3, <1>4, <1>5

\* A step that leaves the rows alone and moves one request, to a point where
\* the guard has nothing to keep.
LEMMA RequestStep ==
  ASSUME AccessInv, NEW r \in Requests, UNCHANGED <<wsStatus, members>>, waived \subseteq waived',
         req' \in [Requests -> Request], \A s \in Requests \ {r} : req'[s] = req[s],
         req'[r].pc \notin {"locked", "allowed"},
         req'[r].pc \notin {"new", "done"} => req'[r].target \in Users /\ req'[r].ws \in Born
  PROVE  AccessInv'
<1>1. AccessTypeOK' /\ BornOnly' /\ Born' = Born
  BY DEF AccessInv, AccessTypeOK, BornOnly, Born
<1>2. TargetsExist'
  BY <1>1 DEF AccessInv, TargetsExist
<1>3. OneHolder'
  BY DEF AccessInv, OneHolder, HoldsRows
<1>4. AllowedKeeps' /\ RowsKept'
  BY <1>1 DEF AccessInv, AllowedKeeps, RowsKept, AdminRows
<1>5. QED
  BY <1>1, <1>2, <1>3, <1>4 DEF AccessInv

\* A step that writes one member's row while its workspace keeps what the
\* requests that hold it rely on.
LEMMA MemberStep ==
  ASSUME AccessInv, NEW ws \in Workspaces, UNCHANGED wsStatus, waived \subseteq waived', ws \in Born,
         members' \in [Workspaces -> [Users -> Roles \cup {NoRole}]],
         \A x \in Workspaces \ {ws} : members'[x] = members[x],
         req' \in [Requests -> Request],
         \A s \in Requests : req'[s] = req[s] \/ req'[s].pc = "done",
         ws \in waived' \/ AdminRows(ws)' # {},
         \A s \in Requests : req'[s].pc = "allowed" /\ req'[s].ws = ws => AdminRows(ws) \subseteq AdminRows(ws)'
  PROVE  AccessInv'
<1>1. AccessTypeOK' /\ Born' = Born
  BY DEF AccessInv, AccessTypeOK, Born
<1>2. \A x \in Workspaces \ {ws} : AdminRows(x)' = AdminRows(x)
  BY DEF AdminRows
<1>3. BornOnly'
  BY <1>1 DEF AccessInv, BornOnly
<1>4. TargetsExist'
  BY <1>1 DEF AccessInv, TargetsExist
<1>5. OneHolder'
  BY DEF AccessInv, OneHolder, HoldsRows
<1>6. AllowedKeeps'
  <2>1. SUFFICES ASSUME NEW s \in Requests, req'[s].pc = "allowed"
                 PROVE  /\ req'[s].kind = "change"
                        /\ \/ IsAdmin(req'[s].role)
                           \/ {u \in Users : IsAdmin(members'[req'[s].ws][u])} \ {req'[s].target} # {}
                           \/ req'[s].ws \in waived'
    BY DEF AllowedKeeps, AdminRows
  <2>2. req'[s] = req[s] /\ req[s].ws \in Workspaces
    BY <2>1 DEF AccessInv, AccessTypeOK, Request
  <2>3. PICK x \in Workspaces : x = req[s].ws
    BY <2>2
  <2>4. AdminRows(x) \subseteq AdminRows(x)'
    BY <1>2, <2>1, <2>2, <2>3
  <2>5. req[s].kind = "change" /\ (IsAdmin(req[s].role) \/ AdminRows(x) \ {req[s].target} # {} \/ x \in waived)
    BY <2>1, <2>2, <2>3 DEF AccessInv, AllowedKeeps
  <2>6. AdminRows(x)' = {u \in Users : IsAdmin(members'[req'[s].ws][u])}
    BY <2>2, <2>3 DEF AdminRows
  <2>7. QED
    BY <2>1, <2>2, <2>3, <2>4, <2>5, <2>6
<1>7. RowsKept'
  BY <1>1, <1>2 DEF AccessInv, RowsKept, Born
<1>8. QED
  BY <1>1, <1>3, <1>4, <1>5, <1>6, <1>7 DEF AccessInv

\* Every step keeps the rows' invariant.
LEMMA AccessStep ==
  AccessInv /\ [AccessNext]_accessVars => AccessInv'
<1> SUFFICES ASSUME AccessInv, [AccessNext]_accessVars PROVE AccessInv'
  OBVIOUS
<1>1. ASSUME NEW u \in Users, NEW ws \in Workspaces, CreateWorkspace(u, ws) PROVE AccessInv'
  <2>1. AccessTypeOK /\ ws \notin Born /\ "workspace_admin" \in Roles \cup {NoRole}
    BY <1>1 DEF CreateWorkspace, AccessInv, Roles
  <2>2. /\ members' \in [Workspaces -> [Users -> Roles \cup {NoRole}]]
        /\ \A x \in Workspaces \ {ws} : members'[x] = members[x] /\ AdminRows(x)' = AdminRows(x)
        /\ u \in AdminRows(ws)'
    BY <1>1, <2>1, WriteRow DEF CreateWorkspace, IsAdmin
  <2>3. Born' = Born \cup {ws} /\ AccessTypeOK' /\ UNCHANGED <<req, waived>>
    BY <1>1, <2>1, <2>2 DEF CreateWorkspace, AccessTypeOK, Born
  <2>4. TargetsExist' /\ BornOnly' /\ OneHolder'
    BY <2>2, <2>3 DEF AccessInv, TargetsExist, BornOnly, OneHolder, HoldsRows
  <2>5. RowsKept'
    BY <2>2, <2>3 DEF AccessInv, RowsKept, Born
  <2>6. AllowedKeeps'
    <3>1. ASSUME NEW s \in Requests, req[s].pc = "allowed" PROVE AdminRows(req[s].ws)' = AdminRows(req[s].ws)
      <4>1. req[s].ws \in Workspaces \ {ws}
        BY <2>1, <3>1 DEF AccessInv, TargetsExist, AccessTypeOK, Request
      <4>2. PICK x \in Workspaces \ {ws} : x = req[s].ws
        BY <4>1
      <4>3. AdminRows(x)' = AdminRows(x)
        BY <2>2
      <4>4. QED
        BY <2>3, <4>2, <4>3 DEF AdminRows
    <3>2. QED
      BY <2>3, <3>1 DEF AccessInv, AllowedKeeps
  <2>7. QED
    BY <2>3, <2>4, <2>5, <2>6 DEF AccessInv
<1>2. ASSUME NEW r \in Requests, NEW actor \in Users, AdmitChange(r, actor) PROVE AccessInv'
  <2>1. PICK x \in Request : /\ req' = [req EXCEPT ![r] = x]
                              /\ x.pc = "admitted" /\ x.target \in Users /\ x.ws \in Born
    BY <1>2, AdmitOnlyBorn
  <2>2. UNCHANGED <<wsStatus, members, waived>>
    BY <1>2, AdmitOnlyBorn
  <2>3. req'[r] = x /\ req' \in [Requests -> Request] /\ \A s \in Requests \ {r} : req'[s] = req[s]
    BY <2>1 DEF AccessInv, AccessTypeOK
  <2>4. QED
    BY <2>1, <2>2, <2>3, RequestStep
<1>3. ASSUME NEW r \in Requests, NEW actor \in Users, AdmitAdd(r, actor) PROVE AccessInv'
  <2>1. PICK x \in Request : /\ req' = [req EXCEPT ![r] = x]
                              /\ x.pc = "admitted" /\ x.target \in Users /\ x.ws \in Born
    BY <1>3, AdmitOnlyBorn
  <2>2. UNCHANGED <<wsStatus, members, waived>>
    BY <1>3, AdmitOnlyBorn
  <2>3. req'[r] = x /\ req' \in [Requests -> Request] /\ \A s \in Requests \ {r} : req'[s] = req[s]
    BY <2>1 DEF AccessInv, AccessTypeOK
  <2>4. QED
    BY <2>1, <2>2, <2>3, RequestStep
<1>4. ASSUME NEW r \in Requests, NEW actor \in Users, AdmitGrantOrg(r, actor) PROVE AccessInv'
  <2>1. PICK x \in Request : /\ req' = [req EXCEPT ![r] = x]
                              /\ x.pc = "admitted" /\ x.target \in Users /\ x.ws \in Born
    BY <1>4, AdmitOnlyBorn
  <2>2. UNCHANGED <<wsStatus, members, waived>>
    BY <1>4, AdmitOnlyBorn
  <2>3. req'[r] = x /\ req' \in [Requests -> Request] /\ \A s \in Requests \ {r} : req'[s] = req[s]
    BY <2>1 DEF AccessInv, AccessTypeOK
  <2>4. QED
    BY <2>1, <2>2, <2>3, RequestStep
<1>5. ASSUME NEW r \in Requests, NEW actor \in Users, AdmitRevokeOrg(r, actor) PROVE AccessInv'
  <2>1. PICK x \in Request : /\ req' = [req EXCEPT ![r] = x]
                              /\ x.pc = "admitted" /\ x.target \in Users /\ x.ws \in Born
    BY <1>5, AdmitOnlyBorn
  <2>2. UNCHANGED <<wsStatus, members, waived>>
    BY <1>5, AdmitOnlyBorn
  <2>3. req'[r] = x /\ req' \in [Requests -> Request] /\ \A s \in Requests \ {r} : req'[s] = req[s]
    BY <2>1 DEF AccessInv, AccessTypeOK
  <2>4. QED
    BY <2>1, <2>2, <2>3, RequestStep
<1>6. ASSUME NEW r \in Requests, LockMembers(r) PROVE AccessInv'
  <2>1. /\ UNCHANGED <<wsStatus, members, waived>>
        /\ req[r].pc = "admitted" /\ req[r].kind = "change" /\ ~\E s \in Requests : HoldsRows(s, req[r].ws)
        /\ req' = [req EXCEPT ![r].pc = "locked"]
    BY <1>6 DEF LockMembers
  <2>2. /\ req' \in [Requests -> Request] /\ \A s \in Requests \ {r} : req'[s] = req[s]
        /\ req'[r].pc = "locked" /\ req'[r].ws = req[r].ws /\ req'[r].target = req[r].target
    BY <2>1 DEF AccessInv, AccessTypeOK, Request
  <2>3. AccessTypeOK' /\ BornOnly' /\ Born' = Born
    BY <2>1, <2>2 DEF AccessInv, AccessTypeOK, BornOnly, Born
  <2>4. TargetsExist'
    BY <2>1, <2>2, <2>3 DEF AccessInv, TargetsExist
  <2>5. OneHolder'
    BY <2>1, <2>2 DEF AccessInv, OneHolder, HoldsRows
  <2>6. AllowedKeeps' /\ RowsKept'
    BY <2>1, <2>2, <2>3 DEF AccessInv, AllowedKeeps, RowsKept, AdminRows
  <2>7. QED
    BY <2>3, <2>4, <2>5, <2>6 DEF AccessInv
<1>7. ASSUME NEW r \in Requests, GuardCount(r) PROVE AccessInv'
  <2> DEFINE ws == req[r].ws
             target == req[r].target
             keeps == \/ ~IsAdmin(members[ws][target])
                      \/ IsAdmin(req[r].role)
                      \/ AdminRows(ws) \ {target} # {}
             elsewhere == OrganizationHasAdminBesides(ws, target)
  <2>1. /\ UNCHANGED <<wsStatus, members>> /\ waived \subseteq waived'
        /\ req[r].pc = "locked" /\ req[r].kind = "change"
        /\ keeps \/ waived' = waived \cup {ws} \/ req' = Finish(r)
        /\ req' = [req EXCEPT ![r].pc = "allowed"] \/ req' = Finish(r)
    BY <1>7 DEF GuardCount
  <2>2. CASE req' = Finish(r)
    BY <2>1, <2>2, FinishTyped, RequestStep DEF AccessInv
  <2>3. CASE req' # Finish(r)
    <3>1. /\ req' \in [Requests -> Request] /\ \A s \in Requests \ {r} : req'[s] = req[s]
          /\ req'[r].pc = "allowed" /\ req'[r].ws = ws /\ req'[r].target = target
          /\ req'[r].role = req[r].role /\ req'[r].kind = "change"
      <4>1. req' = [req EXCEPT ![r].pc = "allowed"] /\ req[r].kind = "change"
        BY <2>1, <2>3
      <4>2. QED
        BY <4>1 DEF AccessInv, AccessTypeOK, Request
    <3>2. AccessTypeOK' /\ BornOnly' /\ Born' = Born
      BY <2>1, <3>1 DEF AccessInv, AccessTypeOK, BornOnly, Born
    <3>3. TargetsExist'
      BY <2>1, <3>1, <3>2 DEF AccessInv, TargetsExist
    <3>4. OneHolder'
      BY <2>1, <3>1 DEF AccessInv, OneHolder, HoldsRows
    <3>5. RowsKept'
      BY <2>1, <3>2 DEF AccessInv, RowsKept, AdminRows
    <3>6. IsAdmin(req[r].role) \/ AdminRows(ws) \ {target} # {} \/ ws \in waived'
      <4>1. ws \in Born /\ target \in Users
        BY <2>1 DEF AccessInv, TargetsExist
      <4>2. CASE ~IsAdmin(members[ws][target])
        <5>1. ws \in waived \/ AdminRows(ws) # {}
          BY <4>1 DEF AccessInv, RowsKept
        <5>2. target \notin AdminRows(ws)
          BY <4>2 DEF AdminRows
        <5>3. QED
          BY <2>1, <5>1, <5>2
      <4>3. QED
        BY <2>1, <2>3, <4>2
    <3>7. AllowedKeeps'
      <4>1. AdminRows(ws) = {u \in Users : IsAdmin(members'[ws][u])}
        BY <2>1 DEF AdminRows
      <4>2. QED
        BY <2>1, <3>1, <3>6, <4>1 DEF AccessInv, AllowedKeeps, AdminRows
    <3>8. QED
      BY <3>2, <3>3, <3>4, <3>5, <3>7 DEF AccessInv
  <2>4. QED
    BY <2>2, <2>3
<1>8. ASSUME NEW r \in Requests, ApplyChange(r) PROVE AccessInv'
  <2>1. PICK ws \in Workspaces, target \in Users, role \in Roles \cup {NoRole} :
           ws = req[r].ws /\ target = req[r].target /\ role = req[r].role
    BY <1>8 DEF ApplyChange, AccessInv, AccessTypeOK, TargetsExist, Request
  <2>2. /\ req' = Finish(r) /\ UNCHANGED <<wsStatus, waived>> /\ req[r].pc = "allowed" /\ ws \in Born
        /\ members' = members \/ members' = [members EXCEPT ![ws][target] = role]
        /\ IsAdmin(role) \/ AdminRows(ws) \ {target} # {} \/ ws \in waived
    BY <1>8, <2>1 DEF ApplyChange, AccessInv, AllowedKeeps, TargetsExist
  <2>3. CASE members' = members
    BY <2>2, <2>3, FinishTyped, RequestStep DEF AccessInv
  <2>4. CASE members' = [members EXCEPT ![ws][target] = role]
    <3>1. /\ members' \in [Workspaces -> [Users -> Roles \cup {NoRole}]]
          /\ \A x \in Workspaces \ {ws} : members'[x] = members[x]
          /\ IsAdmin(role) => target \in AdminRows(ws)'
          /\ AdminRows(ws) \ {target} \subseteq AdminRows(ws)'
      BY <2>4, WriteRow DEF AccessInv
    <3>2. /\ req' \in [Requests -> Request]
          /\ \A s \in Requests : req'[s] = req[s] \/ req'[s].pc = "done"
      BY <2>2, FinishTyped DEF AccessInv
    <3>3. \A s \in Requests : ~(req'[s].pc = "allowed" /\ req'[s].ws = ws)
      BY <2>1, <2>2, FinishTyped DEF AccessInv, OneHolder, HoldsRows, AllowedKeeps
    <3>4. QED
      BY <2>2, <3>1, <3>2, <3>3, MemberStep
  <2>5. QED
    BY <2>2, <2>3, <2>4
<1>9. ASSUME NEW r \in Requests, AddWorkspaceMember(r) PROVE AccessInv'
  <2>1. PICK ws \in Workspaces, target \in Users, role \in Roles \cup {NoRole} :
           ws = req[r].ws /\ target = req[r].target /\ role = req[r].role
    BY <1>9 DEF AddWorkspaceMember, AccessInv, AccessTypeOK, TargetsExist, Request
  <2>2. /\ req' = Finish(r) /\ UNCHANGED <<wsStatus, waived>> /\ ws \in Born
        /\ members' = members \/ (members[ws][target] = NoRole /\ members' = [members EXCEPT ![ws][target] = role])
    BY <1>9, <2>1 DEF AddWorkspaceMember, AccessInv, TargetsExist
  <2>3. CASE members' = members
    BY <2>2, <2>3, FinishTyped, RequestStep DEF AccessInv
  <2>4. CASE members[ws][target] = NoRole /\ members' = [members EXCEPT ![ws][target] = role]
    <3>1. /\ members' \in [Workspaces -> [Users -> Roles \cup {NoRole}]]
          /\ \A x \in Workspaces \ {ws} : members'[x] = members[x]
          /\ AdminRows(ws) \subseteq AdminRows(ws)'
      BY <2>4, WriteRow DEF AccessInv, IsAdmin, NoRole
    <3>2. /\ req' \in [Requests -> Request]
          /\ \A s \in Requests : req'[s] = req[s] \/ req'[s].pc = "done"
      BY <2>2, FinishTyped DEF AccessInv
    <3>3. ws \in waived' \/ AdminRows(ws)' # {}
      BY <2>2, <3>1 DEF AccessInv, RowsKept
    <3>4. QED
      BY <2>2, <3>1, <3>2, <3>3, MemberStep
  <2>5. QED
    BY <2>2, <2>3, <2>4
<1>10. ASSUME NEW r \in Requests, AddOrganizationAdmin(r) PROVE AccessInv'
  <2>1. UNCHANGED <<wsStatus, members, waived>> /\ req' = Finish(r)
    BY <1>10 DEF AddOrganizationAdmin
  <2>2. QED
    BY <2>1, FinishTyped, RequestStep DEF AccessInv
<1>11. ASSUME NEW r \in Requests, LockOrganization(r) PROVE AccessInv'
  <2>1. /\ UNCHANGED <<wsStatus, members, waived>> /\ req[r].pc = "admitted"
        /\ req' = Finish(r) \/ req' = [req EXCEPT ![r].pc = "counted"]
    BY <1>11 DEF LockOrganization
  <2>2. CASE req' = Finish(r)
    BY <2>1, <2>2, FinishTyped, RequestStep DEF AccessInv
  <2>3. CASE req' = [req EXCEPT ![r].pc = "counted"]
    <3>1. /\ req' \in [Requests -> Request] /\ \A s \in Requests \ {r} : req'[s] = req[s]
          /\ req'[r].pc = "counted" /\ req'[r].ws = req[r].ws /\ req'[r].target = req[r].target
      BY <2>3 DEF AccessInv, AccessTypeOK, Request
    <3>2. req[r].target \in Users /\ req[r].ws \in Born
      BY <2>1 DEF AccessInv, TargetsExist
    <3>3. QED
      BY <2>1, <3>1, <3>2, RequestStep
  <2>4. QED
    BY <2>1, <2>2, <2>3
<1>12. ASSUME NEW r \in Requests, RemoveOrganizationAdmin(r) PROVE AccessInv'
  <2>1. UNCHANGED <<wsStatus, members, waived>> /\ req' = Finish(r)
    BY <1>12 DEF RemoveOrganizationAdmin
  <2>2. QED
    BY <2>1, FinishTyped, RequestStep DEF AccessInv
<1>13. ASSUME NEW u \in Users, NEW role \in GivenRoles, SyncOidcWorkspaceRole(u, role) PROVE AccessInv'
  <2>1. PICK ws \in Workspaces : ws = OidcWorkspace
    BY AccessAssumption
  <2>2. role \in Roles \cup {NoRole}
    BY AccessAssumption DEF Roles
  <2>3. /\ UNCHANGED <<wsStatus, req>> /\ ws \in Born /\ waived \subseteq waived'
        /\ members' = [members EXCEPT ![ws][u] = role]
        /\ (AdminRows(ws) \subseteq {u} /\ ~IsAdmin(role)) => ws \in waived'
        /\ members[ws][u] = NoRole \/ \A s \in Requests : ~HoldsRows(s, ws)
    BY <1>13, <2>1 DEF SyncOidcWorkspaceRole
  <2>4. /\ members' \in [Workspaces -> [Users -> Roles \cup {NoRole}]]
        /\ \A x \in Workspaces \ {ws} : members'[x] = members[x]
        /\ IsAdmin(role) => u \in AdminRows(ws)'
        /\ AdminRows(ws) \ {u} \subseteq AdminRows(ws)'
        /\ ~IsAdmin(members[ws][u]) => AdminRows(ws) \subseteq AdminRows(ws)'
    BY <2>2, <2>3, WriteRow DEF AccessInv
  <2>5. ws \in waived' \/ AdminRows(ws)' # {}
    BY <2>3, <2>4
  <2>6. ASSUME NEW s \in Requests, req'[s].pc = "allowed", req'[s].ws = ws
        PROVE  AdminRows(ws) \subseteq AdminRows(ws)'
    <3>1. HoldsRows(s, ws)
      BY <2>3, <2>6 DEF HoldsRows, AccessInv, AllowedKeeps
    <3>2. QED
      BY <2>3, <2>4, <3>1 DEF IsAdmin, NoRole
  <2>7. req' \in [Requests -> Request] /\ \A s \in Requests : req'[s] = req[s]
    BY <2>3 DEF AccessInv, AccessTypeOK
  <2>8. QED
    BY <2>3, <2>4, <2>5, <2>6, <2>7, MemberStep
<1>14. CASE UNCHANGED accessVars
  <2>1. UNCHANGED <<wsStatus, members, req, waived>>
    BY <1>14 DEF accessVars
  <2>2. QED
    BY <2>1 DEF AccessInv, AccessTypeOK, TargetsExist, BornOnly, OneHolder, HoldsRows, AllowedKeeps, RowsKept, AdminRows, Born
<1>15. QED
  BY <1>1, <1>2, <1>3, <1>4, <1>5, <1>6, <1>7, <1>8, <1>9, <1>10, <1>11, <1>12, <1>13, <1>14 DEF AccessNext

\* A request that is not counted any more, or never was, leaves the rest.
LEMMA OrgQuiet ==
  ASSUME OrgInv, orgAdmins' = orgAdmins,
         \A s \in Requests : req'[s].pc = "counted" => req'[s] = req[s]
  PROVE  OrgInv'
BY DEF OrgInv

\* Every step keeps the organisation's invariant.
LEMMA OrgStep ==
  AccessInv /\ OrgInv /\ [AccessNext]_accessVars => OrgInv'
<1> SUFFICES ASSUME AccessInv, OrgInv, [AccessNext]_accessVars PROVE OrgInv'
  OBVIOUS
<1> USE DEF AccessInv, AccessTypeOK, Request
<1>1. ASSUME NEW u \in Users, NEW ws \in Workspaces, CreateWorkspace(u, ws) PROVE OrgInv'
  BY <1>1, OrgQuiet DEF CreateWorkspace
<1>2. ASSUME NEW r \in Requests, NEW actor \in Users, AdmitChange(r, actor) PROVE OrgInv'
  <2>1. PICK x \in Request : req' = [req EXCEPT ![r] = x] /\ x.pc = "admitted"
    BY <1>2, AdmitOnlyBorn
  <2>2. UNCHANGED orgAdmins
    BY <1>2, AdmitOnlyBorn
  <2>3. QED
    BY <2>1, <2>2, OrgQuiet
<1>3. ASSUME NEW r \in Requests, NEW actor \in Users, AdmitAdd(r, actor) PROVE OrgInv'
  <2>1. PICK x \in Request : req' = [req EXCEPT ![r] = x] /\ x.pc = "admitted"
    BY <1>3, AdmitOnlyBorn
  <2>2. UNCHANGED orgAdmins
    BY <1>3, AdmitOnlyBorn
  <2>3. QED
    BY <2>1, <2>2, OrgQuiet
<1>4. ASSUME NEW r \in Requests, NEW actor \in Users, AdmitGrantOrg(r, actor) PROVE OrgInv'
  <2>1. PICK x \in Request : req' = [req EXCEPT ![r] = x] /\ x.pc = "admitted"
    BY <1>4, AdmitOnlyBorn
  <2>2. UNCHANGED orgAdmins
    BY <1>4, AdmitOnlyBorn
  <2>3. QED
    BY <2>1, <2>2, OrgQuiet
<1>5. ASSUME NEW r \in Requests, NEW actor \in Users, AdmitRevokeOrg(r, actor) PROVE OrgInv'
  <2>1. PICK x \in Request : req' = [req EXCEPT ![r] = x] /\ x.pc = "admitted"
    BY <1>5, AdmitOnlyBorn
  <2>2. UNCHANGED orgAdmins
    BY <1>5, AdmitOnlyBorn
  <2>3. QED
    BY <2>1, <2>2, OrgQuiet
<1>6. ASSUME NEW r \in Requests, LockMembers(r) PROVE OrgInv'
  <2>1. UNCHANGED orgAdmins /\ req' = [req EXCEPT ![r].pc = "locked"]
    BY <1>6 DEF LockMembers
  <2>2. QED
    BY <2>1, OrgQuiet
<1>7. ASSUME NEW r \in Requests, GuardCount(r) PROVE OrgInv'
  <2>1. UNCHANGED orgAdmins /\ (req' = [req EXCEPT ![r].pc = "allowed"] \/ req' = Finish(r))
    BY <1>7 DEF GuardCount
  <2>2. \A s \in Requests : req'[s].pc = "counted" => req'[s] = req[s]
    BY <2>1, FinishTyped
  <2>3. QED
    BY <2>1, <2>2, OrgQuiet
<1>8. ASSUME NEW r \in Requests, ApplyChange(r) PROVE OrgInv'
  <2>1. UNCHANGED orgAdmins /\ req' = Finish(r)
    BY <1>8 DEF ApplyChange
  <2>2. QED
    BY <2>1, FinishTyped, OrgQuiet
<1>9. ASSUME NEW r \in Requests, AddWorkspaceMember(r) PROVE OrgInv'
  <2>1. UNCHANGED orgAdmins /\ req' = Finish(r)
    BY <1>9 DEF AddWorkspaceMember
  <2>2. QED
    BY <2>1, FinishTyped, OrgQuiet
<1>10. ASSUME NEW r \in Requests, AddOrganizationAdmin(r) PROVE OrgInv'
  <2>1. /\ orgAdmins' = orgAdmins \cup {req[r].target} /\ req' = Finish(r)
        /\ req[r].target \in Users
    BY <1>10 DEF AddOrganizationAdmin, TargetsExist
  <2>2. \A s \in Requests : req'[s].pc = "counted" => req'[s] = req[s]
    BY <2>1, FinishTyped
  <2>3. QED
    BY <2>1, <2>2 DEF OrgInv
<1>11. ASSUME NEW r \in Requests, LockOrganization(r) PROVE OrgInv'
  <2>1. CASE req' = Finish(r)
    <3>1. UNCHANGED orgAdmins
      BY <1>11 DEF LockOrganization
    <3>2. QED
      BY <2>1, <3>1, FinishTyped, OrgQuiet
  <2>2. CASE req' # Finish(r)
    <3>1. /\ req' = [req EXCEPT ![r].pc = "counted"] /\ UNCHANGED orgAdmins /\ orgAdmins # {req[r].target}
          /\ \A s \in Requests : req[s].pc # "counted"
      BY <1>11, <2>2 DEF LockOrganization
    <3>2. req'[r].target = req[r].target /\ \A s \in Requests : req'[s].pc = "counted" => s = r
      BY <3>1
    <3>3. QED
      BY <3>1, <3>2 DEF OrgInv
  <2>3. QED
    BY <2>1, <2>2
<1>12. ASSUME NEW r \in Requests, RemoveOrganizationAdmin(r) PROVE OrgInv'
  <2>1. req[r].pc = "counted" /\ orgAdmins' = orgAdmins \ {req[r].target} /\ req' = Finish(r)
    BY <1>12 DEF RemoveOrganizationAdmin
  <2>2. \A s \in Requests : req'[s].pc # "counted"
    <3>1. req'[r].pc = "done" /\ \A s \in Requests \ {r} : req'[s] = req[s]
      BY <2>1, FinishTyped
    <3>2. \A s \in Requests \ {r} : req[s].pc # "counted"
      BY <2>1 DEF OrgInv
    <3>3. QED
      BY <3>1, <3>2
  <2>3. QED
    BY <2>1, <2>2 DEF OrgInv
<1>13. ASSUME NEW u \in Users, NEW role \in GivenRoles, SyncOidcWorkspaceRole(u, role) PROVE OrgInv'
  BY <1>13, OrgQuiet DEF SyncOidcWorkspaceRole
<1>14. CASE UNCHANGED accessVars
  BY <1>14 DEF accessVars, OrgInv
<1>15. QED
  BY <1>1, <1>2, <1>3, <1>4, <1>5, <1>6, <1>7, <1>8, <1>9, <1>10, <1>11, <1>12, <1>13, <1>14 DEF AccessNext

-----------------------------------------------------------------------------
\* Administration is never lost: a workspace keeps an administrator's row but
\* for RBAC-10 and single sign-on, and a founded instance its organisation's
\* It begins so: whoever founds a workspace administers it.
LEMMA AccessBegins ==
  AccessInit => AccessInv
<1> SUFFICES ASSUME AccessInit PROVE AccessInv
  OBVIOUS
<1>1. PICK owner \in [Workspaces -> Users], first \in Born :
         members = [ws \in Workspaces |-> [u \in Users |->
                      IF ws \notin Born \/ u # owner[ws] THEN NoRole
                      ELSE IF Founded /\ ws = first THEN "org_admin" ELSE "workspace_admin"]]
  BY DEF AccessInit
<1>2. members \in [Workspaces -> [Users -> Roles \cup {NoRole}]]
  BY <1>1 DEF Roles
<1>3. req \in [Requests -> Request] /\ \A r \in Requests : req[r].pc = "new"
  BY AccessAssumption DEF AccessInit, NewRequest, Request
<1>4. AccessTypeOK
  BY <1>2, <1>3 DEF AccessInit, AccessTypeOK
<1>5. TargetsExist /\ OneHolder /\ AllowedKeeps
  BY <1>3 DEF TargetsExist, OneHolder, HoldsRows, AllowedKeeps
<1>6. BornOnly
  BY <1>1 DEF BornOnly
<1>7. RowsKept
  <2>1. ASSUME NEW ws \in Born PROVE owner[ws] \in AdminRows(ws)
    BY <1>1 DEF Born, AdminRows, IsAdmin
  <2>2. QED
    BY <2>1 DEF RowsKept
<1>8. QED
  BY <1>4, <1>5, <1>6, <1>7 DEF AccessInv

\* And so does the organisation, if the first-run form founded it.
LEMMA OrgBegins ==
  AccessInit => OrgInv
<1> SUFFICES ASSUME AccessInit PROVE OrgInv
  OBVIOUS
<1>1. PICK owner \in [Workspaces -> Users], first \in Born :
         IF Founded THEN \E more \in SUBSET Users : orgAdmins = more \cup {owner[first]}
                    ELSE orgAdmins = {}
  BY DEF AccessInit
<1>2. owner[first] \in Users
  BY DEF Born
<1>3. orgAdmins \subseteq Users /\ (Founded => orgAdmins # {})
  BY <1>1, <1>2
<1>4. QED
  BY <1>3 DEF AccessInit, OrgInv, NewRequest

\* An administrator of the organisation administers every workspace.
LEMMA OrgCovers ==
  AccessInv /\ OrgInv => AdministratorsRemain
<1> SUFFICES ASSUME AccessInv, OrgInv PROVE AdministratorsRemain
  OBVIOUS
<1>1. ASSUME Founded PROVE orgAdmins # {} /\ NeverLosesLastAdmin
  <2>1. PICK u : u \in orgAdmins
    BY <1>1 DEF OrgInv
  <2>2. ASSUME NEW ws \in Born PROVE \E v \in Users : IsAdmin(EffectiveRole(ws, v))
    <3>1. u \in Users /\ members[ws][u] \in Roles \cup {NoRole}
      BY <2>1 DEF OrgInv, AccessInv, AccessTypeOK, Born
    <3>2. ResolveOrganizationRole(ws, u) = "org_admin"
      BY <2>1, <2>2 DEF ResolveOrganizationRole
    <3>3. EffectiveRole(ws, u) = "org_admin"
      BY <3>1, <3>2 DEF EffectiveRole, MorePermissive, Privilege, Roles, NoRole
    <3>4. QED
      BY <3>1, <3>3 DEF IsAdmin
  <2>3. QED
    BY <2>1, <2>2 DEF NeverLosesLastAdmin
<1>2. QED
  BY <1>1 DEF AdministratorsRemain, AccessInv, RowsKept

\* administrator, who administers every workspace.
THEOREM AdministrationRemains == AccessSpec => []AdministratorsRemain
BY AccessBegins, OrgBegins, OrgCovers, AccessStep, OrgStep, PTL DEF AccessSpec
-----------------------------------------------------------------------------
(* The resources under the workspaces.                                     *)

\* A workspace that is about to be deleted was there when its request was
\* admitted, and no workspace goes back to not being there.
CallsExist ==
  /\ call = [c \in Calls |-> call[c]]
  /\ \A c \in Calls : call[c].op = "deleteWorkspace" => call[c].id \in Born

ResourceInv == AccessInv /\ OrgInv /\ CallsExist

\* No step takes a workspace out of the table.
LEMMA BornStays ==
  ASSUME AccessInv, [AccessNext]_accessVars
  PROVE  Born \subseteq Born'
<1>1. CASE UNCHANGED wsStatus
  BY <1>1 DEF Born
<1>2. ASSUME NEW u \in Users, NEW ws \in Workspaces, CreateWorkspace(u, ws)
      PROVE  Born \subseteq Born'
  BY <1>2 DEF CreateWorkspace, Born, AccessInv, AccessTypeOK
<1>3. ~(\E u \in Users, ws \in Workspaces : CreateWorkspace(u, ws)) => UNCHANGED wsStatus
  BY DEF AccessNext, accessVars, AdmitChange, AdmitAdd, AdmitGrantOrg, AdmitRevokeOrg, LockMembers, GuardCount,
         ApplyChange, AddWorkspaceMember, AddOrganizationAdmin, LockOrganization, RemoveOrganizationAdmin,
         SyncOidcWorkspaceRole
<1>4. QED
  BY <1>1, <1>2, <1>3

\* A request on resources leaves the roles alone; it may archive a workspace.
LEMMA RolesUnderResources ==
  ASSUME AccessInv, OrgInv, UNCHANGED <<members, orgAdmins, req, oidcLogins, waived>>, Born' = Born,
         wsStatus' \in [Workspaces -> {"unborn", "live", "deleted"}]
  PROVE  AccessInv' /\ OrgInv'
<1>1. AccessTypeOK'
  BY DEF AccessInv, AccessTypeOK
<1>2. TargetsExist' /\ BornOnly' /\ OneHolder'
  BY DEF AccessInv, TargetsExist, BornOnly, OneHolder, HoldsRows
<1>3. AllowedKeeps' /\ RowsKept'
  BY DEF AccessInv, AllowedKeeps, RowsKept, AdminRows
<1>4. OrgInv'
  BY DEF OrgInv
<1>5. QED
  BY <1>1, <1>2, <1>3, <1>4 DEF AccessInv

\* A request that is admitted.
LEMMA AdmittedCall ==
  ASSUME ResourceInv, NEW c \in Calls, NEW op, NEW id, NEW under, Admitted(c, op, id, under),
         op = "deleteWorkspace" => id \in Born
  PROVE  ResourceInv'
<1>1. UNCHANGED accessVars /\ Born' = Born
  BY DEF Admitted, accessVars, Born
<1>2. AccessInv' /\ OrgInv'
  BY <1>1, RolesUnderResources DEF ResourceInv, AccessInv, AccessTypeOK, accessVars
<1>3. call' = [call EXCEPT ![c] = [op |-> op, id |-> id, under |-> under]]
  BY DEF Admitted
<1>4. CallsExist'
  BY <1>1, <1>3 DEF ResourceInv, CallsExist
<1>5. QED
  BY <1>2, <1>4 DEF ResourceInv

\* A request that is answered, and archived at most a workspace that was there.
LEMMA AnsweredCall ==
  ASSUME ResourceInv, NEW c \in Calls, Answer(c), UNCHANGED <<members, orgAdmins, req, oidcLogins, waived>>,
         Born' = Born, wsStatus' \in [Workspaces -> {"unborn", "live", "deleted"}]
  PROVE  ResourceInv'
<1>1. AccessInv' /\ OrgInv'
  BY RolesUnderResources DEF ResourceInv
<1>2. call' = [call EXCEPT ![c] = NoCall]
  BY DEF Answer
<1>3. CallsExist'
  BY <1>2 DEF ResourceInv, CallsExist, NoCall
<1>4. QED
  BY <1>1, <1>3 DEF ResourceInv

\* The invariant holds of every step of the requests on resources.
LEMMA ResourceStep ==
  ASSUME ResourceInv, ResourceNext
  PROVE  ResourceInv'
<1>1. ASSUME NEW c \in Calls, NEW u \in Users, NEW ws \in Workspaces, ChangeWorkspace(c, u, ws) \/ PostProject(c, u, ws)
      PROVE  ResourceInv'
  <2>1. CASE ChangeWorkspace(c, u, ws)
    <3>1. EffectiveRole(ws, u) # NoRole
      BY <2>1 DEF ChangeWorkspace, Can, RoleIn
    <3>2. ws \in Born
      BY <3>1, ManagedIsBorn DEF ResourceInv
    <3>3. PICK op \in {"updateWorkspace", "deleteWorkspace"} : Admitted(c, op, ws, Nothing)
      BY <2>1 DEF ChangeWorkspace
    <3>4. QED
      BY <3>2, <3>3, AdmittedCall
  <2>2. CASE PostProject(c, u, ws)
    BY <2>2, AdmittedCall DEF PostProject
  <2>3. QED
    BY <1>1, <2>1, <2>2
<1>2. ASSUME NEW c \in Calls, NEW u \in Users, NEW p \in Projects, ChangeProject(c, u, p) \/ PostDiagram(c, u, p)
      PROVE  ResourceInv'
  <2>1. CASE ChangeProject(c, u, p)
    <3>1. PICK op \in {"updateProject", "deleteProject"} : Admitted(c, op, p, Nothing)
      BY <2>1 DEF ChangeProject
    <3>2. QED
      BY <3>1, AdmittedCall
  <2>2. CASE PostDiagram(c, u, p)
    BY <2>2, AdmittedCall DEF PostDiagram
  <2>3. QED
    BY <1>2, <2>1, <2>2
<1>3. ASSUME NEW c \in Calls, NEW u \in Users, NEW d \in Diagrams, ChangeDiagram(c, u, d) PROVE ResourceInv'
  <2>1. PICK op \in {"updateDiagram", "deleteDiagram"} : Admitted(c, op, d, Nothing)
    BY <1>3 DEF ChangeDiagram
  <2>2. QED
    BY <2>1, AdmittedCall
<1>4. ASSUME NEW c \in Calls, Answer(c), UNCHANGED accessVars PROVE ResourceInv'
  <2>1. Born' = Born /\ wsStatus' \in [Workspaces -> {"unborn", "live", "deleted"}]
    BY <1>4 DEF accessVars, Born, ResourceInv, AccessInv, AccessTypeOK
  <2>2. QED
    BY <1>4, <2>1, AnsweredCall DEF accessVars
<1>5. ASSUME NEW c \in Calls, DeleteWorkspace(c) PROVE ResourceInv'
  <2>1. call[c].id \in Born /\ call[c].id \in Workspaces
    BY <1>5 DEF DeleteWorkspace, ResourceInv, CallsExist, Born
  <2>2. wsStatus' \in [Workspaces -> {"unborn", "live", "deleted"}]
    BY <1>5, <2>1 DEF DeleteWorkspace, ResourceInv, AccessInv, AccessTypeOK
  <2>3. Born' = Born
    BY <1>5, <2>1 DEF DeleteWorkspace, ResourceInv, AccessInv, AccessTypeOK, Born
  <2>4. QED
    BY <1>5, <2>2, <2>3, AnsweredCall DEF DeleteWorkspace
<1>6. ASSUME NEW c \in Calls,
             \/ UpdateWorkspace(c) \/ UpdateProject(c) \/ DeleteProject(c) \/ UpdateDiagram(c) \/ DeleteDiagram(c)
             \/ \E p \in Projects : CreateProject(c, p)
             \/ \E d \in Diagrams : CreateDiagram(c, d)
      PROVE  Answer(c) /\ UNCHANGED accessVars
  BY <1>6 DEF UpdateWorkspace, UpdateProject, DeleteProject, UpdateDiagram, DeleteDiagram, CreateProject, CreateDiagram
<1>7. QED
  BY <1>1, <1>2, <1>3, <1>4, <1>5, <1>6 DEF ResourceNext

\* The invariant of the resources.
LEMMA ResourcesKept ==
  ResourceInv /\ [ResourceNext \/ (AccessNext /\ UNCHANGED resourceVars)]_<<accessVars, resourceVars>> => ResourceInv'
<1> SUFFICES ASSUME ResourceInv, [ResourceNext \/ (AccessNext /\ UNCHANGED resourceVars)]_<<accessVars, resourceVars>>
             PROVE  ResourceInv'
  OBVIOUS
<1>1. CASE ResourceNext
  BY <1>1, ResourceStep
<1>2. CASE [AccessNext]_accessVars /\ UNCHANGED resourceVars
  <2>1. AccessInv' /\ OrgInv'
    BY <1>2, AccessStep, OrgStep DEF ResourceInv
  <2>2. Born \subseteq Born'
    BY <1>2, BornStays DEF ResourceInv
  <2>3. CallsExist'
    BY <1>2, <2>2 DEF ResourceInv, CallsExist, resourceVars
  <2>4. QED
    BY <2>1, <2>3 DEF ResourceInv
<1>3. QED
  BY <1>1, <1>2

\* Every request on resources begins with nothing to do.
LEMMA ResourceBegins == AccessInit /\ ResourceInit => ResourceInv
<1>1. ResourceInit => CallsExist
  BY DEF ResourceInit, CallsExist, NoCall
<1>2. QED
  BY <1>1, AccessBegins, OrgBegins DEF ResourceInv

\* Administration is never lost, also while workspaces are archived under the
\* requests that change their members.
THEOREM AdministrationOutlivesArchival == ResourceSpec => []AdministratorsRemain
<1>1. ResourceInv => AdministratorsRemain
  BY OrgCovers DEF ResourceInv
<1>2. QED
  BY <1>1, ResourceBegins, ResourcesKept, PTL DEF ResourceSpec

\* Everybody who has a role may read; nobody else may.
LEMMA RolesRead ==
  ASSUME NEW role \in Roles \cup {NoRole}
  PROVE  \A action \in ReadActions : Can(role, action) <=> role # NoRole
BY DEF Can, RoleGrants, Roles, NoRole, ReadActions, AllActions

\* An administrator of the organisation has that role everywhere; everybody
\* else has the role of the member's row.
LEMMA EffectiveIs ==
  ASSUME AccessInv, NEW ws \in Born, NEW u \in Users
  PROVE  EffectiveRole(ws, u) = IF u \in orgAdmins THEN "org_admin" ELSE members[ws][u]
<1>1. members[ws][u] \in Roles \cup {NoRole}
  BY DEF AccessInv, AccessTypeOK, Born
<1>2. CASE u \in orgAdmins
  BY <1>1, <1>2 DEF EffectiveRole, ResolveOrganizationRole, MorePermissive, Privilege, Roles, NoRole
<1>3. CASE u \notin orgAdmins
  BY <1>1, <1>3 DEF EffectiveRole, ResolveOrganizationRole, MorePermissive
<1>4. QED
  BY <1>2, <1>3

\* The lists and the lookups by id are different queries, with one answer to
\* what a person may see: projects and diagrams under archived parents, and the
\* administrators of the organisation, included.
THEOREM ListsAndLookups == ResourceSpec => []ListsAgreeWithLookups
<1>1. ASSUME ResourceInv PROVE ListsAgreeWithLookups
  <2> SUFFICES ASSUME NEW u \in Users
               PROVE /\ \A ws \in Workspaces :
                          /\ ws \in DOMAIN ListWorkspaces(u) <=> GetWorkspace(u, ws)
                          /\ ws \in DOMAIN ListWorkspaces(u) => ListWorkspaces(u)[ws] = EffectiveRole(ws, u)
                     /\ \A p \in Projects, ws \in Workspaces :
                          p \in ListProjects(u, ws) <=> GetProject(u, p) /\ project[p].ws = ws
                     /\ \A d \in Diagrams, p \in Projects :
                          d \in ListDiagrams(u, p) <=> GetDiagram(u, d) /\ diagram[d].project = p
    BY DEF ListsAgreeWithLookups
  <2>1. ASSUME NEW ws \in Workspaces
        PROVE  /\ ws \in DOMAIN ListWorkspaces(u) <=> GetWorkspace(u, ws)
               /\ ws \in DOMAIN ListWorkspaces(u) => ListWorkspaces(u)[ws] = EffectiveRole(ws, u)
    <3>1. CASE wsStatus[ws] = "live"
      <4>1. ws \in Born /\ members[ws][u] \in Roles \cup {NoRole}
        BY <1>1, <3>1 DEF Born, ResourceInv, AccessInv, AccessTypeOK
      <4>2. EffectiveRole(ws, u) = IF u \in orgAdmins THEN "org_admin" ELSE members[ws][u]
        BY <1>1, <4>1, EffectiveIs DEF ResourceInv
      <4>3. EffectiveRole(ws, u) \in Roles \cup {NoRole}
        BY <4>1, <4>2 DEF Roles
      <4>4. GetWorkspace(u, ws) <=> RoleIn(ws, u) # NoRole
        BY <3>1, <4>3, RolesRead DEF GetWorkspace, RoleIn, ReadActions
      <4>5. ws \in DOMAIN ListWorkspaces(u) <=> u \in orgAdmins \/ members[ws][u] # NoRole
        BY <3>1 DEF ListWorkspaces
      <4>6. ws \in DOMAIN ListWorkspaces(u) =>
              ListWorkspaces(u)[ws] = IF u \in orgAdmins THEN "org_admin" ELSE members[ws][u]
        BY <3>1 DEF ListWorkspaces
      <4>7. QED
        BY <4>2, <4>4, <4>5, <4>6, NothingAssumption DEF RoleIn, NoRole
    <3>2. CASE wsStatus[ws] # "live"
      BY <3>2 DEF ListWorkspaces, GetWorkspace
    <3>3. QED
      BY <3>1, <3>2
  <2>2. ASSUME NEW p \in Projects, NEW ws \in Workspaces
        PROVE  p \in ListProjects(u, ws) <=> GetProject(u, p) /\ project[p].ws = ws
    BY DEF ListProjects, GetProject
  <2>3. ASSUME NEW d \in Diagrams, NEW p \in Projects
        PROVE  d \in ListDiagrams(u, p) <=> GetDiagram(u, d) /\ diagram[d].project = p
    <3>1. diagram[d].st = "live" /\ diagram[d].project = p => DiagramWorkspace(d) = ProjectWorkspace(p)
      BY DEF DiagramWorkspace, ProjectWorkspace
    <3>2. QED
      BY <3>1 DEF ListDiagrams, GetDiagram
  <2>4. QED
    BY <2>1, <2>2, <2>3
<1>2. QED
  BY <1>1, ResourceBegins, ResourcesKept, PTL DEF ResourceSpec

-----------------------------------------------------------------------------
(* The invariants.                                                         *)

\* The advisory lock: one tab at a time is past the second check, and nobody
\* has founded the instance when it gets there.
FoundInv ==
  /\ \A c \in AuthTabs : At(c, "found", "locked") => lock /\ founded = 0
  /\ \A c, d \in AuthTabs : At(c, "found", "locked") /\ At(d, "found", "locked") => c = d
  /\ founded # 0 => accounts # {}
  /\ founded <= 1

\* Nobody holds a token that was not issued.
UnbornUnheld ==
  \A t \in Tokens : session[t] = "unborn" =>
    cookie # t /\ \A c \in AuthTabs : atab[c].call.tok # t /\ atab[c].call.new # t

\* A token on its way to the browser is live, and no request carries it yet:
\* nothing can revoke it before it is the cookie.
SuccessorSafe ==
  \A c \in AuthTabs : atab[c].call.new # NoToken =>
    /\ atab[c].call.pc = "ok"
    /\ session[atab[c].call.new] = "live"
    /\ cookie # atab[c].call.new
    /\ \A d \in AuthTabs : /\ atab[d].call.tok # atab[c].call.new
                           /\ d # c => atab[d].call.new # atab[c].call.new

NoLogout == \A c \in AuthTabs : atab[c].call.kind # "logout"

\* What a refresh relies on, as long as no session was ended.
SessionInv ==
  endings = 0 => NoLogout /\ UnbornUnheld /\ SuccessorSafe /\ RefreshKeepsSession

-----------------------------------------------------------------------------
(* Typing.                                                                 *)

\* A tab of the right type in the place of another.
LEMMA TabTyped ==
  ASSUME AuthTypeOK, NEW c \in AuthTabs, NEW x \in Tab
  PROVE  [atab EXCEPT ![c] = x] \in [AuthTabs -> Tab]
BY DEF AuthTypeOK

\* A tab that mounts.
LEMMA MountedTyped ==
  ASSUME NEW b \in BOOLEAN, NEW tok \in TokenOrNone
  PROVE  Mounted(b, tok) \in Tab
BY DEF Mounted, Call, Tab, NoToken, TokenOrNone

\* A tab whose request has ended.
LEMMA SettledTyped ==
  ASSUME AuthTypeOK, NEW c \in AuthTabs, NEW b \in BOOLEAN,
         NEW s \in {"loading", "authenticated", "anonymous"}
  PROVE  Settled(c, s, b) \in [AuthTabs -> Tab]
<1>1. [status |-> s, avail |-> b, call |-> NoFetch] \in Tab
  BY DEF NoFetch, Call, Tab, NoToken, TokenOrNone
<1>2. QED
  BY <1>1, TabTyped DEF Settled

\* Every step keeps the types.
LEMMA AuthTypeStep ==
  AuthTypeOK /\ [AuthNext]_authVars => AuthTypeOK'
<1> SUFFICES ASSUME AuthTypeOK, [AuthNext]_authVars PROVE AuthTypeOK'
  OBVIOUS
<1> USE DEF AuthTypeOK, TokenOrNone, Tab
<1>2. ASSUME NEW c \in AuthTabs, RequireSession(c) PROVE AuthTypeOK'
  BY <1>2, SMTT(30) DEF RequireSession
<1>3. ASSUME NEW c \in AuthTabs, Me(c) PROVE AuthTypeOK'
  BY <1>3, SMTT(30) DEF Me, Call, Answered, NoToken
<1>4. ASSUME NEW c \in AuthTabs, RotateRead(c) PROVE AuthTypeOK'
  BY <1>4 DEF RotateRead
<1>5. ASSUME NEW c \in AuthTabs, RevokeSession(c) PROVE AuthTypeOK'
  <2>1. atab' \in [AuthTabs -> Tab]
    BY <1>5 DEF RevokeSession, Call, Answered, NoToken
  <2>2. session' \in [Tokens -> {"unborn", "live", "revoked", "expired"}]
    BY <1>5 DEF RevokeSession
  <2>3. QED
    BY <1>5, <2>1, <2>2 DEF RevokeSession
<1>6. ASSUME NEW c \in AuthTabs, FirstRunCheck(c) PROVE AuthTypeOK'
  BY <1>6 DEF FirstRunCheck
<1>7. ASSUME NEW c \in AuthTabs, BootstrapLock(c) PROVE AuthTypeOK'
  <2>1. CASE IsInstanceUninitialized
    <3>1. atab' = [atab EXCEPT ![c].call.pc = "locked"]
      BY <1>7, <2>1 DEF BootstrapLock
    <3>2. atab' \in [AuthTabs -> Tab]
      BY <3>1, SMTT(30)
    <3>3. lock' \in BOOLEAN
      BY <1>7 DEF BootstrapLock
    <3>4. QED
      BY <1>7, <3>2, <3>3 DEF BootstrapLock
  <2>2. CASE ~IsInstanceUninitialized
    <3>1. atab' = Answered(c, "refused", NoToken)
      BY <1>7, <2>2 DEF BootstrapLock
    <3>2. atab' \in [AuthTabs -> Tab]
      BY <3>1 DEF Answered, Call, NoToken
    <3>3. QED
      BY <1>7, <2>2, <3>2 DEF BootstrapLock
  <2>3. QED
    BY <2>1, <2>2
<1>8. ASSUME NEW c \in AuthTabs, BootstrapCommit(c) PROVE AuthTypeOK'
  <2>0. atab' = [atab EXCEPT ![c].call.pc = "committed"]
    BY <1>8 DEF BootstrapCommit
  <2>1. atab' \in [AuthTabs -> Tab]
    BY <2>0, SMTT(30)
  <2>2. lock' \in BOOLEAN
    BY <1>8 DEF BootstrapCommit
  <2>3. accounts' \subseteq {"founder", "oidc"} /\ founded' \in Nat
    BY <1>8 DEF BootstrapCommit
  <2>4. QED
    BY <1>8, <2>1, <2>2, <2>3 DEF BootstrapCommit
<1>9. ASSUME NEW c \in AuthTabs, Resolve(c) PROVE AuthTypeOK'
  BY <1>9 DEF Resolve, Call, NoFetch, Settled, NoToken
<1>10. ASSUME NEW c \in AuthTabs, Logout(c) PROVE AuthTypeOK'
  BY <1>10 DEF Logout, Call, Form, Fetch, NoFetch, NoToken
<1>11. ASSUME NEW c \in AuthTabs, LoggedOut(c) PROVE AuthTypeOK'
  BY <1>11 DEF LoggedOut, Call, NoFetch, Settled, NoToken
<1>12. ASSUME NEW c \in AuthTabs, CheckAvailability(c) PROVE AuthTypeOK'
  <2>1. IsInstanceUninitialized \in BOOLEAN
    BY DEF IsInstanceUninitialized
  <2>2. PICK b \in BOOLEAN : atab' = [atab EXCEPT ![c].avail = b]
    BY <1>12, <2>1 DEF CheckAvailability
  <2>3. atab' \in [AuthTabs -> Tab]
    BY <2>2
  <2>4. QED
    BY <1>12, <2>3 DEF CheckAvailability
<1>13. ASSUME NEW c \in AuthTabs, Submitted(c) PROVE AuthTypeOK'
  <2>1. atab[c].call.new \in TokenOrNone /\ atab[c].status \in {"loading", "authenticated", "anonymous"}
    OBVIOUS
  <2>2. Mounted(FALSE, atab[c].call.new) \in Tab /\ Settled(c, atab[c].status, FALSE) \in [AuthTabs -> Tab]
    BY <2>1, MountedTyped, SettledTyped
  <2>3. [atab EXCEPT ![c] = Mounted(FALSE, atab[c].call.new)] \in [AuthTabs -> Tab]
    BY <2>2, TabTyped
  <2>4. atab' \in [AuthTabs -> Tab]
    <3>1. CASE atab[c].call.pc = "ok"
      BY <1>13, <2>3, <3>1 DEF Submitted
    <3>2. CASE atab[c].call.pc # "ok"
      <4>1. atab' = Settled(c, atab[c].status, FALSE)
        BY <1>13, <3>2 DEF Submitted
      <4>2. QED
        BY <2>2, <4>1
    <3>3. QED
      BY <3>1, <3>2
  <2>5. cookie' \in TokenOrNone
    BY <1>13, <2>1 DEF Submitted
  <2>6. QED
    BY <1>13, <2>4, <2>5 DEF Submitted
<1>14. ASSUME NEW c \in AuthTabs, Lose(c) PROVE AuthTypeOK'
  BY <1>14 DEF Lose, Call, NoFetch, NoToken
<1>15. ASSUME NEW c \in AuthTabs, Reload(c) PROVE AuthTypeOK'
  BY <1>15 DEF Reload, Call, NoFetch, Mounted, NoToken
<1>16. ASSUME NEW c \in AuthTabs, NEW t \in Tokens, RotateWrite(c, t) PROVE AuthTypeOK'
  <2>1. [session EXCEPT ![atab[c].call.tok] = "revoked"] \in [Tokens -> {"unborn", "live", "revoked", "expired"}]
    OBVIOUS
  <2>2. session' \in [Tokens -> {"unborn", "live", "revoked", "expired"}]
    BY <1>16, <2>1 DEF RotateWrite
  <2>3. QED
    BY <1>16, <2>2 DEF RotateWrite, Call, Answered
<1>17. ASSUME NEW c \in AuthTabs, NEW t \in Tokens, FirstRunSession(c, t) PROVE AuthTypeOK'
  BY <1>17, SMTT(30) DEF FirstRunSession, Call, Answered
<1>18. ASSUME NEW c \in AuthTabs, NEW t \in Tokens, Login(c, t) PROVE AuthTypeOK'
  <2>1. atab' \in [AuthTabs -> Tab]
    BY <1>18 DEF Login, Call, Answered, NoToken
  <2>2. session' \in [Tokens -> {"unborn", "live", "revoked", "expired"}]
    BY <1>18 DEF Login
  <2>3. QED
    BY <1>18, <2>1, <2>2 DEF Login
<1>19. ASSUME NEW c \in AuthTabs, NEW t \in Tokens, OidcCallback(c, t) PROVE AuthTypeOK'
  BY <1>19 DEF OidcCallback, Call, Answered, NoToken
<1>20. ASSUME NEW c \in AuthTabs, NEW email \in Emails, Submit(c, email) PROVE AuthTypeOK'
  BY <1>20 DEF Submit, Call, Form, NoFetch, NoToken
<1>21. ASSUME NEW t \in Tokens, Expire(t) PROVE AuthTypeOK'
  BY <1>21 DEF Expire
<1>22. CASE UNCHANGED authVars
  BY <1>22 DEF authVars
<1>23. QED
  BY <1>2, <1>3, <1>4, <1>5, <1>6, <1>7, <1>8, <1>9, <1>10, <1>11, <1>12, <1>13, <1>14, <1>15, <1>16, <1>17, <1>18, <1>19, <1>20, <1>21, <1>22 DEF AuthNext

\* Type correctness of sessions and the first run.
THEOREM AuthTyping == AuthSpec => []AuthTypeOK
<1>1. AuthInit => AuthTypeOK
  <2>1. Mounted(FALSE, NoToken) \in Tab
    BY MountedTyped DEF TokenOrNone
  <2>2. AuthInit => atab \in [AuthTabs -> Tab]
    BY <2>1 DEF AuthInit
  <2>3. AuthInit => lock \in BOOLEAN /\ cookie \in TokenOrNone /\ session \in [Tokens -> {"unborn", "live", "revoked", "expired"}]
    BY DEF AuthInit, TokenOrNone
  <2>4. AuthInit => accounts \subseteq {"founder", "oidc"} /\ founded \in Nat /\ endings \in Nat
    BY DEF AuthInit
  <2>5. QED
    BY <2>2, <2>3, <2>4 DEF AuthTypeOK
<1>2. QED
  BY <1>1, AuthTypeStep, PTL DEF AuthSpec

-----------------------------------------------------------------------------
(* The first run.                                                          *)

\* A step that brings nobody behind the lock.
LEMMA FoundQuiet ==
  ASSUME FoundInv, UNCHANGED <<founded, lock>>, accounts \subseteq accounts',
         \A d \in AuthTabs : At(d, "found", "locked")' => At(d, "found", "locked")
  PROVE  FoundInv'
BY DEF FoundInv

\* Every step keeps the lock's invariant.
LEMMA FoundStep ==
  AuthTypeOK /\ FoundInv /\ [AuthNext]_authVars => FoundInv'
<1> SUFFICES ASSUME AuthTypeOK, FoundInv, [AuthNext]_authVars PROVE FoundInv'
  OBVIOUS
<1> USE DEF AuthTypeOK, Tab, FoundInv, At
<1>2. ASSUME NEW c \in AuthTabs, RequireSession(c) PROVE FoundInv'
  BY <1>2 DEF RequireSession
<1>3. ASSUME NEW c \in AuthTabs, Me(c) PROVE FoundInv'
  BY <1>3 DEF Me, Call, Answered, NoToken
<1>4. ASSUME NEW c \in AuthTabs, RotateRead(c) PROVE FoundInv'
  BY <1>4 DEF RotateRead
<1>5. ASSUME NEW c \in AuthTabs, RevokeSession(c) PROVE FoundInv'
  BY <1>5 DEF RevokeSession, Call, Answered, NoToken
<1>6. ASSUME NEW c \in AuthTabs, FirstRunCheck(c) PROVE FoundInv'
  BY <1>6 DEF FirstRunCheck
<1>7. ASSUME NEW c \in AuthTabs, BootstrapLock(c) PROVE FoundInv'
  BY <1>7, SMTT(30) DEF BootstrapLock, IsInstanceUninitialized, Call, Answered, NoToken
<1>8. ASSUME NEW c \in AuthTabs, BootstrapCommit(c) PROVE FoundInv'
  BY <1>8 DEF BootstrapCommit
<1>9. ASSUME NEW c \in AuthTabs, Resolve(c) PROVE FoundInv'
  <2>1. UNCHANGED <<accounts, founded, lock>>
    BY <1>9 DEF Resolve
  <2>2. \A d \in AuthTabs \ {c} : atab'[d] = atab[d]
    BY <1>9 DEF Resolve, Settled
  <2>3. atab'[c].call.kind # "found"
    <3>1. CASE atab[c].call.kind = "me" /\ atab[c].call.pc = "refused"
      BY <1>9, <3>1 DEF Resolve, Call
    <3>2. CASE atab[c].call.kind = "refresh" /\ atab[c].call.pc = "ok"
      BY <1>9, <3>2 DEF Resolve, Call
    <3>3. CASE ~(atab[c].call.kind = "me" /\ atab[c].call.pc = "refused") /\ ~(atab[c].call.kind = "refresh" /\ atab[c].call.pc = "ok")
      <4>1. atab' = Settled(c, IF atab[c].call.pc = "ok" THEN "authenticated" ELSE "anonymous", atab[c].avail)
        BY <1>9, <3>3 DEF Resolve
      <4>2. QED
        BY <4>1 DEF Settled, NoFetch, Call
    <3>4. QED
      BY <3>1, <3>2, <3>3
  <2>4. QED
    BY <2>1, <2>2, <2>3
<1>10. ASSUME NEW c \in AuthTabs, Logout(c) PROVE FoundInv'
  BY <1>10 DEF Logout, Call, Form, Fetch, NoFetch, NoToken
<1>11. ASSUME NEW c \in AuthTabs, LoggedOut(c) PROVE FoundInv'
  BY <1>11 DEF LoggedOut, Call, NoFetch, Settled, NoToken
<1>12. ASSUME NEW c \in AuthTabs, CheckAvailability(c) PROVE FoundInv'
  BY <1>12 DEF CheckAvailability
<1>13. ASSUME NEW c \in AuthTabs, Submitted(c) PROVE FoundInv'
  BY <1>13 DEF Submitted, Call, NoFetch, Settled, Mounted, NoToken
<1>14. ASSUME NEW c \in AuthTabs, Lose(c) PROVE FoundInv'
  BY <1>14 DEF Lose, Call, NoFetch, NoToken
<1>15. ASSUME NEW c \in AuthTabs, Reload(c) PROVE FoundInv'
  BY <1>15 DEF Reload, Call, NoFetch, Mounted, NoToken
<1>16. ASSUME NEW c \in AuthTabs, NEW t \in Tokens, RotateWrite(c, t) PROVE FoundInv'
  BY <1>16 DEF RotateWrite, Call, Answered
<1>17. ASSUME NEW c \in AuthTabs, NEW t \in Tokens, FirstRunSession(c, t) PROVE FoundInv'
  BY <1>17 DEF FirstRunSession, Call, Answered
<1>18. ASSUME NEW c \in AuthTabs, NEW t \in Tokens, Login(c, t) PROVE FoundInv'
  <2>1. \A d \in AuthTabs : At(d, "found", "locked")' => At(d, "found", "locked")
    BY <1>18 DEF Login, Answered, Call
  <2>2. UNCHANGED <<founded, lock>> /\ accounts \subseteq accounts'
    BY <1>18 DEF Login
  <2>3. QED
    BY <2>1, <2>2, FoundQuiet
<1>19. ASSUME NEW c \in AuthTabs, NEW t \in Tokens, OidcCallback(c, t) PROVE FoundInv'
  <2>1. \A d \in AuthTabs : At(d, "found", "locked")' => At(d, "found", "locked")
    BY <1>19 DEF OidcCallback, Answered, Call
  <2>2. UNCHANGED <<founded, lock>> /\ accounts \subseteq accounts'
    BY <1>19 DEF OidcCallback
  <2>3. QED
    BY <2>1, <2>2, FoundQuiet
<1>20. ASSUME NEW c \in AuthTabs, NEW email \in Emails, Submit(c, email) PROVE FoundInv'
  BY <1>20 DEF Submit, Call, Form, NoFetch, NoToken
<1>21. ASSUME NEW t \in Tokens, Expire(t) PROVE FoundInv'
  BY <1>21 DEF Expire
<1>22. CASE UNCHANGED authVars
  BY <1>22 DEF authVars
<1>23. QED
  BY <1>2, <1>3, <1>4, <1>5, <1>6, <1>7, <1>8, <1>9, <1>10, <1>11, <1>12, <1>13, <1>14, <1>15, <1>16, <1>17, <1>18, <1>19, <1>20, <1>21, <1>22 DEF AuthNext

\* The instance is founded at most once, however many first-run submissions
\* and single sign-on logins race (BOOT-08).
THEOREM InstanceFoundedOnce == AuthSpec => []FoundedOnce
<1>1. AuthInit => FoundInv
  BY DEF AuthInit, FoundInv, At, Mounted, Call
<1>2. FoundInv => FoundedOnce
  BY DEF FoundInv, FoundedOnce
<1>3. QED
  BY <1>1, <1>2, AuthTyping, FoundStep, PTL DEF AuthSpec

-----------------------------------------------------------------------------
(* Refreshes.                                                              *)

\* Only tab c changes.
OnlyTab(c) == \A d \in AuthTabs : d # c => atab'[d] = atab[d]

\* A step that touches neither sessions nor the cookie, of a tab with no
\* successor in hand that refreshes.
LEMMA QuietStep ==
  ASSUME AuthTypeOK, SessionInv, NEW c \in AuthTabs,
         UNCHANGED <<session, cookie, endings>>, OnlyTab(c),
         atab'[c].call.kind # "logout", atab'[c].call.new = NoToken,
         atab'[c].call.tok \in {atab[c].call.tok, cookie, NoToken},
         atab[c].call.kind = "refresh" => atab[c].call.new = NoToken
  PROVE  SessionInv'
<1> USE DEF SessionInv, OnlyTab, NoToken, Tokens
<1>1. SUFFICES ASSUME endings = 0 PROVE NoLogout' /\ UnbornUnheld' /\ SuccessorSafe' /\ RefreshKeepsSession'
  OBVIOUS
<1>2. NoLogout'
  BY <1>1 DEF NoLogout
<1>3. UnbornUnheld'
  BY <1>1 DEF UnbornUnheld
<1>4. SuccessorSafe'
  BY <1>1 DEF SuccessorSafe
<1>5. RefreshKeepsSession'
  BY <1>1 DEF RefreshKeepsSession
<1>6. QED
  BY <1>2, <1>3, <1>4, <1>5

\* A step that issues session t to tab c, having revoked at most the session
\* of c's own request, and that only for a refresh.
LEMMA IssueStep ==
  ASSUME AuthTypeOK, SessionInv, NEW c \in AuthTabs, NEW t \in Tokens,
         UNCHANGED <<cookie, endings>>, OnlyTab(c), session[t] = "unborn",
         session'[t] = "live",
         \A s \in Tokens : s # t => session'[s] = session[s]
                                   \/ (s = atab[c].call.tok /\ session'[s] = "revoked" /\ atab[c].call.kind = "refresh"),
         atab[c].call.pc # "ok",
         atab'[c].call.kind = atab[c].call.kind, atab'[c].call.tok = atab[c].call.tok,
         atab'[c].call.new = t, atab'[c].call.pc = "ok"
  PROVE  SessionInv'
<1> USE DEF SessionInv, OnlyTab, NoToken, Tokens
<1>1. SUFFICES ASSUME endings = 0 PROVE NoLogout' /\ UnbornUnheld' /\ SuccessorSafe' /\ RefreshKeepsSession'
  OBVIOUS
<1>2. NoLogout'
  BY <1>1 DEF NoLogout
<1>3. UnbornUnheld'
  BY <1>1 DEF UnbornUnheld
<1>4. SuccessorSafe'
  <2>1. ASSUME NEW e \in AuthTabs, atab'[e].call.new # NoToken, e # c
        PROVE  /\ atab'[e].call.pc = "ok"
               /\ session'[atab'[e].call.new] = "live"
               /\ cookie' # atab'[e].call.new
               /\ \A d \in AuthTabs : /\ atab'[d].call.tok # atab'[e].call.new
                                      /\ d # e => atab'[d].call.new # atab'[e].call.new
    <3>1. atab[e].call.new \in Tokens /\ atab[e].call.new # t
      BY <1>1, <2>1 DEF UnbornUnheld, AuthTypeOK, Tab, TokenOrNone
    <3>2. QED
      BY <1>1, <2>1, <3>1 DEF SuccessorSafe
  <2>2. /\ cookie' # t
        /\ \A d \in AuthTabs : /\ atab'[d].call.tok # t
                               /\ d # c => atab'[d].call.new # t
    BY <1>1 DEF UnbornUnheld
  <2>3. QED
    BY <2>1, <2>2 DEF SuccessorSafe
<1>5. RefreshKeepsSession'
  <2>1. SUFFICES ASSUME cookie # NoToken
                 PROVE  session'[cookie] = "live"
                        \/ \E d \in AuthTabs : atab'[d].call.kind = "refresh" /\ atab'[d].call.new \in Tokens
                                               /\ session'[atab'[d].call.new] = "live"
    BY DEF RefreshKeepsSession
  <2>2. cookie \in Tokens
    BY <2>1 DEF AuthTypeOK, TokenOrNone
  <2>3. CASE session[cookie] = "live"
    <3>1. CASE session'[cookie] = "live"
      BY <3>1
    <3>2. CASE session'[cookie] # "live"
      BY <2>2, <2>3, <3>2
    <3>3. QED
      BY <3>1, <3>2
  <2>4. CASE \E d \in AuthTabs : atab[d].call.kind = "refresh" /\ atab[d].call.new \in Tokens
                                 /\ session[atab[d].call.new] = "live"
    <3>1. PICK d \in AuthTabs : atab[d].call.kind = "refresh" /\ atab[d].call.new \in Tokens
                               /\ session[atab[d].call.new] = "live"
      BY <2>4
    <3>2. d # c /\ atab[d].call.new # t /\ atab[d].call.new # atab[c].call.tok
      BY <1>1, <3>1 DEF SuccessorSafe
    <3>3. QED
      BY <3>1, <3>2
  <2>5. QED
    BY <1>1, <2>1, <2>3, <2>4 DEF RefreshKeepsSession
<1>6. QED
  BY <1>2, <1>3, <1>4, <1>5

\* A step that makes the token c's answer carries the browser's cookie.
LEMMA AdoptStep ==
  ASSUME AuthTypeOK, SessionInv, NEW c \in AuthTabs,
         UNCHANGED <<session, endings>>, OnlyTab(c), cookie' = atab[c].call.new,
         atab'[c].call.kind # "logout", atab'[c].call.new = NoToken,
         atab'[c].call.tok = atab[c].call.new
  PROVE  SessionInv'
<1> USE DEF SessionInv, OnlyTab, NoToken, Tokens
<1>1. SUFFICES ASSUME endings = 0 PROVE NoLogout' /\ UnbornUnheld' /\ SuccessorSafe' /\ RefreshKeepsSession'
  OBVIOUS
<1>2. NoLogout'
  BY <1>1 DEF NoLogout
<1>3. UnbornUnheld'
  BY <1>1 DEF UnbornUnheld
<1>4. SuccessorSafe'
  BY <1>1 DEF SuccessorSafe
<1>5. RefreshKeepsSession'
  BY <1>1 DEF RefreshKeepsSession, SuccessorSafe
<1>6. QED
  BY <1>2, <1>3, <1>4, <1>5

\* A step that ends a session or loses an answer: nothing is promised after it.
LEMMA EndingStep ==
  ASSUME AuthTypeOK, endings' = endings + 1
  PROVE  SessionInv'
BY DEF SessionInv, AuthTypeOK

\* No successor is in hand before the answer.
LEMMA NothingInHand ==
  ASSUME SessionInv, endings = 0, NEW c \in AuthTabs, atab[c].call.pc # "ok"
  PROVE  atab[c].call.new = NoToken
BY DEF SessionInv, SuccessorSafe

\* Endings are only added to.
LEMMA EndingsGrow ==
  [AuthNext]_authVars => endings' = endings \/ endings' = endings + 1
<1>1. ASSUME NEW c \in AuthTabs,
             RequireSession(c) \/ Me(c) \/ RotateRead(c) \/ RevokeSession(c) \/ FirstRunCheck(c)
             \/ BootstrapLock(c) \/ BootstrapCommit(c) \/ Resolve(c) \/ LoggedOut(c)
             \/ CheckAvailability(c) \/ Submitted(c) \/ Reload(c)
      PROVE  endings' = endings
  BY <1>1 DEF RequireSession, Me, RotateRead, RevokeSession, FirstRunCheck, BootstrapLock, BootstrapCommit,
              Resolve, LoggedOut, CheckAvailability, Submitted, Reload
<1>2. ASSUME NEW c \in AuthTabs, NEW t \in Tokens,
             RotateWrite(c, t) \/ FirstRunSession(c, t) \/ Login(c, t) \/ OidcCallback(c, t)
      PROVE  endings' = endings
  BY <1>2 DEF RotateWrite, FirstRunSession, Login, OidcCallback
<1>3. ASSUME NEW c \in AuthTabs, NEW email \in Emails, Submit(c, email) PROVE endings' = endings
  BY <1>3 DEF Submit
<1>4. ASSUME NEW c \in AuthTabs, Logout(c) \/ Lose(c) PROVE endings' = endings + 1
  BY <1>4 DEF Logout, Lose
<1>5. ASSUME NEW t \in Tokens, Expire(t) PROVE endings' = endings + 1
  BY <1>5 DEF Expire
<1>6. QED
  BY <1>1, <1>2, <1>3, <1>4, <1>5 DEF AuthNext, authVars

\* Every step keeps what a refresh relies on.
LEMMA SessionStep ==
  AuthTypeOK /\ SessionInv /\ [AuthNext]_authVars => SessionInv'
<1> SUFFICES ASSUME AuthTypeOK, SessionInv, [AuthNext]_authVars PROVE SessionInv'
  OBVIOUS
<1> USE DEF AuthTypeOK, Tab
<1>1. SUFFICES ASSUME endings = 0 PROVE SessionInv'
  <2>1. endings # 0 => endings' # 0
    BY EndingsGrow
  <2>2. QED
    BY <2>1 DEF SessionInv
<1>2. ASSUME NEW c \in AuthTabs, RequireSession(c) PROVE SessionInv'
  <2>1. OnlyTab(c) /\ UNCHANGED <<session, cookie, endings>>
    BY <1>2 DEF RequireSession, OnlyTab
  <2>2. atab[c].call.new = NoToken
    BY <1>2, <1>1, NothingInHand DEF RequireSession
  <2>3. atab'[c].call.kind = atab[c].call.kind /\ atab'[c].call.tok = atab[c].call.tok /\ atab'[c].call.new = NoToken
    BY <1>2, <2>2 DEF RequireSession
  <2>4. atab[c].call.kind # "logout"
    BY <1>1 DEF SessionInv, NoLogout
  <2>5. QED
    BY <2>1, <2>2, <2>3, <2>4, QuietStep
<1>3. ASSUME NEW c \in AuthTabs, Me(c) PROVE SessionInv'
  <2>1. OnlyTab(c) /\ UNCHANGED <<session, cookie, endings>>
    BY <1>3 DEF Me, OnlyTab, Answered, Call
  <2>2. atab[c].call.new = NoToken
    BY <1>3, <1>1, NothingInHand DEF Me, At
  <2>3. atab'[c].call.kind = atab[c].call.kind /\ atab'[c].call.tok = atab[c].call.tok /\ atab'[c].call.new = NoToken
    BY <1>3, <2>2 DEF Me, Answered, Call
  <2>4. atab[c].call.kind # "logout"
    BY <1>1 DEF SessionInv, NoLogout
  <2>5. QED
    BY <2>1, <2>2, <2>3, <2>4, QuietStep
<1>4. ASSUME NEW c \in AuthTabs, RotateRead(c) PROVE SessionInv'
  <2>1. OnlyTab(c) /\ UNCHANGED <<session, cookie, endings>>
    BY <1>4 DEF RotateRead, OnlyTab
  <2>2. atab[c].call.new = NoToken
    BY <1>4, <1>1, NothingInHand DEF RotateRead, At
  <2>3. atab'[c].call.kind = atab[c].call.kind /\ atab'[c].call.tok = atab[c].call.tok /\ atab'[c].call.new = NoToken
    BY <1>4, <2>2 DEF RotateRead
  <2>4. atab[c].call.kind # "logout"
    BY <1>1 DEF SessionInv, NoLogout
  <2>5. QED
    BY <2>1, <2>2, <2>3, <2>4, QuietStep
<1>5. ASSUME NEW c \in AuthTabs, FirstRunCheck(c) PROVE SessionInv'
  <2>1. OnlyTab(c) /\ UNCHANGED <<session, cookie, endings>>
    BY <1>5 DEF FirstRunCheck, OnlyTab
  <2>2. atab[c].call.new = NoToken
    BY <1>5, <1>1, NothingInHand DEF FirstRunCheck, At
  <2>3. atab'[c].call.kind = atab[c].call.kind /\ atab'[c].call.tok = atab[c].call.tok /\ atab'[c].call.new = NoToken
    BY <1>5, <2>2 DEF FirstRunCheck
  <2>4. atab[c].call.kind # "logout"
    BY <1>1 DEF SessionInv, NoLogout
  <2>5. QED
    BY <2>1, <2>2, <2>3, <2>4, QuietStep
<1>6. ASSUME NEW c \in AuthTabs, BootstrapLock(c) PROVE SessionInv'
  <2>1. OnlyTab(c) /\ UNCHANGED <<session, cookie, endings>>
    BY <1>6 DEF BootstrapLock, OnlyTab, Answered, Call
  <2>2. atab[c].call.new = NoToken
    BY <1>6, <1>1, NothingInHand DEF BootstrapLock, At
  <2>3. atab'[c].call.kind = atab[c].call.kind /\ atab'[c].call.tok = atab[c].call.tok /\ atab'[c].call.new = NoToken
    BY <1>6, <2>2 DEF BootstrapLock, Answered, Call
  <2>4. atab[c].call.kind # "logout"
    BY <1>1 DEF SessionInv, NoLogout
  <2>5. QED
    BY <2>1, <2>2, <2>3, <2>4, QuietStep
<1>7. ASSUME NEW c \in AuthTabs, BootstrapCommit(c) PROVE SessionInv'
  <2>1. OnlyTab(c) /\ UNCHANGED <<session, cookie, endings>>
    BY <1>7 DEF BootstrapCommit, OnlyTab
  <2>2. atab[c].call.new = NoToken
    BY <1>7, <1>1, NothingInHand DEF BootstrapCommit, At
  <2>3. atab'[c].call.kind = atab[c].call.kind /\ atab'[c].call.tok = atab[c].call.tok /\ atab'[c].call.new = NoToken
    BY <1>7, <2>2 DEF BootstrapCommit
  <2>4. atab[c].call.kind # "logout"
    BY <1>1 DEF SessionInv, NoLogout
  <2>5. QED
    BY <2>1, <2>2, <2>3, <2>4, QuietStep
<1>8. ASSUME NEW c \in AuthTabs, RevokeSession(c) PROVE SessionInv'
  BY <1>8 DEF RevokeSession, At, SessionInv, NoLogout
<1>9. ASSUME NEW c \in AuthTabs, LoggedOut(c) PROVE SessionInv'
  BY <1>9 DEF LoggedOut, SessionInv, NoLogout
<1>10. ASSUME NEW c \in AuthTabs, Logout(c) PROVE SessionInv'
  BY <1>10, EndingStep DEF Logout
<1>11. ASSUME NEW c \in AuthTabs, Lose(c) PROVE SessionInv'
  BY <1>11, EndingStep DEF Lose
<1>12. ASSUME NEW t \in Tokens, Expire(t) PROVE SessionInv'
  BY <1>12, EndingStep DEF Expire
<1>13. ASSUME NEW c \in AuthTabs, CheckAvailability(c) PROVE SessionInv'
  <2>1. UNCHANGED <<session, cookie, endings>> /\ \A d \in AuthTabs : atab'[d].call = atab[d].call
    BY <1>13 DEF CheckAvailability
  <2>2. QED
    BY <2>1 DEF SessionInv, NoLogout, UnbornUnheld, SuccessorSafe, RefreshKeepsSession
<1>14. ASSUME NEW c \in AuthTabs, Resolve(c) PROVE SessionInv'
  <2> DEFINE k == atab[c].call
  <2>1. UNCHANGED <<session, endings>> /\ OnlyTab(c)
    BY <1>14 DEF Resolve, Settled, OnlyTab
  <2>2. CASE k.kind = "me" /\ k.pc = "refused"
    <3>1. UNCHANGED cookie /\ atab'[c].call = Call("refresh", "sent", cookie, NoToken, "none")
      BY <1>14, <2>2 DEF Resolve
    <3>2. QED
      BY <2>1, <2>2, <3>1, QuietStep DEF Call
  <2>3. CASE k.kind = "refresh" /\ k.pc = "ok"
    <3>1. cookie' = k.new /\ atab'[c].call = Call("retry", "sent", k.new, NoToken, "none")
      BY <1>14, <2>3 DEF Resolve
    <3>2. QED
      BY <2>1, <3>1, AdoptStep DEF Call
  <2>4. CASE ~(k.kind = "me" /\ k.pc = "refused") /\ ~(k.kind = "refresh" /\ k.pc = "ok")
    <3>1. UNCHANGED cookie /\ atab'[c].call = NoFetch
      BY <1>14, <2>4 DEF Resolve, Settled
    <3>2. k.kind = "refresh" => k.new = NoToken
      BY <2>4, <1>1, NothingInHand
    <3>3. QED
      BY <2>1, <3>1, <3>2, QuietStep DEF NoFetch, Call
  <2>5. QED
    BY <2>2, <2>3, <2>4
<1>15. ASSUME NEW c \in AuthTabs, Submitted(c) PROVE SessionInv'
  <2> DEFINE k == atab[c].call
  <2>1. UNCHANGED <<session, endings>> /\ OnlyTab(c) /\ k.kind # "refresh"
    BY <1>15 DEF Submitted, Settled, OnlyTab
  <2>2. CASE k.pc = "ok"
    <3>1. cookie' = k.new /\ atab'[c] = Mounted(FALSE, k.new)
      BY <1>15, <2>2 DEF Submitted
    <3>2. QED
      BY <2>1, <3>1, AdoptStep DEF Mounted, Call
  <2>3. CASE k.pc # "ok"
    <3>1. UNCHANGED cookie /\ atab'[c].call = NoFetch
      BY <1>15, <2>3 DEF Submitted, Settled
    <3>2. QED
      BY <2>1, <3>1, QuietStep DEF NoFetch, Call
  <2>4. QED
    BY <2>2, <2>3
<1>16. ASSUME NEW c \in AuthTabs, Reload(c) PROVE SessionInv'
  <2>1. UNCHANGED <<session, cookie, endings>> /\ OnlyTab(c) /\ atab[c].call = NoFetch
    BY <1>16 DEF Reload, OnlyTab
  <2>2. atab'[c] = Mounted(FALSE, cookie)
    BY <1>16 DEF Reload
  <2>3. QED
    BY <2>1, <2>2, QuietStep DEF Mounted, NoFetch, Call
<1>17. ASSUME NEW c \in AuthTabs, NEW email \in Emails, Submit(c, email) PROVE SessionInv'
  <2>1. UNCHANGED <<session, cookie, endings>> /\ OnlyTab(c) /\ atab[c].call = NoFetch
    BY <1>17 DEF Submit, OnlyTab
  <2>2. PICK kind \in {"found", "login", "oidc"} : atab' = [atab EXCEPT ![c].call = Form(kind, email)]
    BY <1>17 DEF Submit
  <2>3. atab'[c].call = Form(kind, email)
    BY <2>2
  <2>4. QED
    BY <2>1, <2>2, <2>3, QuietStep DEF Form, NoFetch, Call
<1>18. ASSUME NEW c \in AuthTabs, NEW t \in Tokens, FirstRunSession(c, t) PROVE SessionInv'
  <2>1. OnlyTab(c) /\ UNCHANGED <<cookie, endings>> /\ session[t] = "unborn" /\ atab[c].call.pc # "ok"
    BY <1>18 DEF FirstRunSession, Fresh, At, OnlyTab, Answered
  <2>2. atab'[c].call = Call(atab[c].call.kind, "ok", atab[c].call.tok, t, atab[c].call.email)
    BY <1>18 DEF FirstRunSession, Answered
  <2>3. /\ session'[t] = "live"
        /\ \A s \in Tokens : s # t => session'[s] = session[s]
                                  \/ (s = atab[c].call.tok /\ session'[s] = "revoked" /\ atab[c].call.kind = "refresh")
    <3>1. session'[t] = "live" /\ \A s \in Tokens : s # t => session'[s] = session[s]
      BY <1>18 DEF FirstRunSession
    <3>2. QED
      BY <3>1
  <2>4. /\ atab'[c].call.kind = atab[c].call.kind /\ atab'[c].call.tok = atab[c].call.tok
        /\ atab'[c].call.new = t /\ atab'[c].call.pc = "ok"
    BY <2>2 DEF Call
  <2>5. QED
    BY <2>1, <2>3, <2>4, IssueStep
<1>19. ASSUME NEW c \in AuthTabs, NEW t \in Tokens, RotateWrite(c, t) PROVE SessionInv'
  <2>1. OnlyTab(c) /\ UNCHANGED <<cookie, endings>> /\ session[t] = "unborn" /\ atab[c].call.pc # "ok"
    BY <1>19 DEF RotateWrite, Fresh, At, OnlyTab, Answered
  <2>2. atab'[c].call = Call(atab[c].call.kind, "ok", atab[c].call.tok, t, atab[c].call.email)
    BY <1>19 DEF RotateWrite, Answered
  <2>3. /\ session'[t] = "live"
        /\ \A s \in Tokens : s # t => session'[s] = session[s]
                                     \/ (s = atab[c].call.tok /\ session'[s] = "revoked" /\ atab[c].call.kind = "refresh")
    <3>1. [session EXCEPT ![atab[c].call.tok] = "revoked"] \in [Tokens -> {"unborn", "live", "revoked", "expired"}]
      OBVIOUS
    <3>2. session'[t] = "live"
      BY <1>19, <3>1 DEF RotateWrite
    <3>3. \A s \in Tokens : s # t => session'[s] = [session EXCEPT ![atab[c].call.tok] = "revoked"][s]
      BY <1>19, <3>1 DEF RotateWrite
    <3>4. atab[c].call.kind = "refresh"
      BY <1>19 DEF RotateWrite, At
    <3>5. ASSUME NEW s \in Tokens, s # t, session'[s] # session[s]
          PROVE  s = atab[c].call.tok /\ session'[s] = "revoked"
      BY <3>3, <3>5
    <3>6. QED
      BY <3>2, <3>4, <3>5
  <2>4. /\ atab'[c].call.kind = atab[c].call.kind /\ atab'[c].call.tok = atab[c].call.tok
        /\ atab'[c].call.new = t /\ atab'[c].call.pc = "ok"
    BY <2>2 DEF Call
  <2>5. QED
    BY <2>1, <2>3, <2>4, IssueStep
<1>20. ASSUME NEW c \in AuthTabs, NEW t \in Tokens, Login(c, t) PROVE SessionInv'
  <2>1. CASE VerifyLocalPassword(atab[c].call.email)
    <3>1. OnlyTab(c) /\ UNCHANGED <<cookie, endings>> /\ session[t] = "unborn" /\ atab[c].call.pc # "ok"
      BY <1>20, <2>1 DEF Login, Fresh, At, OnlyTab, Answered
    <3>2. atab'[c].call = Call(atab[c].call.kind, "ok", atab[c].call.tok, t, atab[c].call.email)
      BY <1>20, <2>1 DEF Login, Answered
    <3>3. /\ session'[t] = "live"
          /\ \A s \in Tokens : s # t => session'[s] = session[s]
                                    \/ (s = atab[c].call.tok /\ session'[s] = "revoked" /\ atab[c].call.kind = "refresh")
      <4>1. session'[t] = "live" /\ \A s \in Tokens : s # t => session'[s] = session[s]
        BY <1>20, <2>1 DEF Login
      <4>2. QED
        BY <4>1
    <3>4. /\ atab'[c].call.kind = atab[c].call.kind /\ atab'[c].call.tok = atab[c].call.tok
          /\ atab'[c].call.new = t /\ atab'[c].call.pc = "ok"
      BY <3>2 DEF Call
    <3>5. QED
      BY <3>1, <3>3, <3>4, IssueStep
  <2>2. CASE ~VerifyLocalPassword(atab[c].call.email)
    <3>1. OnlyTab(c) /\ UNCHANGED <<session, cookie, endings>>
      BY <1>20, <2>2 DEF Login, OnlyTab, Answered, Call
    <3>2. atab[c].call.new = NoToken
      BY <1>20, <2>2, <1>1, NothingInHand DEF Login, At
    <3>3. atab'[c].call.kind = atab[c].call.kind /\ atab'[c].call.tok = atab[c].call.tok /\ atab'[c].call.new = NoToken
      BY <1>20, <2>2, <3>2 DEF Login, Answered, Call
    <3>4. atab[c].call.kind # "logout"
      BY <1>1 DEF SessionInv, NoLogout
    <3>5. QED
      BY <3>1, <3>2, <3>3, <3>4, QuietStep
  <2>3. QED
    BY <2>1, <2>2
<1>21. ASSUME NEW c \in AuthTabs, NEW t \in Tokens, OidcCallback(c, t) PROVE SessionInv'
  <2>1. CASE session' # session
    <3>1. OnlyTab(c) /\ UNCHANGED <<cookie, endings>> /\ session[t] = "unborn" /\ atab[c].call.pc # "ok"
      BY <1>21, <2>1 DEF OidcCallback, Fresh, At, OnlyTab, Answered
    <3>2. atab'[c].call = Call(atab[c].call.kind, "ok", atab[c].call.tok, t, atab[c].call.email)
      BY <1>21, <2>1 DEF OidcCallback, Answered
    <3>3. /\ session'[t] = "live"
          /\ \A s \in Tokens : s # t => session'[s] = session[s]
                                    \/ (s = atab[c].call.tok /\ session'[s] = "revoked" /\ atab[c].call.kind = "refresh")
      <4>1. session'[t] = "live" /\ \A s \in Tokens : s # t => session'[s] = session[s]
        BY <1>21, <2>1 DEF OidcCallback
      <4>2. QED
        BY <4>1
    <3>4. /\ atab'[c].call.kind = atab[c].call.kind /\ atab'[c].call.tok = atab[c].call.tok
          /\ atab'[c].call.new = t /\ atab'[c].call.pc = "ok"
      BY <3>2 DEF Call
    <3>5. QED
      BY <3>1, <3>3, <3>4, IssueStep
  <2>2. CASE session' = session
    <3>1. OnlyTab(c) /\ UNCHANGED <<session, cookie, endings>>
      BY <1>21, <2>2 DEF OidcCallback, OnlyTab, Answered, Call
    <3>2. atab[c].call.new = NoToken
      BY <1>21, <2>2, <1>1, NothingInHand DEF OidcCallback, At
    <3>3. atab'[c].call.kind = atab[c].call.kind /\ atab'[c].call.tok = atab[c].call.tok /\ atab'[c].call.new = NoToken
      BY <1>21, <2>2, <3>2 DEF OidcCallback, Fresh, Answered, Call
    <3>4. atab[c].call.kind # "logout"
      BY <1>1 DEF SessionInv, NoLogout
    <3>5. QED
      BY <3>1, <3>2, <3>3, <3>4, QuietStep
  <2>3. QED
    BY <2>1, <2>2
<1>22. CASE UNCHANGED authVars
  BY <1>22 DEF authVars, SessionInv, NoLogout, UnbornUnheld, SuccessorSafe, RefreshKeepsSession
<1>23. QED
  BY <1>2, <1>3, <1>4, <1>5, <1>6, <1>7, <1>8, <1>9, <1>10, <1>11, <1>12, <1>13, <1>14, <1>15, <1>16, <1>17, <1>18, <1>19, <1>20, <1>21, <1>22 DEF AuthNext

\* Two tabs may rotate the same token at once: while no session is ended, the
\* cookie still names a live session or its live successor is on the way.
THEOREM RefreshesKeepTheSession == AuthSpec => []RefreshKeepsSession
<1>1. AuthInit => SessionInv
  BY DEF AuthInit, SessionInv, NoLogout, UnbornUnheld, SuccessorSafe, RefreshKeepsSession, Mounted, Call, NoToken, Tokens
<1>2. AuthTypeOK /\ SessionInv => RefreshKeepsSession
  BY DEF SessionInv, RefreshKeepsSession
<1>3. QED
  BY <1>1, <1>2, AuthTyping, SessionStep, PTL DEF AuthSpec
=============================================================================
