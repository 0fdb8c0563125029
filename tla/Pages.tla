------------------------------- MODULE Pages -------------------------------
(***************************************************************************)
(* The list pages of the web application: workspaces, projects, diagrams,  *)
(* members, organization administrators (a section of the members page     *)
(* with a client and a store of its own), webhooks and AI providers.  A    *)
(* page is a resource list store, a form per operation and the requests    *)
(* its handlers have in flight; nothing serialises the requests, and an    *)
(* answer is applied to the page as it is when the answer comes.  One page *)
(* is open; leaving it ends the behaviour.  A row's `val` stands for its   *)
(* name, title, address or role, `on` for its enabled flag, `key` for the  *)
(* signing secret of a webhook.                                            *)
(***************************************************************************)
EXTENDS Naturals, FiniteSets, Sequences, SequencesExt, Lists

CONSTANTS
    Kinds,      \* the pages opened
    Rows,       \* ids a list may show
    Self,         \* the member row of the person at the page
    Flights,    \* bound: requests in flight at once
    MaxRequests \* bound: forms submitted

ASSUME PagesAssumption ==
    /\ Kinds \subseteq {"workspaces", "projects", "diagrams", "members", "admins", "webhooks", "providers"}
    /\ IsFiniteSet(Rows) /\ Self \in Rows /\ MaxRequests \in Nat

VARIABLES
    page,         \* the open page
    rows,         \* [Rows -> the server's row, or NoRow]
    flight,       \* [Flights -> a request and, once served, its answer]
    submitted,    \* forms submitted
    undisturbed,  \* history: no two requests overlapped
    untold,       \* history: rows whose last change the page has had no answer to
    unkeyed       \* history: a secret was made and the page has had no answer to that

pageHistory == <<undisturbed, untold, unkeyed>>
pageVars == <<page, rows, flight, submitted, pageHistory>>

NoId == "none"
Writes == {"create", "add", "rename", "change", "edit", "toggle", "rotate", "archive"}
NoRow == [val |-> "none", on |-> FALSE, key |-> 0]
NoSecret == [id |-> NoId, row |-> 0]
Grounded == [op |-> "none"]
Vals == {"admin", "other"}
Row(v) == [val |-> v, on |-> TRUE, key |-> 0]
Live == {i \in Rows : rows[i] # NoRow}
Item(i, r) == [id |-> i, row |-> r]
Listing == SetToSeq({Item(i, rows[i]) : i \in Live})
Busy(s) == flight[s].op # "none"

\* createResourceListStore
SetItems(p, list) == [p EXCEPT !.items = list, !.status = "ready"]
SetError(p) == [p EXCEPT !.status = "error"]
AddItem(p, it) == [p EXCEPT !.items = Append(@, it)]
RemoveItem(p, i) == [p EXCEPT !.items = Without(@, i)]
ReplaceItem(p, i, it) == [p EXCEPT !.items = [n \in DOMAIN @ |-> IF @[n].id = i THEN it ELSE @[n]]]

Request(op, i, r) == [op |-> op, id |-> i, row |-> r, st |-> "sent", list |-> <<>>,
                       seen |-> IF op \in {"toggle", "find"} THEN page.items ELSE <<>>]
InFlight(op) == \E s \in Flights : flight[s].op = op
Shown(i) == page.status = "ready" /\ \E n \in DOMAIN page.items : page.items[n].id = i
RowOf(i) == page.items[CHOOSE n \in DOMAIN page.items : page.items[n].id = i].row

\* the page's first request: two of the pages resolve their container and role first
Opening(k) == IF k \in {"projects", "diagrams"} THEN "lookup" ELSE "list"

\* the effect that loads the page has just run
PageInit ==
    /\ \E k \in Kinds, may \in BOOLEAN :
          page = [kind |-> k, may |-> may, can |-> FALSE, items |-> <<>>, status |-> "loading",
                  notFound |-> FALSE, editing |-> NoId, dialog |-> NoId, secret |-> NoSecret, gone |-> FALSE]
    /\ rows \in [Rows -> {NoRow} \cup [val : Vals, on : {FALSE}, key : {0}]]
    /\ flight = [s \in Flights |-> IF s = (CHOOSE t \in Flights : TRUE) THEN Request(Opening(page.kind), NoId, NoRow) ELSE Grounded]
    /\ submitted = 0 /\ undisturbed = TRUE /\ untold = {} /\ unkeyed = FALSE

-----------------------------------------------------------------------------
(* The clients: the requests each may send.  A client maps a refusal and a *)
(* request without an answer to results its page only words differently.   *)

ResourceClient == {"list", "create", "rename", "archive"}
MemberClient == {"list", "find", "add", "change", "archive"}
OrganizationAdminClient == {"list", "add", "archive"}
WebhookClient == {"list", "create", "edit", "toggle", "rotate", "archive"}
AiProviderClient == {"list", "create", "edit", "toggle", "test"}

Client(k) ==
    CASE k = "workspaces" -> ResourceClient \cup {"bundle"}
      [] k \in {"projects", "diagrams"} -> ResourceClient \cup {"lookup", "container"}
      [] k = "members" -> MemberClient
      [] k = "admins" -> OrganizationAdminClient
      [] k = "webhooks" -> WebhookClient
      [] k = "providers" -> AiProviderClient

-----------------------------------------------------------------------------
(* What each page offers: the conditions its view and the head of its      *)
(* handlers put on a request.  A retry appears with the error it retries.  *)

WorkspacesOffer(op, i, v) ==
    \/ op = "list" /\ page.status = "error"
    \/ op = "create"
    \/ op = "rename" /\ page.may /\ page.editing = i /\ Shown(i)
    \/ op = "archive" /\ page.dialog = i
    \/ op = "bundle" /\ page.may /\ Shown(i) /\ ~\E s \in Flights : flight[s].op = "bundle" /\ flight[s].id = i

ProjectsOffer(op, i, v) ==
    \/ op = "list" /\ page.status = "error"
    \/ op = "create" /\ page.can
    \/ op = "rename" /\ page.editing = i /\ Shown(i)
    \/ op = "archive" /\ page.dialog = i
    \/ op = "container" /\ page.dialog = "container"

DiagramsOffer(op, i, v) ==
    \/ op = "list" /\ page.status = "error"
    \/ op = "create" /\ page.can
    \/ op = "rename" /\ page.editing = i /\ Shown(i)
    \/ op = "archive" /\ page.dialog = i
    \/ op = "container" /\ page.dialog = "container"

\* the caller's own row decides, and a sole administrator may not step down
CanManage == Shown(Self) /\ RowOf(Self).val = "admin"
IsSoleAdmin == CanManage /\ Cardinality({n \in DOMAIN page.items : page.items[n].row.val = "admin"}) = 1

MembersOffer(op, i, v) ==
    \/ op = "list" /\ page.notFound
    \/ op = "find" /\ CanManage /\ ~InFlight("find") /\ ~InFlight("add")
    \/ op = "change" /\ CanManage /\ Shown(i) /\ ~(i = Self /\ IsSoleAdmin /\ v # "admin")
    \/ op = "archive" /\ page.dialog = i

AdminsOffer(op, i, v) ==
    \/ op = "add" /\ ~InFlight("add") /\ ~InFlight("reload")
    \/ op = "archive" /\ Shown(i)

\* a save that changes nothing sends nothing
WebhooksOffer(op, i, v) ==
    \/ op = "create" /\ ~InFlight("create")
    \/ op = "edit" /\ page.editing = i /\ Shown(i) /\ v # RowOf(i).val
    \/ op \in {"toggle", "rotate"} /\ Shown(i)
    \/ op = "archive" /\ page.dialog = i

ProvidersOffer(op, i, v) ==
    \/ op = "create" /\ ~InFlight("create")
    \/ op = "edit" /\ page.editing = i /\ Shown(i)
    \/ op = "toggle" /\ Shown(i)
    \/ op = "test" /\ Shown(i) /\ ~InFlight("test")

Offers(op, i, v) ==
    /\ op \in Client(page.kind)
    /\ page.notFound => op = "list"
    /\ CASE page.kind = "workspaces" -> WorkspacesOffer(op, i, v)
         [] page.kind = "projects" -> ProjectsOffer(op, i, v)
         [] page.kind = "diagrams" -> DiagramsOffer(op, i, v)
         [] page.kind = "members" -> MembersOffer(op, i, v)
         [] page.kind = "admins" -> AdminsOffer(op, i, v)
         [] page.kind = "webhooks" -> WebhooksOffer(op, i, v)
         [] page.kind = "providers" -> ProvidersOffer(op, i, v)

-----------------------------------------------------------------------------
(* What each page makes of an answer; `ok` tells success from every other. *)

ok(f) == f.st = "ok"
Listed(p, f) == IF ok(f) THEN SetItems(p, f.list) ELSE SetError(p)
Saved(p, f) == IF ok(f) THEN [ReplaceItem(p, f.id, Item(f.id, f.row)) EXCEPT !.editing = NoId] ELSE p
\* mutant: the row goes whatever the server answered
ArchivedAnyway(p, f) == [RemoveItem(p, f.id) EXCEPT !.dialog = NoId]
Archived(p, f) == [IF ok(f) THEN RemoveItem(p, f.id) ELSE p EXCEPT !.dialog = NoId]
\* these two are fetched without a client: a rejected fetch ends the handler there
LookedUp(p, f) == CASE f.st = "ok" -> [p EXCEPT !.can = p.may] [] f.st = "failed" -> [p EXCEPT !.notFound = TRUE] [] OTHER -> p
ContainerArchived(p, f) == IF f.st = "lost" THEN p ELSE [p EXCEPT !.dialog = NoId, !.gone = ok(f)]
Leave(p, f) == IF ok(f) THEN [p EXCEPT !.gone = TRUE] ELSE p

WorkspacesHandler(p, f) ==
    CASE f.op = "list" -> Listed(p, f)
      [] f.op = "create" -> Leave(p, f)
      [] f.op = "rename" -> Saved(p, f)
      [] f.op = "archive" -> Archived(p, f)
      [] f.op = "bundle" -> p

\* the lookup of the container and of the caller's role, which the list's load follows
ProjectsLoad(p, f) ==
    CASE f.op = "list" -> Listed(p, f)
      [] f.op = "lookup" -> LookedUp(p, f)
ProjectsHandler(p, f) ==
    CASE f.op \in {"lookup", "list"} -> ProjectsLoad(p, f)
      [] f.op = "create" -> IF ok(f) THEN AddItem(p, Item(f.id, f.row)) ELSE p
      [] f.op = "rename" -> Saved(p, f)
      [] f.op = "archive" -> Archived(p, f)
      [] f.op = "container" -> ContainerArchived(p, f)

DiagramsHandler(p, f) ==
    CASE f.op = "lookup" -> LookedUp(p, f)
      [] f.op = "list" -> Listed(p, f)
      [] f.op = "create" -> Leave(p, f)
      [] f.op = "rename" -> Saved(p, f)
      [] f.op = "archive" -> Archived(p, f)
      [] f.op = "container" -> ContainerArchived(p, f)

MembersLoad(p, f) ==
    IF ok(f) THEN [SetItems(p, f.list) EXCEPT !.notFound = FALSE] ELSE [p EXCEPT !.notFound = TRUE]
MembersHandler(p, f) ==
    CASE f.op = "list" -> MembersLoad(p, f)
      [] f.op = "find" -> p
      [] f.op = "add" -> IF ok(f) THEN AddItem(p, Item(f.id, f.row)) ELSE p
      [] f.op = "change" -> IF ok(f) THEN ReplaceItem(p, f.id, Item(f.id, f.row)) ELSE p
      [] f.op = "archive" -> Archived(p, f)

\* the section keeps its rows when a load fails, and loads again after an addition
AdminsLoad(p, f) == IF ok(f) THEN SetItems(p, f.list) ELSE p
AdminsHandler(p, f) ==
    CASE f.op \in {"list", "reload"} -> AdminsLoad(p, f)
      [] f.op = "add" -> p
      [] f.op = "archive" -> IF ok(f) THEN RemoveItem(p, f.id) ELSE p

WebhooksHandler(p, f) ==
    CASE f.op = "list" -> IF ok(f) THEN SetItems(p, f.list) ELSE [p EXCEPT !.notFound = TRUE]
      [] f.op = "create" -> IF ok(f) THEN [AddItem(p, Item(f.id, f.row)) EXCEPT !.secret = Item(f.id, f.row.key)] ELSE p
      [] f.op = "edit" -> Saved(p, f)
      [] f.op = "toggle" -> IF ok(f) THEN ReplaceItem(p, f.id, Item(f.id, f.row)) ELSE p
      [] f.op = "rotate" -> IF ok(f) THEN [ReplaceItem(p, f.id, Item(f.id, f.row)) EXCEPT !.secret = Item(f.id, f.row.key)] ELSE p
      [] f.op = "archive" -> Archived(p, f)

\* the switch patches the rows as they were when it was clicked, the siblings switched off
ProvidersHandler(p, f) ==
    CASE f.op = "list" -> IF ok(f) THEN SetItems(p, f.list) ELSE [p EXCEPT !.notFound = TRUE]
      [] f.op = "create" -> IF ok(f) THEN AddItem(p, Item(f.id, f.row)) ELSE p
      [] f.op = "edit" -> Saved(p, f)
      [] f.op = "toggle" -> IF ~ok(f) THEN p
            ELSE SetItems(p, [n \in DOMAIN f.seen |->
                    IF f.seen[n].id = f.id THEN Item(f.id, f.row)
                    ELSE [f.seen[n] EXCEPT !.row.on = @ /\ ~f.row.on]])
      [] f.op = "test" -> p

Handler(p, f) ==
    CASE p.kind = "workspaces" -> WorkspacesHandler(p, f)
      [] p.kind = "projects" -> ProjectsHandler(p, f)
      [] p.kind = "diagrams" -> DiagramsHandler(p, f)
      [] p.kind = "members" -> MembersHandler(p, f)
      [] p.kind = "admins" -> AdminsHandler(p, f)
      [] p.kind = "webhooks" -> WebhooksHandler(p, f)
      [] p.kind = "providers" -> ProvidersHandler(p, f)

\* the request a handler goes on with, once the first is answered
Followup(p, f) ==
    CASE f.op = "lookup" /\ ok(f) -> Request("list", NoId, NoRow)
      [] f.op = "find" /\ ok(f) /\ ~\E n \in DOMAIN f.seen : f.seen[n].id = f.id -> Request("add", f.id, f.row)
      [] p.kind = "admins" /\ f.op = "add" /\ ok(f) -> Request("reload", NoId, NoRow)
      [] OTHER -> Grounded

-----------------------------------------------------------------------------
(* Steps of the page.                                                      *)

\* bound: nothing new is sent once requests have overlapped
Send(f) ==
    /\ undisturbed /\ submitted < MaxRequests /\ \E s \in Flights : ~Busy(s)
    /\ submitted' = submitted + 1
    /\ flight' = [flight EXCEPT ![CHOOSE s \in Flights : ~Busy(s)] = f]
    /\ undisturbed' = (\A s \in Flights : ~Busy(s))
    /\ UNCHANGED <<page, rows, untold, unkeyed>>

\* a form submitted, a switch clicked or a dialog confirmed
SubmitForm(op, i, v) ==
    /\ ~page.gone /\ Offers(op, i, v)
    /\ Send(Request(op, i,
          CASE op \in {"create", "find", "add"} -> [Row(v) EXCEPT !.on = page.kind # "members"]
            [] op \in {"rename", "change", "edit"} -> [RowOf(i) EXCEPT !.val = v]
            [] op = "toggle" -> [RowOf(i) EXCEPT !.on = ~@]
            [] OTHER -> NoRow))

\* startRename, startEdit and their cancels; requestArchive and the dialog's cancel
MayEdit(i) == CASE page.kind \in {"projects", "diagrams"} -> page.can
                [] page.kind = "workspaces" -> page.may
                [] page.kind = "members" -> CanManage /\ ~(i = Self /\ IsSoleAdmin)
                [] OTHER -> TRUE

StartEdit(i) ==
    /\ ~page.gone /\ ~page.notFound /\ undisturbed /\ submitted < MaxRequests
    /\ "rename" \in Client(page.kind) \/ "edit" \in Client(page.kind)
    /\ Shown(i) /\ MayEdit(i)
    /\ page' = [page EXCEPT !.editing = IF @ = i THEN NoId ELSE i]
    /\ UNCHANGED <<rows, flight, submitted, pageHistory>>

RequestArchive(i) ==
    /\ ~page.gone /\ ~page.notFound /\ undisturbed /\ submitted < MaxRequests /\ page.kind \notin {"admins", "providers"}
    /\ \/ page.dialog = NoId /\ Shown(i) /\ MayEdit(i) /\ page' = [page EXCEPT !.dialog = i]
       \/ page.dialog = NoId /\ page.can /\ page' = [page EXCEPT !.dialog = "container"]
       \/ page.dialog # NoId /\ page' = [page EXCEPT !.dialog = NoId]
    /\ UNCHANGED <<rows, flight, submitted, pageHistory>>

DismissSecret ==
    /\ page.secret # NoSecret /\ undisturbed
    /\ page' = [page EXCEPT !.secret = NoSecret]
    /\ UNCHANGED <<rows, flight, submitted, pageHistory>>

\* the rows an answer tells of; that of a granted organization administrator tells of none
Told(f) ==
    IF ~ok(f) THEN {}
    ELSE CASE f.op \in {"list", "reload"} -> Rows
           [] f.op \in Writes /\ ~(page.kind = "admins" /\ f.op = "add") -> {f.id}
           [] OTHER -> {}

\* an answer arrives; a page already left ignores it
AnswerArrives(s) ==
    /\ Busy(s) /\ flight[s].st # "sent"
    /\ page' = IF page.gone THEN page ELSE Handler(page, flight[s])
    /\ flight' = [flight EXCEPT ![s] = IF page'.gone THEN Grounded ELSE Followup(page, flight[s])]
    /\ untold' = untold \ Told(flight[s])
    /\ unkeyed' = (unkeyed /\ ~(ok(flight[s]) /\ flight[s].op \in {"create", "rotate"}))
    /\ UNCHANGED <<rows, submitted, undisturbed>>

-----------------------------------------------------------------------------
(* The routes: who may send each request, and when it is refused.  A       *)
(* refusal for other reasons (a slug that is taken, an address that is not *)
(* allowed, the last-admin guard when nobody administers the workspace     *)
(* from elsewhere) may meet any request: Refuse.                           *)

There(i) == rows[i] # NoRow
\* a generated id is not one the page ever had
Fresh(i) == rows[i] = NoRow /\ i \notin untold

WorkspaceRoutes(f) ==
    \/ f.op = "list"
    \/ f.op = "create" /\ Fresh(f.id)
    \/ f.op \in {"rename", "archive", "bundle"} /\ page.may /\ There(f.id)

ProjectRoutes(f) ==
    \/ f.op \in {"lookup", "list"}
    \/ f.op = "create" /\ page.may /\ Fresh(f.id)
    \/ f.op \in {"rename", "archive"} /\ page.may /\ There(f.id)
    \/ f.op = "container" /\ page.may

DiagramRoutes(f) ==
    \/ f.op \in {"lookup", "list"}
    \/ f.op = "create" /\ page.may /\ Fresh(f.id)
    \/ f.op \in {"rename", "archive"} /\ page.may /\ There(f.id)
    \/ f.op = "container" /\ page.may

\* `may` stands for the organization's administrators; somebody who is a member already is a conflict
MemberRoutes(f) ==
    \/ f.op = "find"
    \/ f.op = "list" /\ (There(Self) \/ page.may)
    \/ /\ rows[Self].val = "admin" \/ page.may
       /\ \/ f.op = "add" /\ ~There(f.id)
          \/ f.op \in {"change", "archive"} /\ There(f.id)

\* `may` stands for a direct org_admin role; the organization keeps an administrator
OrganizationAdminRoutes(f) ==
    \/ f.op \in {"list", "reload"}
    \/ /\ There(Self) \/ page.may
       /\ \/ f.op = "add"
          \/ f.op = "archive" /\ There(f.id) /\ \E i \in Rows \ {f.id} : There(i)

WebhookRoutes(f) ==
    /\ page.may
    /\ f.op = "create" => Fresh(f.id)
    /\ f.op \in {"edit", "toggle", "rotate", "archive"} => There(f.id)

AiProviderRoutes(f) ==
    /\ page.may
    /\ f.op = "create" => Fresh(f.id)
    /\ f.op \in {"edit", "toggle", "test"} => There(f.id)

Accepts(f) ==
    CASE page.kind = "workspaces" -> WorkspaceRoutes(f)
      [] page.kind = "projects" -> ProjectRoutes(f)
      [] page.kind = "diagrams" -> DiagramRoutes(f)
      [] page.kind = "members" -> MemberRoutes(f)
      [] page.kind = "admins" -> OrganizationAdminRoutes(f)
      [] page.kind = "webhooks" -> WebhookRoutes(f)
      [] page.kind = "providers" -> AiProviderRoutes(f)

-----------------------------------------------------------------------------
(* What an accepted write leaves in its row.                               *)

ResourceRow(f) ==
    CASE f.op = "create" -> f.row
      [] f.op = "rename" -> [rows[f.id] EXCEPT !.val = f.row.val]
      [] f.op = "archive" -> NoRow

MemberRow(f) ==
    CASE f.op = "add" -> f.row
      [] f.op = "change" -> [rows[f.id] EXCEPT !.val = f.row.val]
      [] f.op = "archive" -> NoRow

\* onConflictDoNothing
OrganizationAdminRow(f) ==
    CASE f.op = "add" -> IF There(f.id) THEN rows[f.id] ELSE f.row
      [] f.op = "archive" -> NoRow

WebhookRow(f) ==
    CASE f.op = "create" -> f.row
      [] f.op = "edit" -> [rows[f.id] EXCEPT !.val = f.row.val, !.on = f.row.on]
      [] f.op = "toggle" -> [rows[f.id] EXCEPT !.on = f.row.on]
      [] f.op = "rotate" -> [rows[f.id] EXCEPT !.key = 1 - @]
      [] f.op = "archive" -> NoRow

ProviderRow(f) ==
    CASE f.op = "create" -> f.row
      [] f.op = "edit" -> [rows[f.id] EXCEPT !.val = f.row.val]
      [] f.op = "toggle" -> [rows[f.id] EXCEPT !.on = f.row.on]

Written(f) ==
    CASE page.kind \in {"workspaces", "projects", "diagrams"} -> ResourceRow(f)
      [] page.kind = "members" -> MemberRow(f)
      [] page.kind = "admins" -> OrganizationAdminRow(f)
      [] page.kind = "webhooks" -> WebhookRow(f)
      [] page.kind = "providers" -> ProviderRow(f)

DisableSiblings(i) ==
    [j \in Rows |-> IF j # i /\ rows[j] # NoRow /\ page.kind = "providers" THEN [rows[j] EXCEPT !.on = FALSE] ELSE rows[j]]

Stored(f) ==
    IF f.op \in Writes
    THEN [(IF Written(f).on THEN DisableSiblings(f.id) ELSE rows) EXCEPT ![f.id] = Written(f)]
    ELSE rows

\* The write commits; then the handler reads the row it answers with, records the audit event and, of a
\* diagram, queues its webhooks: when one of these throws the answer is a 500 and the write stays.  The
\* webhooks' handlers have nothing left to do after their write.
Serve(s, outcome) ==
    LET f == flight[s] IN
    /\ Busy(s) /\ f.st = "sent" /\ Accepts(f)
    /\ outcome = "failed" => page.kind # "webhooks"
    /\ rows' = Stored(f)
    /\ flight' = [flight EXCEPT ![s] = [f EXCEPT !.st = outcome,
                     !.row = IF f.op \in Writes \ {"archive"} THEN Written(f) ELSE f.row,
                     !.list = IF f.op \in {"list", "reload"} THEN Listing ELSE <<>>]]
    /\ untold' = IF rows' = rows THEN untold ELSE untold \cup {f.id}
    /\ unkeyed' = (unkeyed \/ f.op \in {"create", "rotate"})
    /\ UNCHANGED <<page, submitted, undisturbed>>

\* refused, failed before its write, or never arrived
Refuse(s, lost) ==
    /\ Busy(s) /\ flight[s].st = "sent"
    /\ flight' = [flight EXCEPT ![s].st = IF lost THEN "lost" ELSE "failed"]
    /\ UNCHANGED <<page, rows, submitted, pageHistory>>

PageOps == {"list", "create", "find", "add", "rename", "change", "edit", "toggle", "rotate", "archive", "container", "bundle", "test"}
PageNext ==
    \/ \E s \in Flights : \/ AnswerArrives(s)
                          \/ \E outcome \in {"ok", "failed", "lost"} : Serve(s, outcome)
                          \/ \E lost \in BOOLEAN : Refuse(s, lost)
    \/ \E op \in PageOps, i \in Rows, v \in Vals : SubmitForm(op, i, v)
    \/ \E i \in Rows : StartEdit(i) \/ RequestArchive(i)
    \/ DismissSecret

PageSpec == PageInit /\ [][PageNext]_pageVars

-----------------------------------------------------------------------------
\* As long as the requests of a page never overlapped, it shows, whenever nothing is in flight, each
\* row once, and every row exactly as the server has it and only while the server has it, but for
\* those whose last change it never had an answer to: a write whose answer was lost, or was a 500 of
\* the audit event recorded after it (workspace/routes.ts:145), puts one row in doubt, and the next
\* answer about the row, or the next list, must put it right again, whatever was created, renamed,
\* switched, rotated or removed in between.  The secret it reveals is the one that signs unless one
\* was made that it never got.  (The enabled flag of a provider is left out: a provider just created
\* is enabled and its siblings disabled by the server, which handleCreate does not show.)
PageShowsServer ==
    undisturbed /\ (\A s \in Flights : ~Busy(s)) /\ page.status = "ready" /\ ~page.notFound /\ ~page.gone =>
        /\ \A m, n \in DOMAIN page.items : page.items[m].id = page.items[n].id => m = n
        /\ \A n \in DOMAIN page.items : page.items[n].id \in Live \cup untold
        /\ \A i \in Live \ untold : \E n \in DOMAIN page.items :
              page.items[n] = Item(i, IF page.kind = "providers" THEN [rows[i] EXCEPT !.on = page.items[n].row.on] ELSE rows[i])
        /\ ~unkeyed /\ page.secret # NoSecret /\ page.secret.id \in Live => page.secret.row = rows[page.secret.id].key
=============================================================================
