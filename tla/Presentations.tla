---------------------------- MODULE Presentations ----------------------------
(***************************************************************************)
(* One presentation of a diagram: its frames and its published snapshot,   *)
(* the page that edits it with the requests it has in flight, the share    *)
(* links made from the panels, and a seat that shows the frames one by one *)
(* (presenter mode, or the public page of a share link).                   *)
(*                                                                         *)
(* A handler of the page applies its answer to the list of frames it saw   *)
(* when it was called.  Notes are present or absent; the scene is the      *)
(* revision it was taken at.  Another editor works straight on the server. *)
(***************************************************************************)
EXTENDS Integers, FiniteSets, Sequences, SequencesExt, Lists

CONSTANTS
    FrameIds,    \* ids of frames
    Links,       \* ids of share links
    Asks,        \* bound: requests of the page in flight
    MaxAsks      \* bound: requests the page and everyone else send

ASSUME PresentationsAssumption == IsFiniteSet(FrameIds) /\ MaxAsks \in Nat

VARIABLES
    deck,        \* [frames, snap, expired]: the presentation and its frames on the server
    shares,      \* [Links -> share link row]
    sceneRev,    \* revision of the diagram
    standing,    \* the role of the person at the page
    desk,        \* the page: [status, frames, can, published, links, said]
    asks,        \* [Asks -> request with its answer]
    asked,       \* requests sent so far
    seat,        \* [who, via, snap, frames, index, scene]
    calm         \* history: no requests overlapped, no answer was lost, nobody else changed the frames

presentationVars == <<deck, shares, sceneRev, standing, desk, asks, asked, seat, calm>>

NoFrame == [pos |-> -1, notes |-> FALSE, nav |-> {}]
NoLink == [st |-> "none", role |-> "viewer", kind |-> "diagram"]
NoAsk == [op |-> "none"]
EmptySeat == [who |-> "nobody", via |-> "none", snap |-> 0, frames |-> <<>>, index |-> 1, scene |-> 0]

\* can(): the roles this model tells apart, and packages/auth's ordering of them
RoleRank == [org_admin |-> 0, editor |-> 2, viewer |-> 4]
MayMutate(r) == r \in {"org_admin", "editor"}

Existing == {f \in FrameIds : deck.frames[f].pos >= 0}
FrameItem(f) == [id |-> f, pos |-> deck.frames[f].pos, notes |-> deck.frames[f].notes, nav |-> deck.frames[f].nav]
\* redactNotesUnlessEditor
Redact(row, canEdit) == IF canEdit THEN row ELSE [row EXCEPT !.notes = FALSE]
\* listFramesForPresentation: ordered by position, ties in any order
FrameLists(canEdit) ==
    {l \in SetToSeqs({Redact(FrameItem(f), canEdit) : f \in Existing}) :
       \A m, n \in DOMAIN l : m < n => l[m].pos <= l[n].pos}

\* an earlier editor may have made frames and links between them, published, and shared
Decks ==
    {f \in [FrameIds -> [pos : -1..(Cardinality(FrameIds) - 1), notes : {FALSE}, nav : SUBSET FrameIds]] :
       LET made == {i \in FrameIds : f[i].pos >= 0} IN
       /\ {f[i].pos : i \in made} = 0..(Cardinality(made) - 1)
       /\ \A i \in FrameIds : f[i].nav \subseteq made \ {i} /\ (i \notin made => f[i] = NoFrame)}
PresentationInit ==
    /\ deck \in [frames : Decks, snap : 0..1, expired : {FALSE}]
    /\ shares \in [Links -> {NoLink} \cup [st : {"active"}, role : DOMAIN RoleRank, kind : {"diagram", "presentation"}]]
    /\ sceneRev = 1
    /\ standing \in DOMAIN RoleRank \cup {"none"}
    /\ desk = [status |-> "loading", frames |-> <<>>, can |-> FALSE, published |-> FALSE, links |-> <<>>, said |-> "nothing"]
    /\ asks = [a \in Asks |-> NoAsk] /\ asked = 0
    /\ seat = EmptySeat /\ calm = TRUE

serverVars == <<deck, shares, sceneRev, standing>>

-----------------------------------------------------------------------------
(* PresentationEditorPage                                                  *)

\* The page loads: the frames, then bootstrap for the permission, which may fail and leave it off.
LoadEditor ==
    /\ desk.status = "loading"
    /\ \/ desk' = [desk EXCEPT !.status = "not_found"]
       \/ /\ standing # "none"
          /\ \E l \in FrameLists(MayMutate(standing)), can \in {FALSE, MayMutate(standing)} :
               desk' = [desk EXCEPT !.status = "ready", !.frames = l, !.can = can, !.published = deck.snap # 0]
    /\ UNCHANGED <<serverVars, asks, asked, seat, calm>>

AskOf(op, i, arg) == [op |-> op, id |-> i, arg |-> arg, st |-> "sent", seen |-> desk.frames, ans |-> <<>>]
AskInFlight(ops) == \E a \in Asks : asks[a].op \in ops
Quiet == \A a \in Asks : asks[a].op = "none"

SendAsk(a, op, i, arg) ==
    /\ asks[a].op = "none" /\ asked < MaxAsks
    /\ desk.status = "ready"
    /\ asks' = [asks EXCEPT ![a] = AskOf(op, i, arg)]
    /\ asked' = asked + 1
    /\ calm' = (calm /\ Quiet)
    /\ UNCHANGED <<serverVars, seat>>

ShownDeck == {desk.frames[n].id : n \in DOMAIN desk.frames}
AtIndex(i) == CHOOSE n \in DOMAIN desk.frames : desk.frames[n].id = i

\* what the page offers: everything but reading asks for the permission, export also for something to export
OffersEdits == desk.can
OffersExport == desk.can /\ desk.published /\ desk.frames # <<>>

HandleAddFrame(a) ==
    OffersEdits /\ ~AskInFlight({"add"}) /\ SendAsk(a, "add", "none", Len(desk.frames)) /\ UNCHANGED desk
SaveNotes(a) ==
    \E i \in ShownDeck : OffersEdits /\ SendAsk(a, "notes", i, TRUE) /\ UNCHANGED desk
\* the draft begins as the links there are, whether or not their targets are still frames
SaveNavLinks(a) ==
    \E i \in ShownDeck : \E targets \in {desk.frames[AtIndex(i)].nav} \cup SUBSET (ShownDeck \ {i}) :
        OffersEdits /\ SendAsk(a, "nav", i, targets) /\ UNCHANGED desk
HandleDeleteFrame(a) ==
    \E i \in ShownDeck : OffersEdits /\ SendAsk(a, "delete", i, 0) /\ UNCHANGED desk

\* all positions are recomputed; the page shows the new order at once
MoveFrame(a) ==
    \E n \in DOMAIN desk.frames \ {Len(desk.frames)} :
       LET order == [k \in DOMAIN desk.frames |->
                       IF k = n THEN desk.frames[n + 1] ELSE IF k = n + 1 THEN desk.frames[n] ELSE desk.frames[k]]
       IN /\ OffersEdits
          /\ SendAsk(a, "move", "none", [k \in DOMAIN order |-> order[k].id])
          /\ desk' = [desk EXCEPT !.frames = order]

HandlePublish(a) ==
    OffersEdits /\ ~AskInFlight({"publish"}) /\ SendAsk(a, "publish", "none", 0) /\ UNCHANGED desk
HandleExportPdf(a) ==
    /\ OffersExport /\ ~AskInFlight({"export"})
    /\ SendAsk(a, "export", "none", 0) /\ UNCHANGED desk

\* the two share panels; they refuse an expiry in the past themselves
Share(a, kind) ==
    \E r \in DOMAIN RoleRank :
       /\ OffersEdits /\ ~AskInFlight({"share"})
       /\ SendAsk(a, "share", "none", [role |-> r, kind |-> kind]) /\ UNCHANGED desk
ShareLinkPanel(a) == Share(a, "diagram")
PresentationSharePanel(a) == desk.published /\ Share(a, "presentation")
HandleRevoke(a) ==
    \E n \in DOMAIN desk.links :
       ~desk.links[n].revoked /\ SendAsk(a, "revoke", desk.links[n].id, 0) /\ UNCHANGED desk

-----------------------------------------------------------------------------
(* The routes                                                              *)

AskAnswered(a, st, ans) == asks' = [asks EXCEPT ![a].st = st, ![a].ans = ans]
FrameAt(a, op, st) == asks[a].op = op /\ (asks[a].op # "none" => asks[a].st = st)
Allowed(a) == IF asks[a].op = "export" THEN standing # "none"
              ELSE IF asks[a].op = "revoke" THEN standing # "none" ELSE MayMutate(standing)
SetFrame(f, row) == deck' = [deck EXCEPT !.frames[f] = row]
InsertFrame(f, pos) == SetFrame(f, [NoFrame EXCEPT !.pos = pos])
UpdateFrame(f, row) == SetFrame(f, row)
\* the row goes; links of other frames to it stay
DeleteFrame(f) == SetFrame(f, NoFrame)

\* resolvePresentationContext and can(): 404 without a role, 403 without the permission
RefuseAsk(a) ==
    /\ asks[a].op # "none" /\ asks[a].st = "sent" /\ ~Allowed(a)
    /\ AskAnswered(a, IF standing = "none" THEN "missing" ELSE "denied", <<>>)
    /\ UNCHANGED <<serverVars, desk, asked, seat, calm>>

PostFrame(a) ==
    /\ FrameAt(a, "add", "sent") /\ Allowed(a)
    /\ \E f \in FrameIds \ Existing :
         /\ InsertFrame(f, asks[a].arg)
         /\ AskAnswered(a, "ok", [id |-> f, pos |-> asks[a].arg, notes |-> FALSE, nav |-> {}])
    /\ UNCHANGED <<shares, sceneRev, standing, desk, asked, seat, calm>>

\* updateFrame: assertNavLinksResolve reads the frames, then the row is written
AssertNavLinksResolve(a) ==
    /\ FrameAt(a, "nav", "sent") /\ Allowed(a)
    /\ IF asks[a].arg \subseteq Existing THEN AskAnswered(a, "checked", <<>>) ELSE AskAnswered(a, "invalid", <<>>)
    /\ UNCHANGED <<serverVars, desk, asked, seat, calm>>
PatchFrame(a) ==
    LET f == asks[a].id
        row == IF asks[a].op = "nav" THEN [deck.frames[f] EXCEPT !.nav = asks[a].arg]
               ELSE [deck.frames[f] EXCEPT !.notes = asks[a].arg]
    IN /\ (FrameAt(a, "notes", "sent") /\ Allowed(a)) \/ FrameAt(a, "nav", "checked")
       /\ IF f \in Existing
          THEN UpdateFrame(f, row) /\ AskAnswered(a, "ok", [id |-> f, pos |-> row.pos, notes |-> row.notes, nav |-> row.nav])
          ELSE AskAnswered(a, "missing", <<>>) /\ UNCHANGED deck
       /\ UNCHANGED <<shares, sceneRev, standing, desk, asked, seat, calm>>

RemoveFrame(a) ==
    /\ FrameAt(a, "delete", "sent") /\ Allowed(a)
    /\ IF asks[a].id \in Existing
       THEN DeleteFrame(asks[a].id) /\ AskAnswered(a, "ok", <<>>)
       ELSE AskAnswered(a, "missing", <<>>) /\ UNCHANGED deck
    /\ UNCHANGED <<shares, sceneRev, standing, desk, asked, seat, calm>>

\* bulkReorderFrames: one check, then a statement per row outside any transaction, then the list
CheckReorder(a) ==
    /\ FrameAt(a, "move", "sent") /\ Allowed(a)
    /\ AskAnswered(a, IF Range(asks[a].arg) \subseteq Existing THEN "writing" ELSE "invalid", <<>>)
    /\ UNCHANGED <<serverVars, desk, asked, seat, calm>>
WriteReorder(a) ==
    /\ FrameAt(a, "move", "writing")
    /\ LET n == Len(asks[a].ans) + 1 f == asks[a].arg[n]
       IN /\ n <= Len(asks[a].arg)
          /\ IF f \in Existing THEN SetFrame(f, [deck.frames[f] EXCEPT !.pos = n - 1]) ELSE UNCHANGED deck
          /\ AskAnswered(a, "writing", Append(asks[a].ans, f))
    /\ UNCHANGED <<shares, sceneRev, standing, desk, asked, seat, calm>>
EndReorder(a) ==
    /\ FrameAt(a, "move", "writing") /\ Len(asks[a].ans) = Len(asks[a].arg)
    /\ \E l \in FrameLists(TRUE) : AskAnswered(a, "ok", l)
    /\ UNCHANGED <<serverVars, desk, asked, seat, calm>>

\* publishPresentation: a snapshot of the scene, then the presentation points at it
PublishSnapshot(a) ==
    /\ FrameAt(a, "publish", "sent") /\ Allowed(a)
    /\ AskAnswered(a, "snapped", sceneRev)
    /\ UNCHANGED <<serverVars, desk, asked, seat, calm>>
SetPublishedSnapshot(a) ==
    /\ FrameAt(a, "publish", "snapped")
    /\ deck' = [deck EXCEPT !.snap = asks[a].ans]
    /\ AskAnswered(a, "ok", <<>>)
    /\ UNCHANGED <<shares, sceneRev, standing, desk, asked, seat, calm>>

\* exportPresentationPdf: one page per frame of the published presentation
GetPublishedPresentation == ~deck.expired /\ deck.snap # 0
ExportPresentationPdf == IF ~GetPublishedPresentation THEN "missing" ELSE IF Existing = {} THEN "invalid" ELSE "ok"
ExportPdf(a) ==
    /\ FrameAt(a, "export", "sent") /\ Allowed(a)
    /\ AskAnswered(a, ExportPresentationPdf, <<>>)
    /\ UNCHANGED <<serverVars, desk, asked, seat, calm>>

\* createShareLinkForResource: never above the actor's own role
IsRoleWithinCeiling(actor, granted) == RoleRank[granted] >= RoleRank[actor]
CreateShareLink(l, body) ==
    shares[l].st = "none" /\ shares' = [shares EXCEPT ![l] = [st |-> "active", role |-> body.role, kind |-> body.kind]]
CreateShareLinkForResource(a) ==
    /\ FrameAt(a, "share", "sent") /\ Allowed(a)
    /\ IF IsRoleWithinCeiling(standing, asks[a].arg.role)
       THEN \E l \in Links : CreateShareLink(l, asks[a].arg) /\ AskAnswered(a, "ok", l)
       ELSE AskAnswered(a, "denied", <<>>) /\ UNCHANGED shares
    /\ UNCHANGED <<deck, sceneRev, standing, desk, asked, seat, calm>>

\* idempotent; the person at the page made the link
RevokeShareLinkById(l) == shares' = [shares EXCEPT ![l].st = "revoked"]
RevokeShareLink(a) ==
    /\ FrameAt(a, "revoke", "sent") /\ Allowed(a)
    /\ RevokeShareLinkById(asks[a].id)
    /\ AskAnswered(a, "ok", <<>>)
    /\ UNCHANGED <<deck, sceneRev, standing, desk, asked, seat, calm>>

\* the request or its answer is lost, or the server fails between two statements
LoseAsk(a) ==
    /\ asks[a].op # "none" /\ asks[a].st # "error"
    /\ calm' = (calm /\ asks[a].st \in {"sent", "checked", "snapped", "invalid", "missing", "denied"})
    /\ AskAnswered(a, "error", <<>>)
    /\ UNCHANGED <<serverVars, desk, asked, seat>>

-----------------------------------------------------------------------------
(* The page takes an answer                                                *)

\* for the mutant: a failed reorder keeps the order it had shown already
MovedAnyway(d, k) == IF k.st = "ok" THEN [d EXCEPT !.frames = k.ans] ELSE d
Moved(d, k) == [d EXCEPT !.frames = IF k.st = "ok" THEN k.ans ELSE k.seen]

\* the clients tell apart the answers that have words of their own
PresentationClient(k) ==
    CASE k.op = "export" /\ k.st = "invalid" -> "no_frames"
      [] k.op = "export" /\ k.st = "missing" -> "not_published"
      [] (k.op = "export" /\ k.st = "denied") \/ (k.op \in {"publish", "delete"} /\ k.st = "invalid") -> "error"
      [] OTHER -> k.st
ShareLinkClient(k) == IF k.st \in {"ok", "denied"} \/ (k.op = "revoke" /\ k.st = "missing") THEN k.st ELSE "error"

Applied(d, k) ==
    IF k.op = "move" THEN Moved(d, k)
    ELSE IF k.st # "ok" THEN d
    ELSE CASE k.op = "add" -> [d EXCEPT !.frames = Append(k.seen, k.ans)]
           [] k.op \in {"notes", "nav"} ->
                [d EXCEPT !.frames = [n \in DOMAIN k.seen |-> IF k.seen[n].id = k.id THEN k.ans ELSE k.seen[n]]]
           [] k.op = "delete" -> [d EXCEPT !.frames = Without(k.seen, k.id)]
           [] k.op = "publish" -> [d EXCEPT !.published = TRUE]
           [] k.op = "share" -> [d EXCEPT !.links = Append(@, [id |-> k.ans, revoked |-> FALSE])]
           [] k.op = "revoke" ->
                [d EXCEPT !.links = [n \in DOMAIN @ |-> IF @[n].id = k.id THEN [@[n] EXCEPT !.revoked = TRUE] ELSE @[n]]]
           [] OTHER -> d

TakeAnswer(a) ==
    /\ asks[a].op # "none"
    /\ asks[a].st \in {"ok", "invalid", "missing", "denied", "error"}
    /\ desk' = [Applied(desk, asks[a]) EXCEPT !.said =
                  IF asks[a].op \in {"share", "revoke"} THEN ShareLinkClient(asks[a]) ELSE PresentationClient(asks[a])]
    /\ asks' = [asks EXCEPT ![a] = NoAsk]
    /\ UNCHANGED <<serverVars, asked, seat, calm>>

-----------------------------------------------------------------------------
(* Everyone else                                                           *)

Spend == asked < MaxAsks /\ asked' = asked + 1
OtherEditor ==
    /\ Spend
    /\ \/ \E f \in FrameIds \ Existing : InsertFrame(f, Cardinality(Existing))
       \/ \E f \in Existing : DeleteFrame(f)
    /\ calm' = (calm /\ desk.status # "ready")
    /\ UNCHANGED <<shares, sceneRev, standing, desk, asks, seat>>
UpdatePresentation ==
    /\ Spend /\ deck' = [deck EXCEPT !.expired = ~@]
    /\ UNCHANGED <<shares, sceneRev, standing, desk, asks, seat, calm>>
EditDiagram ==
    /\ Spend /\ sceneRev' = sceneRev + 1
    /\ UNCHANGED <<deck, shares, standing, desk, asks, seat, calm>>
ChangeRole ==
    /\ Spend /\ standing' \in (DOMAIN RoleRank \cup {"none"}) \ {standing}
    /\ UNCHANGED <<deck, shares, sceneRev, desk, asks, seat, calm>>
ExpireLink ==
    /\ \E l \in Links : shares[l].st = "active" /\ shares' = [shares EXCEPT ![l].st = "expired"]
    /\ UNCHANGED <<deck, sceneRev, standing, desk, asks, asked, seat, calm>>

-----------------------------------------------------------------------------
(* GET /share/:token, presenter mode and FrameViewer                       *)

Seat(s) == seat' = s /\ UNCHANGED <<serverVars, desk, asks, asked, calm>>

\* SharedResourcePage: what the page shows for an answer
SharedPage(l, answer, list, scene) ==
    [seat EXCEPT !.who = answer, !.via = l, !.frames = list, !.scene = scene]
IsShareLinkActive(l) == shares[l].st = "active"
\* GET /share/:token: the link, then the resource; a presentation's row is read before its frames
ResolveLink ==
    \E l \in Links :
       /\ seat.who = "nobody" /\ shares[l].st # "none"
       /\ Seat(IF ~IsShareLinkActive(l) THEN SharedPage(l, "invalid", <<>>, 0)
               ELSE IF shares[l].kind = "diagram" THEN SharedPage(l, "diagram", <<>>, sceneRev)
               ELSE [seat EXCEPT !.who = "resolving", !.via = l, !.snap = deck.snap])
\* the scene is the snapshot's, or none when its object cannot be read; the client drops the notes
ResolveFrames ==
    /\ seat.who = "resolving"
    /\ \E l \in FrameLists(FALSE), s \in {0, seat.snap} :
         Seat(SharedPage(seat.via, IF s = 0 THEN "unavailable" ELSE "visitor", l, s))
EnterPresenter ==
    /\ seat.who = "nobody" /\ standing # "none"
    /\ \E l \in FrameLists(MayMutate(standing)) : Seat([seat EXCEPT !.who = "presenter", !.frames = l, !.scene = sceneRev])
\* the keys stop at the last frame and at the first; with no frame at all the index leaves the list
PressKey ==
    /\ seat.who = "presenter"
    /\ LET n == Len(seat.frames) IN
       \E i \in {IF seat.index + 1 < n THEN seat.index + 1 ELSE n, IF seat.index > 1 THEN seat.index - 1 ELSE 1} :
          Seat([seat EXCEPT !.index = i])
\* previous, next and the links of the frame shown whose targets are in the list
FrameButtons ==
    /\ seat.who \in {"presenter", "visitor"} /\ seat.index \in DOMAIN seat.frames
    /\ \E i \in DOMAIN seat.frames :
         /\ i \in {seat.index - 1, seat.index + 1} \/ seat.frames[i].id \in seat.frames[seat.index].nav
         /\ Seat([seat EXCEPT !.index = i])

EditorNext ==
    \/ LoadEditor
    \/ \E a \in Asks :
         \/ HandleAddFrame(a) \/ SaveNotes(a) \/ SaveNavLinks(a) \/ HandleDeleteFrame(a) \/ MoveFrame(a)
         \/ HandlePublish(a) \/ HandleExportPdf(a) \/ ShareLinkPanel(a) \/ PresentationSharePanel(a)
         \/ HandleRevoke(a)
         \/ RefuseAsk(a) \/ PostFrame(a) \/ AssertNavLinksResolve(a) \/ PatchFrame(a) \/ RemoveFrame(a)
         \/ CheckReorder(a) \/ WriteReorder(a) \/ EndReorder(a) \/ PublishSnapshot(a) \/ SetPublishedSnapshot(a)
         \/ ExportPdf(a) \/ CreateShareLinkForResource(a) \/ RevokeShareLink(a) \/ LoseAsk(a) \/ TakeAnswer(a)
OthersNext == OtherEditor \/ UpdatePresentation \/ EditDiagram \/ ChangeRole \/ ExpireLink
SeatNext == ResolveLink \/ ResolveFrames \/ EnterPresenter \/ PressKey \/ FrameButtons
PresentationNext == EditorNext \/ OthersNext \/ SeatNext

PresentationSpec == PresentationInit /\ [][PresentationNext]_presentationVars

-----------------------------------------------------------------------------
\* A page on which one request at a time was sent, none of whose answers was lost and whose frames nobody else
\* changed shows exactly the frames of the server once nothing is in flight: the same rows, also after an
\* operation that failed and was undone on the screen, and, as long as the positions have no gap, the same order.
EditorShowsServer ==
    desk.status = "ready" /\ calm /\ Quiet =>
      LET shownRows == Range(desk.frames) IN
      /\ {Redact(r, desk.can) : r \in shownRows} = {Redact(FrameItem(f), desk.can) : f \in Existing}
      /\ Len(desk.frames) = Cardinality(Existing)
      /\ {deck.frames[f].pos : f \in Existing} = 0..(Cardinality(Existing) - 1)
           => \A n \in DOMAIN desk.frames : desk.frames[n].pos = n - 1
      /\ \A n \in DOMAIN desk.links : desk.links[n].revoked => shares[desk.links[n].id].st # "active"
=============================================================================
