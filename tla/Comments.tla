------------------------------ MODULE Comments ------------------------------
(***************************************************************************)
(* The comments of one diagram: the three routes, and the panel of one     *)
(* member, which keeps a flat list, sends requests that may overlap and    *)
(* groups the list into threads.  A body is the set of users it mentions.  *)
(***************************************************************************)
EXTENDS Integers, FiniteSets, Sequences, SequencesExt

CONSTANTS
    CommentIds,  \* ids of comments
    Staff,       \* users; "me" is the one at the panel
    Posts,       \* bound: requests of the panel in flight
    MaxPosts     \* bound: requests the panel and the other clients send

ASSUME CommentsAssumption == IsFiniteSet(CommentIds) /\ "none" \notin CommentIds

VARIABLES
    thread,      \* the comments table, in order of creation
    staff,       \* the members of the workspace
    anchor,      \* the canvas: is one element selected, is it in the scene this session loaded
    panel,       \* [list, state, all, known, fresh]; known and fresh are history
    postings,       \* [Posts -> request]
    posted,      \* requests sent so far
    mentioned    \* comments announced by a comment.mentioned event

commentVars == <<thread, staff, anchor, panel, postings, posted, mentioned>>
commentServer == <<thread, staff, mentioned>>

NoParent == "none"
NoPost == [op |-> "none"]
CommentRow(rows, i) == rows[CHOOSE n \in DOMAIN rows : rows[n].id = i]
Ids(rows) == {rows[n].id : n \in DOMAIN rows}
Unused == CommentIds \ Ids(thread)
\* ids are random: which unused one a row gets makes no difference
FreshId == CHOOSE i \in Unused : TRUE

\* createComment
NewComment(i, who, parent, anchored, text) ==
    [id |-> i, parentId |-> parent, authorId |-> who, status |-> "open", anchored |-> anchored, body |-> text]
\* another client may have left a chain of replies of any depth
Chains ==
    {<<>>} \cup
    UNION {{[n \in 1..k |-> NewComment(order[n], "other", IF n = 1 THEN NoParent ELSE order[n - 1], FALSE, {})] :
              order \in {q \in [1..k -> CommentIds] : IsInjective(q)}} : k \in 1..(Cardinality(CommentIds) - 1)}

CommentInit ==
    /\ thread \in Chains /\ staff = Staff /\ anchor \in [selected : BOOLEAN, live : BOOLEAN]
    /\ panel = [list |-> <<>>, state |-> "loading", all |-> FALSE, known |-> {}, fresh |-> TRUE]
    /\ postings = [p \in Posts |-> NoPost] /\ posted = 0
    /\ mentioned = {}

-----------------------------------------------------------------------------
(* The routes                                                              *)

CreateComment(row) == thread' = Append(thread, row)
\* the columns that the patch names
Patched(row, patch) == [x \in DOMAIN row |-> IF x \in DOMAIN patch THEN patch[x] ELSE row[x]]
UpdateComment(i, patch) ==
    thread' = [n \in DOMAIN thread |-> IF thread[n].id = i THEN Patched(thread[n], patch) ELSE thread[n]]
ResolveMentions(text) == text \cap staff
\* a parent on another diagram is as good as none
ParentExists(parent) == parent = NoParent \/ parent \in Ids(thread)

ReadMember(p) == postings[p].op # "none" /\ postings[p].at = "sent"
AnswerPost(p, st, rows) == postings' = [postings EXCEPT ![p].at = st, ![p].rows = rows]

\* requireSession, resolveDiagramWorkspaceId, resolveWorkspaceRole: every role may comment, resolve and read
NotAMember(p) ==
    /\ ReadMember(p) /\ "me" \notin staff
    /\ AnswerPost(p, "missing", <<>>)
    /\ UNCHANGED <<commentServer, anchor, panel, posted>>
GetComments(p) ==
    /\ ReadMember(p) /\ postings[p].op = "list" /\ "me" \in staff
    /\ AnswerPost(p, "ok", thread)
    /\ UNCHANGED <<commentServer, anchor, panel, posted>>
\* the parent and the members are read, the row is inserted, then the event goes out
PostComment(p) ==
    /\ ReadMember(p) /\ postings[p].op = "create" /\ "me" \in staff
    /\ IF ParentExists(postings[p].parent)
       THEN /\ Unused # {}
            /\ LET row == NewComment(FreshId, "me", postings[p].parent, postings[p].anchored, postings[p].body) IN
               /\ CreateComment(row)
               /\ AnswerPost(p, IF ResolveMentions(row.body) # {} THEN "inserted" ELSE "ok", <<row>>)
       ELSE AnswerPost(p, "error", <<>>) /\ UNCHANGED thread
    /\ UNCHANGED <<staff, mentioned, anchor, panel, posted>>
EnqueueMentioned(p) ==
    /\ postings[p].op = "create" /\ postings[p].at = "inserted"
    /\ mentioned' = mentioned \cup {postings[p].rows[1].id}
    /\ AnswerPost(p, "ok", postings[p].rows)
    /\ UNCHANGED <<thread, staff, anchor, panel, posted>>
PatchStatus(p) ==
    /\ ReadMember(p) /\ postings[p].op = "status" /\ "me" \in staff
    /\ UpdateComment(postings[p].parent, [status |-> postings[p].to])
    /\ AnswerPost(p, "ok", <<[CommentRow(thread, postings[p].parent) EXCEPT !.status = postings[p].to]>>)
    /\ UNCHANGED <<staff, mentioned, anchor, panel, posted>>

\* another client: any parent, the status of any comment, the body of its own comments only
OtherComments ==
    /\ staff \ {"me"} # {} /\ posted < MaxPosts /\ posted' = posted + 1
    /\ \/ \E parent \in Ids(thread) \cup {NoParent} :
            Unused # {} /\ CreateComment(NewComment(FreshId, "other", parent, FALSE, {}))
       \/ \E n \in DOMAIN thread :
            \/ thread[n].status = "open" /\ UpdateComment(thread[n].id, [status |-> "resolved"])
            \/ thread[n].authorId = "other" /\ UpdateComment(thread[n].id, [body |-> Staff \ {"me"}])
    /\ UNCHANGED <<staff, mentioned, anchor, panel, postings>>
MembershipEnds ==
    /\ \E u \in staff : staff' = staff \ {u}
    /\ UNCHANGED <<thread, mentioned, anchor, panel, postings, posted>>
\* the request or its answer is lost, or the server fails between the row and its event
LosePost(p) ==
    /\ postings[p].op # "none" /\ postings[p].at \notin {"error", "missing"}
    /\ AnswerPost(p, "error", <<>>)
    /\ UNCHANGED <<commentServer, anchor, panel, posted>>

-----------------------------------------------------------------------------
(* commentThreads: the flat list as threads of two levels                  *)

\* for the mutant: the parent is taken for the root
ResolveParentId(c, rows) == IF c.parentId \in Ids(rows) THEN c.parentId ELSE c.id
\* up the chain to a comment without a parent in the list
ResolveRootId(c, rows) ==
    LET up[i \in Ids(rows)] == IF CommentRow(rows, i).parentId \in Ids(rows) THEN up[CommentRow(rows, i).parentId] ELSE i
    IN up[c.id]
ClassifyAnchor(c) == IF ~c.anchored THEN "none" ELSE IF anchor.live THEN "element" ELSE "missing"
\* a root opens a thread, a reply joins the last one opened for its root, or goes nowhere
Placed(c, r, threads) ==
    LET opened == {n \in DOMAIN threads : threads[n].root.id = r}
        last == CHOOSE k \in opened : \A j \in opened : j <= k
    IN IF r = c.id THEN Append(threads, [root |-> c, replies |-> <<>>, anchor |-> ClassifyAnchor(c)])
       ELSE IF opened = {} THEN threads
       ELSE [threads EXCEPT ![last].replies = Append(@, c)]
\* in one pass over the list
BuildThreads(rows) ==
    LET built[n \in 0..Len(rows)] ==
          IF n = 0 THEN <<>> ELSE Placed(rows[n], ResolveRootId(rows[n], rows), built[n - 1])
    IN built[Len(rows)]

-----------------------------------------------------------------------------
(* CommentsSidebar                                                         *)

AllThreads == BuildThreads(panel.list)
\* the threads on the screen: the filter looks at the root's status only
Threads == {t \in Range(AllThreads) : panel.all \/ t.root.status = "open"}

ThreadBusy(op) == \E p \in Posts : postings[p].op = op
\* a request in flight is no longer alone when another one joins it
SendPost(p, op, parent, anchored, text, to) ==
    /\ postings[p].op = "none" /\ posted < MaxPosts
    /\ postings' = [q \in Posts |->
         IF q = p THEN [op |-> op, parent |-> parent, anchored |-> anchored, body |-> text, to |-> to, at |-> "sent",
                        rows |-> <<>>, alone |-> \A r \in Posts : postings[r].op = "none"]
         ELSE IF postings[q].op = "none" THEN NoPost ELSE [postings[q] EXCEPT !.alone = FALSE]]
    /\ posted' = posted + 1
    /\ UNCHANGED <<commentServer, anchor, panel>>

\* the first list is asked for on mount; the refresh button asks again at any time
HandleRefresh(p) == panel.state # "loading" /\ SendPost(p, "list", NoParent, FALSE, {}, "open")
MountList(p) == panel.state = "loading" /\ ~ThreadBusy("list") /\ SendPost(p, "list", NoParent, FALSE, {}, "open")
\* `creating` and `replying` each allow one of their kind; the composer is there whatever the list's state
Composing(reply) == \E p \in Posts : postings[p].op = "create" /\ (postings[p].parent # NoParent) = reply
HandleSubmit(p) ==
    ~Composing(FALSE) /\ SendPost(p, "create", NoParent, anchor.selected, {"other"}, "open")
HandleReplySubmit(p) ==
    \E t \in Threads : /\ panel.state = "ready" /\ ~Composing(TRUE)
                       /\ SendPost(p, "create", t.root.id, FALSE, {}, "open")
HandleStatusChange(p) ==
    \E t \in Threads :
        /\ panel.state = "ready"
        /\ SendPost(p, "status", t.root.id, FALSE, {}, IF t.root.status = "open" THEN "resolved" ELSE "open")
ShowResolved == panel' = [panel EXCEPT !.all = ~@] /\ UNCHANGED <<commentServer, anchor, postings, posted>>

\* the client's three answers, from the status of the response
CommentClient(k) == IF k.at \in {"ok", "missing"} THEN k.at ELSE "error"
\* applyList: an answer replaces the list; an error keeps it, out of sight
ApplyList(k) ==
    IF CommentClient(k) = "ok"
    THEN [panel EXCEPT !.list = k.rows, !.state = "ready", !.known = Ids(k.rows), !.fresh = k.alone]
    ELSE [panel EXCEPT !.state = "error"]
TakePost(p) ==
    LET k == postings[p] IN
    /\ k.op # "none" /\ k.at \in {"ok", "missing", "error"}
    /\ panel' =
        IF k.op = "list" THEN ApplyList(k)
        ELSE IF CommentClient(k) # "ok" THEN panel
        ELSE IF k.op = "create" THEN [panel EXCEPT !.list = Append(@, k.rows[1]), !.known = @ \cup {k.rows[1].id},
                                                   !.fresh = @ /\ k.alone]
        ELSE [panel EXCEPT !.fresh = @ /\ k.alone,
                           !.list = [n \in DOMAIN @ |-> IF @[n].id = k.parent THEN k.rows[1] ELSE @[n]]]
    /\ postings' = [postings EXCEPT ![p] = NoPost]
    /\ UNCHANGED <<commentServer, anchor, posted>>

CommentNext ==
    \/ OtherComments \/ MembershipEnds \/ ShowResolved
    \/ \E p \in Posts :
         \/ MountList(p) \/ HandleRefresh(p) \/ HandleSubmit(p) \/ HandleReplySubmit(p) \/ HandleStatusChange(p)
         \/ NotAMember(p) \/ GetComments(p) \/ PostComment(p) \/ EnqueueMentioned(p) \/ PatchStatus(p)
         \/ LosePost(p) \/ TakePost(p)

CommentSpec == CommentInit /\ [][CommentNext]_commentVars

-----------------------------------------------------------------------------
\* a comment's place in the threads: the root above it, or itself
PlacesOf(i) ==
    {n \in DOMAIN AllThreads : AllThreads[n].root.id = i \/ \E k \in DOMAIN AllThreads[n].replies : AllThreads[n].replies[k].id = i}

\* In a panel whose last list was not overtaken by another request, every comment the server has given it is in the
\* threads exactly once, in the thread of its parent however deep the chain of parents is, and in one of its own when
\* it has none; and only the status of the root decides whether it is on the screen (buildThreads and the filter).
NoCommentHidden ==
    panel.fresh =>
      \A i \in panel.known :
        LET parent == CommentRow(thread, i).parentId IN
        /\ Cardinality({k \in DOMAIN panel.list : panel.list[k].id = i}) = 1
        /\ \E n \in DOMAIN AllThreads :
             /\ PlacesOf(i) = {n}
             /\ IF parent = NoParent THEN AllThreads[n].root.id = i ELSE PlacesOf(parent) = {n} /\ AllThreads[n].root.id # i
             /\ AllThreads[n] \in Threads <=> (panel.all \/ AllThreads[n].root.status = "open")
=============================================================================
