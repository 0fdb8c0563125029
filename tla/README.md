# Architecture Canvas: a TLA+ verification of the diagram platform

Architecture Canvas is a self-hosted platform for architecture diagrams drawn
with Excalidraw: a Fastify server over PostgreSQL (READ COMMITTED), S3 storage,
Redis and pg-boss jobs, and a React client. This project models what must not
lose or corrupt a user's work (the operation log, the browser's sync client, the
snapshot history, the AI runs), the services around it whose promises depend on
the order of concurrent steps, and the pages and panels that show their state.

## 1. The system

| Component | State | Operations | What makes it correct |
|---|---|---|---|
| operation log (`diagram-sync`) | rows of `diagram_operations` per diagram | `appendOperation` (REST and WebSocket), bootstrap, catch-up | dense sequences, one row per `clientMutationId`, acks only for durable rows, readers miss nothing |
| scene merge (`diagram-domain`, `editor-adapter`) | none (pure) | `mergeScene`, `reconcileOperation`, `computeDiff` | per-element last writer wins, never back to an older version |
| browser sync (`web/sync`, `DiagramEditorPage`, `EditorSurface`) | canvas, last scene diffed, mutation queue, known revision, save status | edit, flush, send, reconcile, refetch, catch-up, leave | no edit lost, `Salvo` is true, clients converge, echoes and retries end |
| snapshots (`snapshot`, `web/history`) | rows in Postgres, scenes in object storage; panel and comparison | create, compaction job, restore; dialogs | a row has its object at its revision; a restore reaches its target, once per dialog |
| AI runs (`ai-engine`, `ai-tools`, `web/ai-dock`) | `ai_runs` rows, pending patches in process memory; the dock | context, tools, preview, approve, cancel, undo | what is previewed is what lands, with an undo point; undo takes back the last change |
| webhooks (`webhook`, `jobs`) | deliveries, jobs | enqueue, attempt, retry, give up | every event reaches a final state unless a process died holding it |
| membership and RBAC (`workspace`, `packages/auth`) | roles in workspaces and the organisation | add, change, remove, OIDC roles | never without an administrator |
| workspaces, projects, diagrams (`workspace`) | rows with soft deletion | create, change, delete, list, look up | lists and lookups give one answer |
| sessions and first run (`auth`, `web/auth`) | sessions, accounts, the cookie shared by tabs | sign in, refresh, sign out, bootstrap, SSO | founded once; refreshing keeps a session |
| gateway and presence (`ws-gateway`, `web/presence`) | tickets, sockets, subscriptions, cursors | connect, subscribe, publish, sweep, reconnect | subscriptions follow connections; nobody stays who left |
| AI provider settings (`ai-provider`) | configurations per scope | create, update | at most one enabled per scope |
| documents (`docgen`, `web/docs`) | versions with an object each; the panel | generate, regenerate a section, list | no gap, exactly the newest is current |
| diagram IR (`diagram-ir`) | none (pure) | validate, lay out, compile, decompile, Mermaid, Structurizr | round trips keep the document |
| presentations, sharing (`presentation`, `share`, pages) | frames, published snapshot, links; the editing page, the audience | frames CRUD and reorder, publish, link, present | the editor shows the server's frames |
| comments (`comment`, `web/comments`) | a table; the sidebar | create, reply, resolve, list | no comment is hidden |
| list pages (`web/nav`) | a store per page | create, rename, switch, rotate, archive | the page shows the server's rows |
| import, export (`export`, `interop`, `web/export`) | the dialog, the buttons | preview, confirm, generate | what was previewed is what is imported |
| assets (`asset`, `export/bundle.ts`) | rows and objects | initiate, upload, complete, bundle | an acknowledged image has its object |
| everything else | - | render, lint, libraries, MCP, backup, bulk export | pure, one statement per change, other tools' work, or (MCP's write) the steps of an approval |

How they interact: the sync client talks to the log by three requests
(bootstrap, batch, catch-up) that overlap and get lost; snapshots, restores and
AI approvals read the folded log and append to it through the same
`appendOperation`; the batch route enqueues compaction and webhook jobs after
the commit, and it alone checks that the images of an append are ready (an
import, a restore and an AI patch append without that check); appends are
announced over presence; every route asks RBAC first; the pages and panels know
the server only by requests that overlap, get lost and are answered late, and
apply each answer to the state they have by then. The hard behaviours are the interleavings between the awaits of
these calls, the failures between two writes, and replies that arrive late.
`PROJECT.json` lists them as hazards, each at its line.

## 2. Modules

- `Scene`: an element is its `version`, `versionNonce` and `isDeleted`, the only
  fields the merge reads. `ReconcileOperation`, `MergeScene`, `ComputeDiff` are
  the functions of the code on such scenes. An entry of the log carries the
  scene folded up to it, so `loadDiagramScene` is a lookup. The deltas of one
  operation are a function of the element id, since the queue keys them so.
- `OpLog`: one diagram's log. Each query of `appendOperation` is a step of a
  request slot `h` (`pc[h]`, the locals as variables). `rows` are committed,
  `staged[h]` is the row of an open transaction: invisible to SELECTs, but an
  INSERT that collides with it waits (`InsertUnblocked`, the database's
  behaviour). `Fail` ends a request anywhere, so a commit may lose its ack.
  `Readers` follow the log with bootstrap and `afterSequence`. `acks` and
  `startHead` are only observed.
- `DurableLog`: what the log promises, one atomic append-once sequence;
  `OpLogRefinement` maps `OpLog` to it (the rows in order are the log, COMMIT is
  the append).
- `SyncClient`: any number of clients of one diagram, with the server's append
  as one step (justified by the refinement) and its reply as a later one.
  Requests of a client are a bag: they are handled and answered in any order and
  fail at any phase. Actions: open, edit, flush, reconnect, navigate, close the
  tab; the reply and failure handlers; append, answer, demotion of a user.
- `Snapshots`: editors' operations, `createSnapshot` (read, put, insert) and
  `restoreSnapshot` (read row and object, read the scene, append), step by step,
  with failures anywhere. A compaction is a snapshot; when one is due is not
  modelled, because users take snapshots at any time with the same effect.
- `AiRuns`: extends `Snapshots` with runs: the pipeline's status changes,
  preview, approval (check, load and compare the revision, status, `pre_ai`
  snapshot, append, finish), cancellation and restarts that lose `RunStore`.

The services of the server:

- `Webhooks`: `enqueueWebhookEvent` insert by insert, pg-boss jobs as a bag with
  the retries they have left, workers that take a row, look up its endpoint, post,
  record, queue the retry and then complete their job, deaths between any two,
  endpoints that change meanwhile. A worker that dies after it has queued the
  retry (`deliver.ts:222`) and before its job is completed (`queue.ts:43`) leaves
  two jobs for one row, and two workers try it at once. `orphan` is history: rows
  a process died with for good.
- `Presence`: a tab (`PresenceClient` and its store), the gateway's connections,
  the Redis subscription of the process, one frame in each direction, peers on
  other processes. Either side of a socket may see it break first. Age in sweeps
  stands for time.
- `Access`: `can()` and its table, effective roles, the two last-administrator
  guards with the rows they lock, requests admitted by a role that may be gone
  when their transaction runs, OIDC role synchronisation.
- `Resources`, on top of `Access`: workspaces, projects and diagrams with soft
  deletion, each request checked first and written later; `ListX` and `GetX` are
  the queries of the lists and of the lookups.
- `Auth`: sessions and their rotation, the founding of the instance under an
  advisory lock, the tabs of one browser with one cookie.
- `Providers`: each transaction's two statements at READ COMMITTED, with the rows
  it holds and waits for.
- `Docgen`: number, object, transaction; sections split at headings; the panel
  with its pages of versions.

The pages, panels and pure parts:

- `Lists`: what the browser's array filter does, for `Pages` and `Presentations`.
- `Pages`: one page of any of seven kinds: a store, forms, requests in flight, and
  the routes behind them. `Serve` is a handler that gets as far as its write: it
  is answered well, its answer is lost, or the audit event recorded after the
  commit fails and the page hears of a 500 (`workspace/routes.ts:145`). `untold`
  and `unkeyed` are history: the rows, and the secret, of which the page did not
  hear.
- `Agent`: a scene small enough to keep the references of elements (bindings,
  containers, frames, labels), every tool over it, preview, threshold, and the
  patch merged into the log after a collaborator's edits.
- `Ir`: documents taken through compile and decompile, or a DSL and back, with
  the layouts' real coordinates.
- `Presentations`: the server's frames and links, the editing page, a seat in the
  audience.
- `Comments`, `Dock`, `History`, `Transfers`: a panel each, with the calls it has
  in flight and the routes behind them.
- `Assets`: completions query by query with objects that may be put again, the
  readiness check, the bundle.

- `*Proofs`: the theorems of section 5.
- `MC*`: symmetry sets and instances for TLC. `MCServices` and `MCScreens` run
  several components in one state space: they share no variable, so a behaviour
  picks one (`part`) and the others rest in one initial state; the reachable
  states are the sum, not the product, and nothing is lost.

Definitions called "Mutant of ..." or "for the mutant" are deliberate bugs that
show that the properties can fail; no specification uses them.

## 3. Runs

| Run | Instance | Shows |
|---|---|---|
| `oplog_append` | 2 requests, 3 mutation ids, 2 attempts, unlimited resubmission | `TypeOK`, `LogDense`, `OneRowPerKey`, `AckDurable`, `ReplyCoversGap`, `RefusedOnlyUnderContention`, refinement of `DurableLog` |
| `oplog_follow` | 2 requests, 2 ids, 1 reader, fairness | `ReaderComplete`, `CommitsInOrder`, `RequestEnds` |
| `sync_settle` | 2 clients, 1 element, 2 edits, 1 failed request, fairness | `NoElementForgotten`, `Settles` |
| `sync_converge` | 2 clients, 2 edits, a reconnect, a page left, a role revoked | `Converges`, `NeverOverNewer` |
| `ai_history` | 2 concurrent calls, 1 run, 2 operations on a new or old diagram, 2 stored objects | `SnapshotFaithful`, `RestoreLands`, `UndoPoint`, `TraceNeedsApproval` |
| `services` | one endpoint, delivery and two workers; one tab with two connections and a peer; two users, two workspaces, two requests; two browser tabs and three tokens; two configurations and two writers; two document jobs | `HeldOrOrphaned`, `DeliveriesSettle`, `SubscriptionsExact`, `QuietUnlessConnected`, `GhostsVanish`, `AdministratorsRemain`, `ListsAgreeWithLookups`, `FoundedOnce`, `RefreshKeepsSession`, `WriteConverges`, `OneCurrentVersion` |
| `screens` | two rows, requests or calls of each panel at once; two turns of the agent; 300 IR documents; three frames; two assets in two diagrams | `PageShowsServer`, `NoNewDanglingReference`, `AppliesThePreview`, `RoundTrips`, `EditorShowsServer`, `NoCommentHidden`, `UndoTargetsLastApplied`, `RestoredOncePerDialog`, `ImportsWhatWasShown`, `AcknowledgedImagesExist` |
| `sync_requeue` | 1 client, a failing batch | violated: `SavedMeansStored` |
| `sync_refresh` | 2 clients, a failing refetch | violated: `CanvasCoversRevision` |
| `sync_navigate` | 1 client that navigates away | violated: `NavigationFlushes` |
| `restore_exact` | 2 calls | violated: `RestoreExact` |
| `ai_stale` | 2 calls, 1 run | violated: `NeverOverwritesNewer` |

**Bounds.** Elements never interact in the merge, so one is enough for every
property that speaks of elements one by one. Two clients or calls give every
pairwise race. Two random nonces bound the edits to two and come in both
orders, so version ties are broken both ways. `MAX_SEQUENCE_RETRIES` is 2
instead of 5: three mutation ids then exhaust it. `MaxFailures`,
`MaxReconnects`, `MaxLeaves`, `MaxRevokes`, `MaxObjects` bound the events of
their names; `MaxLag` is how many revisions an editor may be behind. The
diagram starts empty or with every element drawn.

In `services` and `screens` every race of the code is one of two requests, tabs,
workers or completions, so there are two of each (one delivery is enough: rows
never interact, and each is tried by both workers). `MaxBreaks`, `MaxDeaths`,
`MaxEndings` and `JobRetries` are 1: one failure of each kind, then the way back
from it. `MaxRequests`, `MaxTurns`, `MaxAsks`, `MaxPosts`, `MaxTransfers`,
`MaxDialogs`, `MaxJobs`, `MaxVersions`, `MaxTokens`, `MaxUploads` bound how many
operations a session makes: two or three, the shortest sessions in which an
answer meets a later operation. Where a component has many initial states the
run starts from those that differ in what its properties look at (`PageStarts`,
`AgentStarts`, `DeckStarts`, `CommentStarts`, `AccessStarts`): a page opens with
up to two rows, the person at the members page is an administrator, nobody has
configured a model or the instance has, a comment of somebody else has a reply
or nothing was said. IR documents have two or three nodes in two containers that
may hold each other, so that nesting, cycles, empty containers and ids that look
like DSL headers all occur.

**Deadlock** is checked for the log. The other models stop when their bounds
are used up, as users do, so it is off there.

**Fairness.** `OpLog`: weak fairness of each request's steps (Node resumes
every settled promise) and strong fairness of an INSERT that is blocked again
and again, since Postgres wakes a waiter when the transaction it waits for ends.
`SyncClient`: weak fairness of `Progress` as a whole: a non-empty queue has its
timer armed and a request in flight is answered or fails, so while either
exists something happens. `Webhooks`: weak fairness of the emitting request and
of each worker, which pg-boss polls for jobs and Node runs to the end of a job,
its completion included; deaths are not fair. `Presence`: weak fairness of connecting, hearing a close,
the sweep timer, deliveries on a socket, the connection's own steps, Redis and
the relay. Nothing is assumed of users.

**What holds.** The log behaves as one atomic append-once sequence. The stored
scene never steps back to an older version of an element, although batches are
appended without regard to `baseRevision`. Without failures, clients at the
head with nothing pending agree with the server, except for an element whose
deletion reached the log before its first upsert (`DeleteOvertook`: the server
drops such a delete). Echoes of refetched scenes die out. Snapshots are whole,
restores bring back what was alive and remove what was not yet there, and an
applied AI patch always has its undo point.

Deliveries settle although two workers may try one row at once. A workspace keeps
an administrator whatever removals race in it, because the guard locks the rows
it counts. What the guard reads of other workspaces it does not lock, and the
workspaces it lets go for their sake, or that a single sign-on takes, are exempt
from that (`waived`): in an instance founded by the first-run form they are
still administered, by the administrators of the organisation, in one founded
by a single sign-on they need not be. An
instance is founded once. Two tabs that refresh one session both end up with a
live one. Presence subscriptions follow the connections although SUBSCRIBE and
UNSUBSCRIBE are not awaited, and cursors of the departed vanish. Document
versions have no gap and one current version. The pages and panels show what the
server has whenever their requests did not overlap, a list page but for rows
whose last change it never had a good answer to; a restore dialog restores at
most once in any session; an approved patch lands as previewed and leaves no new
dangling reference; an acknowledged image has its object.

**What does not.** Each of these is a finding in `PROJECT.json` with the line it
contradicts:

1. A failed batch is put back over a newer pending edit of the same element;
   the old version is then stored and `Salvo` shown (`SavedMeansStored`).
2. The known revision moves before the refetch that should bring the canvas
   there; if that fails, no reconnect repairs it (`CanvasCoversRevision`).
3. Internal navigation drops the queue (`NavigationFlushes`).
4. A restore revives elements that were deleted when the snapshot was taken
   (`RestoreExact`).
5. An edit that commits between an approval's staleness check and its append
   is overwritten by the patch (`NeverOverwritesNewer`).

The histories inside `Converges`, `AdministratorsRemain`, `WriteConverges`,
`PageShowsServer`, `EditorShowsServer`, `NoCommentHidden`,
`UndoTargetsLastApplied` and `ImportsWhatWasShown` exempt the races that break
what they say; each such hazard says so in `PROJECT.json`, and what the race does
is here or in the next paragraphs.

Disagreements that the models show but no run is spent on, since a property that
avoids them is checked instead.

Services:

- the last-administrator guard looks for `org_admin` rows in the members of
  other workspaces (`lastAdmin.ts:58`), but the role of the organisation comes
  from `organization_members` (`effectiveRole.ts:58`, "the single source all
  three read", line 19): where that table is empty, in an instance founded by a
  single sign-on, demoting the last administrator of one workspace is allowed
  because of somebody who administers another one only, and the workspace is
  left to nobody, against `README.md:39` (TLC shows it in seven states when
  `Access` is run with `Founded = FALSE` and `NeverLosesLastAdmin` as an
  invariant);
- two concurrent writes leave two enabled AI providers in a scope
  (`providerConfigs.ts:87`, against line 72; `WriteConverges` says what the next
  write repairs);
- of two document generations that drew one number the loser's text replaces the
  winner's (`generate.ts:89`, against line 79; the rows stay right);
- the first-run form stores its address in lower case but sign-in compares the
  address as typed (`accounts.ts:47`, against `firstRun.ts:61`);
- an endpoint's deletion fails on its foreign key when a delivery is inserted
  between its two statements (`webhooks.ts:130`).

Screens:

- a row is shown twice when a list answer that has it overtakes the answer to
  its creation (`ProjectListPage.tsx:186`, `CommentsSidebar.tsx:115`), and a
  project just created disappears when the list was read before it and comes
  after (`ProjectListPage.tsx:116`, against `workspace-navigation/spec.md:108`);
- a reorder that fails puts back the frames as they were when its button was
  pressed, also one whose deletion the server has confirmed since
  (`PresentationEditorPage.tsx:217`, against PRZ-17);
- after an approval that landed and whose answer is lost, the undo on offer is
  that of the run before and takes back both (`aiDockClient.ts:123`, against
  `aiDockStore.ts:45`);
- in the import dialog a second file chosen while the first is previewed is
  imported under the preview of the first (`ImportDialog.tsx:126`), and a format
  switched while a file is read defeats INT-07 (`ImportDialog.tsx:113`);
- an import that dies between the diagram and its first revision leaves an empty
  diagram (`import.ts:87`);
- a bundle leaves out images of another diagram's assets, which the readiness
  check accepts (`bundle.ts:73`);
- Mermaid drops nodes whose id begins with `graph` or `flowchart`
  (`mermaid.ts:95`), Structurizr nested containers.

The same gap in (5) lets two approvals, or an approval and a cancel, both see
`awaiting_approval`: a patch may be appended twice, or its run end as cancelled.
`TraceNeedsApproval` states what remains true.

## 4. Assumptions of the models

One diagram, page, session or document at a time: nothing in the modelled code reads across diagrams.
`versionNonce` values never repeat (31 random bits). Operations carry at least
one delta, except a restore that changes nothing. Session, RBAC and
schema checks come before the modelled part of a handler and change nothing; a
request they refuse is a request not made, except the role that is lost while a
page is open. Replies carry a flag "operations were missed" instead of the
operations: the client reads only their number.

## 5. Proofs

`OpLogProofs` proves, for any sets of requests, mutation ids and readers and any
positive retry limit, that every state satisfies `TypeOK`, `LogDense`,
`OneRowPerKey`, `AckDurable`, `ReaderComplete`, `ReplyCoversGap` and
`RefusedOnlyUnderContention`, and that every step satisfies `CommitsInOrder`.

The assumptions are those of `OpLog`: the retry limit is a positive natural and
the "no request" value is not a mutation id. The refinement of `DurableLog` is
proved too (`Refinement`): a COMMIT is the abstract append, every other step a
stutter.

The invariants are not inductive by themselves. `IInv` adds what the code
relies on without saying so:

- at most one transaction holds a staged row, which collides with no committed
  row and has the head plus one as its sequence: every attempt that could
  commit wants that number, and the unique index lets one have it. This is why
  commits come in order although the number is read before the insert;
- per step of a request, what its locals stand for: `found` is a committed row
  with the request's id, the revision read is at most the head, the base is a
  revision that was reached, the missing rows cover the gap;
- the head is at least `startHead + attempt`: each violation without a row of
  one's own means that another commit took the number that was read. With the
  loop's limit this gives `RefusedOnlyUnderContention`.

The proof has one lemma per action (`SubmitIInv`, `InsertRowIInv`, `CommitIInv`,
...), frame lemmas for the parts an action leaves alone, and lemmas on `HeadOf`
(`HeadFacts`, `DenseToHead`). COMMIT is the step with content: the head grows by
exactly one, so density, the readers and the other requests survive.

`HistoryProofs` proves, for any number of concurrent calls, runs, elements and
operations, that every state of `AiRuns` satisfies `AiTypeOK`,
`SnapshotFaithful` and `TraceNeedsApproval`, and every step `UndoPoint` and
`RestoreLands`. It assumes that nonces are naturals and that the "no run" value
is not a run. `HInv` adds to the invariants what each call relies on at each of
its awaits:

- `SnapshotCall`: between the read and the insert, the scene in hand (later the
  object put) is that of the revision in hand, whatever was appended since;
- `PipelineCall`, `OnePipeline`: while a run is in its pipeline no other call
  serves it, so only user decisions race for a status;
- `DecidingCall`, `ApprovingCall`: what an approval or a cancel checked may be
  stale, but a status it overwrites is `awaiting_approval` or later, never one
  of the pipeline; the `pre_ai` row is there before the append, no older than
  the source revision.

`FrameCall` shows that a call keeps its part of `HInv` under every step of the
others (the log and storage grow, statuses move only the way decisions write
them); then one lemma per action. For restores a second invariant says, element
by element, that the scene a restore read is the current one unless an operation
touched the element since (`RestoreRead`); `DeltaLands` shows that the deltas
built on it outbid it in the merge.

`SyncProofs` and `ConvergeProofs` prove, for any number of clients, elements,
nonces, failures, reconnects, page leaves and revocations, that every state of
`SyncClient` satisfies `TypeOK`, `NoElementForgotten` and `Converges`, and every
step `NeverOverNewer`. They assume that nonces are positive naturals
(`NoncesAssumption`: 0 marks an element nobody drew) and that there is an
element (`ElementsAssumption`).

- `SyncInv` types the pages and says of each element on a canvas, in a queue or
  in a request where it was drawn or stored: that is what `NoElementForgotten`
  needs, and a paint or a reply can only bring what the log has (`Logged`).
- `NeverOverNewer` is a fact about the merge, of any delta and any stored scene:
  `MergeScene` takes a delta only if it wins, whatever revision it was based on.
- `Converges` holds by `ConvergeInv`. Its first half, `Known`, holds whether or
  not requests fail: the nonce tells the versions of an element apart
  (`VersionsOK`); the stored scene only goes up, and is made of stored deltas
  (`HistoryOK`); nothing is on a page before the request that opens it is
  answered (`PageOK`); what the next diff is taken against is what is shown, but
  for deletions, and nothing queued or in flight is newer (`ScreenOK`). The
  second half, `Caught`, holds of a page as long as nothing failed: everything
  it holds is stored or on its way (`SentOK`), and it covers its known
  revision, the base of every batch in flight and whatever revision a reply
  brings, or a refetch in flight will make it so (`RevisionOK`, `CatchesUp`).
  To cover a revision is to know what is live there (`Covers`). Of a quiet page
  at the head nothing is left in flight, and the property follows
  (`InvConverges`). Each part has a lemma for the steps of its page, for those of the
  others and for the growth of the log; a reply painted late and an ack that
  says nothing was missed (`OwnSince`: what was stored in between was the page's
  own) are the steps with content.

Proving `Converges` showed that its first form was false, in an execution longer
than the run's bounds allow, which TLC confirms when led through it. B draws an
element; A's catch-up asks for a refetch, which is answered with it; B deletes
it; a batch of A makes A refetch again, which is answered with the deletion. A
edits something else. The second refetch is painted first: A never showed the
element, so its tombstone makes an empty diff and `previousSceneRef` does not
move. A's edit is flushed, stored and answered. Now the first refetch is painted: the
element wins over nothing and is back. Its echo is stored under the
deletion, which has the higher version, and the ack tells A that it missed nothing: A
shows `Salvo` and an element that the server holds deleted. `Converges`
now names this exception (`StoredUnderDeletion`), the run still passes, and the
theorem shows that there is no other.

The services have theorems each, about their own specification and
for any values of its constants (those of `Webhooks`, `Presence`, `Providers` and
`Docgen` in `ServiceProofs`):

- Sessions (`AccessProofs`): `AuthSpec` satisfies `AuthTypeOK`, `FoundedOnce` and
  `RefreshKeepsSession`. `FoundInv` is the advisory lock: one tab at a time is
  past the second check, and then no account exists. For the sessions the
  invariant has to follow a successor on its way to the browser: it is live, it
  is not the cookie, and no request carries it (`SuccessorSafe`), because a token
  nobody was issued is held by nobody (`UnbornUnheld`). Without that a second tab
  could revoke the successor before it arrived. It holds while `endings` is 0,
  as the property says.
- Webhooks: `HeldOrOrphaned`. `HeldInv` adds that a worker holds a
  delivery exactly while it is busy and that a request has rows in hand only
  while it emits; an action hands a row on no later than it lets go, and a worker
  whose retry is queued no longer counts as its holder (`Working`), so its death
  then orphans nothing.
  Assumes that the "no delivery" value is not a delivery.
- Images (`ScreenProofs`): `AcknowledgedImagesExist`. `AssetInv` says of each completion
  what its bytes have to do with the object at each await: read, sanitised,
  about to be marked (`Fetched`, `Clean`, `Marking`), `late` standing for an
  upload behind it; `Ready` says that deduplication only ever points at a ready
  row. Assumes that the "no object" value is not a content.
- Members (`AccessProofs`): `AdministratorsRemain`. `AccessInv` holds the row lock
  (`OneHolder`), and what the guard counted stays true until its change is made
  because only the holder takes an administrator of that workspace away
  (`AllowedKeeps`); `OrgInv` is the same for the organisation. `waived` names
  the workspaces that RBAC-10 or a single sign-on let go. Assumes that the roles
  given are roles and that the OIDC workspace is a workspace.
- Resources, under changing roles (`ResourceSpec`, also in `AccessProofs`):
  `AdministratorsRemain` again, since deleting and restoring a workspace touches
  no role, and `ListsAgreeWithLookups`. A request that was admitted may write
  after what it was admitted to is deleted (`CallsExist`: a deletion only takes a
  workspace that is in the table), so every role is still a role in a workspace
  there is, and the queries of the lists and those of the lookups read the same
  rows (`RolesRead`, `EffectiveIs`). Assumes that the "nothing" value is not a
  workspace.
- Presence: `SubscriptionsExact` and `QuietUnlessConnected`. `ChannelExact`
  relates the two ends of the commands: the last one on its way to Redis, or
  what Redis does when none is, agrees with what the process believes. `TabExact`
  ties a tab's sweep, timer and cursors to its phase. Assumes that the "no
  connection" value is not a connection (`OffAssumption`).
- Providers: `WriteConverges`. A write that is still alone is the only one
  open, so what it swept is all there is when it commits (`SweptAll`).
- Documents: `OneCurrentVersion`. A number a request has drawn is at most
  the next one (`Drawn`), so an insert the unique index accepts is the next one.
  Assumes that `MaxVersions` is a natural.

The panels, in `ScreenProofs`, each under its own specification:

- History (`HistorySpec`): `RestoredOncePerDialog`. `OneIdPerDialog` says that no
  two ids were drawn in one dialog, because the open dialog either holds its id
  or is newer than every dialog that drew one: an answer to an earlier dialog
  closes it and takes its id, but never leaves it open without. `Reloads` says
  that a restore in the log and not on the canvas has a call that will reload it,
  its own answer or the list read after it, also once the panel is gone.
- AI dock (`DockSpec`): `UndoTargetsLastApplied`. While a session is orderly one
  call is out (`OneCall`); the dock's belief is right unless that call is an
  approval or an undo that has landed (`Believed`), and what the store will make
  of each answer is stated per call (`Waiting`, `StoreAnswers`). Assumes that 0
  is not the name of a run.
- Imports and exports (`TransferSpec`): `ImportsWhatWasShown`. A button waits
  exactly while one call carries its name (`ButtonWaits`); a diagram an import
  created is opened or carried by the confirmation that will open it, with its
  scene once it is answered (`Accounted`, `Carried`); a steady user's one call is
  about the format and file the dialog shows (`AsAsked`). Assumes that formats,
  buttons and calls have different names.

- Drawing agent (`AgentSpec`): `NoNewDanglingReference` and `AppliesThePreview`,
  for any ids a model may name and any number of calls. `PatchSound` says that
  each upsert of the patch refers to nothing but the live elements of the scene
  the run read, what dangles there already, and ids the patch itself touches; it
  goes through each tool in turn, and needs of the scene that a text is bound to
  nothing but its container (`SceneSound`), because `update_connector` may bring
  a deleted label back. `ReadOf` says that the scene read is the diagram unless
  the revision has moved, `PreviewOf` the same of the preview. That one delta
  wins each merge (`WinnerIs`) takes that its version is above the element's.

The pages that keep a copy of the server's rows, in `PageProofs`, each under its
own specification. All three say what the copy and a request have to do with the
rows while the request is sent, answered and handled, as long as it is the only
one: that is what the properties are about (`undisturbed`, `calm`, `fresh`). The
list pages' property goes on when an answer was lost or a handler failed after
its write; those of the other two speak of sessions without either.

- List pages (`PageSpec`): `PageShowsServer`, for any rows, kinds of page and
  number of forms. `PageInv` says that the list shows the server's rows
  (`ListRight`), each once, but for those of which the page has not heard
  (`untold`), and what a good answer that waits for its handler tells of the rows
  (`Awaiting`): the row as it is, gone, or not listed yet. A write puts its row
  among the untold when it commits, and only the handler of a good answer takes
  it out, so a lost answer and a 500 sent after the commit leave one row in
  doubt: the next answer about it or the next list must put it right. `Without`,
  the append and the replacement by id each touch one row. The secret on the
  screen is the key of its row unless one was made that the page did not get
  (`SecretRight`, `unkeyed`). Assumes that there are finitely many rows and that
  the person at the page is one.
- Presentation editor (`PresentationSpec`): `EditorShowsServer`, for any frames and
  number of requests. `DeskInv` is the same argument with two differences. The
  handlers patch the list they saw when they were called, so a request keeps
  what that list was right about (`seen`). And a reorder is written frame by
  frame, the optimistic order being on the screen meanwhile: `PartWritten` says
  which statements were made; when the last one is, the positions are the
  indices of the list sent. For the order: no more than p frames are before
  position p when the page opens (`Spread`), because a frame is added behind the
  highest one and a deleted one leaves a gap. So none is at a position before
  its place in the list (`ShowsDeck`), and if the positions have no gap each is
  at its place. Assumes that there are finitely many frames.
- Comments (`CommentSpec`): `NoCommentHidden`, for any chain of replies, any members
  and any number of requests. `CommentInv` says that every table and every list
  on its way is a forest in order of creation (`Forest`: ids are unique, a parent
  comes before its replies, which is what the POST route's check of the parent
  gives) and made of comments of the table (`KnownTo`); and what a request that
  went alone will bring: a new comment the panel does not list, with a parent it
  does, or the changed row of a comment it lists (`PostWaits`). The rest is about
  `buildThreads`: the root of a comment is a comment of the list without a parent
  (`UpRoot`), and after the first n comments each of them is in the thread of its
  root and nowhere else (`ThreadsOf`, `PlacedNext`). Assumes that there are
  finitely many comments and that the value for "no parent" is not one.

Lists are filtered and grouped by recursive functions. The library's induction
rules take an operator as a parameter and cannot be used, so each lemma about
them assumes that some index is wrong, takes the least one (`Least`, from the
well-foundedness of < on the naturals) and refutes it: `KeptExists` for the
filter, `RootedExists` and `UpRoot` for the way up a thread.

Checked by TLC only: liveness (`RequestEnds`, `Settles`, `DeliveriesSettle`,
`GhostsVanish`), which is out of the prover's reach; and `RoundTrips`, which is
about recursive algorithms. Every other property of a passing run is a theorem.

## 6. Not modelled

- `render`, the byte formats of exports, `lint`: pure functions of a scene through
  libraries, without state.
- `library`, element metadata: static content and single upserts.
- MCP: read-only resources, proposals through the AI runs' routes, and a direct
  write behind a flag that is off by default (`mcp/routes.ts:328`), which checks the
  revision, takes its snapshot and appends in the order of an approval, so that
  what `ai_stale` shows of `AiRuns` holds of it too.
- Backup, restore test, bulk export: orchestration of `pg_dump`, object copies and
  zip files.
- The elk-layered layout (a library's), metrics, prompts and redaction, mail and
  OIDC before its callback, when a compaction is due, UI text and layout.

`PROJECT.json` gives the reason for each component.

## 7. Plan

1. Done: the diagram core (`OpLog` to `AiRuns`) with its proofs; the services and
   the screens with the runs `services` and `screens`; proofs for six services.
2. Done: proofs of the sync client, of the refinement of `DurableLog`, of presence,
   of the resources, of the panels for history, AI and transfers, and of the
   drawing agent, of the list pages, the presentation editor and comments.
3. Compaction thresholds in `Snapshots`; the bulk bundle job on the queue of
   `Webhooks`; a composition of `Assets` with `OpLog`.
