------------------------------- MODULE Assets -------------------------------
(***************************************************************************)
(* The image assets of a workspace: the two-phase upload (a row and a      *)
(* signed URL, then completion once the object is there), the check that   *)
(* keeps an image out of the log until its asset is ready, and the bundle  *)
(* that packs a diagram with its assets.  A completion is one step per     *)
(* query or storage call.                                                  *)
(***************************************************************************)
EXTENDS Naturals

CONSTANTS
    AssetIds,      \* asset ids; the object of an asset is stored under its id
    Homes,         \* diagrams of the workspace
    Contents,      \* what a client may upload: "photo", "drawing", or "raw", a drawing to be sanitized
    Completions,   \* bound: completions in progress
    MaxUploads     \* bound: objects the clients put

VARIABLES
    asset,      \* [AssetIds -> row: [st, home, key, sum]]
    object,     \* [AssetIds -> what storage holds under the key, or NoObject]
    completing, \* [Completions -> [pc, a, bytes, target]]
    refs,       \* [Homes -> assets that acknowledged images of the diagram refer to]
    bundle,     \* the bundle last begun: [pc, home, refs, files]
    uploads,    \* objects put so far
    late        \* history: assets uploaded to after one of their completions had read the object

assetVars == <<asset, object, completing, refs, bundle, uploads, late>>

NoObject == "nothing"

ASSUME AssetAssumption == NoObject \notin Contents

NoAsset == "none"
NoRecord == [st |-> "unborn", home |-> NoAsset, key |-> NoAsset, sum |-> NoObject]
NoCompletion == [pc |-> "idle", a |-> NoAsset, bytes |-> NoObject, target |-> NoAsset]
NoBundle == [pc |-> "none", home |-> NoAsset, refs |-> {}, files |-> {}]

AssetInit ==
    /\ asset = [a \in AssetIds |-> NoRecord]
    /\ object = [a \in AssetIds |-> NoObject]
    /\ completing = [c \in Completions |-> NoCompletion]
    /\ refs = [h \in Homes |-> {}]
    /\ bundle = NoBundle /\ uploads = 0 /\ late = {}

-----------------------------------------------------------------------------
(* The upload                                                              *)

\* POST assets:initiate: the pending row, then the signed URL.  Ids are random: which unused one a row gets makes no
\* difference.
InsertPendingAsset(a, h) ==
    /\ asset[a].st = "unborn" /\ a = CHOOSE b \in AssetIds : asset[b].st = "unborn"
    /\ asset' = [asset EXCEPT ![a] = [st |-> "pending", home |-> h, key |-> a, sum |-> NoObject]]
    /\ UNCHANGED <<object, completing, refs, bundle, uploads, late>>

\* the client puts the object; it may do so again as long as the URL is valid
Upload(a, content) ==
    /\ asset[a].st # "unborn" /\ uploads < MaxUploads
    /\ object' = [object EXCEPT ![a] = content]
    /\ uploads' = uploads + 1
    /\ late' = IF \/ asset[a].st = "ready"
                  \/ \E c \in Completions : completing[c].a = a /\ completing[c].pc # "row"
               THEN late \cup {a} ELSE late
    /\ UNCHANGED <<asset, completing, refs, bundle>>

EndCompletion(c) == completing' = [completing EXCEPT ![c] = NoCompletion]

\* POST assets/:id:complete: an asset that is ready already is reported as it is
Complete(c, a) ==
    /\ completing[c].pc = "idle" /\ asset[a].st = "pending"
    /\ completing' = [completing EXCEPT ![c] = [NoCompletion EXCEPT !.pc = "row", !.a = a]]
    /\ UNCHANGED <<asset, object, refs, bundle, uploads, late>>
\* headObject and getObject: 409 when nothing was uploaded
FetchObject(c) ==
    /\ completing[c].pc = "row"
    /\ IF object[completing[c].a] = NoObject
       THEN EndCompletion(c)
       ELSE completing' = [completing EXCEPT ![c] = [pc |-> "fetched", a |-> @.a, bytes |-> object[@.a], target |-> NoAsset]]
    /\ UNCHANGED <<asset, object, refs, bundle, uploads, late>>
SanitizeSvg(bytes) == IF bytes = "raw" THEN "drawing" ELSE bytes
\* what the sanitizer changed goes back to storage
PutSanitized(c) ==
    LET k == completing[c] IN
    /\ k.pc = "fetched"
    /\ object' = IF SanitizeSvg(k.bytes) = k.bytes THEN object ELSE [object EXCEPT ![k.a] = SanitizeSvg(k.bytes)]
    /\ completing' = [completing EXCEPT ![c] = [pc |-> "clean", a |-> k.a, bytes |-> SanitizeSvg(k.bytes), target |-> NoAsset]]
    /\ UNCHANGED <<asset, refs, bundle, uploads, late>>
SameChecksum(sum, self) == {a \in AssetIds \ {self} : asset[a].st = "ready" /\ asset[a].sum = sum}
FindReadyAssetByChecksum(c) ==
    /\ completing[c].pc = "clean"
    /\ LET k == completing[c]
           same == SameChecksum(k.bytes, k.a)
       IN \E t \in IF same = {} THEN {k.a} ELSE {asset[b].key : b \in same} :
            completing' = [completing EXCEPT ![c] = [pc |-> "mark", a |-> k.a, bytes |-> k.bytes, target |-> t]]
    /\ UNCHANGED <<asset, object, refs, bundle, uploads, late>>
\* by id, whatever became of the row meanwhile
MarkAssetReady(c) ==
    LET k == completing[c] IN
    /\ k.pc = "mark"
    /\ asset' = [asset EXCEPT ![k.a] = [st |-> "ready", home |-> @.home, key |-> k.target, sum |-> k.bytes]]
    /\ EndCompletion(c)
    /\ UNCHANGED <<object, refs, bundle, uploads, late>>
\* a query or a storage call fails, or the process dies
CompletionFails(c) ==
    /\ completing[c].pc # "idle" /\ EndCompletion(c)
    /\ UNCHANGED <<asset, object, refs, bundle, uploads, late>>

-----------------------------------------------------------------------------
(* References and bundles                                                  *)

\* for the mutant: a pending asset will do
UnknownAssetIds(ids) == {a \in ids : asset[a].st = "unborn"}
\* findNonReadyAssetIds: any asset of the workspace will do, of whatever diagram
NonReadyAssetIds(ids) == {a \in ids : asset[a].st # "ready"}
\* assertDeltaAssetsReady, then the append: a batch whose images are not all ready is refused as a whole
AppendImages(h, ids) ==
    /\ ids # {} /\ NonReadyAssetIds(ids) = {}
    /\ refs' = [refs EXCEPT ![h] = @ \cup ids]
    /\ UNCHANGED <<asset, object, completing, bundle, uploads, late>>

\* buildDiagramBundle: the scene, the ready rows of this diagram, then each object
ReferencedAssetIds(h) ==
    /\ bundle' = [pc |-> "scene", home |-> h, refs |-> refs[h], files |-> {}]
    /\ UNCHANGED <<asset, object, completing, refs, uploads, late>>
ReadyRows(h, ids) == {a \in ids : asset[a].home = h /\ asset[a].st = "ready"}
BuildDiagramBundle ==
    /\ bundle.pc = "scene"
    /\ LET rows == ReadyRows(bundle.home, bundle.refs) IN
       bundle' = IF \E a \in rows : object[asset[a].key] = NoObject
                 THEN [bundle EXCEPT !.pc = "error"]
                 ELSE [pc |-> "built", home |-> bundle.home, refs |-> bundle.refs,
                       files |-> {[a |-> a, bytes |-> object[asset[a].key]] : a \in rows}]
    /\ UNCHANGED <<asset, object, completing, refs, uploads, late>>

AssetNext ==
    \/ \E a \in AssetIds : \/ \E h \in Homes : InsertPendingAsset(a, h)
                           \/ \E content \in Contents : Upload(a, content)
                           \/ \E c \in Completions : Complete(c, a)
    \/ \E c \in Completions : \/ FetchObject(c) \/ PutSanitized(c) \/ FindReadyAssetByChecksum(c)
                              \/ MarkAssetReady(c) \/ CompletionFails(c)
    \/ \E h \in Homes : \/ \E ids \in SUBSET AssetIds : AppendImages(h, ids)
                        \/ ReferencedAssetIds(h)
    \/ BuildDiagramBundle

AssetSpec == AssetInit /\ [][AssetNext]_assetVars

-----------------------------------------------------------------------------
\* EDT-06, "an image element is never ACKed with a broken asset reference" (assertAssetsReady.ts:25), and EXP-02:
\* however completions of the same and of equal uploads overlap and wherever they fail, an acknowledged image refers
\* to an object that is in storage, the one its row has the checksum of unless the client uploaded again behind a
\* completion; and a bundle packs every image of the scene it read that was uploaded for its own diagram.
AcknowledgedImagesExist ==
    /\ \A h \in Homes : \A a \in refs[h] :
         LET r == asset[a] IN
         /\ object[r.key] # NoObject
         /\ r.key \in late \/ object[r.key] = r.sum
    /\ bundle.pc # "error"
    /\ bundle.pc = "built" => {f.a : f \in bundle.files} = {a \in bundle.refs : asset[a].home = bundle.home}
=============================================================================
