---------------------------- MODULE ScreenProofs ----------------------------
(***************************************************************************)
(* Proofs about the panels of the editor page, the images behind them and  *)
(* the agent that draws for the AI dock, for any number of calls in        *)
(* flight, dialogs, runs, files, assets, uploads and tool calls: an        *)
(* acknowledged image exists and a bundle packs it, a restore dialog       *)
(* restores at most once, undo is of the run applied last, what is         *)
(* imported is what was shown, and the agent's patch lands as previewed    *)
(* and leaves no reference dangling.  The components share no state; each  *)
(* section states its component's inductive invariant first.               *)
(***************************************************************************)
EXTENDS Assets, History, Dock, Transfers, Agent, TLAPS

-----------------------------------------------------------------------------
(* The image assets.                                                       *)

AssetRow == [st : {"unborn", "pending", "ready"}, home : Homes \cup {NoAsset},
             key : AssetIds \cup {NoAsset}, sum : Contents \cup {NoObject, "drawing"}]
Completion == [pc : {"idle", "row", "fetched", "clean", "mark"}, a : AssetIds \cup {NoAsset},
               bytes : Contents \cup {NoObject, "drawing"}, target : AssetIds \cup {NoAsset}]

AssetTypeOK ==
  /\ asset \in [AssetIds -> AssetRow]
  /\ object \in [AssetIds -> Contents \cup {NoObject, "drawing"}]
  /\ completing \in [Completions -> Completion]
  /\ refs \in [Homes -> SUBSET AssetIds]

\* The object under t is the one the bytes were read from, or the client has
\* uploaded there since.
Holds(t, bytes) ==
  /\ t \in AssetIds /\ object[t] # NoObject /\ bytes # "raw"
  /\ t \in late \/ object[t] = bytes

\* A completion past the read: another one may have sanitized the same object.
Fetched(c) ==
  completing[c].pc = "fetched" =>
    /\ completing[c].bytes # NoObject /\ object[completing[c].a] # NoObject
    /\ \/ completing[c].a \in late
       \/ object[completing[c].a] = completing[c].bytes
       \/ completing[c].bytes = "raw" /\ object[completing[c].a] = "drawing"

Clean(c) == completing[c].pc = "clean" => Holds(completing[c].a, completing[c].bytes)

Marking(c) ==
  completing[c].pc = "mark" =>
    /\ Holds(completing[c].target, completing[c].bytes)
    /\ completing[c].target = completing[c].a \/ asset[completing[c].target].st = "ready"

\* A completion is of an asset that exists.
Completing(c) ==
  completing[c].pc # "idle" => completing[c].a \in AssetIds /\ asset[completing[c].a].st # "unborn"

\* A ready row points at an object whose own row is ready: an upload there is seen as late.
Ready(a) ==
  asset[a].st = "ready" => Holds(asset[a].key, asset[a].sum) /\ asset[asset[a].key].st = "ready"

RefsReady == \A h \in Homes : \A a \in refs[h] : asset[a].st = "ready"

BundleSound ==
  /\ bundle.pc # "error"
  /\ bundle.refs \subseteq AssetIds
  /\ \A a \in bundle.refs : asset[a].st = "ready"
  /\ bundle.pc = "built" => {f.a : f \in bundle.files} = {a \in bundle.refs : asset[a].home = bundle.home}

AssetInv ==
  /\ AssetTypeOK
  /\ \A c \in Completions : Fetched(c) /\ Clean(c) /\ Marking(c) /\ Completing(c)
  /\ \A a \in AssetIds : Ready(a)
  /\ RefsReady /\ BundleSound

\* Every step keeps the types.
LEMMA AssetTypeStep ==
  AssetInv /\ [AssetNext]_assetVars => AssetTypeOK'
<1> SUFFICES ASSUME AssetInv, [AssetNext]_assetVars PROVE AssetTypeOK'
  OBVIOUS
<1> USE DEF AssetInv, AssetTypeOK, AssetRow, Completion, NoCompletion
<1>1. ASSUME NEW a \in AssetIds, NEW h \in Homes, InsertPendingAsset(a, h) PROVE AssetTypeOK'
  BY <1>1 DEF InsertPendingAsset
<1>2. ASSUME NEW a \in AssetIds, NEW content \in Contents, Upload(a, content) PROVE AssetTypeOK'
  BY <1>2 DEF Upload
<1>3. ASSUME NEW c \in Completions, NEW a \in AssetIds, Complete(c, a) PROVE AssetTypeOK'
  BY <1>3 DEF Complete
<1>4. ASSUME NEW c \in Completions, FetchObject(c) PROVE AssetTypeOK'
  <2>1. CASE object[completing[c].a] = NoObject
    BY <1>4, <2>1 DEF FetchObject, EndCompletion
  <2>2. CASE object[completing[c].a] # NoObject
    <3>1. completing[c].a \in AssetIds
      BY <1>4 DEF FetchObject, Completing
    <3>2. completing' = [completing EXCEPT ![c] = [pc |-> "fetched", a |-> completing[c].a,
                                                   bytes |-> object[completing[c].a], target |-> NoAsset]]
      BY <1>4, <2>2 DEF FetchObject
    <3>3. completing' \in [Completions -> Completion]
      BY <3>1, <3>2
    <3>4. QED
      BY <1>4, <3>3 DEF FetchObject
  <2>3. QED
    BY <2>1, <2>2
<1>5. ASSUME NEW c \in Completions, PutSanitized(c) PROVE AssetTypeOK'
  <2>1. SanitizeSvg(completing[c].bytes) \in Contents \cup {NoObject, "drawing"}
    BY DEF SanitizeSvg
  <2>2. object' \in [AssetIds -> Contents \cup {NoObject, "drawing"}]
    BY <1>5, <2>1 DEF PutSanitized
  <2>3. completing' \in [Completions -> Completion]
    BY <1>5, <2>1 DEF PutSanitized
  <2>4. QED
    BY <1>5, <2>2, <2>3 DEF PutSanitized
<1>6. ASSUME NEW c \in Completions, FindReadyAssetByChecksum(c) PROVE AssetTypeOK'
  <2> DEFINE k == completing[c]
             To(t) == completing' = [completing EXCEPT ![c] = [pc |-> "mark", a |-> k.a, bytes |-> k.bytes, target |-> t]]
  <2>1. \E t \in AssetIds \cup {NoAsset} : To(t)
    <3>1. CASE SameChecksum(k.bytes, k.a) = {}
      <4>1. To(k.a)
        BY <1>6, <3>1 DEF FindReadyAssetByChecksum
      <4>2. QED
        BY <4>1
    <3>2. CASE SameChecksum(k.bytes, k.a) # {}
      <4>1. PICK t \in {asset[b].key : b \in SameChecksum(k.bytes, k.a)} : To(t)
        BY <1>6, <3>2 DEF FindReadyAssetByChecksum
      <4>2. t \in AssetIds \cup {NoAsset}
        BY DEF SameChecksum
      <4>3. QED
        BY <4>1, <4>2
    <3>3. QED
      BY <3>1, <3>2
  <2>2. PICK t \in AssetIds \cup {NoAsset} : To(t)
    BY <2>1
  <2>3. completing' \in [Completions -> Completion]
    BY <2>2
  <2>4. QED
    BY <1>6, <2>3 DEF FindReadyAssetByChecksum
<1>7. ASSUME NEW c \in Completions, MarkAssetReady(c) PROVE AssetTypeOK'
  <2>1. completing[c].a \in AssetIds
    BY <1>7 DEF MarkAssetReady, Completing
  <2>2. asset' \in [AssetIds -> AssetRow]
    BY <1>7, <2>1 DEF MarkAssetReady
  <2>3. completing' \in [Completions -> Completion]
    BY <1>7 DEF MarkAssetReady, EndCompletion
  <2>4. QED
    BY <1>7, <2>2, <2>3 DEF MarkAssetReady
<1>8. ASSUME NEW c \in Completions, CompletionFails(c) PROVE AssetTypeOK'
  BY <1>8 DEF CompletionFails, EndCompletion
<1>9. ASSUME NEW h \in Homes, NEW ids \in SUBSET AssetIds, AppendImages(h, ids) PROVE AssetTypeOK'
  BY <1>9 DEF AppendImages, NonReadyAssetIds
<1>10. ASSUME NEW h \in Homes, ReferencedAssetIds(h) PROVE AssetTypeOK'
  BY <1>10 DEF ReferencedAssetIds
<1>11. ASSUME BuildDiagramBundle PROVE AssetTypeOK'
  BY <1>11 DEF BuildDiagramBundle, ReadyRows
<1>12. CASE UNCHANGED assetVars
  BY <1>12 DEF assetVars
<1>13. QED
  BY <1>1, <1>2, <1>3, <1>4, <1>5, <1>6, <1>7, <1>8, <1>9, <1>10, <1>11, <1>12 DEF AssetNext

\* Rows that are ready stay so, and keep their diagram.
LEMMA ReadyStays ==
  ASSUME AssetInv, [AssetNext]_assetVars, NEW x \in AssetIds
  PROVE  /\ asset[x].st = "ready" => asset'[x].st = "ready"
         /\ asset[x].st # "unborn" => asset'[x].st # "unborn" /\ asset'[x].home = asset[x].home
         /\ x \in late => x \in late'
         /\ object[x] # NoObject => object'[x] # NoObject
<1> USE AssetAssumption DEF AssetInv, AssetTypeOK, AssetRow
<1> DEFINE P == /\ asset[x].st = "ready" => asset'[x].st = "ready"
                /\ asset[x].st # "unborn" => asset'[x].st # "unborn" /\ asset'[x].home = asset[x].home
                /\ x \in late => x \in late'
                /\ object[x] # NoObject => object'[x] # NoObject
<1>1. ASSUME NEW a \in AssetIds, NEW h \in Homes, InsertPendingAsset(a, h) PROVE P
  BY <1>1 DEF InsertPendingAsset
<1>2. ASSUME NEW a \in AssetIds, NEW content \in Contents, Upload(a, content) PROVE P
  BY <1>2 DEF Upload
<1>3. ASSUME NEW c \in Completions, NEW a \in AssetIds, Complete(c, a) PROVE P
  BY <1>3 DEF Complete
<1>4. ASSUME NEW c \in Completions, FetchObject(c) PROVE P
  BY <1>4 DEF FetchObject, EndCompletion
<1>5. ASSUME NEW c \in Completions, PutSanitized(c) PROVE P
  BY <1>5 DEF PutSanitized, SanitizeSvg, Fetched, NoObject
<1>6. ASSUME NEW c \in Completions, FindReadyAssetByChecksum(c) PROVE P
  BY <1>6 DEF FindReadyAssetByChecksum, SameChecksum
<1>7. ASSUME NEW c \in Completions, MarkAssetReady(c) PROVE P
  BY <1>7 DEF MarkAssetReady, EndCompletion, Completing
<1>8. ASSUME NEW c \in Completions, CompletionFails(c) PROVE P
  BY <1>8 DEF CompletionFails, EndCompletion
<1>9. ASSUME NEW h \in Homes, NEW ids \in SUBSET AssetIds, AppendImages(h, ids) PROVE P
  BY <1>9 DEF AppendImages, NonReadyAssetIds
<1>10. ASSUME NEW h \in Homes, ReferencedAssetIds(h) PROVE P
  BY <1>10 DEF ReferencedAssetIds
<1>11. ASSUME BuildDiagramBundle PROVE P
  BY <1>11 DEF BuildDiagramBundle, ReadyRows
<1>12. CASE UNCHANGED assetVars
  BY <1>12 DEF assetVars
<1>13. QED
  BY <1>1, <1>2, <1>3, <1>4, <1>5, <1>6, <1>7, <1>8, <1>9, <1>10, <1>11, <1>12 DEF AssetNext

\* Only an upload and a sanitized copy change objects.
LEMMA ObjectsChange ==
  ASSUME [AssetNext]_assetVars
  PROVE  \/ \E a \in AssetIds, content \in Contents : Upload(a, content)
         \/ \E c \in Completions : PutSanitized(c)
         \/ UNCHANGED <<object, late>>
<1>1. ASSUME NEW a \in AssetIds, NEW h \in Homes, InsertPendingAsset(a, h) PROVE UNCHANGED <<object, late>>
  BY <1>1 DEF InsertPendingAsset
<1>2. ASSUME NEW c \in Completions, NEW a \in AssetIds, Complete(c, a) PROVE UNCHANGED <<object, late>>
  BY <1>2 DEF Complete
<1>3. ASSUME NEW c \in Completions, FetchObject(c) PROVE UNCHANGED <<object, late>>
  BY <1>3 DEF FetchObject
<1>4. ASSUME NEW c \in Completions, FindReadyAssetByChecksum(c) PROVE UNCHANGED <<object, late>>
  BY <1>4 DEF FindReadyAssetByChecksum
<1>5. ASSUME NEW c \in Completions, MarkAssetReady(c) PROVE UNCHANGED <<object, late>>
  BY <1>5 DEF MarkAssetReady
<1>6. ASSUME NEW c \in Completions, CompletionFails(c) PROVE UNCHANGED <<object, late>>
  BY <1>6 DEF CompletionFails
<1>7. ASSUME NEW h \in Homes, NEW ids \in SUBSET AssetIds, AppendImages(h, ids) PROVE UNCHANGED <<object, late>>
  BY <1>7 DEF AppendImages
<1>8. ASSUME NEW h \in Homes, ReferencedAssetIds(h) PROVE UNCHANGED <<object, late>>
  BY <1>8 DEF ReferencedAssetIds
<1>9. ASSUME BuildDiagramBundle PROVE UNCHANGED <<object, late>>
  BY <1>9 DEF BuildDiagramBundle
<1>10. UNCHANGED assetVars => UNCHANGED <<object, late>>
  BY DEF assetVars
<1>11. QED
  BY <1>1, <1>2, <1>3, <1>4, <1>5, <1>6, <1>7, <1>8, <1>9, <1>10 DEF AssetNext

\* An asset that is ready, or whose completion is past the read.
Watched(t) ==
  \/ asset[t].st = "ready"
  \/ \E c \in Completions : completing[c].a = t /\ completing[c].pc \notin {"idle", "row"}

\* An object that is watched is changed behind nobody's back.
LEMMA HoldsStays ==
  ASSUME AssetInv, [AssetNext]_assetVars, NEW t, NEW bytes, Holds(t, bytes), Watched(t)
  PROVE  Holds(t, bytes)'
<1>1. t \in AssetIds /\ object'[t] # NoObject /\ (t \in late => t \in late')
  BY ReadyStays DEF Holds
<1>2. ASSUME NEW a \in AssetIds, NEW content \in Contents, Upload(a, content) PROVE t \in late' \/ object'[t] = bytes
  <2>1. CASE t = a
    BY <1>2, <2>1 DEF Upload, Watched
  <2>2. CASE t # a
    BY <1>1, <1>2, <2>2 DEF Upload, Holds, AssetInv, AssetTypeOK
  <2>3. QED
    BY <2>1, <2>2
<1>3. ASSUME NEW c \in Completions, PutSanitized(c) PROVE t \in late' \/ object'[t] = bytes
  <2>1. CASE completing[c].bytes = "raw" /\ t = completing[c].a
    <3>1. t \in late \/ object[t] \in {"raw", "drawing"}
      BY <1>3, <2>1 DEF PutSanitized, AssetInv, Fetched
    <3>2. t \in late \/ bytes = "drawing"
      BY <3>1 DEF Holds
    <3>3. object'[t] = "drawing"
      BY <1>1, <1>3, <2>1 DEF PutSanitized, SanitizeSvg, AssetInv, AssetTypeOK
    <3>4. QED
      BY <1>1, <3>2, <3>3
  <2>2. CASE ~(completing[c].bytes = "raw" /\ t = completing[c].a)
    <3>1. object'[t] = object[t]
      BY <1>1, <1>3, <2>2 DEF PutSanitized, SanitizeSvg, AssetInv, AssetTypeOK
    <3>2. QED
      BY <1>1, <3>1 DEF Holds
  <2>3. QED
    BY <2>1, <2>2
<1>4. QED
  BY <1>1, <1>2, <1>3, ObjectsChange DEF Holds

\* So is the object of a completion that has read it.
LEMMA FetchedStays ==
  ASSUME AssetInv, [AssetNext]_assetVars, NEW d \in Completions, completing'[d] = completing[d]
  PROVE  Fetched(d)'
<1> DEFINE t == completing[d].a
<1>1. SUFFICES ASSUME completing[d].pc = "fetched" PROVE Fetched(d)'
  BY DEF Fetched
<1>2. t \in AssetIds /\ object[t] # NoObject /\ completing[d].bytes # NoObject
  BY <1>1 DEF AssetInv, Fetched, Completing
<1>3. object'[t] # NoObject /\ (t \in late => t \in late')
  BY <1>2, ReadyStays
<1>4. ASSUME NEW a \in AssetIds, NEW content \in Contents, Upload(a, content) PROVE Fetched(d)'
  <2>1. CASE t = a
    <3>1. t \in late'
      BY <1>1, <1>4, <2>1 DEF Upload
    <3>2. QED
      BY <1>2, <1>3, <3>1 DEF Fetched
  <2>2. CASE t # a
    <3>1. object'[t] = object[t]
      BY <1>2, <1>4, <2>2 DEF Upload, AssetInv, AssetTypeOK
    <3>2. QED
      BY <1>1, <1>2, <1>3, <3>1 DEF Fetched, AssetInv
  <2>3. QED
    BY <2>1, <2>2
<1>5. ASSUME NEW c \in Completions, PutSanitized(c) PROVE Fetched(d)'
  <2>1. CASE completing[c].bytes = "raw" /\ t = completing[c].a
    <3>1. t \in late \/ object[t] \in {"raw", "drawing"}
      BY <1>5, <2>1 DEF PutSanitized, AssetInv, Fetched
    <3>2. t \in late \/ completing[d].bytes \in {"raw", "drawing"}
      BY <1>1, <3>1 DEF AssetInv, Fetched
    <3>3. object'[t] = "drawing"
      BY <1>2, <1>5, <2>1 DEF PutSanitized, SanitizeSvg, AssetInv, AssetTypeOK
    <3>4. QED
      BY <1>2, <1>3, <3>2, <3>3 DEF Fetched
  <2>2. CASE ~(completing[c].bytes = "raw" /\ t = completing[c].a)
    <3>1. object'[t] = object[t]
      BY <1>2, <1>5, <2>2 DEF PutSanitized, SanitizeSvg, AssetInv, AssetTypeOK
    <3>2. QED
      BY <1>1, <1>2, <1>3, <3>1 DEF Fetched, AssetInv
  <2>3. QED
    BY <2>1, <2>2
<1>6. CASE UNCHANGED <<object, late>>
  BY <1>1, <1>6 DEF Fetched, AssetInv
<1>7. QED
  BY <1>4, <1>5, <1>6, ObjectsChange

\* What a completion that waits relies on stays true.
LEMMA WaitingKeeps ==
  ASSUME AssetInv, [AssetNext]_assetVars, NEW d \in Completions, completing'[d] = completing[d]
  PROVE  Fetched(d)' /\ Clean(d)' /\ Marking(d)' /\ Completing(d)'
<1> DEFINE k == completing[d]
<1>1. Completing(d)'
  BY ReadyStays DEF AssetInv, Completing
<1>2. Clean(d)'
  <2>1. k.pc = "clean" => Holds(k.a, k.bytes) /\ Watched(k.a)
    BY DEF AssetInv, Clean, Watched
  <2>2. k.pc = "clean" => Holds(k.a, k.bytes)'
    BY <2>1, HoldsStays
  <2>3. QED
    BY <2>2 DEF Clean, Holds
<1>3. Marking(d)'
  <2>1. SUFFICES ASSUME k.pc = "mark" PROVE Marking(d)'
    BY DEF Marking
  <2>2. Holds(k.target, k.bytes) /\ (k.target = k.a \/ asset[k.target].st = "ready")
    BY <2>1 DEF AssetInv, Marking
  <2>3. Watched(k.target)
    BY <2>1, <2>2 DEF Watched
  <2>4. Holds(k.target, k.bytes)'
    BY <2>2, <2>3, HoldsStays
  <2>5. k.target = k.a \/ asset'[k.target].st = "ready"
    BY <2>2, ReadyStays DEF Holds
  <2>6. QED
    BY <2>4, <2>5 DEF Marking, Holds
<1>4. QED
  BY <1>1, <1>2, <1>3, FetchedStays

\* What a ready row says stays true.
LEMMA ReadyKeeps ==
  ASSUME AssetInv, [AssetNext]_assetVars, NEW x \in AssetIds, asset'[x] = asset[x]
  PROVE  Ready(x)'
<1>1. SUFFICES ASSUME asset[x].st = "ready" PROVE Ready(x)'
  BY DEF Ready
<1>2. Holds(asset[x].key, asset[x].sum) /\ asset[asset[x].key].st = "ready"
  BY <1>1 DEF AssetInv, Ready
<1>3. Holds(asset[x].key, asset[x].sum)'
  BY <1>2, HoldsStays DEF Watched
<1>4. asset'[asset[x].key].st = "ready"
  BY <1>2, ReadyStays DEF Holds
<1>5. QED
  BY <1>3, <1>4 DEF Ready, Holds

\* Rows change only when they are made and when they are marked.
LEMMA RowsStep ==
  ASSUME AssetInv, [AssetNext]_assetVars
  PROVE  \A x \in AssetIds : Ready(x)'
<1> USE DEF AssetInv, AssetTypeOK, AssetRow
<1>1. CASE UNCHANGED asset
  BY <1>1, ReadyKeeps
<1>2. ASSUME NEW a \in AssetIds, NEW h \in Homes, InsertPendingAsset(a, h) PROVE \A x \in AssetIds : Ready(x)'
  <2>1. asset'[a].st = "pending"
    BY <1>2 DEF InsertPendingAsset
  <2>2. \A x \in AssetIds \ {a} : asset'[x] = asset[x]
    BY <1>2 DEF InsertPendingAsset
  <2>3. QED
    BY <2>1, <2>2, ReadyKeeps DEF Ready
<1>3. ASSUME NEW c \in Completions, MarkAssetReady(c) PROVE \A x \in AssetIds : Ready(x)'
  <2> DEFINE k == completing[c]
  <2>1. k.a \in AssetIds
    BY <1>3 DEF MarkAssetReady, Completing
  <2>2. asset'[k.a].st = "ready" /\ asset'[k.a].key = k.target /\ asset'[k.a].sum = k.bytes
    BY <1>3, <2>1 DEF MarkAssetReady
  <2>3. \A x \in AssetIds \ {k.a} : asset'[x] = asset[x]
    BY <1>3, <2>1 DEF MarkAssetReady
  <2>4. PICK a, t, bytes : a = k.a /\ t = k.target /\ bytes = k.bytes
    OBVIOUS
  <2>5. Holds(t, bytes) /\ (t = a \/ asset[t].st = "ready")
    BY <1>3, <2>4 DEF MarkAssetReady, Marking
  <2>6. Holds(t, bytes)'
    BY <1>3, <2>5 DEF MarkAssetReady, Holds
  <2>7. asset'[t].st = "ready"
    BY <2>2, <2>4, <2>5, ReadyStays DEF Holds
  <2>8. Ready(a)'
    BY <2>2, <2>4, <2>6, <2>7 DEF Ready, Holds
  <2>9. QED
    BY <2>3, <2>4, <2>8, ReadyKeeps
<1>4. QED
  BY <1>1, <1>2, <1>3 DEF AssetNext, assetVars, Upload, Complete, FetchObject, PutSanitized, FindReadyAssetByChecksum,
                          CompletionFails, AppendImages, ReferencedAssetIds, BuildDiagramBundle

\* An idle completion relies on nothing.
LEMMA IdleKeeps ==
  ASSUME NEW d \in Completions, completing'[d].pc = "idle"
  PROVE  Fetched(d)' /\ Clean(d)' /\ Marking(d)' /\ Completing(d)'
BY DEF Fetched, Clean, Marking, Completing

\* Every step of a completion keeps what it and the others rely on.
LEMMA CompletionsStep ==
  ASSUME AssetInv, [AssetNext]_assetVars
  PROVE  \A d \in Completions : Fetched(d)' /\ Clean(d)' /\ Marking(d)' /\ Completing(d)'
<1> DEFINE Good(d) == Fetched(d)' /\ Clean(d)' /\ Marking(d)' /\ Completing(d)'
<1> SUFFICES \A d \in Completions : Good(d)
  OBVIOUS
<1> USE DEF AssetInv, AssetTypeOK, Completion
<1>1. CASE UNCHANGED completing
  BY <1>1, WaitingKeeps
<1>2. ASSUME NEW c \in Completions, NEW a \in AssetIds, Complete(c, a) PROVE \A d \in Completions : Good(d)
  <2>1. \A d \in Completions \ {c} : completing'[d] = completing[d]
    BY <1>2 DEF Complete
  <2>2. completing'[c].pc = "row" /\ completing'[c].a = a /\ asset' = asset /\ asset[a].st = "pending"
    BY <1>2 DEF Complete, NoCompletion
  <2>3. Good(c)
    BY <2>2 DEF Fetched, Clean, Marking, Completing
  <2>4. QED
    BY <2>1, <2>3, WaitingKeeps
<1>3. ASSUME NEW c \in Completions, FetchObject(c) PROVE \A d \in Completions : Good(d)
  <2> DEFINE a == completing[c].a
  <2>1. \A d \in Completions \ {c} : completing'[d] = completing[d]
    BY <1>3 DEF FetchObject, EndCompletion
  <2>2. CASE object[a] = NoObject
    <3>1. completing'[c].pc = "idle"
      BY <1>3, <2>2 DEF FetchObject, EndCompletion, NoCompletion
    <3>2. QED
      BY <2>1, <3>1, WaitingKeeps, IdleKeeps
  <2>3. CASE object[a] # NoObject
    <3>1. completing'[c] = [pc |-> "fetched", a |-> a, bytes |-> object[a], target |-> NoAsset]
      BY <1>3, <2>3 DEF FetchObject
    <3>2. UNCHANGED <<asset, object, late>> /\ Completing(c) /\ completing[c].pc = "row"
      BY <1>3 DEF FetchObject
    <3>3. Good(c)
      BY <2>3, <3>1, <3>2 DEF Fetched, Clean, Marking, Completing
    <3>4. QED
      BY <2>1, <3>3, WaitingKeeps
  <2>4. QED
    BY <2>2, <2>3
<1>4. ASSUME NEW c \in Completions, PutSanitized(c) PROVE \A d \in Completions : Good(d)
  <2> DEFINE k == completing[c]
  <2>1. \A d \in Completions \ {c} : completing'[d] = completing[d]
    BY <1>4 DEF PutSanitized
  <2>2. completing'[c] = [pc |-> "clean", a |-> k.a, bytes |-> SanitizeSvg(k.bytes), target |-> NoAsset]
    BY <1>4 DEF PutSanitized
  <2>3. Fetched(c) /\ Completing(c) /\ k.pc = "fetched" /\ UNCHANGED <<asset, late>>
    BY <1>4 DEF PutSanitized
  <2>4. PICK a, bytes : a = k.a /\ bytes = SanitizeSvg(k.bytes)
    OBVIOUS
  <2>5. Holds(a, bytes)'
    <3>1. a \in AssetIds /\ object'[a] # NoObject
      BY <2>3, <2>4, ReadyStays DEF Fetched, Completing
    <3>2. CASE k.bytes = "raw"
      <4>1. object'[a] = "drawing" /\ bytes = "drawing"
        BY <1>4, <2>4, <3>1, <3>2 DEF PutSanitized, SanitizeSvg
      <4>2. QED
        BY <3>1, <4>1 DEF Holds
    <3>3. CASE k.bytes # "raw"
      <4>1. object' = object /\ bytes = k.bytes
        BY <1>4, <2>4, <3>3 DEF PutSanitized, SanitizeSvg
      <4>2. QED
        BY <2>3, <2>4, <3>1, <3>3, <4>1 DEF Holds, Fetched
    <3>4. QED
      BY <3>2, <3>3
  <2>6. completing'[c].a = a /\ completing'[c].bytes = bytes /\ completing'[c].pc = "clean"
    BY <2>2, <2>4
  <2>7. Completing(c)'
    BY <2>3, <2>4, <2>6 DEF Completing
  <2>8. Good(c)
    BY <2>5, <2>6, <2>7 DEF Fetched, Clean, Marking, Holds
  <2>9. QED
    BY <2>1, <2>8, WaitingKeeps
<1>5. ASSUME NEW c \in Completions, FindReadyAssetByChecksum(c) PROVE \A d \in Completions : Good(d)
  <2> DEFINE k == completing[c]
             To(t) == completing' = [completing EXCEPT ![c] = [pc |-> "mark", a |-> k.a, bytes |-> k.bytes, target |-> t]]
             Fit(t) == Holds(t, k.bytes) /\ (t = k.a \/ asset[t].st = "ready")
  <2>1. Clean(c) /\ Completing(c) /\ k.pc = "clean" /\ UNCHANGED <<asset, object, late>>
    BY <1>5 DEF FindReadyAssetByChecksum
  <2>2. \E t \in AssetIds : To(t) /\ Fit(t)
    <3>1. CASE SameChecksum(k.bytes, k.a) = {}
      <4>1. To(k.a)
        BY <1>5, <3>1 DEF FindReadyAssetByChecksum
      <4>2. Fit(k.a) /\ k.a \in AssetIds
        BY <2>1 DEF Clean, Holds
      <4>3. QED
        BY <4>1, <4>2
    <3>2. CASE SameChecksum(k.bytes, k.a) # {}
      <4>1. PICK t \in {asset[b].key : b \in SameChecksum(k.bytes, k.a)} : To(t)
        BY <1>5, <3>2 DEF FindReadyAssetByChecksum
      <4>2. PICK b \in AssetIds : t = asset[b].key /\ asset[b].st = "ready" /\ asset[b].sum = k.bytes
        BY <4>1 DEF SameChecksum
      <4>3. Fit(t) /\ t \in AssetIds
        BY <4>2 DEF Ready, Holds
      <4>4. QED
        BY <4>1, <4>3
    <3>3. QED
      BY <3>1, <3>2
  <2>3. PICK t \in AssetIds : To(t) /\ Fit(t)
    BY <2>2
  <2>4. \A d \in Completions \ {c} : completing'[d] = completing[d]
    BY <2>3
  <2>5. completing'[c] = [pc |-> "mark", a |-> k.a, bytes |-> k.bytes, target |-> t]
    BY <2>3
  <2>6. Good(c)
    BY <2>1, <2>3, <2>5 DEF Fetched, Clean, Marking, Completing, Holds
  <2>7. QED
    BY <2>4, <2>6, WaitingKeeps
<1>6. ASSUME NEW c \in Completions, MarkAssetReady(c) \/ CompletionFails(c) PROVE \A d \in Completions : Good(d)
  <2>1. completing' = [completing EXCEPT ![c] = NoCompletion]
    BY <1>6 DEF MarkAssetReady, CompletionFails, EndCompletion
  <2>2. \A d \in Completions \ {c} : completing'[d] = completing[d]
    BY <2>1
  <2>3. completing'[c].pc = "idle"
    BY <2>1 DEF NoCompletion
  <2>4. QED
    BY <2>2, <2>3, WaitingKeeps, IdleKeeps
<1>7. QED
  BY <1>1, <1>2, <1>3, <1>4, <1>5, <1>6 DEF AssetNext, assetVars, InsertPendingAsset, Upload, AppendImages,
                                            ReferencedAssetIds, BuildDiagramBundle

\* Every step keeps the references and the bundle sound.
LEMMA RefsStep ==
  ASSUME AssetInv, [AssetNext]_assetVars
  PROVE  RefsReady' /\ BundleSound'
<1> USE DEF AssetInv, AssetTypeOK
<1>1. RefsReady'
  <2>1. \A h \in Homes : \A a \in refs'[h] : a \in AssetIds /\ asset[a].st = "ready"
    <3>1. ASSUME NEW h \in Homes, NEW ids \in SUBSET AssetIds, AppendImages(h, ids)
          PROVE  \A g \in Homes : \A a \in refs'[g] : a \in AssetIds /\ asset[a].st = "ready"
      BY <3>1 DEF AppendImages, NonReadyAssetIds, RefsReady
    <3>2. CASE UNCHANGED refs
      BY <3>2 DEF RefsReady
    <3>3. QED
      BY <3>1, <3>2 DEF AssetNext, assetVars, InsertPendingAsset, Upload, Complete, FetchObject, PutSanitized,
                        FindReadyAssetByChecksum, MarkAssetReady, CompletionFails, ReferencedAssetIds, BuildDiagramBundle
  <2>2. QED
    BY <2>1, ReadyStays DEF RefsReady
<1>2. BundleSound'
  <2>1. ASSUME NEW h \in Homes, ReferencedAssetIds(h) PROVE BundleSound'
    <3>1. asset' = asset /\ bundle' = [pc |-> "scene", home |-> h, refs |-> refs[h], files |-> {}]
      BY <2>1 DEF ReferencedAssetIds
    <3>2. QED
      BY <3>1 DEF BundleSound, RefsReady
  <2>2. CASE BuildDiagramBundle
    <3> DEFINE rows == ReadyRows(bundle.home, bundle.refs)
    <3>1. rows = {a \in bundle.refs : asset[a].home = bundle.home} /\ rows \subseteq AssetIds
      BY DEF ReadyRows, BundleSound
    <3>2. \A a \in rows : object[asset[a].key] # NoObject
      BY DEF ReadyRows, BundleSound, Ready, Holds
    <3>3. bundle' = [pc |-> "built", home |-> bundle.home, refs |-> bundle.refs,
                       files |-> {[a |-> a, bytes |-> object[asset[a].key]] : a \in rows}] /\ asset' = asset
      BY <2>2, <3>2 DEF BuildDiagramBundle
    <3>4. {f.a : f \in bundle'.files} = rows
      <4>1. bundle'.files = {[a |-> a, bytes |-> object[asset[a].key]] : a \in rows}
        BY <3>3
      <4>2. \A f \in bundle'.files : f.a \in rows
        BY <4>1
      <4>3. ASSUME NEW a \in rows PROVE \E f \in bundle'.files : f.a = a
        <5>1. [a |-> a, bytes |-> object[asset[a].key]] \in bundle'.files
          BY <4>1
        <5>2. QED
          BY <5>1
      <4>4. QED
        BY <4>2, <4>3
    <3>5. bundle'.pc = "built" /\ bundle'.home = bundle.home /\ bundle'.refs = bundle.refs
      BY <3>3
    <3>6. QED
      BY <3>1, <3>3, <3>4, <3>5 DEF BundleSound
  <2>3. CASE UNCHANGED bundle
    <3>1. \A a \in bundle.refs : asset'[a].st = "ready" /\ asset'[a].home = asset[a].home
      BY ReadyStays DEF BundleSound
    <3>2. QED
      BY <2>3, <3>1 DEF BundleSound
  <2>4. QED
    BY <2>1, <2>2, <2>3 DEF AssetNext, assetVars, InsertPendingAsset, Upload, Complete, FetchObject, PutSanitized,
                            FindReadyAssetByChecksum, MarkAssetReady, CompletionFails, AppendImages
<1>3. QED
  BY <1>1, <1>2

\* However completions overlap and wherever they fail, an acknowledged image
\* refers to an object that is there and is the one that was completed, and a
\* bundle packs every image of its own diagram (EDT-06, EXP-02).
THEOREM ImagesExist == AssetSpec => []AcknowledgedImagesExist
<1>1. AssetInit => AssetInv
  <2>1. AssetInit => AssetTypeOK
    BY DEF AssetInit, AssetTypeOK, AssetRow, Completion, NoRecord, NoCompletion
  <2>2. AssetInit => \A c \in Completions : Fetched(c) /\ Clean(c) /\ Marking(c) /\ Completing(c)
    BY DEF AssetInit, Fetched, Clean, Marking, Completing, NoCompletion
  <2>3. AssetInit => (\A a \in AssetIds : Ready(a)) /\ RefsReady /\ BundleSound
    BY DEF AssetInit, Ready, RefsReady, BundleSound, NoRecord, NoBundle
  <2>4. QED
    BY <2>1, <2>2, <2>3 DEF AssetInv
<1>2. AssetInv /\ [AssetNext]_assetVars => AssetInv'
  BY AssetTypeStep, CompletionsStep, RowsStep, RefsStep DEF AssetInv
<1>3. AssetInv => AcknowledgedImagesExist
  <2> SUFFICES ASSUME AssetInv PROVE AcknowledgedImagesExist
    OBVIOUS
  <2>1. ASSUME NEW h \in Homes, NEW a \in refs[h]
        PROVE  /\ object[asset[a].key] # NoObject
               /\ asset[a].key \in late \/ object[asset[a].key] = asset[a].sum
    BY <2>1 DEF AssetInv, AssetTypeOK, RefsReady, Ready, Holds
  <2>2. QED
    BY <2>1 DEF AcknowledgedImagesExist, AssetInv, BundleSound
<1>4. QED
  BY <1>1, <1>2, <1>3, PTL DEF AssetSpec

-----------------------------------------------------------------------------
(* The history panel.                                                      *)

HistoryOps == {"none", "list", "refresh", "relist", "pick", "create", "restore", "diff"}
HistoryCall == [op : HistoryOps, id : Nat, to : Nat, code : {"sent", "ok", "error", "not_found"},
                list : Seq(Nat), here : BOOLEAN]

Timeline == [status : {"closed", "loading", "ready", "error"}, items : Seq(Nat), target : Nat, mid : Nat, dialog : Nat]

Comparison ==
  [status : {"closed", "loading", "ready", "error"}, snaps : Seq(Nat), from : Nat, to : Nat, result : {"none", "diff"}]

PanelTypeOK ==
  /\ timeline \in Timeline
  /\ compare \in Comparison
  /\ historyCall \in [HistoryCalls -> HistoryCall]
  /\ taken \in Nat
  /\ minted \in Seq(Nat)
  /\ heard \in BOOLEAN

\* A clientMutationId belongs to one dialog: it was drawn while no other of that
\* dialog was, and the dialog that is open either holds its id or has yet to draw one.
OneIdPerDialog ==
  /\ \A m \in DOMAIN minted : minted[m] <= timeline.dialog
  /\ \A m, n \in DOMAIN minted : minted[m] = minted[n] => m = n
  /\ timeline.mid # 0 => timeline.mid \in DOMAIN minted
  /\ timeline.target # 0 /\ timeline.mid = 0 => \A m \in DOMAIN minted : minted[m] < timeline.dialog

\* What is asked for, or stored, was drawn.
IdsDrawn ==
  /\ restored \subseteq DOMAIN minted
  /\ \A c \in HistoryCalls : historyCall[c].op = "restore" => historyCall[c].id \in DOMAIN minted

\* A restore that is in the log and not on the canvas has a call that will bring it there.
Reloading(c) ==
  \/ historyCall[c].op = "restore" /\ historyCall[c].code = "ok"
  \/ historyCall[c].op = "refresh"

Reloads == heard => reloaded = restored \/ \E c \in HistoryCalls : Reloading(c)

PanelInv == PanelTypeOK /\ OneIdPerDialog /\ IdsDrawn /\ Reloads

\* A call of which nothing but the component it would tell is changed.
LEMMA CallsRest ==
  ASSUME PanelTypeOK, NEW c \in HistoryCalls, NEW k \in HistoryCall, historyCall' = [historyCall EXCEPT ![c] = k]
  PROVE  /\ historyCall' \in [HistoryCalls -> HistoryCall]
         /\ historyCall'[c] = k
         /\ \A d \in HistoryCalls \ {c} : historyCall'[d] = historyCall[d]
BY DEF PanelTypeOK

\* A step that draws, stores and reloads nothing, and changes one call that no
\* reload hung on.
LEMMA QuietStep ==
  ASSUME PanelInv, UNCHANGED <<minted, restored, reloaded, heard>>, PanelTypeOK',
         OneIdPerDialog',
         \A c \in HistoryCalls : historyCall'[c].op = "restore" => historyCall'[c].id \in DOMAIN minted,
         \A c \in HistoryCalls : Reloading(c) => Reloading(c)'
  PROVE  PanelInv'
<1>1. IdsDrawn'
  BY DEF PanelInv, IdsDrawn
<1>2. Reloads'
  BY DEF PanelInv, Reloads
<1>3. QED
  BY <1>1, <1>2 DEF PanelInv

\* The panel's dialog is as it was, or closed.
LEMMA DialogRests ==
  ASSUME PanelInv, UNCHANGED minted, timeline'.dialog = timeline.dialog,
         \/ timeline'.target = timeline.target /\ timeline'.mid = timeline.mid
         \/ timeline'.target = 0 /\ timeline'.mid \in {0, timeline.mid}
  PROVE  OneIdPerDialog'
BY DEF PanelInv, OneIdPerDialog

\* A new request.
LEMMA Asked ==
  ASSUME PanelTypeOK, NEW c \in HistoryCalls, NEW op \in HistoryOps, NEW id \in Nat, NEW to \in Nat, Ask(c, op, id, to)
  PROVE  /\ historyCall[c].op = "none"
         /\ historyCall' \in [HistoryCalls -> HistoryCall]
         /\ historyCall'[c].op = op /\ historyCall'[c].id = id
         /\ \A d \in HistoryCalls \ {c} : historyCall'[d] = historyCall[d]
<1>0. <<>> \in Seq(Nat)
  OBVIOUS
<1>1. [NoHistoryCall EXCEPT !.op = op, !.id = id, !.to = to, !.here = TRUE] \in HistoryCall
  BY <1>0 DEF NoHistoryCall, HistoryCall, HistoryOps
<1>2. [NoHistoryCall EXCEPT !.op = op, !.id = id, !.to = to, !.here = TRUE].op = op
      /\ [NoHistoryCall EXCEPT !.op = op, !.id = id, !.to = to, !.here = TRUE].id = id
  BY DEF NoHistoryCall
<1>3. QED
  BY <1>1, <1>2 DEF Ask, PanelTypeOK

\* A request that restores nothing leaves every reload to whom it was left.
LEMMA AskedQuietly ==
  ASSUME PanelTypeOK, NEW c \in HistoryCalls, NEW op \in HistoryOps \ {"restore"}, NEW id \in Nat, NEW to \in Nat,
         Ask(c, op, id, to), IdsDrawn
  PROVE  /\ \A d \in HistoryCalls : Reloading(d) => Reloading(d)'
         /\ \A d \in HistoryCalls : historyCall'[d].op = "restore" => historyCall'[d].id \in DOMAIN minted
BY Asked DEF Reloading, IdsDrawn

\* An answer leaves the question as it is.
LEMMA AnsweredCalls ==
  ASSUME PanelTypeOK, NEW c \in HistoryCalls, NEW code \in {"ok", "error", "not_found"}, NEW list \in Seq(Nat),
         HistoryAnswer(c, code, list)
  PROVE  /\ historyCall' \in [HistoryCalls -> HistoryCall]
         /\ historyCall'[c].op = historyCall[c].op /\ historyCall'[c].id = historyCall[c].id
         /\ historyCall'[c].code = code
         /\ \A d \in HistoryCalls \ {c} : historyCall'[d] = historyCall[d]
<1>1. historyCall[c] \in HistoryCall
  BY DEF PanelTypeOK
<1>2. [historyCall[c] EXCEPT !.code = code, !.list = list] \in HistoryCall
  BY <1>1 DEF HistoryCall
<1>3. historyCall' = [historyCall EXCEPT ![c] = [historyCall[c] EXCEPT !.code = code, !.list = list]]
  BY DEF HistoryAnswer
<1>4. QED
  BY <1>1, <1>2, <1>3 DEF PanelTypeOK, HistoryCall

\* A call that is over.
LEMMA DoneCalls ==
  ASSUME PanelTypeOK, NEW c \in HistoryCalls, Done(c)
  PROVE  /\ historyCall' \in [HistoryCalls -> HistoryCall]
         /\ historyCall'[c].op = "none"
         /\ \A d \in HistoryCalls \ {c} : historyCall'[d] = historyCall[d]
BY DEF PanelTypeOK, Done, NoHistoryCall, HistoryCall, HistoryOps

\* The panel: its requests.
LEMMA PanelAsks ==
  ASSUME PanelInv, NEW c \in HistoryCalls, OpenHistory(c) \/ HandleCreateSnapshot(c)
  PROVE  PanelInv'
<1>1. PanelTypeOK /\ IdsDrawn
  BY DEF PanelInv
<1>2. PICK op \in {"list", "create"} : Ask(c, op, 0, 0)
  BY DEF OpenHistory, HandleCreateSnapshot
<1>3. /\ timeline' \in Timeline
      /\ timeline'.dialog = timeline.dialog /\ timeline'.target = timeline.target /\ timeline'.mid = timeline.mid
  <2>0. timeline \in Timeline
    BY <1>1 DEF PanelTypeOK
  <2>1. timeline' = timeline \/ timeline' = [timeline EXCEPT !.status = "loading"]
    BY DEF OpenHistory, HandleCreateSnapshot
  <2>2. QED
    BY <2>0, <2>1 DEF Timeline
<1>4. UNCHANGED <<compare, taken, minted, restored, reloaded, heard>>
  BY DEF OpenHistory, HandleCreateSnapshot
<1>5. op \in HistoryOps \ {"restore"}
  BY DEF HistoryOps
<1>6. historyCall' \in [HistoryCalls -> HistoryCall]
  BY <1>1, <1>2, <1>5, Asked
<1>7. PanelTypeOK'
  BY <1>1, <1>3, <1>4, <1>6 DEF PanelTypeOK
<1>8. OneIdPerDialog'
  BY <1>3, <1>4, DialogRests
<1>9. QED
  BY <1>1, <1>2, <1>4, <1>5, <1>7, <1>8, AskedQuietly, QuietStep

\* The dialog is opened and closed, and the panel left.
LEMMA PanelCloses ==
  ASSUME PanelInv, CloseHistory \/ CancelRestore
  PROVE  PanelInv'
<1>1. PanelTypeOK
  BY DEF PanelInv
<1>2. /\ timeline' \in Timeline
      /\ timeline'.dialog = timeline.dialog /\ timeline'.target = 0 /\ timeline'.mid \in {0, timeline.mid}
  <2>0. timeline \in Timeline /\ timeline.dialog \in Nat /\ timeline.mid \in Nat
    BY <1>1 DEF PanelTypeOK, Timeline
  <2>1. \/ timeline' = [PanelClosed EXCEPT !.dialog = timeline.dialog]
        \/ timeline' = [timeline EXCEPT !.target = 0]
    BY DEF CloseHistory, CancelRestore, Closed
  <2>2. <<>> \in Seq(Nat)
    OBVIOUS
  <2>3. CASE timeline' = [PanelClosed EXCEPT !.dialog = timeline.dialog]
    BY <2>0, <2>2, <2>3 DEF Timeline, PanelClosed
  <2>4. CASE timeline' = [timeline EXCEPT !.target = 0]
    BY <2>0, <2>4 DEF Timeline
  <2>5. QED
    BY <2>1, <2>3, <2>4
<1>3. UNCHANGED <<compare, taken, minted, restored, reloaded, heard>>
  BY DEF CloseHistory, CancelRestore
<1>4. /\ historyCall' \in [HistoryCalls -> HistoryCall]
      /\ \A c \in HistoryCalls : /\ historyCall'[c].op = historyCall[c].op /\ historyCall'[c].id = historyCall[c].id
                                 /\ historyCall'[c].code = historyCall[c].code
  <2>1. CASE CloseHistory
    <3>1. ASSUME NEW c \in HistoryCalls
          PROVE  [historyCall[c] EXCEPT !.here = FALSE] \in HistoryCall
      BY <1>1 DEF PanelTypeOK, HistoryCall
    <3>2. QED
      BY <1>1, <2>1, <3>1 DEF CloseHistory, PanelTypeOK, HistoryCall
  <2>2. CASE CancelRestore
    BY <1>1, <2>2 DEF CancelRestore, PanelTypeOK
  <2>3. QED
    BY <2>1, <2>2
<1>5. PanelTypeOK'
  BY <1>1, <1>2, <1>3, <1>4 DEF PanelTypeOK
<1>6. OneIdPerDialog'
  BY <1>2, <1>3, DialogRests
<1>7. \A c \in HistoryCalls : historyCall'[c].op = "restore" => historyCall'[c].id \in DOMAIN minted
  BY <1>4 DEF PanelInv, IdsDrawn
<1>8. \A c \in HistoryCalls : Reloading(c) => Reloading(c)'
  BY <1>4 DEF Reloading
<1>9. QED
  BY <1>3, <1>5, <1>6, <1>7, <1>8, QuietStep

\* A new dialog has no id yet, and its number is above every one that drew one.
LEMMA DialogOpens ==
  ASSUME PanelInv, NEW i \in DOMAIN timeline.items, RequestRestore(i)
  PROVE  PanelInv'
<1>1. PanelTypeOK
  BY DEF PanelInv
<1>2. timeline \in Timeline /\ timeline.items \in Seq(Nat) /\ timeline.dialog \in Nat
  BY <1>1 DEF PanelTypeOK, Timeline
<1>3. timeline' = [timeline EXCEPT !.target = timeline.items[i], !.mid = 0, !.dialog = timeline.dialog + 1]
  BY DEF RequestRestore
<1>4. /\ timeline' \in Timeline
      /\ timeline'.dialog = timeline.dialog + 1 /\ timeline'.mid = 0
  <2>1. PICK item \in Nat : item = timeline.items[i]
    BY <1>2
  <2>2. PICK drawn \in Nat : drawn = timeline.dialog + 1
    BY <1>2
  <2>3. timeline' = [timeline EXCEPT !.target = item, !.mid = 0, !.dialog = drawn]
    BY <1>3, <2>1, <2>2
  <2>4. timeline' \in Timeline /\ timeline'.dialog = drawn /\ timeline'.mid = 0
    BY <1>2, <2>3 DEF Timeline
  <2>5. QED
    BY <2>2, <2>4
<1>5. UNCHANGED <<compare, historyCall, taken, minted, restored, reloaded, heard>>
  BY DEF RequestRestore
<1>6. PanelTypeOK'
  BY <1>1, <1>4, <1>5 DEF PanelTypeOK
<1>7. \A m \in DOMAIN minted : minted[m] \in Nat /\ timeline.dialog \in Nat
  BY <1>1, <1>2 DEF PanelTypeOK
<1>8. OneIdPerDialog'
  BY <1>4, <1>5, <1>7 DEF PanelInv, OneIdPerDialog
<1>9. QED
  BY <1>5, <1>6, <1>8, QuietStep DEF PanelInv, IdsDrawn, Reloading

\* Confirm draws the dialog's id, or sends it again.
LEMMA DialogConfirmed ==
  ASSUME PanelInv, NEW c \in HistoryCalls, ConfirmRestore(c)
  PROVE  PanelInv'
<1>1. PanelTypeOK /\ OneIdPerDialog /\ IdsDrawn /\ Reloads
  BY DEF PanelInv
<1>2. UNCHANGED <<compare, taken, restored, reloaded, heard>>
  BY DEF ConfirmRestore
<1>3. DOMAIN minted = 1..Len(minted) /\ Len(minted) \in Nat
  BY <1>1 DEF PanelTypeOK
<1>4. /\ timeline' \in Timeline
      /\ minted' \in Seq(Nat) /\ DOMAIN minted \subseteq DOMAIN minted' /\ timeline'.mid \in DOMAIN minted'
      /\ OneIdPerDialog'
  <2>1. CASE timeline.mid = 0
    <3>1. timeline' = [timeline EXCEPT !.mid = Len(minted) + 1] /\ minted' = Append(minted, timeline.dialog)
          /\ timeline.target # 0
      BY <2>1 DEF ConfirmRestore
    <3>2. /\ timeline' \in Timeline
          /\ timeline'.dialog = timeline.dialog /\ timeline'.mid = Len(minted) + 1
      <4>1. PICK mid \in Nat : mid = Len(minted) + 1
        BY <1>3
      <4>2. timeline' = [timeline EXCEPT !.mid = mid] /\ timeline \in Timeline
        BY <1>1, <3>1, <4>1 DEF PanelTypeOK
      <4>3. timeline' \in Timeline /\ timeline'.dialog = timeline.dialog /\ timeline'.mid = mid
        BY <4>2 DEF Timeline
      <4>4. QED
        BY <4>1, <4>3
    <3>3. timeline.dialog \in Nat /\ \A m \in DOMAIN minted : minted[m] \in Nat
      BY <1>1 DEF PanelTypeOK, Timeline
    <3>4. minted' \in Seq(Nat) /\ DOMAIN minted' = 1..(Len(minted) + 1)
      BY <1>1, <3>1, <3>3 DEF PanelTypeOK
    <3>5. minted'[Len(minted) + 1] = timeline.dialog /\ \A m \in DOMAIN minted : minted'[m] = minted[m]
      BY <1>1, <1>3, <3>1 DEF PanelTypeOK
    <3>6. \A m \in DOMAIN minted : minted[m] < timeline.dialog
      BY <1>1, <2>1, <3>1 DEF OneIdPerDialog
    <3>7. \A m, n \in DOMAIN minted' : minted'[m] = minted'[n] => m = n
      BY <1>1, <1>3, <3>3, <3>4, <3>5, <3>6 DEF OneIdPerDialog
    <3>8. \A m \in DOMAIN minted' : minted'[m] <= timeline'.dialog
      <4>1. SUFFICES ASSUME NEW m \in DOMAIN minted'
                     PROVE  minted'[m] <= timeline.dialog
        BY <3>2
      <4>2. CASE m = Len(minted) + 1
        BY <3>3, <3>5, <4>2
      <4>3. CASE m \in DOMAIN minted
        BY <3>3, <3>5, <3>6, <4>3
      <4>4. QED
        BY <1>3, <3>4, <4>2, <4>3
    <3>9. timeline'.mid \in DOMAIN minted' /\ timeline'.mid # 0
      BY <1>3, <3>2, <3>4
    <3>10. QED
      BY <1>3, <3>2, <3>4, <3>7, <3>8, <3>9 DEF OneIdPerDialog
  <2>2. CASE timeline.mid # 0
    <3>1. UNCHANGED <<timeline, minted>>
      BY <2>2 DEF ConfirmRestore
    <3>2. QED
      BY <1>1, <2>2, <3>1 DEF OneIdPerDialog, PanelTypeOK
  <2>3. QED
    BY <2>1, <2>2
<1>5. timeline'.mid \in Nat
  BY <1>4 DEF Timeline
<1>6. Ask(c, "restore", timeline'.mid, 0)
  BY DEF ConfirmRestore
<1>7. PICK mid \in Nat : mid = timeline'.mid
  BY <1>5
<1>8. /\ historyCall[c].op = "none"
      /\ historyCall' \in [HistoryCalls -> HistoryCall]
      /\ historyCall'[c].op = "restore" /\ historyCall'[c].id = mid
      /\ \A d \in HistoryCalls \ {c} : historyCall'[d] = historyCall[d]
  BY <1>1, <1>6, <1>7, Asked DEF HistoryOps
<1>9. PanelTypeOK'
  BY <1>1, <1>2, <1>4, <1>8 DEF PanelTypeOK
<1>10. IdsDrawn'
  BY <1>1, <1>2, <1>4, <1>7, <1>8 DEF IdsDrawn
<1>11. \A d \in HistoryCalls : Reloading(d) => Reloading(d)'
  BY <1>8 DEF Reloading
<1>12. QED
  BY <1>1, <1>2, <1>4, <1>9, <1>10, <1>11 DEF PanelInv, Reloads
\* The routes that append nothing, and an answer that is lost.
LEMMA QuietlyServed ==
  ASSUME PanelInv, NEW c \in HistoryCalls,
         \/ ServeList(c) \/ ServeCreate(c) \/ ServeDiff(c) \/ ServerRefuses(c) \/ LoseAnswer(c)
  PROVE  PanelInv'
<1>1. PanelTypeOK /\ OneIdPerDialog /\ IdsDrawn /\ Reloads
  BY DEF PanelInv
<1>2. UNCHANGED <<timeline, compare, minted, restored, reloaded>> /\ taken' \in Nat
  BY <1>1 DEF ServeList, ServeCreate, ServeDiff, ServerRefuses, LoseAnswer, ServerKeeps, PanelTypeOK
<1>3. ListSnapshots \in Seq(Nat)
  BY <1>1 DEF PanelTypeOK, ListSnapshots
<1>4. <<>> \in Seq(Nat) /\ <<taken + 1>> \in Seq(Nat)
  BY <1>1 DEF PanelTypeOK
<1>5. historyCall[c].id \in Nat /\ historyCall[c].to \in Nat
  BY <1>1 DEF PanelTypeOK, HistoryCall
<1>6. <<historyCall[c].id, historyCall[c].to>> \in Seq(Nat)
  BY <1>5
<1>7. PICK code \in {"ok", "error", "not_found"}, list \in Seq(Nat) : HistoryAnswer(c, code, list)
  BY <1>3, <1>4, <1>6 DEF ServeList, ServeCreate, ServeDiff, ServerRefuses, LoseAnswer
<1>8. /\ historyCall' \in [HistoryCalls -> HistoryCall]
      /\ historyCall'[c].op = historyCall[c].op /\ historyCall'[c].id = historyCall[c].id
      /\ \A d \in HistoryCalls \ {c} : historyCall'[d] = historyCall[d]
  BY <1>1, <1>7, AnsweredCalls
<1>9. PanelTypeOK'
  BY <1>1, <1>2, <1>8 DEF PanelTypeOK, ServeList, ServeCreate, ServeDiff, ServerRefuses, LoseAnswer
<1>10. IdsDrawn'
  BY <1>1, <1>2, <1>8 DEF IdsDrawn
<1>11. OneIdPerDialog'
  BY <1>1, <1>2 DEF OneIdPerDialog
<1>12. Reloads'
  <2>1. CASE heard' /\ heard
    <3>1. ~(historyCall[c].op = "restore" /\ historyCall[c].code = "ok")
      BY <2>1 DEF ServeList, ServeCreate, ServeDiff, ServerRefuses, LoseAnswer
    <3>2. \A d \in HistoryCalls : Reloading(d) => Reloading(d)'
      BY <1>8, <3>1 DEF Reloading
    <3>3. QED
      BY <1>1, <1>2, <2>1, <3>2 DEF Reloads
  <2>2. CASE ~heard'
    BY <2>2 DEF Reloads
  <2>3. heard' => heard
    BY DEF ServeList, ServeCreate, ServeDiff, ServerRefuses, LoseAnswer
  <2>4. QED
    BY <2>1, <2>2, <2>3
<1>13. QED
  BY <1>9, <1>10, <1>11, <1>12 DEF PanelInv

\* The restore is stored: its answer, when it comes, will have the canvas reloaded.
LEMMA RestoreServed ==
  ASSUME PanelInv, NEW c \in HistoryCalls, ServeRestore(c)
  PROVE  PanelInv'
<1>1. PanelTypeOK /\ OneIdPerDialog /\ IdsDrawn /\ Reloads
  BY DEF PanelInv
<1>2. UNCHANGED <<timeline, compare, minted, reloaded, taken>>
      /\ historyCall[c].op = "restore" /\ restored' = restored \cup {historyCall[c].id}
  BY DEF ServeRestore, ServerKeeps
<1>3. <<>> \in Seq(Nat)
  OBVIOUS
<1>4. PICK code \in {"ok", "error", "not_found"} :
        HistoryAnswer(c, code, <<>>) /\ ((code = "ok" /\ heard' = heard) \/ (code = "error" /\ heard' = FALSE))
  <2>1. \/ HistoryAnswer(c, "ok", <<>>) /\ heard' = heard
        \/ HistoryAnswer(c, "error", <<>>) /\ heard' = FALSE
    BY DEF ServeRestore
  <2>2. CASE HistoryAnswer(c, "ok", <<>>) /\ heard' = heard
    BY <2>2
  <2>3. CASE HistoryAnswer(c, "error", <<>>) /\ heard' = FALSE
    BY <2>3
  <2>4. QED
    BY <2>1, <2>2, <2>3
<1>5. /\ historyCall' \in [HistoryCalls -> HistoryCall]
      /\ historyCall'[c].op = historyCall[c].op /\ historyCall'[c].id = historyCall[c].id
      /\ historyCall'[c].code = code
      /\ \A d \in HistoryCalls \ {c} : historyCall'[d] = historyCall[d]
  BY <1>1, <1>3, <1>4, AnsweredCalls
<1>6. heard' \in BOOLEAN
  BY <1>1, <1>4 DEF PanelTypeOK
<1>7. PanelTypeOK'
  BY <1>1, <1>2, <1>5, <1>6 DEF PanelTypeOK
<1>8. IdsDrawn'
  BY <1>1, <1>2, <1>5 DEF IdsDrawn
<1>9. OneIdPerDialog'
  BY <1>1, <1>2 DEF OneIdPerDialog
<1>10. Reloads'
  <2>1. CASE code = "ok"
    <3>1. Reloading(c)'
      BY <1>2, <1>5, <2>1 DEF Reloading
    <3>2. QED
      BY <3>1 DEF Reloads
  <2>2. CASE code # "ok"
    BY <1>4, <2>2 DEF Reloads
  <2>3. QED
    BY <2>1, <2>2
<1>11. QED
  BY <1>7, <1>8, <1>9, <1>10 DEF PanelInv

\* What an answer does to the panel keeps the panel a panel and its dialog where
\* it is.
LEMMA PanelShows ==
  ASSUME timeline \in Timeline, NEW list \in Seq(Nat), NEW code
  PROVE  /\ AfterList(timeline, code, list) \in Timeline
         /\ AfterList(timeline, code, list).dialog = timeline.dialog
         /\ AfterList(timeline, code, list).target = timeline.target
         /\ AfterList(timeline, code, list).mid = timeline.mid
         /\ AfterCreate(timeline, code, list) \in Timeline
         /\ AfterCreate(timeline, code, list).dialog = timeline.dialog
         /\ AfterCreate(timeline, code, list).target = timeline.target
         /\ AfterCreate(timeline, code, list).mid = timeline.mid
<1>1. timeline.items \in Seq(Nat)
  BY DEF Timeline
<1>2. PICK items \in Seq(Nat) : items = list \o timeline.items
  <2>1. list \o timeline.items \in Seq(Nat)
    BY <1>1
  <2>2. QED
    BY <2>1
<1>3. CASE code = "ok"
  <2>1. /\ AfterList(timeline, code, list) = [timeline EXCEPT !.items = list, !.status = "ready"]
        /\ AfterCreate(timeline, code, list) = [timeline EXCEPT !.items = items]
    BY <1>2, <1>3 DEF AfterList, AfterCreate
  <2>2. QED
    BY <2>1 DEF Timeline
<1>4. CASE code # "ok"
  <2>1. /\ AfterList(timeline, code, list) = [timeline EXCEPT !.status = "error"]
        /\ AfterCreate(timeline, code, list) = timeline
    BY <1>4 DEF AfterList, AfterCreate
  <2>2. QED
    BY <2>1 DEF Timeline
<1>5. QED
  BY <1>3, <1>4

\* An answered call's list is a list.
LEMMA ListsAreLists ==
  ASSUME PanelTypeOK, NEW c \in HistoryCalls
  PROVE  historyCall[c] \in HistoryCall /\ historyCall[c].list \in Seq(Nat) /\ timeline \in Timeline
BY DEF PanelTypeOK, HistoryCall

\* A list or a new snapshot is shown.
LEMMA PanelLoads ==
  ASSUME PanelInv, NEW c \in HistoryCalls, Loaded(c) \/ CreatedSnapshot(c)
  PROVE  PanelInv'
<1>1. PanelTypeOK /\ IdsDrawn
  BY DEF PanelInv
<1>2. UNCHANGED <<compare, taken, minted, restored, reloaded, heard>> /\ Done(c)
      /\ historyCall[c].op \in {"list", "relist", "create"}
  BY DEF Loaded, CreatedSnapshot, AnsweredTo
<1>3. /\ timeline' \in Timeline
      /\ timeline'.dialog = timeline.dialog /\ timeline'.target = timeline.target /\ timeline'.mid = timeline.mid
  BY <1>1, ListsAreLists, PanelShows DEF Loaded, CreatedSnapshot, SetPanel
<1>4. /\ historyCall' \in [HistoryCalls -> HistoryCall]
      /\ historyCall'[c].op = "none"
      /\ \A d \in HistoryCalls \ {c} : historyCall'[d] = historyCall[d]
  BY <1>1, <1>2, DoneCalls
<1>5. PanelTypeOK'
  BY <1>1, <1>2, <1>3, <1>4 DEF PanelTypeOK
<1>6. OneIdPerDialog'
  BY <1>2, <1>3, DialogRests
<1>7. \A d \in HistoryCalls : historyCall'[d].op = "restore" => historyCall'[d].id \in DOMAIN minted
  BY <1>1, <1>4 DEF IdsDrawn
<1>8. \A d \in HistoryCalls : Reloading(d) => Reloading(d)'
  BY <1>2, <1>4 DEF Reloading
<1>9. QED
  BY <1>2, <1>5, <1>6, <1>7, <1>8, QuietStep

\* The list is read again and the canvas reloaded, or the reload is given up.
LEMMA PanelRefreshes ==
  ASSUME PanelInv, NEW c \in HistoryCalls, Refreshed(c)
  PROVE  PanelInv'
<1>1. PanelTypeOK /\ IdsDrawn
  BY DEF PanelInv
<1>2. UNCHANGED <<compare, taken, minted, restored>> /\ Done(c)
      /\ ((reloaded' = restored /\ heard' = heard) \/ heard' = FALSE)
  BY DEF Refreshed
<1>3. /\ timeline' \in Timeline
      /\ timeline'.dialog = timeline.dialog /\ timeline'.target = timeline.target /\ timeline'.mid = timeline.mid
  BY <1>1, ListsAreLists, PanelShows DEF Refreshed, SetPanel
<1>4. /\ historyCall' \in [HistoryCalls -> HistoryCall]
      /\ historyCall'[c].op = "none"
      /\ \A d \in HistoryCalls \ {c} : historyCall'[d] = historyCall[d]
  BY <1>1, <1>2, DoneCalls
<1>5. heard' \in BOOLEAN
  BY <1>1, <1>2 DEF PanelTypeOK
<1>6. PanelTypeOK'
  BY <1>1, <1>2, <1>3, <1>4, <1>5 DEF PanelTypeOK
<1>7. OneIdPerDialog'
  BY <1>2, <1>3, DialogRests
<1>8. IdsDrawn'
  BY <1>1, <1>2, <1>4 DEF IdsDrawn
<1>9. Reloads'
  BY <1>2 DEF Reloads
<1>10. QED
  BY <1>6, <1>7, <1>8, <1>9 DEF PanelInv

\* The answer to a restore closes whichever dialog is open; after a 200 the list
\* and the canvas are read again, also when the panel is gone.
LEMMA RestoreHeard ==
  ASSUME PanelInv, NEW c \in HistoryCalls, RestoreAnswered(c)
  PROVE  PanelInv'
<1>1. PanelTypeOK /\ IdsDrawn
  BY DEF PanelInv
<1>2. /\ UNCHANGED <<compare, taken, minted, restored, reloaded, heard>>
      /\ historyCall[c].op = "restore" /\ historyCall[c] \in HistoryCall /\ timeline \in Timeline
  BY <1>1, ListsAreLists DEF RestoreAnswered, AnsweredTo
<1>3. timeline' \in Timeline /\ timeline'.dialog = timeline.dialog
      /\ (timeline' = timeline \/ (timeline'.target = 0 /\ timeline'.mid = 0))
  <2>1. CASE timeline' = timeline
    BY <1>2, <2>1
  <2>2. CASE timeline' # timeline
    <3>1. timeline' = [[timeline EXCEPT !.mid = 0] EXCEPT !.target = 0]
      BY <2>2 DEF RestoreAnswered, SetPanel, Closed
    <3>2. [timeline EXCEPT !.mid = 0] \in Timeline /\ [timeline EXCEPT !.mid = 0].mid = 0
          /\ [timeline EXCEPT !.mid = 0].dialog = timeline.dialog
      BY <1>2 DEF Timeline
    <3>3. QED
      BY <3>1, <3>2 DEF Timeline
  <2>3. QED
    BY <2>1, <2>2
<1>4. PICK next \in {"refresh", "relist", "none"}, here \in BOOLEAN :
        /\ historyCall' = [historyCall EXCEPT ![c] = [NoHistoryCall EXCEPT !.op = next, !.here = here]]
        /\ historyCall[c].code = "ok" => next = "refresh"
  BY <1>2 DEF RestoreAnswered, AfterRestore, HistoryCall
<1>5. /\ [NoHistoryCall EXCEPT !.op = next, !.here = here] \in HistoryCall
      /\ [NoHistoryCall EXCEPT !.op = next, !.here = here].op = next
  <2>1. <<>> \in Seq(Nat)
    OBVIOUS
  <2>2. QED
    BY <2>1 DEF NoHistoryCall, HistoryCall, HistoryOps
<1>6. /\ historyCall' \in [HistoryCalls -> HistoryCall]
      /\ historyCall'[c].op = next
      /\ \A d \in HistoryCalls \ {c} : historyCall'[d] = historyCall[d]
  BY <1>1, <1>4, <1>5 DEF PanelTypeOK
<1>7. PanelTypeOK'
  BY <1>1, <1>2, <1>3, <1>6 DEF PanelTypeOK
<1>8. OneIdPerDialog'
  BY <1>2, <1>3, DialogRests
<1>9. \A d \in HistoryCalls : historyCall'[d].op = "restore" => historyCall'[d].id \in DOMAIN minted
  BY <1>1, <1>6 DEF IdsDrawn
<1>10. \A d \in HistoryCalls : Reloading(d) => Reloading(d)'
  BY <1>2, <1>4, <1>6 DEF Reloading
<1>11. QED
  BY <1>2, <1>7, <1>8, <1>9, <1>10, QuietStep

\* An answer to a restore that cannot be read is one that was not heard.
LEMMA RestoreMisread ==
  ASSUME PanelInv, NEW c \in HistoryCalls, RestoreUnreadable(c)
  PROVE  PanelInv'
<1>1. PanelTypeOK /\ OneIdPerDialog /\ IdsDrawn
  BY DEF PanelInv
<1>2. UNCHANGED <<timeline, compare, taken, minted, restored, reloaded>> /\ Done(c) /\ heard' = FALSE
  BY DEF RestoreUnreadable
<1>3. /\ historyCall' \in [HistoryCalls -> HistoryCall]
      /\ historyCall'[c].op = "none"
      /\ \A d \in HistoryCalls \ {c} : historyCall'[d] = historyCall[d]
  BY <1>1, <1>2, DoneCalls
<1>4. PanelTypeOK'
  BY <1>1, <1>2, <1>3 DEF PanelTypeOK
<1>5. OneIdPerDialog' /\ IdsDrawn' /\ Reloads'
  BY <1>1, <1>2, <1>3 DEF OneIdPerDialog, IdsDrawn, Reloads
<1>6. QED
  BY <1>4, <1>5 DEF PanelInv

\* Another's snapshot.
LEMMA SnapshotTaken ==
  ASSUME PanelInv, OthersSnapshot
  PROVE  PanelInv'
<1>1. UNCHANGED <<timeline, compare, historyCall, minted, restored, reloaded, heard>> /\ taken' = taken + 1
  BY DEF OthersSnapshot
<1>2. QED
  BY <1>1 DEF PanelInv, PanelTypeOK, OneIdPerDialog, IdsDrawn, Reloads, Reloading
\* The comparison: nothing of the panel, no restore among its calls.
LEMMA ComparisonSteps ==
  ASSUME PanelInv, NEW c \in HistoryCalls, OpenCompare(c) \/ PickersLoaded(c) \/ HandleCompare(c) \/ DiffAnswered(c)
  PROVE  PanelInv'
<1>1. PanelTypeOK /\ OneIdPerDialog /\ IdsDrawn
  BY DEF PanelInv
<1>2. UNCHANGED <<timeline, taken, minted, restored, reloaded, heard>>
  BY DEF OpenCompare, PickersLoaded, HandleCompare, DiffAnswered, CompareKeeps
<1>3. compare \in Comparison /\ compare.from \in Nat /\ compare.to \in Nat
  BY <1>1 DEF PanelTypeOK, Comparison
<1>4. historyCall[c].list \in Seq(Nat)
  BY <1>1, ListsAreLists
<1>5. compare' \in Comparison
  <2>1. CASE OpenCompare(c)
    <3>1. compare' = [compare EXCEPT !.status = "loading"]
      BY <2>1 DEF OpenCompare
    <3>2. QED
      BY <1>3, <3>1 DEF Comparison
  <2>2. CASE PickersLoaded(c)
    <3>1. CASE historyCall[c].code # "ok"
      <4>1. compare' = [compare EXCEPT !.status = "error"]
        BY <2>2, <3>1 DEF PickersLoaded
      <4>2. QED
        BY <1>3, <4>1 DEF Comparison
    <3>2. CASE historyCall[c].code = "ok"
      <4> DEFINE list == historyCall[c].list
                 loaded == [compare EXCEPT !.snaps = list, !.status = "ready"]
      <4>1. compare' = DefaultPair(loaded, list)
        BY <2>2, <3>2 DEF PickersLoaded
      <4>2. loaded \in Comparison /\ loaded.from \in Nat /\ loaded.to \in Nat
        BY <1>3, <1>4 DEF Comparison
      <4>3. CASE Len(list) < 2
        BY <4>1, <4>2, <4>3 DEF DefaultPair
      <4>4. CASE ~(Len(list) < 2)
        <5>1. list[1] \in Nat /\ list[2] \in Nat
          BY <1>4, <4>4
        <5>2. PICK from, to \in Nat : compare' = [loaded EXCEPT !.from = from, !.to = to]
          BY <4>1, <4>2, <4>4, <5>1 DEF DefaultPair
        <5> HIDE DEF loaded, list
        <5>3. QED
          BY <4>2, <5>2 DEF Comparison
      <4>5. QED
        BY <4>3, <4>4
    <3>3. QED
      BY <3>1, <3>2
  <2>3. CASE HandleCompare(c)
    BY <1>3, <2>3 DEF HandleCompare
  <2>4. CASE DiffAnswered(c)
    <3>1. PICK shown \in {"none", "diff"} : compare' = [compare EXCEPT !.result = shown]
      BY <2>4 DEF DiffAnswered, DiffShown
    <3>2. QED
      BY <1>3, <3>1 DEF Comparison
  <2>5. QED
    BY <2>1, <2>2, <2>3, <2>4
<1>6. /\ historyCall' \in [HistoryCalls -> HistoryCall]
      /\ historyCall'[c].op # "restore"
      /\ ~Reloading(c)
      /\ \A d \in HistoryCalls \ {c} : historyCall'[d] = historyCall[d]
  <2>1. CASE OpenCompare(c) \/ HandleCompare(c)
    <3>1. PICK op \in {"pick", "diff"}, from, to \in Nat : Ask(c, op, from, to)
      BY <1>3, <2>1 DEF OpenCompare, HandleCompare
    <3>2. op \in HistoryOps
      BY DEF HistoryOps
    <3>3. QED
      BY <1>1, <3>1, <3>2, Asked DEF Reloading
  <2>2. CASE PickersLoaded(c) \/ DiffAnswered(c)
    <3>1. Done(c) /\ historyCall[c].op \in {"pick", "diff"}
      BY <2>2 DEF PickersLoaded, DiffAnswered, AnsweredTo
    <3>2. QED
      BY <1>1, <3>1, DoneCalls DEF Reloading
  <2>3. QED
    BY <2>1, <2>2
<1>7. PanelTypeOK'
  BY <1>1, <1>2, <1>5, <1>6 DEF PanelTypeOK
<1>8. OneIdPerDialog'
  BY <1>1, <1>2 DEF OneIdPerDialog
<1>9. \A d \in HistoryCalls : historyCall'[d].op = "restore" => historyCall'[d].id \in DOMAIN minted
  BY <1>1, <1>6 DEF IdsDrawn
<1>10. \A d \in HistoryCalls : Reloading(d) => Reloading(d)'
  BY <1>6 DEF Reloading
<1>11. QED
  BY <1>2, <1>7, <1>8, <1>9, <1>10, QuietStep

\* A pair is picked.
LEMMA PairPicked ==
  ASSUME PanelInv, NEW i \in DOMAIN compare.snaps, NEW j \in DOMAIN compare.snaps, Pick(i, j)
  PROVE  PanelInv'
<1>1. PanelTypeOK
  BY DEF PanelInv
<1>2. compare \in Comparison /\ compare.snaps \in Seq(Nat)
  BY <1>1 DEF PanelTypeOK, Comparison
<1>3. compare.snaps[i] \in Nat /\ compare.snaps[j] \in Nat
  BY <1>2
<1>6. compare' = [compare EXCEPT !.from = compare.snaps[i], !.to = compare.snaps[j]]
  BY DEF Pick
<1>4. UNCHANGED <<timeline, historyCall, taken, minted, restored, reloaded, heard>>
  BY DEF Pick, CompareKeeps
<1>5. compare' \in Comparison
  BY <1>2, <1>3, <1>6 DEF Comparison
<1>7. QED
  BY <1>4, <1>5 DEF PanelInv, PanelTypeOK, OneIdPerDialog, IdsDrawn, Reloads, Reloading

\* The panel before anything is done with it.
LEMMA PanelBegins == HistoryInit => PanelInv
<1> SUFFICES ASSUME HistoryInit PROVE PanelInv
  OBVIOUS
<1>1. <<>> \in Seq(Nat) /\ DOMAIN <<>> = {}
  OBVIOUS
<1>2. NoHistoryCall \in HistoryCall /\ PanelClosed \in Timeline /\ CompareClosed \in Comparison
  BY <1>1 DEF NoHistoryCall, HistoryCall, HistoryOps, PanelClosed, Timeline, CompareClosed, Comparison
<1>3. PanelTypeOK
  BY <1>1, <1>2 DEF HistoryInit, PanelTypeOK
<1>4. OneIdPerDialog /\ IdsDrawn /\ Reloads
  BY <1>1 DEF HistoryInit, OneIdPerDialog, IdsDrawn, Reloads, NoHistoryCall, PanelClosed
<1>5. QED
  BY <1>3, <1>4 DEF PanelInv

\* SNAP-06 and SNAP-08, for any number of calls, dialogs and snapshots: a dialog
\* restores at most once, and the canvas is reloaded after the last restore that
\* was heard of.
THEOREM OneRestorePerDialog == HistorySpec => []RestoredOncePerDialog
<1>1. ASSUME PanelInv, [HistoryNext \/ CompareNext]_historyPanelVars
      PROVE  PanelInv'
  <2>1. CASE HistoryNext
    <3>1. ASSUME NEW c \in HistoryCalls,
                 \/ OpenHistory(c) \/ HandleCreateSnapshot(c) \/ ConfirmRestore(c)
                 \/ ServeList(c) \/ ServeCreate(c) \/ ServeRestore(c) \/ ServerRefuses(c) \/ LoseAnswer(c)
                 \/ Loaded(c) \/ Refreshed(c) \/ CreatedSnapshot(c) \/ RestoreAnswered(c) \/ RestoreUnreadable(c)
          PROVE  PanelInv'
      BY <1>1, <3>1, PanelAsks, DialogConfirmed, QuietlyServed, RestoreServed, PanelLoads, PanelRefreshes,
         RestoreHeard, RestoreMisread
    <3>2. CASE CloseHistory \/ CancelRestore \/ OthersSnapshot
      BY <1>1, <3>2, PanelCloses, SnapshotTaken
    <3>3. ASSUME NEW i \in DOMAIN timeline.items, RequestRestore(i)
          PROVE  PanelInv'
      BY <1>1, <3>3, DialogOpens
    <3>4. QED
      BY <2>1, <3>1, <3>2, <3>3 DEF HistoryNext
  <2>2. CASE CompareNext
    <3>1. ASSUME NEW c \in HistoryCalls,
                 \/ OpenCompare(c) \/ PickersLoaded(c) \/ HandleCompare(c) \/ DiffAnswered(c)
                 \/ ServeList(c) \/ ServeDiff(c) \/ ServerRefuses(c) \/ LoseAnswer(c)
          PROVE  PanelInv'
      BY <1>1, <3>1, ComparisonSteps, QuietlyServed
    <3>2. ASSUME NEW i \in DOMAIN compare.snaps, NEW j \in DOMAIN compare.snaps, Pick(i, j)
          PROVE  PanelInv'
      BY <1>1, <3>2, PairPicked
    <3>3. QED
      BY <1>1, <2>2, <3>1, <3>2, SnapshotTaken DEF CompareNext
  <2>3. CASE UNCHANGED historyPanelVars
    BY <1>1, <2>3 DEF historyPanelVars, PanelInv, PanelTypeOK, OneIdPerDialog, IdsDrawn, Reloads, Reloading
  <2>4. QED
    BY <1>1, <2>1, <2>2, <2>3
<1>2. PanelInv => RestoredOncePerDialog
  BY DEF PanelInv, OneIdPerDialog, IdsDrawn, Reloads, Reloading, RestoredOncePerDialog
<1>3. QED
  BY <1>1, <1>2, PanelBegins, PTL DEF HistorySpec

-----------------------------------------------------------------------------
(* The AI dock.                                                            *)

DockPhases == {"idle", "submitting", "awaiting_approval", "approving", "restoring", "applied", "error", "rate_limited"}
DockState == [phase : DockPhases, run : DockRuns \cup {0}, last : DockRuns \cup {0}, conflict : BOOLEAN]
CallOut == [op : {"none", "submit", "approve", "cancel", "undo"}, run : DockRuns \cup {0},
            ans : {"none", "sent", "ok", "limited", "error", "conflict", "lost"}]

DockTypeOK ==
  /\ dock \in DockState
  /\ sent \in [DockCalls -> CallOut]
  /\ runs \in [DockRuns -> {"none", "awaiting", "failed", "cancelled", "applied"}]
  /\ applied \in Seq(DockRuns)
  /\ before \in [DockRuns -> Seq(DockRuns)]
  /\ orderly \in BOOLEAN

Out(c) == sent[c].op # "none"

\* The calls that are about a run.
AboutRuns == \A c \in DockCalls : sent[c].op \in {"approve", "cancel", "undo"} => sent[c].run \in DockRuns

\* An orderly session has one call out at a time.
OneCall == orderly => \A c, k \in DockCalls : Out(c) /\ Out(k) => c = k

\* The diagram and the canvas differ from what the dock believes: an approval or
\* an undo has been carried out, and its answer is not in yet.
Landed(c) == sent[c].op \in {"approve", "undo"} /\ sent[c].ans = "ok"

\* What undo offers is what was applied last.
OffersLast == dock.last # 0 => applied # <<>> /\ dock.last = applied[Len(applied)]
Believed == orderly => (OffersLast /\ canvasNow) \/ \E c \in DockCalls : Landed(c)

\* What the dock shows while a call is out.
Waiting(c) ==
  /\ sent[c].op = "submit" =>
       dock.phase = "submitting" /\ (sent[c].ans = "ok" => sent[c].run \in DockRuns /\ runs[sent[c].run] = "awaiting")
  /\ sent[c].op = "approve" =>
       dock.phase = "approving" /\ (sent[c].ans = "ok" => applied # <<>> /\ sent[c].run = applied[Len(applied)])
  /\ sent[c].op = "undo" => dock.phase = "restoring" /\ dock.last # 0
  /\ sent[c].op = "cancel" => dock.phase = "awaiting_approval"
Waits == orderly => \A c \in DockCalls : Waiting(c)

\* What it shows when none is.
Rests ==
  orderly /\ (\A c \in DockCalls : ~Out(c)) =>
    /\ dock.phase = "awaiting_approval" => dock.run \in DockRuns /\ runs[dock.run] = "awaiting"
    /\ dock.phase = "applied" => dock.last # 0

DockInv == DockTypeOK /\ AboutRuns /\ OneCall /\ Believed /\ Waits /\ Rests
\* A call is put in a slot or taken out of it.
LEMMA SlotChanges ==
  ASSUME DockTypeOK, NEW c \in DockCalls, NEW k \in CallOut, sent' = [sent EXCEPT ![c] = k]
  PROVE  /\ sent' \in [DockCalls -> CallOut]
         /\ sent'[c] = k
         /\ \A j \in DockCalls \ {c} : sent'[j] = sent[j]
BY DEF DockTypeOK

\* An answer.
LEMMA Replied ==
  ASSUME DockTypeOK, NEW c \in DockCalls, NEW ans \in {"ok", "limited", "error", "conflict", "lost"}, Reply(c, ans)
  PROVE  /\ sent' \in [DockCalls -> CallOut]
         /\ sent'[c].op = sent[c].op /\ sent'[c].run = sent[c].run /\ sent'[c].ans = ans
         /\ \A j \in DockCalls \ {c} : sent'[j] = sent[j]
<1>1. sent[c] \in CallOut
  BY DEF DockTypeOK
<1>2. [sent[c] EXCEPT !.ans = ans] \in CallOut
  BY <1>1 DEF CallOut
<1>3. sent' = [sent EXCEPT ![c] = [sent[c] EXCEPT !.ans = ans]]
  BY DEF Reply
<1>4. QED
  BY <1>1, <1>2, <1>3 DEF DockTypeOK, CallOut

\* A button: its call goes out, and the store waits for it.
LEMMA Pressed ==
  ASSUME DockInv, NEW c \in DockCalls, NEW op \in {"submit", "approve", "cancel", "undo"}, NEW r \in DockRuns \cup {0},
         NEW d \in DockState, DockCall(c, op, r, d),
         op # "submit" => r \in DockRuns, d.last = dock.last,
         op = "submit" => d.phase = "submitting",
         op = "approve" => d.phase = "approving",
         op = "undo" => d.phase = "restoring" /\ dock.last # 0,
         op = "cancel" => d.phase = "awaiting_approval"
  PROVE  DockInv'
<1>1. DockTypeOK /\ AboutRuns /\ OneCall /\ Believed /\ Waits
  BY DEF DockInv
<1>2. /\ UNCHANGED <<runs, applied, before, canvasNow>> /\ dock' = d /\ ~Out(c)
      /\ sent' = [sent EXCEPT ![c] = [op |-> op, run |-> r, ans |-> "sent"]]
      /\ orderly' = (orderly /\ \A k \in DockCalls : ~Out(k))
  BY DEF DockCall, Out
<1>3. [op |-> op, run |-> r, ans |-> "sent"] \in CallOut
  BY DEF CallOut
<1>4. /\ sent' \in [DockCalls -> CallOut]
      /\ sent'[c] = [op |-> op, run |-> r, ans |-> "sent"]
      /\ \A j \in DockCalls \ {c} : sent'[j] = sent[j]
  BY <1>1, <1>2, <1>3, SlotChanges
<1>5. sent'[c].op = op /\ sent'[c].run = r /\ sent'[c].ans = "sent"
  BY <1>4
<1>6. DockTypeOK'
  BY <1>1, <1>2, <1>4 DEF DockTypeOK
<1>7. AboutRuns'
  BY <1>1, <1>4, <1>5 DEF AboutRuns
<1>8. CASE orderly'
  <2>1. orderly /\ \A j \in DockCalls : ~Out(j)
    BY <1>2, <1>8
  <2>2. \A j \in DockCalls \ {c} : ~Out(j)'
    BY <1>4, <2>1 DEF Out
  <2>3. OneCall'
    BY <2>2 DEF OneCall
  <2>4. OffersLast /\ canvasNow
    BY <1>1, <2>1 DEF Believed, Landed, Out
  <2>5. Believed'
    BY <1>2, <2>4 DEF Believed, OffersLast
  <2>6. Waiting(c)'
    BY <1>2, <1>5 DEF Waiting
  <2>7. \A j \in DockCalls \ {c} : Waiting(j)'
    BY <2>2 DEF Waiting, Out
  <2>8. Waits' /\ Rests'
    BY <1>5, <2>6, <2>7 DEF Waits, Rests, Out
  <2>9. QED
    BY <1>6, <1>7, <2>3, <2>5, <2>8 DEF DockInv
<1>9. CASE ~orderly'
  BY <1>6, <1>7, <1>9 DEF DockInv, OneCall, Believed, Waits, Rests
<1>10. QED
  BY <1>8, <1>9

\* The buttons.
LEMMA ButtonsPress ==
  ASSUME DockInv, NEW c \in DockCalls,
         HandleAsk(c) \/ RateLimitEnds(c) \/ HandleApprove(c) \/ HandleDiscard(c) \/ HandleUndo(c)
  PROVE  DockInv'
<1>1. dock \in DockState /\ dock.run \in DockRuns \cup {0} /\ dock.last \in DockRuns \cup {0}
  BY DEF DockInv, DockTypeOK, DockState
<1>2. CASE HandleAsk(c) \/ RateLimitEnds(c)
  <2>1. SubmitStart(dock) \in DockState /\ SubmitStart(dock).phase = "submitting" /\ SubmitStart(dock).last = dock.last
    BY <1>1 DEF SubmitStart, DockState, DockPhases, NoDockRun
  <2>2. DockCall(c, "submit", 0, SubmitStart(dock))
    BY <1>2 DEF HandleAsk, RateLimitEnds, NoDockRun
  <2>3. QED
    BY <2>1, <2>2, Pressed
<1>3. CASE HandleApprove(c)
  <2>1. [dock EXCEPT !.phase = "approving"] \in DockState /\ [dock EXCEPT !.phase = "approving"].phase = "approving"
        /\ [dock EXCEPT !.phase = "approving"].last = dock.last
    BY <1>1 DEF DockState, DockPhases
  <2>2. DockCall(c, "approve", dock.run, [dock EXCEPT !.phase = "approving"]) /\ dock.run \in DockRuns
    BY <1>1, <1>3 DEF HandleApprove, NoDockRun
  <2>3. QED
    BY <2>1, <2>2, Pressed
<1>4. CASE HandleDiscard(c)
  <2>1. DockCall(c, "cancel", dock.run, dock) /\ dock.run \in DockRuns /\ dock.phase = "awaiting_approval"
    BY <1>1, <1>4 DEF HandleDiscard, NoDockRun
  <2>2. QED
    BY <1>1, <2>1, Pressed
<1>5. CASE HandleUndo(c)
  <2>1. [dock EXCEPT !.phase = "restoring"] \in DockState /\ [dock EXCEPT !.phase = "restoring"].phase = "restoring"
        /\ [dock EXCEPT !.phase = "restoring"].last = dock.last
    BY <1>1 DEF DockState, DockPhases
  <2>2. DockCall(c, "undo", dock.last, [dock EXCEPT !.phase = "restoring"]) /\ dock.last \in DockRuns /\ dock.last # 0
    BY <1>1, <1>5 DEF HandleUndo, NoDockRun
  <2>3. QED
    BY <2>1, <2>2, Pressed
<1>6. QED
  BY <1>2, <1>3, <1>4, <1>5

\* The server answers c: what else it does is for c alone to see, when nothing
\* else is out.
LEMMA Served ==
  ASSUME DockInv, NEW c \in DockCalls, Out(c), UNCHANGED dock, DockTypeOK', orderly' => orderly,
         sent'[c].op = sent[c].op, sent'[c].run \in DockRuns \/ sent'[c].run = sent[c].run,
         \A j \in DockCalls \ {c} : sent'[j] = sent[j],
         orderly' => Waiting(c)', orderly' => (OffersLast /\ canvasNow)' \/ Landed(c)'
  PROVE  DockInv'
<1>1. DockTypeOK /\ AboutRuns /\ OneCall /\ Waits
  BY DEF DockInv
<1>2. AboutRuns'
  BY <1>1 DEF AboutRuns
<1>3. OneCall'
  BY <1>1 DEF OneCall, Out
<1>4. Believed'
  BY DEF Believed
<1>5. ASSUME orderly', NEW j \in DockCalls \ {c}
      PROVE  Waiting(j)'
  BY <1>1, <1>5 DEF OneCall, Out, Waiting
<1>6. Waits'
  BY <1>5 DEF Waits
<1>7. Rests'
  BY DEF Rests, Out
<1>8. QED
  BY <1>2, <1>3, <1>4, <1>6, <1>7 DEF DockInv

\* Before the answer nothing has landed.
LEMMA NotLanded ==
  ASSUME DockInv, orderly, NEW c \in DockCalls, Out(c), ~Landed(c)
  PROVE  OffersLast /\ canvasNow
BY DEF DockInv, Believed, OneCall, Landed, Out
\* A run is created, or not.
LEMMA RunCreated ==
  ASSUME DockInv, NEW c \in DockCalls, CreateAiRun(c)
  PROVE  DockInv'
<1>1. DockTypeOK /\ Waits /\ sent[c] \in CallOut
  BY DEF DockInv, DockTypeOK
<1>2. sent[c].op = "submit" /\ Out(c) /\ ~Landed(c) /\ UNCHANGED <<dock, applied, before, canvasNow, orderly>>
  BY DEF CreateAiRun, Arrived, Out, Landed
<1>3. ASSUME NEW r \in DockRuns, NEW st \in {"awaiting", "failed"}, runs' = [runs EXCEPT ![r] = st],
             sent' = [sent EXCEPT ![c].run = r, ![c].ans = IF st = "awaiting" THEN "ok" ELSE "error"]
      PROVE  DockInv'
  <2> DEFINE ans == IF st = "awaiting" THEN "ok" ELSE "error"
             k == [[sent[c] EXCEPT !.run = r] EXCEPT !.ans = ans]
  <2>1. k \in CallOut /\ k.op = sent[c].op /\ k.run = r /\ k.ans = ans
    BY <1>1 DEF CallOut
  <2>2. sent' = [sent EXCEPT ![c] = k]
    BY <1>1, <1>3 DEF DockTypeOK
  <2> HIDE DEF k
  <2>3. /\ sent' \in [DockCalls -> CallOut]
        /\ sent'[c] = k
        /\ \A j \in DockCalls \ {c} : sent'[j] = sent[j]
    BY <1>1, <2>1, <2>2, SlotChanges
  <2>4. runs' \in [DockRuns -> {"none", "awaiting", "failed", "cancelled", "applied"}] /\ runs'[r] = st
    BY <1>1, <1>3 DEF DockTypeOK
  <2>5. DockTypeOK'
    BY <1>1, <1>2, <2>3, <2>4 DEF DockTypeOK
  <2>6. orderly' => Waiting(c)'
    BY <1>1, <1>2, <2>1, <2>3, <2>4 DEF Waiting, Waits
  <2>7. orderly' => (OffersLast /\ canvasNow)'
    BY <1>2, NotLanded DEF OffersLast
  <2>8. QED
    BY <1>2, <2>1, <2>3, <2>5, <2>6, <2>7, Served
<1>4. ASSUME NEW ans \in {"limited", "error"}, Reply(c, ans), UNCHANGED runs
      PROVE  DockInv'
  <2>1. /\ sent' \in [DockCalls -> CallOut]
        /\ sent'[c].op = sent[c].op /\ sent'[c].run = sent[c].run /\ sent'[c].ans = ans
        /\ \A j \in DockCalls \ {c} : sent'[j] = sent[j]
    BY <1>1, <1>4, Replied
  <2>2. DockTypeOK'
    BY <1>1, <1>2, <1>4, <2>1 DEF DockTypeOK
  <2>3. orderly' => Waiting(c)'
    BY <1>1, <1>2, <2>1 DEF Waiting, Waits
  <2>4. orderly' => (OffersLast /\ canvasNow)'
    BY <1>2, NotLanded DEF OffersLast
  <2>5. QED
    BY <1>2, <2>1, <2>2, <2>3, <2>4, Served
<1>5. QED
  BY <1>3, <1>4 DEF CreateAiRun

\* An approval is carried out, or refused.
LEMMA RunApproved ==
  ASSUME DockInv, NEW c \in DockCalls, ApproveAiRun(c)
  PROVE  DockInv'
<1>1. DockTypeOK /\ Waits /\ sent[c] \in CallOut
  BY DEF DockInv, DockTypeOK
<1>2. sent[c].op = "approve" /\ sent[c].ans = "sent" /\ UNCHANGED <<dock, orderly>>
  BY DEF ApproveAiRun, Arrived
<1>3. Out(c) /\ ~Landed(c) /\ sent[c].run \in DockRuns
  BY <1>2 DEF Out, Landed, DockInv, AboutRuns
<1>4. PICK ans \in {"ok", "conflict", "error"} : Reply(c, ans) /\ (ans # "ok" => UNCHANGED <<runs, applied, before, canvasNow>>)
        /\ (ans = "ok" => /\ runs' = [runs EXCEPT ![sent[c].run] = "applied"] /\ applied' = Append(applied, sent[c].run)
                          /\ before' = [before EXCEPT ![sent[c].run] = applied])
  <2>1. CASE \E ans \in {"conflict", "error"} : Reply(c, ans) /\ UNCHANGED <<runs, applied, before, canvasNow>>
    BY <2>1
  <2>2. CASE ~(\E ans \in {"conflict", "error"} : Reply(c, ans) /\ UNCHANGED <<runs, applied, before, canvasNow>>)
    <3>1. /\ Reply(c, "ok") /\ runs' = [runs EXCEPT ![sent[c].run] = "applied"] /\ applied' = Append(applied, sent[c].run)
          /\ before' = [before EXCEPT ![sent[c].run] = applied]
      BY <2>2 DEF ApproveAiRun
    <3>2. QED
      BY <3>1
  <2>3. QED
    BY <2>1, <2>2
<1>5. /\ sent' \in [DockCalls -> CallOut]
      /\ sent'[c].op = sent[c].op /\ sent'[c].run = sent[c].run /\ sent'[c].ans = ans
      /\ \A j \in DockCalls \ {c} : sent'[j] = sent[j]
  BY <1>1, <1>4, Replied
<1>6. /\ runs' \in [DockRuns -> {"none", "awaiting", "failed", "cancelled", "applied"}]
      /\ applied' \in Seq(DockRuns) /\ before' \in [DockRuns -> Seq(DockRuns)]
      /\ ans = "ok" => applied' # <<>> /\ applied'[Len(applied')] = sent[c].run
  <2>1. CASE ans = "ok"
    <3>1. applied \in Seq(DockRuns)
      BY <1>1 DEF DockTypeOK
    <3>2. applied' \in Seq(DockRuns) /\ Len(applied') = Len(applied) + 1 /\ applied'[Len(applied) + 1] = sent[c].run
          /\ Len(applied) \in Nat
      BY <1>3, <1>4, <2>1, <3>1
    <3>3. applied' # <<>>
      BY <3>2
    <3>4. QED
      BY <1>1, <1>3, <1>4, <2>1, <3>1, <3>2, <3>3 DEF DockTypeOK
  <2>2. CASE ans # "ok"
    BY <1>1, <1>4, <2>2 DEF DockTypeOK
  <2>3. QED
    BY <2>1, <2>2
<1>7. DockTypeOK'
  BY <1>1, <1>2, <1>5, <1>6 DEF DockTypeOK
<1>8. orderly' => Waiting(c)'
  BY <1>1, <1>2, <1>5, <1>6 DEF Waiting, Waits
<1>9. orderly' => (OffersLast /\ canvasNow)' \/ Landed(c)'
  <2>1. CASE ans = "ok"
    BY <1>2, <1>5, <2>1 DEF Landed
  <2>2. CASE ans # "ok"
    BY <1>2, <1>3, <1>4, <2>2, NotLanded DEF OffersLast
  <2>3. QED
    BY <2>1, <2>2
<1>10. QED
  BY <1>2, <1>3, <1>5, <1>7, <1>8, <1>9, Served

\* A discard.
LEMMA RunCancelled ==
  ASSUME DockInv, NEW c \in DockCalls, CancelAiRun(c)
  PROVE  DockInv'
<1>1. DockTypeOK /\ Waits /\ sent[c] \in CallOut
  BY DEF DockInv, DockTypeOK
<1>2. sent[c].op = "cancel" /\ Out(c) /\ ~Landed(c) /\ UNCHANGED <<dock, applied, before, canvasNow, orderly>>
  BY DEF CancelAiRun, Arrived, Out, Landed
<1>3. sent[c].run \in DockRuns
  BY <1>2 DEF DockInv, AboutRuns
<1>4. PICK ans \in {"ok", "error"} : Reply(c, ans)
  BY DEF CancelAiRun
<1>5. PICK st \in {"none", "awaiting", "failed", "cancelled", "applied"} : runs' = [runs EXCEPT ![sent[c].run] = st]
  BY <1>1, <1>3 DEF CancelAiRun, DockTypeOK
<1>6. /\ sent' \in [DockCalls -> CallOut]
      /\ sent'[c].op = sent[c].op /\ sent'[c].run = sent[c].run /\ sent'[c].ans = ans
      /\ \A j \in DockCalls \ {c} : sent'[j] = sent[j]
  BY <1>1, <1>4, Replied
<1>7. DockTypeOK'
  BY <1>1, <1>2, <1>5, <1>6 DEF DockTypeOK
<1>8. orderly' => Waiting(c)'
  BY <1>1, <1>2, <1>6 DEF Waiting, Waits
<1>9. orderly' => (OffersLast /\ canvasNow)'
  BY <1>2, NotLanded DEF OffersLast
<1>10. QED
  BY <1>2, <1>6, <1>7, <1>8, <1>9, Served

\* The snapshot is restored, or not.
LEMMA SnapshotRestored ==
  ASSUME DockInv, NEW c \in DockCalls, RestoreBefore(c)
  PROVE  DockInv'
<1>1. DockTypeOK /\ Waits /\ sent[c] \in CallOut
  BY DEF DockInv, DockTypeOK
<1>2. sent[c].op = "undo" /\ Out(c) /\ ~Landed(c) /\ UNCHANGED <<dock, runs, before, orderly>>
  BY DEF RestoreBefore, Arrived, Out, Landed
<1>3. sent[c].run \in DockRuns
  BY <1>2 DEF DockInv, AboutRuns
<1>4. before[sent[c].run] \in Seq(DockRuns)
  BY <1>1, <1>3 DEF DockTypeOK
<1>5. PICK ans \in {"ok", "error"} : Reply(c, ans) /\ (ans # "ok" => UNCHANGED <<applied, canvasNow>>)
  BY DEF RestoreBefore
<1>6. applied' \in Seq(DockRuns)
  BY <1>1, <1>4 DEF RestoreBefore, DockTypeOK
<1>7. /\ sent' \in [DockCalls -> CallOut]
      /\ sent'[c].op = sent[c].op /\ sent'[c].run = sent[c].run /\ sent'[c].ans = ans
      /\ \A j \in DockCalls \ {c} : sent'[j] = sent[j]
  BY <1>1, <1>5, Replied
<1>8. DockTypeOK'
  BY <1>1, <1>2, <1>6, <1>7 DEF DockTypeOK
<1>9. orderly' => Waiting(c)'
  BY <1>1, <1>2, <1>7 DEF Waiting, Waits
<1>10. orderly' => (OffersLast /\ canvasNow)' \/ Landed(c)'
  <2>1. CASE ans = "ok"
    BY <1>2, <1>7, <2>1 DEF Landed
  <2>2. CASE ans # "ok"
    BY <1>2, <1>5, <2>2, NotLanded DEF OffersLast
  <2>3. QED
    BY <2>1, <2>2
<1>11. QED
  BY <1>2, <1>7, <1>8, <1>9, <1>10, Served

\* A call or its answer is lost: of an approval or an undo that landed, the
\* session is orderly no more.
LEMMA CallLost ==
  ASSUME DockInv, NEW c \in DockCalls, LoseCall(c)
  PROVE  DockInv'
<1>1. DockTypeOK /\ Waits /\ AboutRuns /\ sent[c] \in CallOut
  BY DEF DockInv, DockTypeOK
<1>2. /\ Out(c) /\ Reply(c, "lost") /\ UNCHANGED <<dock, runs, applied, before, canvasNow>>
      /\ orderly' = (orderly /\ (sent[c].ans # "ok" \/ sent[c].op = "submit"))
  BY DEF LoseCall, Out
<1>3. /\ sent' \in [DockCalls -> CallOut]
      /\ sent'[c].op = sent[c].op /\ sent'[c].run = sent[c].run /\ sent'[c].ans = "lost"
      /\ \A j \in DockCalls \ {c} : sent'[j] = sent[j]
  BY <1>1, <1>2, Replied
<1>4. DockTypeOK'
  BY <1>1, <1>2, <1>3 DEF DockTypeOK
<1>5. orderly' => Waiting(c)'
  BY <1>1, <1>2, <1>3 DEF Waiting, Waits
<1>6. orderly' => (OffersLast /\ canvasNow)'
  BY <1>2, NotLanded DEF Landed, OffersLast
<1>7. QED
  BY <1>2, <1>3, <1>4, <1>5, <1>6, Served
\* What the answers do to the store.
LEMMA StoreAnswers ==
  ASSUME NEW d \in DockState, NEW k \in CallOut, k.op # "none", k.op # "submit" => k.run \in DockRuns
  PROVE  /\ AfterCall(d, k) \in DockState
         /\ k.op = "submit" => /\ AfterCall(d, k).last = d.last
                               /\ AfterCall(d, k).phase \in {"awaiting_approval", "rate_limited", "error"}
                               /\ AfterCall(d, k).phase = "awaiting_approval" => k.ans = "ok" /\ AfterCall(d, k).run = k.run
         /\ k.op = "approve" /\ k.ans = "ok" => AfterCall(d, k).phase = "applied" /\ AfterCall(d, k).last = k.run
         /\ k.op = "approve" /\ k.ans # "ok" => AfterCall(d, k).phase \in {"idle", "error"} /\ AfterCall(d, k).last = d.last
         /\ k.op = "cancel" => AfterCall(d, k).phase = "idle" /\ AfterCall(d, k).last = d.last
         /\ k.op = "undo" /\ k.ans = "ok" => AfterCall(d, k).phase = "idle" /\ AfterCall(d, k).last = 0
         /\ k.op = "undo" /\ k.ans # "ok" => AfterCall(d, k).phase = "applied" /\ AfterCall(d, k).last = d.last
<1>1. k.run \in DockRuns \cup {0} /\ k.op \in {"none", "submit", "approve", "cancel", "undo"}
  BY DEF CallOut
<1>2. CASE k.op = "submit"
  <2>1. CASE k.ans = "limited"
    <3>1. AfterCall(d, k) = [d EXCEPT !.phase = "rate_limited"]
      BY <1>2, <2>1 DEF AfterCall, SubmitRequest, RateLimited
    <3>2. QED
      BY <1>2, <3>1 DEF DockState, DockPhases
  <2>2. CASE k.ans = "ok"
    <3>1. AfterCall(d, k) = [d EXCEPT !.phase = "awaiting_approval", !.run = k.run]
      BY <1>2, <2>2 DEF AfterCall, SubmitRequest, SubmitSuccess
    <3>2. QED
      BY <1>1, <1>2, <2>2, <3>1 DEF DockState, DockPhases
  <2>3. CASE k.ans \notin {"limited", "ok"}
    <3>1. AfterCall(d, k) = [d EXCEPT !.phase = "error", !.run = 0]
      BY <1>2, <2>3 DEF AfterCall, SubmitRequest, SubmitFailed, NoDockRun
    <3>2. QED
      BY <1>2, <3>1 DEF DockState, DockPhases
  <2>4. QED
    BY <2>1, <2>2, <2>3
<1>3. CASE k.op = "approve"
  <2>1. CASE k.ans = "conflict"
    <3>1. AfterCall(d, k) = [d EXCEPT !.phase = "idle", !.run = 0, !.conflict = TRUE]
      BY <1>3, <2>1 DEF AfterCall, ApproveAnswer, ApproveConflict, NoDockRun
    <3>2. QED
      BY <1>3, <2>1, <3>1 DEF DockState, DockPhases
  <2>2. CASE k.ans = "ok"
    <3>1. AfterCall(d, k) = [d EXCEPT !.phase = "applied", !.last = k.run]
      BY <1>3, <2>2 DEF AfterCall, ApproveAnswer, ApproveSuccess
    <3>2. QED
      BY <1>1, <1>3, <2>2, <3>1 DEF DockState, DockPhases
  <2>3. CASE k.ans \notin {"conflict", "ok"}
    <3>1. AfterCall(d, k) = [d EXCEPT !.phase = "error", !.run = 0]
      BY <1>3, <2>3 DEF AfterCall, ApproveAnswer, SubmitFailed, NoDockRun
    <3>2. QED
      BY <1>3, <2>3, <3>1 DEF DockState, DockPhases
  <2>4. QED
    BY <2>1, <2>2, <2>3
<1>4. CASE k.op = "cancel"
  <2>1. AfterCall(d, k) = [d EXCEPT !.phase = "idle", !.run = 0]
    BY <1>4 DEF AfterCall, Cancelled, NoDockRun
  <2>2. QED
    BY <1>4, <2>1 DEF DockState, DockPhases
<1>5. CASE k.op = "undo"
  <2>1. CASE k.ans = "ok"
    <3>1. AfterCall(d, k) = [d EXCEPT !.phase = "idle", !.last = 0]
      BY <1>5, <2>1 DEF AfterCall, Undo, UndoSuccess, NoDockRun
    <3>2. QED
      BY <1>5, <2>1, <3>1 DEF DockState, DockPhases
  <2>2. CASE k.ans # "ok"
    <3>1. AfterCall(d, k) = [d EXCEPT !.phase = "applied"]
      BY <1>5, <2>2 DEF AfterCall, Undo, UndoFailed
    <3>2. QED
      BY <1>5, <2>2, <3>1 DEF DockState, DockPhases
  <2>3. QED
    BY <2>1, <2>2
<1>6. QED
  BY <1>1, <1>2, <1>3, <1>4, <1>5

\* The answer reaches the store, and the canvas is reloaded after a change.
LEMMA CallFinished ==
  ASSUME DockInv, NEW c \in DockCalls, FinishCall(c)
  PROVE  DockInv'
<1>1. DockTypeOK /\ AboutRuns /\ OneCall /\ Waits /\ Believed /\ sent[c] \in CallOut /\ dock \in DockState
  BY DEF DockInv, DockTypeOK
<1>2. /\ Out(c) /\ sent[c].ans # "sent" /\ dock' = AfterCall(dock, sent[c])
      /\ sent' = [sent EXCEPT ![c] = NoCallOut] /\ UNCHANGED <<runs, applied, before>>
  BY DEF FinishCall, Out
<1>3. sent[c].op # "submit" => sent[c].run \in DockRuns
  BY <1>1, <1>2 DEF AboutRuns, Out, CallOut
<1>4. NoCallOut \in CallOut /\ NoCallOut.op = "none"
  BY DEF NoCallOut, CallOut, NoDockRun
<1>5. /\ sent' \in [DockCalls -> CallOut]
      /\ sent'[c].op = "none"
      /\ \A j \in DockCalls \ {c} : sent'[j] = sent[j]
  BY <1>1, <1>2, <1>4, SlotChanges
<1>6. orderly' \in BOOLEAN /\ (orderly' => orderly)
      /\ (orderly' => canvasNow' = TRUE \/ (canvasNow' = canvasNow /\ ~OnApproved(dock', sent[c])))
  <2>1. \/ OnApproved(dock', sent[c]) /\ canvasNow' = TRUE /\ orderly' = orderly
        \/ OnApproved(dock', sent[c]) /\ orderly' = FALSE
        \/ ~OnApproved(dock', sent[c]) /\ canvasNow' = canvasNow /\ orderly' = orderly
    BY DEF FinishCall
  <2>2. orderly \in BOOLEAN
    BY <1>1 DEF DockTypeOK
  <2>3. CASE orderly'
    <3>1. \/ canvasNow' = TRUE
          \/ ~OnApproved(dock', sent[c]) /\ canvasNow' = canvasNow
      BY <2>1, <2>3
    <3>2. QED
      BY <2>1, <2>2, <2>3, <3>1
  <2>4. CASE ~orderly'
    BY <2>1, <2>2, <2>4
  <2>5. QED
    BY <2>3, <2>4
<1>7. dock' \in DockState
  BY <1>1, <1>2, <1>3, StoreAnswers DEF Out
<1>8. DockTypeOK' /\ AboutRuns'
  BY <1>1, <1>2, <1>5, <1>6, <1>7 DEF DockTypeOK, AboutRuns
<1>9. CASE orderly'
  <2>1. orderly /\ \A j \in DockCalls \ {c} : ~Out(j)
    BY <1>1, <1>2, <1>6, <1>9 DEF OneCall
  <2>2. \A j \in DockCalls : ~Out(j)'
    BY <1>5, <2>1 DEF Out
  <2>3. OneCall' /\ Waits'
    BY <2>2 DEF OneCall, Waits, Waiting, Out
  <2>4. Waiting(c)
    BY <1>1, <2>1 DEF Waits
  <2>5. sent[c].op \in {"submit", "approve", "cancel", "undo"}
    BY <1>1, <1>2 DEF Out, CallOut
  <2>6. CASE Landed(c)
    <3>1. OffersLast'
      BY <1>1, <1>2, <1>3, <2>4, <2>6, StoreAnswers DEF Landed, Waiting, OffersLast, Out
    <3>2. OnApproved(dock', sent[c])
      BY <1>1, <1>2, <1>3, <2>6, StoreAnswers DEF Landed, OnApproved, Out
    <3>3. QED
      <4>1. canvasNow'
        BY <1>6, <1>9, <3>2
      <4>2. Believed'
        BY <3>1, <4>1 DEF Believed
      <4>3. dock'.phase # "awaiting_approval" /\ (dock'.phase = "applied" => dock'.last # 0)
        BY <1>1, <1>2, <1>3, <2>6, StoreAnswers, DockAssumption DEF Landed, Out
      <4>4. Rests'
        BY <4>3 DEF Rests
      <4>5. QED
        BY <1>8, <2>3, <4>2, <4>4 DEF DockInv
  <2>7. CASE ~Landed(c)
    <3>1. OffersLast /\ canvasNow
      BY <1>2, <2>1, <2>7, NotLanded
    <3>2. dock'.last = dock.last
      BY <1>1, <1>2, <1>3, <2>5, <2>7, StoreAnswers DEF Landed, Out
    <3>3. canvasNow'
      BY <1>6, <1>9, <3>1
    <3>4. Believed'
      BY <1>2, <3>1, <3>2, <3>3 DEF Believed, OffersLast
    <3>5. CASE sent[c].op = "submit"
      <4>1. dock'.phase = "awaiting_approval" => dock'.run \in DockRuns /\ runs[dock'.run] = "awaiting"
        BY <1>1, <1>2, <1>3, <2>4, <3>5, StoreAnswers DEF Waiting, Out
      <4>2. dock'.phase # "applied"
        BY <1>1, <1>2, <1>3, <3>5, StoreAnswers DEF Out
      <4>3. Rests'
        BY <1>2, <4>1, <4>2 DEF Rests
      <4>4. QED
        BY <1>8, <2>3, <3>4, <4>3 DEF DockInv
    <3>6. CASE sent[c].op # "submit"
      <4>1. dock'.phase # "awaiting_approval" /\ (dock'.phase = "applied" => dock'.last # 0)
        BY <1>1, <1>2, <1>3, <2>4, <2>5, <2>7, <3>2, <3>6, StoreAnswers DEF Waiting, Landed, Out
      <4>2. Rests'
        BY <4>1 DEF Rests
      <4>3. QED
        BY <1>8, <2>3, <3>4, <4>2 DEF DockInv
    <3>7. QED
      BY <3>5, <3>6
  <2>8. QED
    BY <2>6, <2>7
<1>10. CASE ~orderly'
  BY <1>8, <1>10 DEF DockInv, OneCall, Believed, Waits, Rests
<1>11. QED
  BY <1>9, <1>10

\* An answer that cannot be read.
LEMMA BodyUnreadable ==
  ASSUME DockInv, NEW c \in DockCalls, UnreadableBody(c)
  PROVE  DockInv'
<1>1. DockTypeOK /\ AboutRuns
  BY DEF DockInv
<1>2. orderly' = FALSE /\ sent' = [sent EXCEPT ![c] = NoCallOut] /\ UNCHANGED <<dock, runs, applied, before, canvasNow>>
  BY DEF UnreadableBody
<1>3. NoCallOut \in CallOut /\ NoCallOut.op = "none"
  BY DEF NoCallOut, CallOut, NoDockRun
<1>4. DockTypeOK' /\ AboutRuns'
  BY <1>1, <1>2, <1>3, SlotChanges DEF DockTypeOK, AboutRuns
<1>5. QED
  BY <1>2, <1>4 DEF DockInv, OneCall, Believed, Waits, Rests

\* The dock before anything is asked.
LEMMA DockBegins == DockInit => DockInv
<1> SUFFICES ASSUME DockInit PROVE DockInv
  OBVIOUS
<1>1. <<>> \in Seq(DockRuns)
  OBVIOUS
<1>2. NoCallOut \in CallOut /\ NoCallOut.op = "none" /\ InitialState \in DockState /\ InitialState.last = 0
      /\ InitialState.phase = "idle"
  BY DEF NoCallOut, CallOut, NoDockRun, InitialState, DockState, DockPhases
<1>3. DockTypeOK /\ AboutRuns
  BY <1>1, <1>2 DEF DockInit, DockTypeOK, AboutRuns
<1>4. \A c \in DockCalls : ~Out(c)
  BY <1>2 DEF DockInit, Out
<1>5. OneCall /\ Waits /\ Believed /\ Rests
  BY <1>2, <1>4 DEF DockInit, OneCall, Waits, Waiting, Believed, OffersLast, Rests, Out
<1>6. QED
  BY <1>3, <1>5 DEF DockInv

\* DOCK-13, DOCK-15 and DOCK-18..20, for any number of runs and calls: in an
\* orderly session undo is on offer for the run applied last, a run shown for
\* approval is still open, and the canvas shows the diagram.
THEOREM UndoIsOfTheLast == DockSpec => []UndoTargetsLastApplied
<1>1. ASSUME DockInv, [DockNext]_dockVars
      PROVE  DockInv'
  <2>1. CASE DockNext
    BY <1>1, <2>1, ButtonsPress, RunCreated, RunApproved, RunCancelled, SnapshotRestored, CallLost, CallFinished,
       BodyUnreadable DEF DockNext
  <2>2. CASE UNCHANGED dockVars
    BY <1>1, <2>2 DEF dockVars, DockInv, DockTypeOK, AboutRuns, OneCall, Believed, OffersLast, Landed, Waits, Waiting,
       Rests, Out
  <2>3. QED
    BY <1>1, <2>1, <2>2
<1>2. DockInv => UndoTargetsLastApplied
  BY DEF DockInv, Believed, OffersLast, Landed, Rests, Out, UndoTargetsLastApplied, NoDockRun
<1>3. QED
  BY <1>1, <1>2, DockBegins, PTL DEF DockSpec

-----------------------------------------------------------------------------
(* The import dialog and the export buttons.                               *)

DialogState ==
  [open : BOOLEAN, format : Formats,
   phase : {"idle", "previewing", "previewed", "confirming", "invalid", "error", "rate_limited"},
   file : Files \cup {NoFile}, readAs : Formats \cup {NoFile}, preview : Files \cup {NoFile}, title : BOOLEAN]
Transfer ==
  [op : {"read", "preview", "confirm"} \cup Buttons, file : Files \cup {NoFile}, format : Formats \cup {NoFile},
   readAs : Formats \cup {NoFile}, at : {"sent", "parsed", "created", "ok", "invalid", "error", "rate_limited"}, new : Nat]
ImportedDiagram ==
  [file : Files \cup {NoFile}, format : Formats \cup {NoFile}, readAs : Formats \cup {NoFile}, seeded : BOOLEAN]

TransferTypeOK ==
  /\ dialog \in DialogState
  /\ buttons \in [Buttons -> {"idle", "generating", "ready", "error", "rate_limited"}]
  /\ xfer \in [TransferCalls -> Transfer \cup {NoTransfer}]
  /\ made \in Nat
  /\ imported \in Seq(ImportedDiagram)
  /\ steady \in BOOLEAN

Flying(k) == xfer[k].op # "none"

\* A steady user has one call out at a time.
OneTransfer == steady => \A j, k \in TransferCalls : Flying(j) /\ Flying(k) => j = k

\* A button that waits has its one call out, and only such a button has one.
ButtonWaits(b) ==
  /\ buttons[b] = "generating" <=> \E k \in TransferCalls : xfer[k].op = b
  /\ \A j, k \in TransferCalls : xfer[j].op = b /\ xfer[k].op = b => j = k
ButtonsWait == \A b \in Buttons : ButtonWaits(b)

\* A confirmation behind the creation carries its diagram, with its scene once it is answered.
Carries(k, n) == xfer[k].op = "confirm" /\ xfer[k].at \in {"created", "ok"} /\ xfer[k].new = n
Carried(k) ==
  xfer[k].op = "confirm" /\ xfer[k].at \in {"created", "ok"} =>
    xfer[k].new \in DOMAIN imported /\ (xfer[k].at = "ok" => imported[xfer[k].new].seeded)
AllCarried == \A k \in TransferCalls : Carried(k)

\* The page goes to diagrams that hold their scene.
OpenedSeeded == \A n \in opened : n \in DOMAIN imported /\ imported[n].seeded

\* What can be confirmed is what was read under the format shown, and previewed.
Fit(d) ==
  d.phase = "previewed" =>
    d.file # NoFile /\ d.readAs = d.format /\ (d.format = "excalidraw" => d.preview = d.file)

\* What a steady user's one call is about.
AsAsked(k) ==
  /\ xfer[k].op = "read" => xfer[k].file \in Files /\ xfer[k].format = dialog.format /\ xfer[k].readAs = dialog.format
  /\ xfer[k].op = "preview" => /\ dialog.phase = "previewing" /\ dialog.file = xfer[k].file /\ xfer[k].file \in Files
                               /\ dialog.readAs = dialog.format
  /\ xfer[k].op = "confirm" => dialog.phase = "confirming" /\ xfer[k].format = xfer[k].readAs

\* A diagram an import created is opened, or carried by the confirmation that will open it.
Accounted == \A n \in DOMAIN imported : n \in opened \/ \E k \in TransferCalls : Carries(k, n)
Shown == \A n \in DOMAIN imported : imported[n].format = imported[n].readAs
Steady == steady => Fit(dialog) /\ (\A k \in TransferCalls : AsAsked(k)) /\ Accounted /\ Shown

TransferInv == TransferTypeOK /\ OneTransfer /\ ButtonsWait /\ AllCarried /\ OpenedSeeded /\ Steady
\* The names.
LEMMA NamesApart ==
  /\ Buttons \cap {"none", "read", "preview", "confirm"} = {}
  /\ "excalidraw" \in Formats /\ NoFile \notin Formats /\ NoFile \notin Files
BY TransferAssumption DEF Buttons, NoFile

\* A call in flight is a record of its fields.
LEMMA FlightsAreCalls ==
  ASSUME TransferTypeOK, NEW k \in TransferCalls, Flying(k)
  PROVE  xfer[k] \in Transfer
BY DEF TransferTypeOK, Flying, NoTransfer

\* A slot changes.
LEMMA TransferSlot ==
  ASSUME TransferTypeOK, NEW k \in TransferCalls, NEW t \in Transfer \cup {NoTransfer}, xfer' = [xfer EXCEPT ![k] = t]
  PROVE  /\ xfer' \in [TransferCalls -> Transfer \cup {NoTransfer}]
         /\ xfer'[k] = t
         /\ \A j \in TransferCalls \ {k} : xfer'[j] = xfer[j]
BY DEF TransferTypeOK

\* A call goes on.
LEMMA GoesOn ==
  ASSUME TransferTypeOK, NEW k \in TransferCalls, Flying(k),
         NEW at \in {"parsed", "ok", "invalid", "error", "rate_limited"}, Goes(k, at)
  PROVE  /\ xfer' \in [TransferCalls -> Transfer \cup {NoTransfer}]
         /\ xfer'[k].op = xfer[k].op /\ xfer'[k].file = xfer[k].file /\ xfer'[k].format = xfer[k].format
         /\ xfer'[k].readAs = xfer[k].readAs /\ xfer'[k].new = xfer[k].new /\ xfer'[k].at = at
         /\ \A j \in TransferCalls \ {k} : xfer'[j] = xfer[j]
<1>1. xfer[k] \in Transfer
  BY FlightsAreCalls
<1>2. PICK t : t = [xfer[k] EXCEPT !.at = at]
  OBVIOUS
<1>3. /\ t \in Transfer /\ t.op = xfer[k].op /\ t.file = xfer[k].file /\ t.format = xfer[k].format
      /\ t.readAs = xfer[k].readAs /\ t.new = xfer[k].new /\ t.at = at
  BY <1>1, <1>2 DEF Transfer
<1>4. xfer' = [xfer EXCEPT ![k] = t]
  BY <1>2 DEF Goes
<1>5. QED
  BY <1>3, <1>4, TransferSlot

\* A step that changes neither which calls are out nor the buttons.
LEMMA ButtonsRest ==
  ASSUME ButtonsWait, UNCHANGED buttons, NEW k \in TransferCalls, xfer[k].op \notin Buttons, xfer'[k].op \notin Buttons,
         \A j \in TransferCalls \ {k} : xfer'[j] = xfer[j]
  PROVE  ButtonsWait'
BY DEF ButtonsWait, ButtonWaits

\* Nothing of an import changes: the dialog, what was imported and what opened,
\* and no call of the dialog.
LEMMA ImportsRest ==
  ASSUME TransferInv, UNCHANGED <<dialog, imported, opened>>, TransferTypeOK', OneTransfer', ButtonsWait', steady' => steady,
         \A j \in TransferCalls : xfer[j].op \in {"read", "preview", "confirm"} \/ xfer'[j].op \in {"read", "preview", "confirm"}
                                  => xfer'[j] = xfer[j]
  PROVE  TransferInv'
<1>1. AllCarried'
  BY DEF TransferInv, AllCarried, Carried
<1>2. OpenedSeeded'
  BY DEF TransferInv, OpenedSeeded
<1>3. ASSUME steady' PROVE Fit(dialog)' /\ (\A k \in TransferCalls : AsAsked(k)') /\ Accounted' /\ Shown'
  <2>1. Fit(dialog) /\ (\A k \in TransferCalls : AsAsked(k)) /\ Accounted /\ Shown
    BY <1>3 DEF TransferInv, Steady
  <2>2. Fit(dialog)' /\ Shown'
    BY <2>1 DEF Fit, Shown
  <2>3. \A k \in TransferCalls : AsAsked(k)'
    BY <2>1 DEF AsAsked
  <2>4. Accounted'
    BY <2>1 DEF Accounted, Carries
  <2>5. QED
    BY <2>2, <2>3, <2>4
<1>4. QED
  BY <1>1, <1>2, <1>3 DEF TransferInv, Steady

\* When a steady user acts, nothing is out, so every diagram imported was opened.
LEMMA NothingWaited ==
  ASSUME TransferInv, steady, NothingOut
  PROVE  Fit(dialog) /\ Shown /\ \A n \in DOMAIN imported : n \in opened
BY DEF TransferInv, Steady, Accounted, Carries, NothingOut

\* The dialog is opened, closed or changed.
LEMMA DialogChanged ==
  ASSUME TransferInv, NEW d \in DialogState, UserChanges(d), Fit(dialog) => Fit(d)
  PROVE  TransferInv'
<1>1. TransferTypeOK /\ OneTransfer /\ ButtonsWait /\ AllCarried /\ OpenedSeeded
  BY DEF TransferInv
<1>2. dialog' = d /\ steady' = (steady /\ NothingOut) /\ UNCHANGED <<buttons, xfer, made, imported, opened>>
  BY DEF UserChanges, Acts
<1>3. TransferTypeOK'
  BY <1>1, <1>2 DEF TransferTypeOK
<1>4. OneTransfer' /\ ButtonsWait' /\ AllCarried' /\ OpenedSeeded'
  BY <1>1, <1>2 DEF OneTransfer, Flying, ButtonsWait, ButtonWaits, AllCarried, Carried, OpenedSeeded
<1>5. ASSUME steady' PROVE Fit(dialog)' /\ (\A k \in TransferCalls : AsAsked(k)') /\ Accounted' /\ Shown'
  <2>1. steady /\ NothingOut
    BY <1>2, <1>5
  <2>2. Fit(dialog) /\ Shown /\ \A n \in DOMAIN imported : n \in opened
    BY <2>1, NothingWaited
  <2>3. Fit(dialog)'
    BY <1>2, <2>2 DEF Fit
  <2>4. \A k \in TransferCalls : AsAsked(k)'
    BY <1>2, <2>1 DEF AsAsked, NothingOut
  <2>5. QED
    BY <1>2, <2>2, <2>3, <2>4 DEF Accounted, Shown
<1>6. QED
  BY <1>3, <1>4, <1>5 DEF TransferInv, Steady

\* The user's changes of the dialog.
LEMMA DialogUsed ==
  ASSUME TransferInv, OpenDialog \/ CloseDialog \/ HandleFormatChange \/ TypeTitle
  PROVE  TransferInv'
<1>1. Cleared \in DialogState /\ Cleared.phase = "idle" /\ dialog \in DialogState
  BY NamesApart DEF Cleared, DialogState, TransferInv, TransferTypeOK
<1>2. CASE OpenDialog
  <2>1. [Cleared EXCEPT !.open = TRUE] \in DialogState /\ [Cleared EXCEPT !.open = TRUE].phase = "idle"
    BY <1>1 DEF DialogState
  <2>2. UserChanges([Cleared EXCEPT !.open = TRUE])
    BY <1>2 DEF OpenDialog
  <2>3. QED
    BY <2>1, <2>2, DialogChanged DEF Fit
<1>3. CASE CloseDialog
  BY <1>1, <1>3, DialogChanged DEF CloseDialog, Fit
<1>4. CASE HandleFormatChange
  <2>1. PICK f \in Formats : UserChanges([Cleared EXCEPT !.open = TRUE, !.format = f])
    BY <1>4 DEF HandleFormatChange
  <2>2. PICK d : d = [Cleared EXCEPT !.open = TRUE, !.format = f]
    OBVIOUS
  <2>3. d \in DialogState /\ d.phase = "idle"
    BY <1>1, <2>2 DEF DialogState
  <2>4. QED
    BY <2>1, <2>2, <2>3, DialogChanged DEF Fit
<1>5. CASE TypeTitle
  <2>1. PICK d : d = [dialog EXCEPT !.title = TRUE]
    OBVIOUS
  <2>2. d \in DialogState /\ (Fit(dialog) => Fit(d))
    BY <1>1, <2>1 DEF DialogState, Fit
  <2>3. UserChanges(d)
    BY <1>5, <2>1 DEF TypeTitle
  <2>4. QED
    BY <2>2, <2>3, DialogChanged
<1>6. QED
  BY <1>2, <1>3, <1>4, <1>5
\* A call goes out.
LEMMA Issued ==
  ASSUME TransferTypeOK, OneTransfer, NEW k \in TransferCalls, NEW op \in {"read", "preview", "confirm"} \cup Buttons,
         NEW file \in Files \cup {NoFile}, NEW format \in Formats \cup {NoFile}, NEW readAs \in Formats \cup {NoFile},
         Issue(k, op, file, format, readAs)
  PROVE  /\ xfer[k].op = "none" /\ made' \in Nat
         /\ steady' = (steady /\ NothingOut)
         /\ xfer' \in [TransferCalls -> Transfer \cup {NoTransfer}]
         /\ xfer'[k].op = op /\ xfer'[k].file = file /\ xfer'[k].format = format /\ xfer'[k].readAs = readAs
         /\ xfer'[k].at = "sent"
         /\ \A j \in TransferCalls \ {k} : xfer'[j] = xfer[j]
         /\ OneTransfer'
<1>1. PICK t : t = [op |-> op, file |-> file, format |-> format, readAs |-> readAs, at |-> "sent", new |-> 0]
  OBVIOUS
<1>2. /\ t \in Transfer /\ t.op = op /\ t.file = file /\ t.format = format /\ t.readAs = readAs /\ t.at = "sent"
  BY <1>1 DEF Transfer
<1>3. /\ xfer' = [xfer EXCEPT ![k] = t] /\ xfer[k].op = "none" /\ made' = made + 1
      /\ steady' = (steady /\ NothingOut)
  BY <1>1 DEF Issue, Acts
<1>4. /\ xfer' \in [TransferCalls -> Transfer \cup {NoTransfer}]
      /\ xfer'[k] = t
      /\ \A j \in TransferCalls \ {k} : xfer'[j] = xfer[j]
  BY <1>2, <1>3, TransferSlot
<1>5. OneTransfer'
  BY <1>3, <1>4 DEF OneTransfer, NothingOut, Flying
<1>6. made' \in Nat
  BY <1>3 DEF TransferTypeOK
<1>7. QED
  BY <1>2, <1>3, <1>4, <1>5, <1>6

\* A file is chosen, or the import confirmed.
LEMMA ImportIssued ==
  ASSUME TransferInv, NEW k \in TransferCalls, HandleFileChange(k) \/ HandleConfirm(k)
  PROVE  TransferInv'
<1>1. TransferTypeOK /\ OneTransfer /\ ButtonsWait /\ AllCarried /\ OpenedSeeded /\ dialog \in DialogState
  BY DEF TransferInv, TransferTypeOK
<1>2. UNCHANGED <<buttons, imported, opened>>
  BY DEF HandleFileChange, HandleConfirm, importVars
<1>3. PICK op \in {"read", "confirm"}, file \in Files \cup {NoFile}, format \in Formats \cup {NoFile},
           readAs \in Formats \cup {NoFile} :
        /\ Issue(k, op, file, format, readAs)
        /\ op = "read" => file \in Files /\ format = dialog.format /\ readAs = dialog.format /\ dialog' = dialog
        /\ op = "confirm" => /\ dialog.phase = "previewed" /\ dialog' = [dialog EXCEPT !.phase = "confirming"]
                             /\ format = dialog.format /\ readAs = dialog.readAs
  <2>1. dialog.format \in Formats /\ dialog.file \in Files \cup {NoFile} /\ dialog.readAs \in Formats \cup {NoFile}
    BY <1>1 DEF DialogState
  <2>2. CASE HandleFileChange(k)
    <3>1. dialog' = dialog /\ \E f \in Files : Issue(k, "read", f, dialog.format, dialog.format)
      BY <2>2 DEF HandleFileChange, importVars
    <3>2. QED
      BY <2>1, <3>1
  <2>3. CASE HandleConfirm(k)
    <3>1. dialog' = [dialog EXCEPT !.phase = "confirming"] /\ Issue(k, "confirm", dialog.file, dialog.format, dialog.readAs)
          /\ dialog.phase = "previewed"
      BY <2>3 DEF HandleConfirm, CanConfirm
    <3>2. QED
      BY <2>1, <3>1
  <2>4. QED
    BY <2>2, <2>3
<1>4. /\ xfer[k].op = "none" /\ made' \in Nat
      /\ steady' = (steady /\ NothingOut)
      /\ xfer' \in [TransferCalls -> Transfer \cup {NoTransfer}]
      /\ xfer'[k].op = op /\ xfer'[k].file = file /\ xfer'[k].format = format /\ xfer'[k].readAs = readAs
      /\ xfer'[k].at = "sent"
      /\ \A j \in TransferCalls \ {k} : xfer'[j] = xfer[j]
      /\ OneTransfer'
  BY <1>1, <1>3, Issued
<1>5. dialog' \in DialogState /\ (op = "confirm" => dialog'.phase = "confirming") /\ dialog'.format = dialog.format
  BY <1>1, <1>3 DEF DialogState
<1>6. TransferTypeOK'
  BY <1>1, <1>2, <1>4, <1>5 DEF TransferTypeOK
<1>7. ButtonsWait'
  BY <1>1, <1>2, <1>4, NamesApart, ButtonsRest
<1>8. AllCarried' /\ OpenedSeeded'
  BY <1>1, <1>2, <1>4 DEF AllCarried, Carried, OpenedSeeded
<1>9. ASSUME steady' PROVE Fit(dialog)' /\ (\A j \in TransferCalls : AsAsked(j)') /\ Accounted' /\ Shown'
  <2>1. steady /\ NothingOut
    BY <1>4, <1>9
  <2>2. Fit(dialog) /\ Shown /\ \A n \in DOMAIN imported : n \in opened
    BY <2>1, NothingWaited
  <2>3. Fit(dialog)'
    BY <1>3, <1>5, <2>2 DEF Fit
  <2>4. \A j \in TransferCalls \ {k} : AsAsked(j)'
    BY <1>4, <2>1 DEF AsAsked, NothingOut
  <2>5. AsAsked(k)'
    BY <1>3, <1>4, <1>5, <2>2 DEF AsAsked, Fit
  <2>6. QED
    BY <1>2, <2>2, <2>3, <2>4, <2>5 DEF Accounted, Shown
<1>10. QED
  BY <1>4, <1>6, <1>7, <1>8, <1>9 DEF TransferInv, Steady

\* An export is asked for.
LEMMA ExportIssued ==
  ASSUME TransferInv, NEW k \in TransferCalls, NEW b \in Buttons, HandleExport(k, b)
  PROVE  TransferInv'
<1>1. TransferTypeOK /\ OneTransfer /\ ButtonsWait
  BY DEF TransferInv
<1>2. /\ UNCHANGED <<dialog, imported, opened>> /\ Issue(k, b, NoFile, NoFile, NoFile)
      /\ buttons[b] # "generating" /\ buttons' = [buttons EXCEPT ![b] = "generating"]
  BY DEF HandleExport, importVars, NoFile
<1>3. /\ xfer[k].op = "none" /\ made' \in Nat
      /\ steady' = (steady /\ NothingOut)
      /\ xfer' \in [TransferCalls -> Transfer \cup {NoTransfer}]
      /\ xfer'[k].op = b
      /\ \A j \in TransferCalls \ {k} : xfer'[j] = xfer[j]
      /\ OneTransfer'
  BY <1>1, <1>2, Issued
<1>4. TransferTypeOK'
  BY <1>1, <1>2, <1>3 DEF TransferTypeOK
<1>5. ButtonsWait'
  <2>1. SUFFICES ASSUME NEW a \in Buttons PROVE ButtonWaits(a)'
    BY DEF ButtonsWait
  <2>2. ButtonWaits(a) /\ ButtonWaits(b) /\ a # "none"
    BY <1>1, NamesApart DEF ButtonsWait
  <2>3. CASE a = b
    BY <1>1, <1>2, <1>3, <2>2, <2>3 DEF ButtonWaits, TransferTypeOK
  <2>4. CASE a # b
    BY <1>1, <1>2, <1>3, <2>2, <2>4 DEF ButtonWaits, TransferTypeOK
  <2>5. QED
    BY <2>3, <2>4
<1>6. \A j \in TransferCalls : xfer[j].op \in {"read", "preview", "confirm"} \/ xfer'[j].op \in {"read", "preview", "confirm"}
                                 => xfer'[j] = xfer[j]
  BY <1>3, NamesApart
<1>7. QED
  BY <1>2, <1>3, <1>4, <1>5, <1>6, ImportsRest

\* An export goes on at the server, or is lost.
LEMMA ExportServed ==
  ASSUME TransferInv, NEW k \in TransferCalls, xfer[k].op \in Buttons,
         GenerateExport(k) \/ RefuseExport(k) \/ LoseTransfer(k)
  PROVE  TransferInv'
<1>1. TransferTypeOK /\ OneTransfer /\ ButtonsWait
  BY DEF TransferInv
<1>2. Flying(k) /\ xfer[k].op \notin {"none", "read", "preview", "confirm"}
  BY NamesApart DEF Flying
<1>3. PICK at \in {"parsed", "ok", "invalid", "error", "rate_limited"} : Goes(k, at)
  BY DEF GenerateExport, RefuseExport, LoseTransfer
<1>4. UNCHANGED <<dialog, imported, opened, buttons, made>> /\ steady' \in BOOLEAN /\ (steady' => steady)
  <2>1. steady \in BOOLEAN
    BY <1>1 DEF TransferTypeOK
  <2>2. CASE GenerateExport(k) \/ RefuseExport(k)
    BY <2>1, <2>2 DEF GenerateExport, RefuseExport, importVars
  <2>3. CASE LoseTransfer(k)
    BY <2>1, <2>3 DEF LoseTransfer, importVars
  <2>4. QED
    BY <2>2, <2>3
<1>5. /\ xfer' \in [TransferCalls -> Transfer \cup {NoTransfer}]
      /\ xfer'[k].op = xfer[k].op
      /\ \A j \in TransferCalls \ {k} : xfer'[j] = xfer[j]
  BY <1>1, <1>2, <1>3, GoesOn
<1>6. TransferTypeOK'
  BY <1>1, <1>4, <1>5 DEF TransferTypeOK
<1>7. OneTransfer'
  BY <1>1, <1>4, <1>5 DEF OneTransfer, Flying
<1>8. ButtonsWait'
  BY <1>1, <1>4, <1>5 DEF ButtonsWait, ButtonWaits
<1>9. QED
  BY <1>2, <1>4, <1>5, <1>6, <1>7, <1>8, ImportsRest

\* An export is answered.
LEMMA ExportAnswered ==
  ASSUME TransferInv, NEW k \in TransferCalls, Exported(k)
  PROVE  TransferInv'
<1>1. TransferTypeOK /\ OneTransfer /\ ButtonsWait
  BY DEF TransferInv
<1>2. PICK b \in Buttons : b = xfer[k].op
  BY DEF Exported, Came
<1>3. b \notin {"none", "read", "preview", "confirm"}
  BY NamesApart
<1>4. /\ UNCHANGED <<dialog, imported, opened, made, steady>> /\ xfer' = [xfer EXCEPT ![k] = NoTransfer]
      /\ buttons' = [buttons EXCEPT ![b] = AfterExport(b, xfer[k].at)]
  BY <1>2 DEF Exported, importVars, EndTransfer
<1>5. AfterExport(b, xfer[k].at) \in {"idle", "ready", "error", "rate_limited"}
  BY DEF AfterExport
<1>6. /\ xfer' \in [TransferCalls -> Transfer \cup {NoTransfer}]
      /\ xfer'[k].op = "none"
      /\ \A j \in TransferCalls \ {k} : xfer'[j] = xfer[j]
  BY <1>1, <1>4, TransferSlot DEF NoTransfer
<1>7. TransferTypeOK'
  BY <1>1, <1>4, <1>5, <1>6 DEF TransferTypeOK
<1>8. OneTransfer'
  BY <1>1, <1>4, <1>6 DEF OneTransfer, Flying
<1>9. ButtonsWait'
  <2>1. SUFFICES ASSUME NEW a \in Buttons PROVE ButtonWaits(a)'
    BY DEF ButtonsWait
  <2>2. ButtonWaits(a) /\ ButtonWaits(b) /\ a # "none"
    BY <1>1, NamesApart DEF ButtonsWait
  <2>3. CASE a = b
    <3>1. \A j \in TransferCalls : xfer'[j].op # b
      BY <1>2, <1>3, <1>6, <2>2 DEF ButtonWaits
    <3>2. buttons'[b] # "generating"
      BY <1>1, <1>4, <1>5 DEF TransferTypeOK
    <3>3. QED
      BY <2>3, <3>1, <3>2 DEF ButtonWaits
  <2>4. CASE a # b
    <3>1. buttons'[a] = buttons[a]
      BY <1>1, <1>4, <2>4 DEF TransferTypeOK
    <3>2. \A j \in TransferCalls : xfer'[j].op = a <=> xfer[j].op = a
      BY <1>2, <1>6, <2>2, <2>4
    <3>3. QED
      BY <2>2, <3>1, <3>2 DEF ButtonWaits
  <2>5. QED
    BY <2>3, <2>4
<1>10. QED
  BY <1>2, <1>3, <1>4, <1>6, <1>7, <1>8, <1>9, ImportsRest
\* A call of the dialog is answered, refused or lost before it has created
\* anything, or, by a user who is then no longer steady, after it.
LEMMA ImportGoesOn ==
  ASSUME TransferInv, NEW k \in TransferCalls, xfer[k].op \in {"preview", "confirm"},
         NEW at \in {"parsed", "ok", "invalid", "error", "rate_limited"}, Goes(k, at),
         xfer[k].op = "confirm" => at # "ok", UNCHANGED <<dialog, imported, opened, buttons, made>>,
         steady' \in BOOLEAN, steady' => steady,
         steady' => ~(xfer[k].op = "confirm" /\ xfer[k].at \in {"created", "ok"})
  PROVE  TransferInv'
<1>1. TransferTypeOK /\ OneTransfer /\ ButtonsWait /\ AllCarried /\ OpenedSeeded
  BY DEF TransferInv
<1>2. Flying(k)
  BY DEF Flying
<1>3. /\ xfer' \in [TransferCalls -> Transfer \cup {NoTransfer}]
      /\ xfer'[k].op = xfer[k].op /\ xfer'[k].file = xfer[k].file /\ xfer'[k].format = xfer[k].format
      /\ xfer'[k].readAs = xfer[k].readAs /\ xfer'[k].new = xfer[k].new /\ xfer'[k].at = at
      /\ \A j \in TransferCalls \ {k} : xfer'[j] = xfer[j]
  BY <1>1, <1>2, GoesOn
<1>4. TransferTypeOK'
  BY <1>1, <1>3 DEF TransferTypeOK
<1>5. OneTransfer'
  BY <1>1, <1>3 DEF OneTransfer, Flying
<1>6. ButtonsWait'
  BY <1>1, <1>3, NamesApart, ButtonsRest
<1>7. AllCarried' /\ OpenedSeeded'
  BY <1>1, <1>3 DEF AllCarried, Carried, OpenedSeeded
<1>8. ASSUME steady' PROVE Fit(dialog)' /\ (\A j \in TransferCalls : AsAsked(j)') /\ Accounted' /\ Shown'
  <2>1. Fit(dialog) /\ (\A j \in TransferCalls : AsAsked(j)) /\ Accounted /\ Shown
    BY <1>8 DEF TransferInv, Steady
  <2>2. Fit(dialog)' /\ Shown'
    BY <2>1 DEF Fit, Shown
  <2>3. \A j \in TransferCalls : AsAsked(j)'
    BY <1>3, <2>1 DEF AsAsked
  <2>4. \A n : Carries(k, n) => FALSE
    BY <1>8 DEF Carries
  <2>5. Accounted'
    BY <1>3, <2>1, <2>4 DEF Accounted, Carries
  <2>6. QED
    BY <2>2, <2>3, <2>5
<1>9. QED
  BY <1>4, <1>5, <1>6, <1>7, <1>8 DEF TransferInv, Steady

\* The import routes before the creation.
LEMMA ImportServed ==
  ASSUME TransferInv, NEW k \in TransferCalls,
         PreviewImport(k) \/ RefuseImport(k) \/ (xfer[k].op \in {"preview", "confirm"} /\ LoseTransfer(k))
  PROVE  TransferInv'
<1>1. steady \in BOOLEAN
  BY DEF TransferInv, TransferTypeOK
<1>2. xfer[k].op \in {"preview", "confirm"} /\ UNCHANGED <<dialog, imported, opened, buttons, made>>
  BY DEF PreviewImport, RefuseImport, LoseTransfer, importVars, SentAs
<1>3. CASE PreviewImport(k)
  <2>1. PICK at \in {"parsed", "ok", "invalid", "error"} : Goes(k, at) /\ (xfer[k].op = "confirm" => at # "ok")
    BY <1>3 DEF PreviewImport
  <2>2. steady' = steady /\ xfer[k].at = "sent"
    BY <1>3 DEF PreviewImport, SentAs
  <2>3. QED
    BY <1>1, <1>2, <2>1, <2>2, ImportGoesOn
<1>4. CASE RefuseImport(k)
  <2>1. Goes(k, "error") /\ steady' = steady /\ xfer[k].at = "sent"
    BY <1>4 DEF RefuseImport, SentAs
  <2>2. QED
    BY <1>1, <1>2, <2>1, ImportGoesOn
<1>5. CASE LoseTransfer(k)
  <2>1. Goes(k, "error") /\ steady' = (steady /\ xfer[k].at \notin {"created", "ok"})
    BY <1>5 DEF LoseTransfer
  <2>2. QED
    BY <1>1, <1>2, <2>1, ImportGoesOn
<1>6. QED
  BY <1>3, <1>4, <1>5

\* The diagram is created: from here the confirmation carries it.
LEMMA ImportCreates ==
  ASSUME TransferInv, NEW k \in TransferCalls, CreateImported(k)
  PROVE  TransferInv'
<1>1. TransferTypeOK /\ OneTransfer /\ ButtonsWait /\ AllCarried /\ OpenedSeeded /\ imported \in Seq(ImportedDiagram)
  BY DEF TransferInv, TransferTypeOK
<1>2. xfer[k].op = "confirm" /\ xfer[k].at = "parsed" /\ UNCHANGED <<dialog, opened, buttons, made, steady>>
  BY DEF CreateImported
<1>3. xfer[k] \in Transfer
  BY <1>1, <1>2, FlightsAreCalls DEF Flying
<1>4. PICK d : d = [file |-> xfer[k].file, format |-> xfer[k].format, readAs |-> xfer[k].readAs, seeded |-> FALSE]
  OBVIOUS
<1>5. d \in ImportedDiagram /\ d.format = xfer[k].format /\ d.readAs = xfer[k].readAs
  BY <1>3, <1>4 DEF ImportedDiagram, Transfer
<1>6. PICK n \in Nat : n = Len(imported) + 1
  BY <1>1
<1>7. imported' = Append(imported, d)
  BY <1>4 DEF CreateImported
<1>8. /\ imported' \in Seq(ImportedDiagram) /\ DOMAIN imported' = DOMAIN imported \cup {n}
      /\ imported'[n] = d /\ \A m \in DOMAIN imported : imported'[m] = imported[m]
  BY <1>1, <1>5, <1>6, <1>7
<1>9. PICK t : t = [[xfer[k] EXCEPT !.at = "created"] EXCEPT !.new = n]
  OBVIOUS
<1>10. /\ t \in Transfer /\ t.op = "confirm" /\ t.at = "created" /\ t.new = n
       /\ t.format = xfer[k].format /\ t.readAs = xfer[k].readAs
  <2>1. PICK u : u = [xfer[k] EXCEPT !.at = "created"]
    OBVIOUS
  <2>2. u \in Transfer /\ u.op = "confirm" /\ u.at = "created" /\ u.format = xfer[k].format /\ u.readAs = xfer[k].readAs
    BY <1>2, <1>3, <2>1 DEF Transfer
  <2>3. t = [u EXCEPT !.new = n]
    BY <1>9, <2>1
  <2>4. QED
    BY <2>2, <2>3 DEF Transfer
<1>11. xfer' = [xfer EXCEPT ![k] = t]
  BY <1>1, <1>6, <1>9 DEF CreateImported, TransferTypeOK
<1>12. /\ xfer' \in [TransferCalls -> Transfer \cup {NoTransfer}]
       /\ xfer'[k] = t
       /\ \A j \in TransferCalls \ {k} : xfer'[j] = xfer[j]
  BY <1>1, <1>10, <1>11, TransferSlot
<1>13. TransferTypeOK'
  BY <1>1, <1>2, <1>8, <1>12 DEF TransferTypeOK
<1>14. OneTransfer'
  BY <1>1, <1>2, <1>10, <1>12 DEF OneTransfer, Flying
<1>15. ButtonsWait'
  BY <1>1, <1>2, <1>10, <1>12, NamesApart, ButtonsRest
<1>16. AllCarried' /\ OpenedSeeded'
  BY <1>1, <1>2, <1>8, <1>10, <1>12 DEF AllCarried, Carried, OpenedSeeded
<1>17. ASSUME steady' PROVE Fit(dialog)' /\ (\A j \in TransferCalls : AsAsked(j)') /\ Accounted' /\ Shown'
  <2>1. Fit(dialog) /\ (\A j \in TransferCalls : AsAsked(j)) /\ Accounted /\ Shown
    BY <1>2, <1>17 DEF TransferInv, Steady
  <2>2. Fit(dialog)'
    BY <1>2, <2>1 DEF Fit
  <2>3. \A j \in TransferCalls : AsAsked(j)'
    BY <1>2, <1>10, <1>12, <2>1 DEF AsAsked
  <2>4. Shown'
    BY <1>2, <1>5, <1>8, <2>1 DEF AsAsked, Shown
  <2>5. Carries(k, n)'
    BY <1>10, <1>12 DEF Carries
  <2>6. \A m \in DOMAIN imported : m \in opened \/ \E j \in TransferCalls : Carries(j, m)'
    BY <1>2, <1>12, <2>1 DEF Accounted, Carries
  <2>7. Accounted'
    BY <1>2, <1>8, <2>5, <2>6 DEF Accounted
  <2>8. QED
    BY <2>2, <2>3, <2>4, <2>7
<1>18. QED
  BY <1>13, <1>14, <1>15, <1>16, <1>17 DEF TransferInv, Steady

\* Its first revision is stored.
LEMMA ImportSeeds ==
  ASSUME TransferInv, NEW k \in TransferCalls, SeedImported(k)
  PROVE  TransferInv'
<1>1. TransferTypeOK /\ OneTransfer /\ ButtonsWait /\ AllCarried /\ OpenedSeeded /\ imported \in Seq(ImportedDiagram)
  BY DEF TransferInv, TransferTypeOK
<1>2. /\ xfer[k].op = "confirm" /\ xfer[k].at = "created" /\ UNCHANGED <<dialog, opened, buttons, made, steady>>
      /\ imported' = [imported EXCEPT ![xfer[k].new].seeded = TRUE] /\ Goes(k, "ok")
  BY DEF SeedImported
<1>3. PICK n : n = xfer[k].new
  OBVIOUS
<1>4. n \in DOMAIN imported /\ imported[n] \in ImportedDiagram
  BY <1>1, <1>2, <1>3 DEF AllCarried, Carried
<1>5. PICK d : d = [imported[n] EXCEPT !.seeded = TRUE]
  OBVIOUS
<1>6. d \in ImportedDiagram /\ d.seeded /\ d.format = imported[n].format /\ d.readAs = imported[n].readAs
  BY <1>4, <1>5 DEF ImportedDiagram
<1>7. imported' = [imported EXCEPT ![n] = d]
  BY <1>2, <1>3, <1>5
<1>8. /\ imported' \in Seq(ImportedDiagram) /\ DOMAIN imported' = DOMAIN imported
      /\ imported'[n] = d /\ \A m \in DOMAIN imported \ {n} : imported'[m] = imported[m]
  BY <1>1, <1>4, <1>6, <1>7
<1>9. Flying(k)
  BY <1>2 DEF Flying
<1>10. /\ xfer' \in [TransferCalls -> Transfer \cup {NoTransfer}]
       /\ xfer'[k].op = xfer[k].op /\ xfer'[k].file = xfer[k].file /\ xfer'[k].format = xfer[k].format
       /\ xfer'[k].readAs = xfer[k].readAs /\ xfer'[k].new = xfer[k].new /\ xfer'[k].at = "ok"
       /\ \A j \in TransferCalls \ {k} : xfer'[j] = xfer[j]
  BY <1>1, <1>2, <1>9, GoesOn
<1>11. TransferTypeOK'
  BY <1>1, <1>2, <1>8, <1>10 DEF TransferTypeOK
<1>12. OneTransfer'
  BY <1>1, <1>2, <1>10 DEF OneTransfer, Flying
<1>13. ButtonsWait'
  BY <1>1, <1>2, <1>10, NamesApart, ButtonsRest
<1>14. \A m \in DOMAIN imported : imported[m].seeded => imported'[m].seeded
  BY <1>6, <1>8
<1>15. AllCarried' /\ OpenedSeeded'
  BY <1>1, <1>2, <1>3, <1>6, <1>8, <1>10, <1>14 DEF AllCarried, Carried, OpenedSeeded
<1>16. ASSUME steady' PROVE Fit(dialog)' /\ (\A j \in TransferCalls : AsAsked(j)') /\ Accounted' /\ Shown'
  <2>1. Fit(dialog) /\ (\A j \in TransferCalls : AsAsked(j)) /\ Accounted /\ Shown
    BY <1>2, <1>16 DEF TransferInv, Steady
  <2>2. Fit(dialog)'
    BY <1>2, <2>1 DEF Fit
  <2>3. \A j \in TransferCalls : AsAsked(j)'
    BY <1>2, <1>10, <2>1 DEF AsAsked
  <2>4. Shown'
    BY <1>4, <1>6, <1>8, <2>1 DEF Shown
  <2>5. Accounted'
    BY <1>2, <1>8, <1>10, <2>1 DEF Accounted, Carries
  <2>6. QED
    BY <2>2, <2>3, <2>4, <2>5
<1>17. QED
  BY <1>11, <1>12, <1>13, <1>15, <1>16 DEF TransferInv, Steady
\* The step of k alone: a steady user has nothing else out.
LEMMA OnlyOne ==
  ASSUME TransferInv, steady, NEW k \in TransferCalls, Flying(k)
  PROVE  \A j \in TransferCalls \ {k} : ~Flying(j)
BY DEF TransferInv, OneTransfer

\* The text of a file is there.
LEMMA TextRead ==
  ASSUME TransferInv, NEW k \in TransferCalls, FileRead(k)
  PROVE  TransferInv'
<1>1. TransferTypeOK /\ OneTransfer /\ ButtonsWait /\ AllCarried /\ OpenedSeeded /\ dialog \in DialogState
  BY DEF TransferInv, TransferTypeOK
<1>2. xfer[k].op = "read" /\ Flying(k) /\ UNCHANGED <<buttons, made, imported, opened, steady>>
  BY DEF FileRead, Flying
<1>3. xfer[k] \in Transfer
  BY <1>1, <1>2, FlightsAreCalls
<1>4. PICK phase : phase = IF xfer[k].format = "excalidraw" THEN "previewing" ELSE "previewed"
  OBVIOUS
<1>5. dialog' = [dialog EXCEPT !.file = xfer[k].file, !.readAs = xfer[k].readAs, !.preview = NoFile, !.phase = phase]
  BY <1>4 DEF FileRead
<1>6. xfer[k].file \in Files \cup {NoFile} /\ xfer[k].readAs \in Formats \cup {NoFile}
      /\ phase \in {"previewing", "previewed"}
  BY <1>3, <1>4 DEF Transfer
<1>7. /\ dialog' \in DialogState
      /\ dialog'.file = xfer[k].file /\ dialog'.readAs = xfer[k].readAs /\ dialog'.phase = phase
      /\ dialog'.format = dialog.format
  BY <1>1, <1>5, <1>6 DEF DialogState
<1>8. PICK t : t = IF xfer[k].format = "excalidraw" THEN [xfer[k] EXCEPT !.op = "preview"] ELSE NoTransfer
  OBVIOUS
<1>9. /\ t \in Transfer \cup {NoTransfer} /\ t.op \in {"preview", "none"}
      /\ t.op = "preview" => xfer[k].format = "excalidraw" /\ t.file = xfer[k].file
  <2>1. CASE xfer[k].format = "excalidraw"
    <3>1. t = [xfer[k] EXCEPT !.op = "preview"]
      BY <1>8, <2>1
    <3>2. t \in Transfer /\ t.op = "preview" /\ t.file = xfer[k].file
      BY <1>3, <3>1 DEF Transfer
    <3>3. QED
      BY <2>1, <3>2
  <2>2. CASE xfer[k].format # "excalidraw"
    BY <1>8, <2>2 DEF NoTransfer
  <2>3. QED
    BY <2>1, <2>2
<1>10. xfer' = [xfer EXCEPT ![k] = t]
  BY <1>1, <1>8 DEF FileRead, TransferTypeOK
<1>11. /\ xfer' \in [TransferCalls -> Transfer \cup {NoTransfer}]
       /\ xfer'[k] = t
       /\ \A j \in TransferCalls \ {k} : xfer'[j] = xfer[j]
  BY <1>1, <1>9, <1>10, TransferSlot
<1>12. TransferTypeOK'
  BY <1>1, <1>2, <1>7, <1>11 DEF TransferTypeOK
<1>13. OneTransfer'
  BY <1>1, <1>2, <1>11 DEF OneTransfer, Flying
<1>14. ButtonsWait'
  BY <1>1, <1>2, <1>9, <1>11, NamesApart, ButtonsRest
<1>15. AllCarried' /\ OpenedSeeded'
  BY <1>1, <1>2, <1>9, <1>11 DEF AllCarried, Carried, OpenedSeeded
<1>16. ASSUME steady' PROVE Fit(dialog)' /\ (\A j \in TransferCalls : AsAsked(j)') /\ Accounted' /\ Shown'
  <2>1. Fit(dialog) /\ AsAsked(k) /\ Accounted /\ Shown
    BY <1>2, <1>16 DEF TransferInv, Steady
  <2>2. \A j \in TransferCalls \ {k} : ~Flying(j)
    BY <1>2, <1>16, OnlyOne
  <2>3. xfer[k].file \in Files /\ xfer[k].format = dialog.format /\ xfer[k].readAs = dialog.format
    BY <1>2, <2>1 DEF AsAsked
  <2>4. Fit(dialog')
    BY <1>4, <1>7, <2>3, NamesApart DEF Fit
  <2>5. AsAsked(k)'
    BY <1>4, <1>7, <1>9, <1>11, <2>3 DEF AsAsked
  <2>6. \A j \in TransferCalls \ {k} : AsAsked(j)'
    BY <1>11, <2>2 DEF AsAsked, Flying
  <2>7. Accounted' /\ Shown'
    BY <1>2, <1>11, <2>1 DEF Accounted, Carries, Shown
  <2>8. QED
    BY <2>4, <2>5, <2>6, <2>7
<1>17. QED
  BY <1>12, <1>13, <1>14, <1>15, <1>16 DEF TransferInv, Steady

\* The preview is there, or refused.
LEMMA PreviewShown ==
  ASSUME TransferInv, NEW k \in TransferCalls, Previewed(k)
  PROVE  TransferInv'
<1>1. TransferTypeOK /\ OneTransfer /\ ButtonsWait /\ AllCarried /\ OpenedSeeded /\ dialog \in DialogState
  BY DEF TransferInv, TransferTypeOK
<1>2. /\ xfer[k].op = "preview" /\ Flying(k) /\ xfer' = [xfer EXCEPT ![k] = NoTransfer]
      /\ xfer[k].at \in {"ok", "invalid", "error", "rate_limited"}
      /\ UNCHANGED <<buttons, made, imported, opened, steady>>
  BY DEF Previewed, Came, Flying, EndTransfer
<1>3. xfer[k] \in Transfer /\ xfer[k].file \in Files \cup {NoFile}
  BY <1>1, <1>2, FlightsAreCalls DEF Transfer
<1>4. /\ dialog' \in DialogState /\ dialog'.file = dialog.file /\ dialog'.readAs = dialog.readAs
      /\ dialog'.format = dialog.format /\ (dialog'.phase = "previewed" => dialog'.preview = xfer[k].file)
  <2>1. CASE xfer[k].at = "ok"
    <3>1. dialog' = [dialog EXCEPT !.phase = "previewed", !.preview = xfer[k].file]
      BY <2>1 DEF Previewed
    <3>2. QED
      BY <1>1, <1>3, <3>1 DEF DialogState
  <2>2. CASE xfer[k].at # "ok"
    <3>1. PICK at \in {"invalid", "error", "rate_limited"} : dialog' = [dialog EXCEPT !.phase = at]
      BY <1>2, <2>2 DEF Previewed
    <3>2. QED
      BY <1>1, <3>1 DEF DialogState
  <2>3. QED
    BY <2>1, <2>2
<1>5. /\ xfer' \in [TransferCalls -> Transfer \cup {NoTransfer}]
      /\ xfer'[k].op = "none"
      /\ \A j \in TransferCalls \ {k} : xfer'[j] = xfer[j]
  BY <1>1, <1>2, TransferSlot DEF NoTransfer
<1>6. TransferTypeOK'
  BY <1>1, <1>2, <1>4, <1>5 DEF TransferTypeOK
<1>7. OneTransfer'
  BY <1>1, <1>2, <1>5 DEF OneTransfer, Flying
<1>8. ButtonsWait'
  BY <1>1, <1>2, <1>5, NamesApart, ButtonsRest
<1>9. AllCarried' /\ OpenedSeeded'
  BY <1>1, <1>2, <1>5 DEF AllCarried, Carried, OpenedSeeded
<1>10. ASSUME steady' PROVE Fit(dialog)' /\ (\A j \in TransferCalls : AsAsked(j)') /\ Accounted' /\ Shown'
  <2>1. Fit(dialog) /\ AsAsked(k) /\ Accounted /\ Shown
    BY <1>2, <1>10 DEF TransferInv, Steady
  <2>2. \A j \in TransferCalls : ~Flying(j)'
    BY <1>2, <1>5, <1>10, OnlyOne DEF Flying
  <2>3. dialog.file = xfer[k].file /\ xfer[k].file \in Files /\ dialog.readAs = dialog.format
    BY <1>2, <2>1 DEF AsAsked
  <2>4. Fit(dialog')
    BY <1>4, <2>3, NamesApart DEF Fit
  <2>5. \A j \in TransferCalls : AsAsked(j)'
    BY <2>2 DEF AsAsked, Flying
  <2>6. Accounted' /\ Shown'
    BY <1>2, <1>5, <2>1 DEF Accounted, Carries, Shown
  <2>7. QED
    BY <2>4, <2>5, <2>6
<1>11. QED
  BY <1>6, <1>7, <1>8, <1>9, <1>10 DEF TransferInv, Steady

\* The confirmation is answered: the page goes to the diagram it carried.
LEMMA ImportConfirmed ==
  ASSUME TransferInv, NEW k \in TransferCalls, Confirmed(k)
  PROVE  TransferInv'
<1>1. TransferTypeOK /\ OneTransfer /\ ButtonsWait /\ AllCarried /\ OpenedSeeded /\ dialog \in DialogState
  BY DEF TransferInv, TransferTypeOK
<1>2. /\ xfer[k].op = "confirm" /\ Flying(k) /\ xfer' = [xfer EXCEPT ![k] = NoTransfer]
      /\ xfer[k].at \in {"ok", "invalid", "error", "rate_limited"}
      /\ UNCHANGED <<buttons, made, imported, steady>>
  BY DEF Confirmed, Came, Flying, EndTransfer
<1>3. /\ dialog' \in DialogState /\ dialog'.phase # "previewed"
      /\ opened' = (IF xfer[k].at = "ok" THEN opened \cup {xfer[k].new} ELSE opened)
  <2>1. CASE xfer[k].at = "ok"
    <3>1. dialog' = Cleared /\ opened' = opened \cup {xfer[k].new}
      BY <2>1 DEF Confirmed
    <3>2. QED
      BY <2>1, <3>1, NamesApart DEF Cleared, DialogState
  <2>2. CASE xfer[k].at # "ok"
    <3>1. /\ opened' = opened
          /\ \E at \in {"invalid", "error", "rate_limited"} : dialog' = [dialog EXCEPT !.phase = at]
      BY <1>2, <2>2 DEF Confirmed
    <3>2. PICK at \in {"invalid", "error", "rate_limited"} : dialog' = [dialog EXCEPT !.phase = at]
      BY <3>1
    <3>3. QED
      BY <1>1, <2>2, <3>1, <3>2 DEF DialogState
  <2>3. QED
    BY <2>1, <2>2
<1>4. /\ xfer' \in [TransferCalls -> Transfer \cup {NoTransfer}]
      /\ xfer'[k].op = "none"
      /\ \A j \in TransferCalls \ {k} : xfer'[j] = xfer[j]
  BY <1>1, <1>2, TransferSlot DEF NoTransfer
<1>5. TransferTypeOK'
  BY <1>1, <1>2, <1>3, <1>4 DEF TransferTypeOK
<1>6. OneTransfer'
  BY <1>1, <1>2, <1>4 DEF OneTransfer, Flying
<1>7. ButtonsWait'
  BY <1>1, <1>2, <1>4, NamesApart, ButtonsRest
<1>8. AllCarried'
  BY <1>1, <1>2, <1>4 DEF AllCarried, Carried
<1>9. OpenedSeeded'
  <2>1. xfer[k].at = "ok" => xfer[k].new \in DOMAIN imported /\ imported[xfer[k].new].seeded
    BY <1>1, <1>2 DEF AllCarried, Carried
  <2>2. QED
    BY <1>1, <1>2, <1>3, <2>1 DEF OpenedSeeded
<1>10. ASSUME steady' PROVE Fit(dialog)' /\ (\A j \in TransferCalls : AsAsked(j)') /\ Accounted' /\ Shown'
  <2>1. Accounted /\ Shown
    BY <1>2, <1>10 DEF TransferInv, Steady
  <2>2. \A j \in TransferCalls : ~Flying(j)'
    BY <1>2, <1>4, <1>10, OnlyOne DEF Flying
  <2>3. Fit(dialog')
    BY <1>3 DEF Fit
  <2>4. \A j \in TransferCalls : AsAsked(j)'
    BY <2>2 DEF AsAsked, Flying
  <2>5. Shown'
    BY <1>2, <2>1 DEF Shown
  <2>6. ASSUME NEW n \in DOMAIN imported PROVE n \in opened'
    <3>1. CASE n \in opened
      BY <1>3, <3>1
    <3>2. CASE n \notin opened
      <4>1. PICK j \in TransferCalls : Carries(j, n)
        BY <2>1, <3>2 DEF Accounted
      <4>2. j = k
        BY <1>2, <1>10, <4>1, OnlyOne DEF Carries, Flying
      <4>3. QED
        BY <1>2, <1>3, <4>1, <4>2 DEF Carries
    <3>3. QED
      BY <3>1, <3>2
  <2>7. Accounted'
    BY <1>2, <2>6 DEF Accounted
  <2>8. QED
    BY <2>3, <2>4, <2>5, <2>7
<1>11. QED
  BY <1>5, <1>6, <1>7, <1>8, <1>9, <1>10 DEF TransferInv, Steady

\* Before anything is imported or exported.
LEMMA TransfersBegin == TransferInit => TransferInv
<1> SUFFICES ASSUME TransferInit PROVE TransferInv
  OBVIOUS
<1>1. <<>> \in Seq(ImportedDiagram) /\ DOMAIN <<>> = {}
  OBVIOUS
<1>2. Cleared \in DialogState /\ Cleared.phase = "idle"
  BY NamesApart DEF Cleared, DialogState
<1>3. TransferTypeOK
  BY <1>1, <1>2 DEF TransferInit, TransferTypeOK
<1>4. \A k \in TransferCalls : xfer[k].op = "none"
  BY DEF TransferInit, NoTransfer
<1>5. ButtonsWait
  BY <1>4, NamesApart DEF TransferInit, ButtonsWait, ButtonWaits
<1>6. OneTransfer /\ AllCarried /\ OpenedSeeded /\ Steady
  BY <1>1, <1>2, <1>4 DEF TransferInit, OneTransfer, Flying, AllCarried, Carried, OpenedSeeded, Steady, Fit, AsAsked,
     Accounted, Shown
<1>7. QED
  BY <1>3, <1>5, <1>6 DEF TransferInv

\* XPRT-07..12 and INT-06..14, for any number of files, formats and calls: the
\* page goes to diagrams that hold their scene, a button waits for exactly one
\* call, and a steady user imports what was previewed and goes wherever an import
\* created something.
THEOREM ImportsAreAsShown == TransferSpec => []ImportsWhatWasShown
<1>1. ASSUME TransferInv, [ImportNext \/ ExportNext]_transferVars
      PROVE  TransferInv'
  <2>1. ASSUME NEW k \in TransferCalls, LoseTransfer(k)
        PROVE  TransferInv'
    <3>1. xfer[k].op \in {"preview", "confirm"} \/ xfer[k].op \in Buttons
      BY <1>1, <2>1, FlightsAreCalls DEF LoseTransfer, TransferInv, Transfer, Flying
    <3>2. QED
      BY <1>1, <2>1, <3>1, ImportServed, ExportServed
  <2>2. CASE ImportNext
    BY <1>1, <2>1, <2>2, DialogUsed, ImportIssued, TextRead, PreviewShown, ImportConfirmed, ImportServed, ImportCreates,
       ImportSeeds DEF ImportNext
  <2>3. CASE ExportNext
    <3>1. ASSUME NEW k \in TransferCalls, GenerateExport(k) \/ RefuseExport(k)
          PROVE  TransferInv'
      BY <1>1, <3>1, ExportServed DEF GenerateExport, RefuseExport, SentAs
    <3>2. QED
      BY <1>1, <2>1, <2>3, <3>1, ExportIssued, ExportAnswered DEF ExportNext
  <2>4. CASE UNCHANGED transferVars
    BY <1>1, <2>4 DEF transferVars, TransferInv, TransferTypeOK, OneTransfer, Flying, ButtonsWait, ButtonWaits, AllCarried,
       Carried, OpenedSeeded, Steady, Fit, AsAsked, Accounted, Carries, Shown
  <2>5. QED
    BY <1>1, <2>2, <2>3, <2>4
<1>2. TransferInv => ImportsWhatWasShown
  <2> SUFFICES ASSUME TransferInv PROVE ImportsWhatWasShown
    OBVIOUS
  <2>1. \A n \in opened : imported[n].seeded
    BY DEF TransferInv, OpenedSeeded
  <2>2. ASSUME NEW b \in Buttons, buttons[b] = "generating"
        PROVE  \E k \in TransferCalls : {j \in TransferCalls : xfer[j].op = b} = {k}
    <3>1. PICK k \in TransferCalls : xfer[k].op = b
      BY <2>2 DEF TransferInv, ButtonsWait, ButtonWaits
    <3>2. \A j \in TransferCalls : xfer[j].op = b => j = k
      BY <3>1 DEF TransferInv, ButtonsWait, ButtonWaits
    <3>3. {j \in TransferCalls : xfer[j].op = b} = {k}
      BY <3>1, <3>2
    <3>4. QED
      BY <3>3
  <2>3. ASSUME steady, NothingOut
        PROVE  opened = DOMAIN imported
    BY <2>3, NothingWaited DEF TransferInv, OpenedSeeded
  <2>4. steady => Fit(dialog) /\ Shown
    BY DEF TransferInv, Steady
  <2>5. QED
    BY <2>1, <2>2, <2>3, <2>4 DEF ImportsWhatWasShown, Fit, Shown
<1>3. QED
  BY <1>1, <1>2, TransfersBegin, PTL DEF TransferSpec

-----------------------------------------------------------------------------
(* The drawing agent's run.                                                *)

DrawRefs == DrawIds \cup {NoRef}
Drawn == [type : {"none", "shape", "text", "arrow", "frame"}, ver : Nat, dead : BOOLEAN, ct : DrawRefs,
          from : DrawRefs, to : DrawRefs, frame : DrawRefs, grp : BOOLEAN, pos : 0..1, look : 0..1]
References(e) == {e.ct, e.from, e.to, e.frame}

\* A text is in the scene and in no frame; an element is deleted once.
SceneSound(s) ==
  /\ s \in [DrawIds -> Drawn]
  /\ \A i \in DrawIds : /\ s[i].type = "text" => s[i].ver \in 1..2 /\ References(s[i]) \subseteq {s[i].ct, NoRef}
                        /\ s[i].ver <= 2 /\ (~s[i].dead => s[i].ver < 2)

Operations == [op : {"upsert", "delete"}, el : Drawn]
Pieces == UNION {[ids -> Operations] : ids \in SUBSET DrawIds}
Touches(p) == UNION {DOMAIN p[n] : n \in DOMAIN p}

\* What a run that read s may refer to when its patch touches the ids of t.
Known(s, t) == {NoRef} \cup AliveIds(s) \cup Dangling(s) \cup t
OpSound(o, i, s, t) ==
  (o = Removal /\ i \in AliveIds(s)) \/ (o.op = "upsert" /\ o.el.ver \in 1..2 /\ References(o.el) \subseteq Known(s, t))
PieceSound(x, s, t) == x \in Pieces /\ \A i \in DOMAIN x : OpSound(x[i], i, s, t)
OpsSound(p, s, t) == p \in Seq(Pieces) /\ \A n \in DOMAIN p : PieceSound(p[n], s, t)
PatchSound(p, s) == OpsSound(p, s, Touches(p))

AgentShape ==
  agent = [phase |-> agent.phase, enabled |-> agent.enabled, ctx |-> agent.ctx, rev |-> agent.rev,
           sel |-> agent.sel, seen |-> agent.seen, patch |-> agent.patch, meta |-> agent.meta,
           calls |-> agent.calls, preview |-> agent.preview, explicit |-> agent.explicit, at |-> agent.at]

\* The scene r is s, unless the diagram has moved on.
ReadOf(s, r) == r \in Nat /\ r <= revision /\ SceneSound(s) /\ (r = revision => s = canvas)

AgentInv ==
  /\ AgentShape
  /\ revision \in Nat
  /\ agent.phase # "applied" => SceneSound(canvas)
  /\ agent.phase \in {"context", "call"} => agent.patch = <<>>
  /\ agent.phase \in {"call", "tools", "awaiting_approval"} => ReadOf(agent.ctx, agent.rev)
  /\ agent.phase = "applying" => ReadOf(agent.ctx, agent.at)
  /\ agent.phase \in {"tools", "awaiting_approval", "applying"} => PatchSound(agent.patch, agent.ctx)
-----------------------------------------------------------------------------
\* Naming an element leaves it in the drawing: its ids are among DrawIds.
LEMMA NamesAreDrawn ==
    /\ Named \subseteq DrawIds
    /\ \A i \in Named : Label(i) \in DrawIds
    /\ {Shape1, Shape2, Arrow1, Label(Arrow1)} \subseteq DrawIds
BY AgentAssumption DEF DrawIds

\* Setting fields of an element.
WithVer(e, v) == [e EXCEPT !.ver = v]
WithDead(e, v) == [e EXCEPT !.dead = v]
WithCt(e, v) == [e EXCEPT !.ct = v]
WithEnds(e, f, t) == [e EXCEPT !.from = f, !.to = t]
WithFrame(e, v) == [e EXCEPT !.frame = v]
Grouped(e) == [e EXCEPT !.grp = TRUE]
Moved(e) == [e EXCEPT !.pos = 1]
Restyled(e) == [e EXCEPT !.look = 1]
CopyOf(e) == [e EXCEPT !.pos = 1, !.grp = FALSE, !.frame = NoRef]

\* An element with a field set is an element, and the other fields are as they were.
LEMMA VerSet ==
    ASSUME NEW e \in Drawn, NEW v \in Nat
    PROVE  /\ WithVer(e, v) \in Drawn /\ WithVer(e, v).ver = v /\ WithVer(e, v).type = e.type
           /\ WithVer(e, v).dead = e.dead /\ WithVer(e, v).ct = e.ct /\ References(WithVer(e, v)) = References(e)
BY DEF Drawn, References, WithVer

\* Of two versions set, the last one counts.
LEMMA VerTwice ==
    ASSUME NEW e \in Drawn, NEW v \in Nat
    PROVE  WithVer(WithVer(e, v), 0) = WithVer(e, 0)
BY DEF Drawn, WithVer

\* ... when it is deleted or brought back
LEMMA DeadSet ==
    ASSUME NEW e \in Drawn, NEW v \in BOOLEAN
    PROVE  /\ WithDead(e, v) \in Drawn /\ WithDead(e, v).dead = v /\ WithDead(e, v).ver = e.ver
           /\ WithDead(e, v).type = e.type /\ WithDead(e, v).ct = e.ct
           /\ References(WithDead(e, v)) = References(e)
BY DEF Drawn, References, WithDead

\* ... when it is put in a container
LEMMA CtSet ==
    ASSUME NEW e \in Drawn, NEW v \in DrawRefs
    PROVE  /\ WithCt(e, v) \in Drawn /\ WithCt(e, v).ct = v /\ WithCt(e, v).ver = e.ver
           /\ WithCt(e, v).type = e.type /\ References(WithCt(e, v)) = {v, e.from, e.to, e.frame}
BY DEF Drawn, References, WithCt

\* ... when it is bound at both ends
LEMMA EndsSet ==
    ASSUME NEW e \in Drawn, NEW f \in DrawRefs, NEW t \in DrawRefs
    PROVE  /\ WithEnds(e, f, t) \in Drawn /\ WithEnds(e, f, t).ver = e.ver
           /\ WithEnds(e, f, t).type = e.type /\ References(WithEnds(e, f, t)) = {e.ct, f, t, e.frame}
BY DEF Drawn, References, WithEnds

\* ... when it is put in a frame
LEMMA FrameSet ==
    ASSUME NEW e \in Drawn, NEW v \in DrawRefs
    PROVE  /\ WithFrame(e, v) \in Drawn /\ WithFrame(e, v).ver = e.ver
           /\ References(WithFrame(e, v)) \subseteq References(e) \cup {v}
BY DEF Drawn, References, WithFrame

\* ... when it is grouped
LEMMA GroupSet ==
    ASSUME NEW e \in Drawn
    PROVE  Grouped(e) \in Drawn /\ Grouped(e).ver = e.ver /\ References(Grouped(e)) = References(e)
BY DEF Drawn, References, Grouped

\* ... when it is moved
LEMMA PosSet ==
    ASSUME NEW e \in Drawn
    PROVE  Moved(e) \in Drawn /\ Moved(e).ver = e.ver /\ References(Moved(e)) = References(e)
BY DEF Drawn, References, Moved

\* ... when it is restyled
LEMMA LookSet ==
    ASSUME NEW e \in Drawn
    PROVE  Restyled(e) \in Drawn /\ Restyled(e).ver = e.ver /\ References(Restyled(e)) = References(e)
BY DEF Drawn, References, Restyled

\* ... when it is duplicated
LEMMA Copied ==
    ASSUME NEW e \in Drawn
    PROVE  CopyOf(e) \in Drawn /\ CopyOf(e).ver = e.ver /\ References(CopyOf(e)) \subseteq References(e) \cup {NoRef}
<1>0. NoRef \in DrawRefs
  BY DEF DrawRefs
<1> DEFINE m == Moved(e)  u == [m EXCEPT !.grp = FALSE]
<1>1. m \in Drawn /\ m.ver = e.ver /\ References(m) = References(e)
  BY PosSet
<1> HIDE DEF m
<1>2. u \in Drawn /\ u.ver = m.ver /\ References(u) = References(m)
  BY <1>1 DEF Drawn, References
<1>3. CopyOf(e) = WithFrame(u, NoRef)
  BY Zenon DEF CopyOf, WithFrame, Moved, m
<1> HIDE DEF u
<1> QED BY <1>0, <1>1, <1>2, <1>3, FrameSet

\* The elements the tools and the drawing are built from.
LEMMA BuiltElements ==
    /\ NoElement \in Drawn /\ NoElement.ver = 0 /\ NoElement.type = "none"
    /\ \A t \in {"shape", "text", "arrow", "frame"} :
         /\ BaseFields(t) \in Drawn /\ BaseFields(t).ver = 1 /\ References(BaseFields(t)) = {NoRef}
         /\ BaseFields(t).type = t
    /\ \A c \in DrawRefs :
         /\ BuildText(c) \in Drawn /\ BuildText(c).ver = 1 /\ References(BuildText(c)) = {c, NoRef}
         /\ BuildText(c).type = "text" /\ BuildText(c).ct = c
    /\ \A f, t \in DrawRefs :
         /\ BuildArrow(f, t) \in Drawn /\ BuildArrow(f, t).ver = 1
         /\ References(BuildArrow(f, t)) = {f, t, NoRef} /\ BuildArrow(f, t).type = "arrow"
<1>1. ASSUME NEW t \in {"none", "shape", "text", "arrow", "frame"}
      PROVE  /\ BaseFields(t) \in Drawn /\ BaseFields(t).ver = 1 /\ References(BaseFields(t)) = {NoRef}
             /\ BaseFields(t).type = t /\ BaseFields(t).ct = NoRef /\ BaseFields(t).from = NoRef
             /\ BaseFields(t).to = NoRef /\ BaseFields(t).frame = NoRef
  BY DEF BaseFields, Drawn, DrawRefs, References
<1>2. NoElement \in Drawn /\ NoElement.ver = 0 /\ NoElement.type = "none"
  <2>1. NoElement = WithVer(BaseFields("none"), 0)
    BY DEF NoElement, WithVer
  <2>2. BaseFields("none") \in Drawn /\ BaseFields("none").type = "none"
    BY DEF BaseFields, Drawn, DrawRefs, References
  <2> QED BY <2>1, <2>2, VerSet
<1>3. ASSUME NEW c \in DrawRefs
      PROVE  /\ BuildText(c) \in Drawn /\ BuildText(c).ver = 1 /\ References(BuildText(c)) = {c, NoRef}
             /\ BuildText(c).type = "text" /\ BuildText(c).ct = c
  <2>1. BuildText(c) = WithCt(BaseFields("text"), c)
    BY DEF BuildText, WithCt
  <2>2. LET b == BaseFields("text")
        IN /\ b \in Drawn /\ b.ver = 1 /\ b.type = "text" /\ b.from = NoRef /\ b.to = NoRef /\ b.frame = NoRef
    BY DEF BaseFields, Drawn, DrawRefs, References
  <2> QED BY <2>1, <2>2, CtSet
<1>4. ASSUME NEW f \in DrawRefs, NEW t \in DrawRefs
      PROVE  /\ BuildArrow(f, t) \in Drawn /\ BuildArrow(f, t).ver = 1
             /\ References(BuildArrow(f, t)) = {f, t, NoRef} /\ BuildArrow(f, t).type = "arrow"
  <2>1. BuildArrow(f, t) = WithEnds(BaseFields("arrow"), f, t)
    BY DEF BuildArrow, WithEnds
  <2>2. LET b == BaseFields("arrow")
        IN b \in Drawn /\ b.ver = 1 /\ b.type = "arrow" /\ b.ct = NoRef /\ b.frame = NoRef
    BY DEF BaseFields, Drawn, DrawRefs, References
  <2>3. /\ BuildArrow(f, t) \in Drawn /\ BuildArrow(f, t).ver = 1 /\ BuildArrow(f, t).type = "arrow"
        /\ References(BuildArrow(f, t)) = {NoRef, f, t, NoRef}
    BY <2>1, <2>2, EndsSet
  <2> QED BY <2>3
<1> QED BY <1>1, <1>2, <1>3, <1>4

\* The drawings a run may start from.
LEMMA DrawingSound ==
    ASSUME NEW gone
    PROVE  SceneSound(Drawing(gone))
<1> DEFINE d == Drawing(gone)
<1>1. ASSUME NEW i \in DrawIds
      PROVE  /\ d[i] \in Drawn
             /\ d[i].type = "text" => d[i].ver \in 1..2 /\ References(d[i]) \subseteq {d[i].ct, NoRef}
             /\ d[i].ver <= 2 /\ (~d[i].dead => d[i].ver < 2)
  <2>0. PICK v \in BOOLEAN : v = (i \in gone)
    <3>1. (i \in gone) \in BOOLEAN
      OBVIOUS
    <3> QED BY <3>1, Zenon
  <2>1. \/ d[i] = WithDead(BaseFields("shape"), v)
        \/ d[i] = BuildArrow(Shape1, Shape2)
        \/ d[i] = WithDead(BuildText(Arrow1), v)
        \/ d[i] = NoElement
    <3>1. \/ d[i] = [BaseFields("shape") EXCEPT !.dead = i \in gone]
          \/ d[i] = BuildArrow(Shape1, Shape2)
          \/ d[i] = [BuildText(Arrow1) EXCEPT !.dead = i \in gone]
          \/ d[i] = NoElement
      BY DEF Drawing
    <3> QED BY <3>1, <2>0, Zenon DEF WithDead
  <2>2. {Shape1, Shape2, Arrow1} \subseteq DrawRefs
    BY NamesAreDrawn DEF DrawRefs
  <2> HIDE DEF d
  <2>4. CASE d[i] = WithDead(BaseFields("shape"), v)
    <3>1. BaseFields("shape") \in Drawn /\ BaseFields("shape").ver = 1 /\ BaseFields("shape").type = "shape"
      BY DEF BaseFields, Drawn, DrawRefs
    <3> QED BY <2>4, <3>1, DeadSet
  <2>5. CASE d[i] = BuildArrow(Shape1, Shape2)
    BY <2>2, <2>5, BuiltElements
  <2>6. CASE d[i] = WithDead(BuildText(Arrow1), v)
    <3>1. /\ BuildText(Arrow1) \in Drawn /\ BuildText(Arrow1).ver = 1 /\ BuildText(Arrow1).ct = Arrow1
          /\ References(BuildText(Arrow1)) = {Arrow1, NoRef}
      BY <2>2, BuiltElements, Zenon
    <3> QED BY <2>6, <3>1, DeadSet
  <2>7. CASE d[i] = NoElement
    BY <2>7, BuiltElements
  <2> QED BY <2>1, <2>4, <2>5, <2>6, <2>7
<1>2. d \in [DrawIds -> Drawn]
  <2> d = [i \in DrawIds |-> d[i]]
    BY DEF Drawing
  <2> QED BY <1>1
<1> QED BY <1>1, <1>2 DEF SceneSound
-----------------------------------------------------------------------------
\* A run may refer to what is in the scene it read and to what it touches.
LEMMA KnownIds ==
    ASSUME NEW s, NEW t
    PROVE  /\ NoRef \in Known(s, t) /\ AliveIds(s) \subseteq Known(s, t) /\ t \subseteq Known(s, t)
           /\ \A u : t \subseteq u => Known(s, t) \subseteq Known(s, u)
BY DEF Known

\* A live element of the scene refers to the scene, or to what is dangling there.
LEMMA LiveElement ==
    ASSUME NEW s, SceneSound(s), NEW i \in AliveIds(s), NEW t
    PROVE  i \in DrawIds /\ s[i] \in Drawn /\ s[i].ver \in 1..2 /\ References(s[i]) \subseteq Known(s, t)
<1>1. i \in DrawIds /\ s[i] \in Drawn /\ s[i].ver \in 1..2
  BY DEF SceneSound, AliveIds, Alive, Drawn
<1>2. References(s[i]) \subseteq Dangling(s) \cup AliveIds(s) \cup {NoRef}
  BY DEF References, Dangling
<1> QED BY <1>1, <1>2 DEF Known

\* A piece is an operation for each id of its domain.
LEMMA PieceIs ==
    ASSUME NEW ids \in SUBSET DrawIds, NEW x \in [ids -> Operations]
    PROVE  x \in Pieces /\ DOMAIN x = ids
BY DEF Pieces

\* The pieces of a patch touch ids of the drawing.
LEMMA PieceShape ==
    ASSUME NEW x \in Pieces
    PROVE  DOMAIN x \subseteq DrawIds /\ x \in [DOMAIN x -> Operations]
BY DEF Pieces

\* One element, upserted.
LEMMA PieceOne ==
    ASSUME NEW i \in DrawIds, NEW e \in Drawn, NEW s, NEW t, e.ver \in 1..2, References(e) \subseteq Known(s, t)
    PROVE  PieceSound(Piece(i, e), s, t) /\ DOMAIN Piece(i, e) = {i}
<1> DEFINE x == Piece(i, e)
<1>1. Upsert(e) \in Operations /\ Upsert(e).op = "upsert" /\ Upsert(e).el = e
  BY DEF Operations, Upsert
<1>2. DOMAIN x = {i} /\ x[i] = Upsert(e) /\ x \in [{i} -> Operations]
  BY <1>1 DEF Piece
<1>3. x \in Pieces
  BY <1>2, PieceIs
<1>4. OpSound(x[i], i, s, t)
  BY <1>1, <1>2 DEF OpSound
<1> QED BY <1>2, <1>3, <1>4 DEF PieceSound

\* Several elements, upserted.
LEMMA PieceMany ==
    ASSUME NEW ids \in SUBSET DrawIds, NEW f \in [ids -> Drawn], NEW s, NEW t,
           \A i \in ids : f[i].ver \in 1..2 /\ References(f[i]) \subseteq Known(s, t)
    PROVE  LET x == [i \in ids |-> Upsert(f[i])] IN PieceSound(x, s, t) /\ DOMAIN x = ids
<1> DEFINE x == [i \in ids |-> Upsert(f[i])]
<1>1. ASSUME NEW i \in ids
      PROVE  x[i] \in Operations /\ OpSound(x[i], i, s, t)
  <2>1. x[i] = [op |-> "upsert", el |-> f[i]]
    BY DEF Upsert
  <2> HIDE DEF x
  <2>2. x[i] \in Operations /\ x[i].op = "upsert" /\ x[i].el = f[i]
    BY <2>1 DEF Operations
  <2> QED BY <2>2 DEF OpSound
<1>2. x \in [ids -> Operations]
  BY <1>1
<1>3. x \in Pieces /\ DOMAIN x = ids
  BY <1>2, PieceIs
<1> QED BY <1>1, <1>3 DEF PieceSound

\* Two pieces at once.
LEMMA PieceBeside ==
    ASSUME NEW s, NEW t, NEW p, NEW q, PieceSound(p, s, t), PieceSound(q, s, t)
    PROVE  PieceSound(Beside(p, q), s, t)
<1> DEFINE x == Beside(p, q)
<1>1. /\ DOMAIN p \subseteq DrawIds /\ p \in [DOMAIN p -> Operations]
      /\ DOMAIN q \subseteq DrawIds /\ q \in [DOMAIN q -> Operations]
  BY PieceShape DEF PieceSound
<1>2. /\ DOMAIN x = DOMAIN p \cup DOMAIN q
      /\ \A i \in DOMAIN x : x[i] = IF i \in DOMAIN p THEN p[i] ELSE q[i]
      /\ x = [i \in DOMAIN p \cup DOMAIN q |-> x[i]]
  BY DEF Beside
<1> HIDE DEF x
<1>3. ASSUME NEW i \in DOMAIN x
      PROVE  x[i] \in Operations /\ OpSound(x[i], i, s, t)
  BY <1>1, <1>2 DEF PieceSound
<1>4. x \in [DOMAIN p \cup DOMAIN q -> Operations]
  BY <1>2, <1>3
<1>5. x \in Pieces
  BY <1>1, <1>4, PieceIs
<1> QED BY <1>2, <1>3, <1>5 DEF PieceSound, x

\* An element and, perhaps, its label.
LEMMA PieceLabelled ==
    ASSUME NEW i \in Named, NEW e \in Drawn, NEW l \in BOOLEAN, NEW s, NEW t, i \in t,
           e.ver \in 1..2, References(e) \subseteq Known(s, t)
    PROVE  PieceSound(WithLabel(i, e, l), s, t) /\ i \in DOMAIN WithLabel(i, e, l)
<1>1. i \in DrawIds /\ Label(i) \in DrawIds /\ i \in DrawRefs
  BY NamesAreDrawn DEF DrawRefs
<1>2. BuildText(i) \in Drawn /\ BuildText(i).ver = 1 /\ References(BuildText(i)) = {i, NoRef}
  BY <1>1, BuiltElements
<1>3. PieceSound(Piece(i, e), s, t) /\ DOMAIN Piece(i, e) = {i}
  BY <1>1, PieceOne
<1>4. BuildText(i).ver \in 1..2 /\ References(BuildText(i)) \subseteq Known(s, t)
  BY <1>2, KnownIds
<1>5. PieceSound(Piece(Label(i), BuildText(i)), s, t)
  BY <1>1, <1>2, <1>4, PieceOne
<1>6. /\ PieceSound(Beside(Piece(i, e), Piece(Label(i), BuildText(i))), s, t)
      /\ i \in DOMAIN Beside(Piece(i, e), Piece(Label(i), BuildText(i)))
  <2> DEFINE a == Piece(i, e)  b == Piece(Label(i), BuildText(i))
  <2>1. PieceSound(a, s, t) /\ DOMAIN a = {i} /\ PieceSound(b, s, t)
    BY <1>3, <1>5
  <2> HIDE DEF a, b
  <2>2. PieceSound(Beside(a, b), s, t)
    BY <2>1, PieceBeside
  <2>3. i \in DOMAIN Beside(a, b)
    BY <2>1 DEF Beside
  <2> QED BY <2>2, <2>3 DEF a, b
<1> QED BY <1>3, <1>6 DEF WithLabel

\* A patch that does nothing.
LEMMA OpsNone ==
    ASSUME NEW s, NEW t
    PROVE  OpsSound(<<>>, s, t) /\ Touches(<<>>) = {}
BY DEF OpsSound, Touches

\* A patch of one piece.
LEMMA OpsOne ==
    ASSUME NEW s, NEW t, NEW x, PieceSound(x, s, t)
    PROVE  OpsSound(<<x>>, s, t) /\ Touches(<<x>>) = DOMAIN x
BY DEF OpsSound, Touches, PieceSound

\* Two patches, one after the other.
LEMMA OpsJoin ==
    ASSUME NEW s, NEW t, NEW p, NEW q, OpsSound(p, s, t), OpsSound(q, s, t)
    PROVE  OpsSound(p \o q, s, t) /\ Touches(p \o q) = Touches(p) \cup Touches(q)
<1>1. p \in Seq(Pieces) /\ q \in Seq(Pieces)
  BY DEF OpsSound
<1>2. /\ p \o q \in Seq(Pieces)
      /\ \A n \in DOMAIN p : n \in DOMAIN (p \o q) /\ (p \o q)[n] = p[n]
      /\ \A n \in DOMAIN q : n + Len(p) \in DOMAIN (p \o q) /\ (p \o q)[n + Len(p)] = q[n]
      /\ \A n \in DOMAIN (p \o q) : n \in DOMAIN p \/ (n - Len(p) \in DOMAIN q /\ (p \o q)[n] = q[n - Len(p)])
  BY <1>1
<1>3. \A n \in DOMAIN (p \o q) : PieceSound((p \o q)[n], s, t)
  BY <1>2 DEF OpsSound
<1>4. Touches(p \o q) = Touches(p) \cup Touches(q)
  BY <1>2 DEF Touches
<1> QED BY <1>2, <1>3, <1>4 DEF OpsSound

\* What a patch may refer to grows with what it touches.
LEMMA OpsMore ==
    ASSUME NEW s, NEW t, NEW u, NEW p, OpsSound(p, s, t), t \subseteq u
    PROVE  OpsSound(p, s, u)
BY KnownIds DEF OpsSound, PieceSound, OpSound

\* A run's patch with a tool's after it.
LEMMA PatchJoin ==
    ASSUME NEW s, NEW p, NEW q, PatchSound(p, s), PatchSound(q, s)
    PROVE  PatchSound(p \o q, s)
<1> DEFINE u == Touches(p) \cup Touches(q)
<1>1. OpsSound(p, s, u) /\ OpsSound(q, s, u)
  <2>1. /\ OpsSound(p, s, Touches(p)) /\ Touches(p) \subseteq u
        /\ OpsSound(q, s, Touches(q)) /\ Touches(q) \subseteq u
    BY DEF PatchSound
  <2> HIDE DEF u
  <2>2. OpsSound(p, s, u)
    BY <2>1, OpsMore
  <2>3. OpsSound(q, s, u)
    BY <2>1, OpsMore
  <2> QED BY <2>2, <2>3
<1> HIDE DEF u
<1>2. OpsSound(p \o q, s, u) /\ Touches(p \o q) = Touches(p) \cup Touches(q)
  BY <1>1, OpsJoin
<1> QED BY <1>2 DEF PatchSound, u

\* A patch of one piece that refers to nothing outside the scene and itself.
LEMMA PatchOne ==
    ASSUME NEW s, NEW x, PieceSound(x, s, DOMAIN x)
    PROVE  PatchSound(<<x>>, s)
BY OpsOne DEF PatchSound
-----------------------------------------------------------------------------
\* What ending a run leaves of it.
LEMMA Ended ==
    ASSUME NEW x, EndRun(x)
    PROVE  agent'.phase = x /\ AgentShape'
BY DEF EndRun, NoRunYet, AgentShape

\* A run that fails or is stale leaves the diagram alone.
LEMMA EndRunStep ==
    ASSUME AgentInv, AgentOnly, NEW x \in {"failed", "stale"}, EndRun(x), agent.phase # "applied"
    PROVE  AgentInv'
<1>1. agent'.phase \in {"failed", "stale"} /\ AgentShape'
  BY Ended
<1> QED BY <1>1 DEF AgentInv, AgentOnly, SceneSound

\* A tool that refuses its arguments fails the run.
LEMMA ToolErrorStep ==
    ASSUME AgentInv, Answering, ToolError
    PROVE  AgentInv'
BY EndRunStep DEF Answering, ToolError, RunFails

\* A tool's patch goes after the patch of the run.
LEMMA ToolOkStep ==
    ASSUME AgentInv, Answering, NEW p, NEW m, PatchSound(p, agent.ctx), ToolOk(p, m)
    PROVE  AgentInv'
<1>1. /\ agent.phase = "tools" /\ canvas' = canvas /\ revision' = revision
  BY DEF Answering, AgentOnly
<1>2. /\ agent'.phase = "tools" /\ agent'.ctx = agent.ctx /\ agent'.rev = agent.rev /\ AgentShape'
      /\ agent'.patch = agent.patch \o p
  BY <1>1 DEF AgentInv, AgentShape, ToolOk
<1>3. PatchSound(agent'.patch, agent'.ctx)
  BY <1>1, <1>2, PatchJoin DEF AgentInv
<1> QED BY <1>1, <1>2, <1>3 DEF AgentInv, ReadOf

\* A tool that looks up ids: its patch is for the case that they are all there.
LEMMA CheckedStep ==
    ASSUME AgentInv, Answering, NEW ids, NEW p, NEW m, CheckAllExist(ids, p, m),
           ids \subseteq AliveIds(agent.ctx) => PatchSound(p, agent.ctx), ids \subseteq DrawIds
    PROVE  AgentInv'
<1>1. DOMAIN agent.ctx = DrawIds
  BY DEF AgentInv, Answering, ReadOf, SceneSound
<1>2. CASE \A i \in ids : FindElement(i)
  <2>1. ids \subseteq AliveIds(agent.ctx)
    BY <1>1, <1>2 DEF FindElement, AliveIds
  <2> QED BY <1>2, <2>1, ToolOkStep DEF CheckAllExist
<1>3. CASE ~\A i \in ids : FindElement(i)
  BY <1>3, ToolErrorStep DEF CheckAllExist
<1> QED BY <1>2, <1>3

\* The scene of a run that calls tools.
LEMMA ToolScene ==
    ASSUME AgentInv, Answering
    PROVE  SceneSound(agent.ctx)
BY DEF AgentInv, Answering, ReadOf
\* Several elements redrawn: a patch that touches them only.
LEMMA PatchMany ==
    ASSUME NEW ids \in SUBSET DrawIds, NEW f \in [ids -> Drawn], NEW s,
           \A i \in ids : f[i].ver \in 1..2 /\ References(f[i]) \subseteq Known(s, {})
    PROVE  PatchSound(<<[i \in ids |-> Upsert(f[i])]>>, s)
<1> DEFINE x == [i \in ids |-> Upsert(f[i])]
<1>1. \A i \in ids : f[i].ver \in 1..2 /\ References(f[i]) \subseteq Known(s, ids)
  BY KnownIds
<1>2. PieceSound(x, s, ids) /\ DOMAIN x = ids
  BY <1>1, PieceMany
<1> HIDE DEF x
<1>3. PatchSound(<<x>>, s)
  BY <1>2, PatchOne
<1> QED BY <1>3 DEF x

-----------------------------------------------------------------------------
(* The tools, one by one.                                                  *)

\* The tools that patch nothing.
LEMMA ReadingStep ==
    ASSUME AgentInv, ReadDiagram \/ ReadLibrary \/ RejectArguments \/ GenerateIr \/ SetSemanticMetadata
    PROVE  AgentInv'
<1>1. \A s : PatchSound(<<>>, s)
  BY OpsNone DEF PatchSound
<1>2. CASE ReadDiagram
  <2>1. Answering
    BY <1>2 DEF ReadDiagram
  <2>2. CASE ToolOk(<<>>, {})
    BY <1>1, <2>1, <2>2, ToolOkStep
  <2>3. ASSUME NEW i \in Named, CheckAllExist({i}, <<>>, {})
        PROVE  AgentInv'
    <3>1. {i} \subseteq DrawIds
      BY NamesAreDrawn
    <3> QED BY <1>1, <2>1, <2>3, <3>1, CheckedStep
  <2> QED BY <1>2, <2>2, <2>3 DEF ReadDiagram
<1>3. CASE ReadLibrary
  <2>1. Answering /\ (ToolOk(<<>>, {}) \/ ToolError)
    BY <1>3 DEF ReadLibrary
  <2> QED BY <1>1, <2>1, ToolOkStep, ToolErrorStep
<1>4. CASE RejectArguments
  BY <1>4, ToolErrorStep DEF RejectArguments
<1>5. CASE GenerateIr
  <2>1. Answering /\ (ToolOk(<<>>, {}) \/ ToolError)
    BY <1>5 DEF GenerateIr
  <2> QED BY <1>1, <2>1, ToolOkStep, ToolErrorStep
<1>6. CASE SetSemanticMetadata
  <2>1. Answering
    BY <1>6 DEF SetSemanticMetadata
  <2>2. PICK i \in Named : CheckAllExist({i}, <<>>, {i})
    BY <1>6 DEF SetSemanticMetadata
  <2>3. {i} \subseteq DrawIds
    BY NamesAreDrawn
  <2> QED BY <1>1, <2>1, <2>2, <2>3, CheckedStep
<1> QED BY <1>2, <1>3, <1>4, <1>5, <1>6

\* A new element, perhaps with its label: a patch that touches them only.
LEMMA PatchLabelled ==
    ASSUME NEW i \in Named, NEW e \in Drawn, NEW l \in BOOLEAN, NEW s, e.ver \in 1..2,
           References(e) \subseteq Known(s, {})
    PROVE  PatchSound(<<WithLabel(i, e, l)>>, s)
<1> DEFINE x == WithLabel(i, e, l)
<1>1. i \in DOMAIN x
  BY DEF WithLabel, Piece, Beside
<1>2. References(e) \subseteq Known(s, DOMAIN x)
  BY KnownIds
<1>3. PieceSound(x, s, DOMAIN x)
  BY <1>1, <1>2, PieceLabelled
<1> HIDE DEF x
<1>4. PatchSound(<<x>>, s)
  BY <1>3, PatchOne
<1> QED BY <1>4 DEF x

\* A new shape or text.
LEMMA CreateElementStep ==
    ASSUME AgentInv, CreateElement
    PROVE  AgentInv'
<1>1. Answering
  BY DEF CreateElement
<1>2. PICK i \in Named, t \in {"shape", "text"}, l \in BOOLEAN :
         ToolOk(<<WithLabel(i, BaseFields(t), l /\ t # "text")>>, {})
  BY DEF CreateElement
<1>3. PICK k \in BOOLEAN : k = (l /\ t # "text")
  OBVIOUS
<1>4. ToolOk(<<WithLabel(i, BaseFields(t), k)>>, {})
  BY <1>2, <1>3
<1>5. BaseFields(t) \in Drawn /\ BaseFields(t).ver \in 1..2 /\ References(BaseFields(t)) \subseteq Known(agent.ctx, {})
  BY BuiltElements, KnownIds
<1>6. PatchSound(<<WithLabel(i, BaseFields(t), k)>>, agent.ctx)
  BY <1>5, PatchLabelled
<1> QED BY <1>1, <1>4, <1>6, ToolOkStep

\* A new component.
LEMMA CreateComponentStep ==
    ASSUME AgentInv, CreateComponent
    PROVE  AgentInv'
<1>1. Answering
  BY DEF CreateComponent
<1>2. PICK i \in Named : ToolOk(<<WithLabel(i, BaseFields("shape"), TRUE)>>, {i}) \/ ToolError
  BY DEF CreateComponent
<1>3. /\ BaseFields("shape") \in Drawn /\ BaseFields("shape").ver \in 1..2
      /\ References(BaseFields("shape")) \subseteq Known(agent.ctx, {})
  BY BuiltElements, KnownIds
<1>4. PatchSound(<<WithLabel(i, BaseFields("shape"), TRUE)>>, agent.ctx)
  BY <1>3, PatchLabelled
<1> QED BY <1>1, <1>2, <1>4, ToolOkStep, ToolErrorStep

\* Of the same version, and with the same references.
SameButDrawing(d, e) == d.ver = e.ver /\ References(d) = References(e)

\* The tools that redraw elements of the scene in place: they are where they were looked up.
LEMMA RedrawnStep ==
    ASSUME AgentInv, Answering, NEW ids \in SUBSET DrawIds, NEW f \in [ids -> Drawn], NEW m,
           CheckAllExist(ids, <<[i \in ids |-> Upsert(f[i])]>>, m),
           \A i \in ids : SameButDrawing(f[i], agent.ctx[i])
    PROVE  AgentInv'
<1> DEFINE p == <<[i \in ids |-> Upsert(f[i])]>>
<1>1. SceneSound(agent.ctx)
  BY ToolScene
<1>2. ASSUME ids \subseteq AliveIds(agent.ctx)
      PROVE  PatchSound(p, agent.ctx)
  <2>1. ASSUME NEW i \in ids
        PROVE  f[i].ver \in 1..2 /\ References(f[i]) \subseteq Known(agent.ctx, {})
    <3>1. agent.ctx[i].ver \in 1..2 /\ References(agent.ctx[i]) \subseteq Known(agent.ctx, {})
      BY <1>1, <1>2, LiveElement
    <3> QED BY <3>1 DEF SameButDrawing
  <2> QED BY <2>1, PatchMany
<1>3. CheckAllExist(ids, p, m)
  OBVIOUS
<1> HIDE DEF p
<1> QED BY <1>2, <1>3, CheckedStep
\* Grouping.
LEMMA CreateGroupStep ==
    ASSUME AgentInv, CreateGroup
    PROVE  AgentInv'
<1>1. Answering
  BY DEF CreateGroup
<1>2. PICK ids \in SUBSET Named :
         CheckAllExist(ids, <<[i \in ids |-> Upsert(Grouped(agent.ctx[i]))]>>, {})
  BY DEF CreateGroup, Lists, Redraw, Grouped
<1> DEFINE f == [i \in ids |-> Grouped(agent.ctx[i])]
<1>3. ids \in SUBSET DrawIds /\ \A i \in ids : agent.ctx[i] \in Drawn
  BY <1>1, NamesAreDrawn, ToolScene DEF SceneSound
<1>4. CheckAllExist(ids, <<[i \in ids |-> Upsert(f[i])]>>, {})
  BY <1>2
<1>5. \A i \in ids : f[i] = Grouped(agent.ctx[i])
  OBVIOUS
<1>6. f \in [ids -> Drawn] /\ \A i \in ids : SameButDrawing(f[i], agent.ctx[i])
  BY <1>3, GroupSet DEF SameButDrawing
<1> HIDE DEF f
<1> QED BY <1>1, <1>3, <1>4, <1>6, RedrawnStep

\* Moving: alignment, distribution and layout.
LEMMA MovesStep ==
    ASSUME AgentInv, AlignElements \/ DistributeElements \/ AutoLayout
    PROVE  AgentInv'
<1>1. Answering
  BY DEF AlignElements, DistributeElements, AutoLayout
<1>2. PICK ids \in SUBSET Named :
         CheckAllExist(ids, <<[i \in ids |-> Upsert(Moved(agent.ctx[i]))]>>, {})
  BY DEF AlignElements, DistributeElements, AutoLayout, Moves, Lists, Redraw, Moved
<1> DEFINE f == [i \in ids |-> Moved(agent.ctx[i])]
<1>3. ids \in SUBSET DrawIds /\ \A i \in ids : agent.ctx[i] \in Drawn
  BY <1>1, NamesAreDrawn, ToolScene DEF SceneSound
<1>4. CheckAllExist(ids, <<[i \in ids |-> Upsert(f[i])]>>, {})
  BY <1>2
<1>5. f \in [ids -> Drawn] /\ \A i \in ids : SameButDrawing(f[i], agent.ctx[i])
  BY <1>3, PosSet DEF SameButDrawing
<1> HIDE DEF f
<1> QED BY <1>1, <1>3, <1>4, <1>5, RedrawnStep

\* Restyling, of one element.
LEMMA RestyledStep ==
    ASSUME AgentInv, Answering, NEW i \in DrawIds, NEW m,
           CheckAllExist({i}, <<[j \in {i} |-> Upsert(Restyled(agent.ctx[j]))]>>, m)
    PROVE  AgentInv'
<1> DEFINE f == [j \in {i} |-> Restyled(agent.ctx[j])]
<1>3. {i} \in SUBSET DrawIds /\ agent.ctx[i] \in Drawn
  BY ToolScene DEF SceneSound
<1>4. CheckAllExist({i}, <<[j \in {i} |-> Upsert(f[j])]>>, m)
  OBVIOUS
<1>5. f \in [{i} -> Drawn] /\ \A j \in {i} : SameButDrawing(f[j], agent.ctx[j])
  BY <1>3, LookSet DEF SameButDrawing
<1> HIDE DEF f
<1> QED BY <1>3, <1>4, <1>5, RedrawnStep

\* Updating one element, or its container's size.
LEMMA UpdateElementStep ==
    ASSUME AgentInv, UpdateElement \/ ResizeContainer
    PROVE  AgentInv'
<1>1. Answering
  BY DEF UpdateElement, ResizeContainer
<1>2. CASE ResizeContainer
  <2>1. PICK i \in Named : CheckAllExist({i}, <<[j \in {i} |-> Upsert(Restyled(agent.ctx[j]))]>>, {})
    BY <1>2 DEF ResizeContainer, Redraw, Restyled
  <2>2. i \in DrawIds
    BY NamesAreDrawn
  <2> QED BY <1>1, <2>1, <2>2, RestyledStep
<1>3. CASE UpdateElement
  <2>1. PICK i \in DrawIds, moves \in BOOLEAN :
           CheckAllExist({i}, <<[j \in {i} |-> Upsert(IF moves THEN Moved(agent.ctx[j]) ELSE Restyled(agent.ctx[j]))]>>, {})
    BY <1>3 DEF UpdateElement, Redraw, Moved, Restyled
  <2> DEFINE f == [j \in {i} |-> IF moves THEN Moved(agent.ctx[j]) ELSE Restyled(agent.ctx[j])]
  <2>2. {i} \in SUBSET DrawIds /\ agent.ctx[i] \in Drawn
    BY <1>1, ToolScene DEF SceneSound
  <2>3. CheckAllExist({i}, <<[j \in {i} |-> Upsert(f[j])]>>, {})
    BY <2>1
  <2>4. f \in [{i} -> Drawn] /\ \A j \in {i} : SameButDrawing(f[j], agent.ctx[j])
    BY <2>2, PosSet, LookSet DEF SameButDrawing
  <2> HIDE DEF f
  <2> QED BY <1>1, <2>2, <2>3, <2>4, RedrawnStep
<1> QED BY <1>2, <1>3
\* A new frame, and the elements put in it: they refer to the frame the patch adds.
LEMMA CreateFrameStep ==
    ASSUME AgentInv, CreateFrame
    PROVE  AgentInv'
<1>1. Answering /\ SceneSound(agent.ctx)
  BY ToolScene DEF CreateFrame
<1>2. PICK f \in Named, ids \in SUBSET Named :
         CheckAllExist(ids, <<Piece(f, BuildFrame)>> \o <<[i \in ids |-> Upsert(WithFrame(agent.ctx[i], f))]>>, {})
  BY DEF CreateFrame, Lists, Redraw, WithFrame
<1> DEFINE a == Piece(f, BuildFrame)
           g == [i \in ids |-> WithFrame(agent.ctx[i], f)]
           b == [i \in ids |-> Upsert(g[i])]
           t == {f} \cup ids
<1>3. ids \in SUBSET DrawIds /\ f \in DrawIds /\ f \in DrawRefs /\ \A i \in ids : agent.ctx[i] \in Drawn
  BY <1>1, NamesAreDrawn DEF SceneSound, DrawRefs
<1>4. ASSUME ids \subseteq AliveIds(agent.ctx)
      PROVE  PatchSound(<<a>> \o <<b>>, agent.ctx)
  <2>1. PieceSound(a, agent.ctx, t) /\ DOMAIN a = {f}
    <3>1. BuildFrame \in Drawn /\ BuildFrame.ver \in 1..2 /\ References(BuildFrame) \subseteq Known(agent.ctx, t)
      BY BuiltElements, KnownIds DEF BuildFrame
    <3> QED BY <1>3, <3>1, PieceOne
  <2>2. ASSUME NEW i \in ids
        PROVE  g[i] \in Drawn /\ g[i].ver \in 1..2 /\ References(g[i]) \subseteq Known(agent.ctx, t)
    <3>1. agent.ctx[i] \in Drawn /\ agent.ctx[i].ver \in 1..2 /\ References(agent.ctx[i]) \subseteq Known(agent.ctx, t)
      BY <1>1, <1>4, LiveElement
    <3>2. g[i] = WithFrame(agent.ctx[i], f)
      OBVIOUS
    <3>3. f \in Known(agent.ctx, t)
      BY KnownIds
    <3> HIDE DEF g, t
    <3>4. /\ WithFrame(agent.ctx[i], f) \in Drawn /\ WithFrame(agent.ctx[i], f).ver = agent.ctx[i].ver
          /\ References(WithFrame(agent.ctx[i], f)) \subseteq References(agent.ctx[i]) \cup {f}
      BY <1>3, <3>1, FrameSet
    <3> QED BY <3>1, <3>2, <3>3, <3>4
  <2>3. g \in [ids -> Drawn]
    BY <2>2
  <2>4. PieceSound(b, agent.ctx, t) /\ DOMAIN b = ids
    <3> HIDE DEF g, t
    <3> QED BY <1>3, <2>2, <2>3, PieceMany
  <2> HIDE DEF a, b
  <2>5. /\ OpsSound(<<a>>, agent.ctx, t) /\ Touches(<<a>>) = {f}
        /\ OpsSound(<<b>>, agent.ctx, t) /\ Touches(<<b>>) = ids
    BY <2>1, <2>4, OpsOne
  <2>6. OpsSound(<<a>> \o <<b>>, agent.ctx, t) /\ Touches(<<a>> \o <<b>>) = t
    <3> HIDE DEF t
    <3>1. /\ OpsSound(<<a>> \o <<b>>, agent.ctx, t)
          /\ Touches(<<a>> \o <<b>>) = Touches(<<a>>) \cup Touches(<<b>>)
      BY <2>5, OpsJoin
    <3> QED BY <2>5, <3>1 DEF t
  <2> QED BY <2>6 DEF PatchSound
<1>5. CheckAllExist(ids, <<a>> \o <<b>>, {})
  BY <1>2
<1> HIDE DEF a, b
<1> QED BY <1>1, <1>3, <1>4, <1>5, CheckedStep

\* What is removed is in the scene.
LEMMA DeleteElementsStep ==
    ASSUME AgentInv, DeleteElements
    PROVE  AgentInv'
<1>1. Answering
  BY DEF DeleteElements
<1>2. PICK ids \in SUBSET Named : CheckAllExist(ids, <<[i \in ids |-> Removal]>>, {})
  BY DEF DeleteElements, Lists
<1> DEFINE x == [i \in ids |-> Removal]
<1>3. ids \in SUBSET DrawIds
  BY NamesAreDrawn
<1>4. Removal \in Operations
  BY BuiltElements DEF Removal, Operations
<1>5. x \in [ids -> Operations]
  BY <1>4
<1>6. x \in Pieces /\ DOMAIN x = ids
  BY <1>3, <1>5, PieceIs
<1>7. ASSUME ids \subseteq AliveIds(agent.ctx)
      PROVE  PieceSound(x, agent.ctx, DOMAIN x)
  BY <1>6, <1>7 DEF PieceSound, OpSound
<1> HIDE DEF x
<1>8. ids \subseteq AliveIds(agent.ctx) => PatchSound(<<x>>, agent.ctx)
  BY <1>7, PatchOne
<1> QED BY <1>1, <1>2, <1>3, <1>8, CheckedStep DEF x

\* Copies refer to what their originals refer to, and are in no frame.
LEMMA DuplicateElementsStep ==
    ASSUME AgentInv, DuplicateElements
    PROVE  AgentInv'
<1>1. Answering /\ SceneSound(agent.ctx)
  BY ToolScene DEF DuplicateElements
<1>2. PICK ids \in SUBSET Named : \E new \in [ids -> FreshIds] :
         CheckAllExist(ids, <<[n \in Range(new) |-> Upsert(CopyOf(agent.ctx[CHOOSE i \in ids : new[i] = n]))]>>, {})
  BY DEF DuplicateElements, Lists, CopyOf
<1>3. PICK new \in [ids -> FreshIds] :
         CheckAllExist(ids, <<[n \in Range(new) |-> Upsert(CopyOf(agent.ctx[CHOOSE i \in ids : new[i] = n]))]>>, {})
  BY <1>2
<1> DEFINE from(n) == CHOOSE i \in ids : new[i] = n
           g == [n \in Range(new) |-> CopyOf(agent.ctx[from(n)])]
           p == <<[n \in Range(new) |-> Upsert(g[n])]>>
<1>4. ids \in SUBSET DrawIds /\ Range(new) \in SUBSET DrawIds
  BY NamesAreDrawn DEF Range, FreshIds
<1>5. ASSUME ids \subseteq AliveIds(agent.ctx)
      PROVE  PatchSound(p, agent.ctx)
  <2>1. ASSUME NEW n \in Range(new)
        PROVE  g[n] \in Drawn /\ g[n].ver \in 1..2 /\ References(g[n]) \subseteq Known(agent.ctx, {})
    <3>1. \E i \in ids : new[i] = n
      BY DEF Range
    <3>2. from(n) \in ids
      BY <3>1
    <3>3. g[n] = CopyOf(agent.ctx[from(n)])
      OBVIOUS
    <3> HIDE DEF g, from
    <3>4. /\ agent.ctx[from(n)] \in Drawn /\ agent.ctx[from(n)].ver \in 1..2
          /\ References(agent.ctx[from(n)]) \subseteq Known(agent.ctx, {})
      BY <1>1, <1>5, <3>2, LiveElement
    <3>5. /\ CopyOf(agent.ctx[from(n)]) \in Drawn /\ CopyOf(agent.ctx[from(n)]).ver = agent.ctx[from(n)].ver
          /\ References(CopyOf(agent.ctx[from(n)])) \subseteq References(agent.ctx[from(n)]) \cup {NoRef}
      BY <3>4, Copied
    <3> QED BY <3>3, <3>4, <3>5, KnownIds
  <2>2. g \in [Range(new) -> Drawn]
    BY <2>1
  <2> HIDE DEF g
  <2> QED BY <1>4, <2>1, <2>2, PatchMany
<1>6. CheckAllExist(ids, p, {})
  BY <1>3
<1> HIDE DEF p
<1> QED BY <1>1, <1>4, <1>5, <1>6, CheckedStep

\* A connector's two ends are looked up.
LEMMA ConnectElementsStep ==
    ASSUME AgentInv, ConnectElements
    PROVE  AgentInv'
<1>1. Answering /\ SceneSound(agent.ctx)
  BY ToolScene DEF ConnectElements
<1>2. PICK i \in Named, f \in Named, t \in Named, l \in BOOLEAN :
         CheckAllExist({f, t}, <<WithLabel(i, BuildArrow(f, t), l)>>, {})
  BY DEF ConnectElements
<1>3. {f, t} \subseteq DrawIds /\ f \in DrawRefs /\ t \in DrawRefs
  BY NamesAreDrawn DEF DrawRefs
<1>4. /\ BuildArrow(f, t) \in Drawn /\ BuildArrow(f, t).ver = 1
      /\ References(BuildArrow(f, t)) = {f, t, NoRef}
  BY <1>3, BuiltElements
<1>5. ASSUME {f, t} \subseteq AliveIds(agent.ctx)
      PROVE  PatchSound(<<WithLabel(i, BuildArrow(f, t), l)>>, agent.ctx)
  <2>1. References(BuildArrow(f, t)) \subseteq Known(agent.ctx, {}) /\ BuildArrow(f, t).ver \in 1..2
    BY <1>4, <1>5, KnownIds
  <2> QED BY <1>4, <2>1, PatchLabelled
<1> QED BY <1>1, <1>2, <1>3, <1>5, CheckedStep

\* An annotation refers to nothing.
LEMMA AddAnnotationStep ==
    ASSUME AgentInv, AddAnnotation
    PROVE  AgentInv'
<1>1. Answering
  BY DEF AddAnnotation
<1>2. PICK i \in FreshIds, target \in SUBSET Named : CheckAllExist(target, <<Piece(i, BuildText(NoRef))>>, {})
  BY DEF AddAnnotation
<1>3. i \in DrawIds /\ target \subseteq DrawIds
  BY NamesAreDrawn DEF FreshIds
<1>4. /\ BuildText(NoRef) \in Drawn /\ BuildText(NoRef).ver \in 1..2
      /\ References(BuildText(NoRef)) \subseteq Known(agent.ctx, {i})
  BY BuiltElements, KnownIds DEF DrawRefs
<1>5. PieceSound(Piece(i, BuildText(NoRef)), agent.ctx, {i}) /\ DOMAIN Piece(i, BuildText(NoRef)) = {i}
  BY <1>3, <1>4, PieceOne
<1>6. PatchSound(<<Piece(i, BuildText(NoRef))>>, agent.ctx)
  BY <1>5, PatchOne
<1> QED BY <1>1, <1>2, <1>3, <1>6, CheckedStep
\* A connector's label is a text bound to it, deleted or not, or a new one.
LEMMA ConnectorLabelSound ==
    ASSUME NEW i \in Named, SceneSound(agent.ctx), i \in AliveIds(agent.ctx)
    PROVE  PatchSound(<<ConnectorLabel(i)>>, agent.ctx)
<1> DEFINE bound == {j \in DrawIds : agent.ctx[j].type = "text" /\ agent.ctx[j].ct = i}
           j == CHOOSE k \in bound : TRUE
<1>1. i \in DrawIds /\ Label(i) \in DrawIds /\ i \in DrawRefs
  BY NamesAreDrawn DEF DrawRefs
<1>2. CASE bound # {}
  <2>1. j \in bound
    BY <1>2
  <2>2. ConnectorLabel(i) = Piece(j, Restyled(agent.ctx[j]))
    BY <1>2 DEF ConnectorLabel, Restyled
  <2>3. j \in DrawIds /\ agent.ctx[j].type = "text" /\ agent.ctx[j].ct = i
    BY <2>1
  <2> HIDE DEF bound, j
  <2>4. agent.ctx[j] \in Drawn /\ agent.ctx[j].ver \in 1..2 /\ References(agent.ctx[j]) \subseteq {i, NoRef}
    BY <2>3 DEF SceneSound
  <2>5. /\ Restyled(agent.ctx[j]) \in Drawn /\ Restyled(agent.ctx[j]).ver = agent.ctx[j].ver
        /\ References(Restyled(agent.ctx[j])) = References(agent.ctx[j])
    BY <2>4, LookSet
  <2>6. Restyled(agent.ctx[j]).ver \in 1..2 /\ References(Restyled(agent.ctx[j])) \subseteq Known(agent.ctx, {j})
    BY <2>4, <2>5, KnownIds
  <2>7. /\ PieceSound(Piece(j, Restyled(agent.ctx[j])), agent.ctx, {j})
        /\ DOMAIN Piece(j, Restyled(agent.ctx[j])) = {j}
    BY <2>3, <2>5, <2>6, PieceOne
  <2> QED BY <2>2, <2>7, PatchOne
<1>3. CASE bound = {}
  <2>1. ConnectorLabel(i) = Piece(Label(i), BuildText(i))
    BY <1>3 DEF ConnectorLabel
  <2>2. BuildText(i) \in Drawn /\ BuildText(i).ver = 1 /\ References(BuildText(i)) = {i, NoRef}
    BY <1>1, BuiltElements
  <2>3. References(BuildText(i)) \subseteq Known(agent.ctx, {Label(i)}) /\ BuildText(i).ver \in 1..2
    BY <2>2, KnownIds
  <2>4. /\ PieceSound(Piece(Label(i), BuildText(i)), agent.ctx, {Label(i)})
        /\ DOMAIN Piece(Label(i), BuildText(i)) = {Label(i)}
    BY <1>1, <2>2, <2>3, PieceOne
  <2> QED BY <2>1, <2>4, PatchOne
<1> QED BY <1>2, <1>3

\* A connector's arrowheads and its label.
LEMMA UpdateConnectorStep ==
    ASSUME AgentInv, UpdateConnector
    PROVE  AgentInv'
<1>1. Answering /\ SceneSound(agent.ctx)
  BY ToolScene DEF UpdateConnector
<1>2. PICK i \in Named, direction \in BOOLEAN, label \in BOOLEAN, m \in SUBSET Named :
         IF ~FindElement(i) \/ agent.ctx[i].type # "arrow" THEN ToolError
         ELSE ToolOk((IF direction THEN <<[j \in {i} |-> Upsert(Restyled(agent.ctx[j]))]>> ELSE <<>>)
                       \o (IF label THEN <<ConnectorLabel(i)>> ELSE <<>>), m)
  <2>1. PICK i \in Named, direction \in BOOLEAN, label \in BOOLEAN, meta \in BOOLEAN :
         IF ~FindElement(i) \/ agent.ctx[i].type # "arrow" THEN ToolError
         ELSE ToolOk((IF direction THEN <<[j \in {i} |-> Upsert(Restyled(agent.ctx[j]))]>> ELSE <<>>)
                       \o (IF label THEN <<ConnectorLabel(i)>> ELSE <<>>), IF meta THEN {i} ELSE {})
    BY DEF UpdateConnector, Redraw, Restyled
  <2>2. (IF meta THEN {i} ELSE {}) \in SUBSET Named
    OBVIOUS
  <2> QED BY <2>1, <2>2
<1>3. CASE ToolError
  BY <1>1, <1>3, ToolErrorStep
<1>4. CASE ~ToolError
  <2> DEFINE f == [j \in {i} |-> Restyled(agent.ctx[j])]
             p == IF direction THEN <<[j \in {i} |-> Upsert(f[j])]>> ELSE <<>>
             q == IF label THEN <<ConnectorLabel(i)>> ELSE <<>>
  <2>1. FindElement(i) /\ ToolOk(p \o q, m)
    BY <1>2, <1>4
  <2>2. i \in AliveIds(agent.ctx)
    BY <1>1, <2>1, NamesAreDrawn DEF FindElement, AliveIds, SceneSound
  <2>3. PatchSound(p, agent.ctx)
    <3>1. /\ i \in DrawIds /\ agent.ctx[i] \in Drawn /\ agent.ctx[i].ver \in 1..2
          /\ References(agent.ctx[i]) \subseteq Known(agent.ctx, {})
      BY <1>1, <2>2, LiveElement
    <3>2. \A j \in {i} : f[j] \in Drawn /\ f[j].ver \in 1..2 /\ References(f[j]) \subseteq Known(agent.ctx, {})
      BY <3>1, LookSet
    <3>3. f \in [{i} -> Drawn] /\ {i} \in SUBSET DrawIds
      BY <3>1, <3>2
    <3> HIDE DEF f
    <3>4. PatchSound(<<[j \in {i} |-> Upsert(f[j])]>>, agent.ctx)
      BY <3>2, <3>3, PatchMany
    <3>5. PatchSound(<<>>, agent.ctx)
      BY OpsNone DEF PatchSound
    <3> QED BY <3>4, <3>5
  <2>4. PatchSound(q, agent.ctx)
    <3>1. PatchSound(<<ConnectorLabel(i)>>, agent.ctx)
      BY <1>1, <2>2, ConnectorLabelSound
    <3>2. PatchSound(<<>>, agent.ctx)
      BY OpsNone DEF PatchSound
    <3> QED BY <3>1, <3>2
  <2> HIDE DEF p, q
  <2>5. PatchSound(p \o q, agent.ctx)
    BY <2>3, <2>4, PatchJoin
  <2> QED BY <1>1, <2>1, <2>5, ToolOkStep
<1> QED BY <1>3, <1>4

\* A compiled document's edge refers to nodes that its own patch adds.
LEMMA CompileIrStep ==
    ASSUME AgentInv, CompileIr
    PROVE  AgentInv'
<1>1. Answering
  BY DEF CompileIr
<1>2. PICK f \in Named, t \in Named, ok \in BOOLEAN, edge \in BOOLEAN :
         IF ~ok THEN ToolError
         ELSE ToolOk(<<Beside(WithLabel(f, BaseFields("shape"), TRUE), WithLabel(t, BaseFields("shape"), TRUE))>>
                       \o (IF edge THEN <<WithLabel(Arrow1, BuildArrow(f, t), TRUE)>> ELSE <<>>), {})
  BY DEF CompileIr
<1> DEFINE a == WithLabel(f, BaseFields("shape"), TRUE)
           b == WithLabel(t, BaseFields("shape"), TRUE)
           c == WithLabel(Arrow1, BuildArrow(f, t), TRUE)
           e == BaseFields("shape")
           k == BuildArrow(f, t)
           u == DOMAIN a \cup DOMAIN b
           v == u \cup DOMAIN c
<1>3. f \in u /\ t \in u /\ f \in v /\ t \in v /\ Arrow1 \in v
  BY DEF WithLabel, Piece, Beside
<1>4. Arrow1 \in Named /\ f \in DrawRefs /\ t \in DrawRefs
  BY NamesAreDrawn, AgentAssumption DEF DrawRefs
<1>5. e \in Drawn /\ e.ver \in 1..2 /\ \A w : References(e) \subseteq Known(agent.ctx, w)
  BY BuiltElements, KnownIds
<1>6. k \in Drawn /\ k.ver \in 1..2 /\ References(k) = {f, t, NoRef}
  BY <1>4, BuiltElements
<1> HIDE DEF e, k
<1>7. \A w : f \in w /\ t \in w => PieceSound(a, agent.ctx, w) /\ PieceSound(b, agent.ctx, w)
  <2> SUFFICES ASSUME NEW w, f \in w, t \in w
               PROVE  PieceSound(a, agent.ctx, w) /\ PieceSound(b, agent.ctx, w)
    OBVIOUS
  <2>1. a = WithLabel(f, e, TRUE) /\ b = WithLabel(t, e, TRUE)
    BY DEF e
  <2> HIDE DEF a, b
  <2>2. PieceSound(WithLabel(f, e, TRUE), agent.ctx, w)
    BY <1>5, PieceLabelled
  <2>3. PieceSound(WithLabel(t, e, TRUE), agent.ctx, w)
    BY <1>5, PieceLabelled
  <2> QED BY <2>1, <2>2, <2>3
<1>8. PieceSound(c, agent.ctx, v)
  <2>1. c = WithLabel(Arrow1, k, TRUE)
    BY DEF k
  <2> HIDE DEF c, v
  <2>2. References(k) \subseteq Known(agent.ctx, v)
    BY <1>3, <1>6, KnownIds
  <2>3. PieceSound(WithLabel(Arrow1, k, TRUE), agent.ctx, v)
    BY <1>3, <1>4, <1>6, <2>2, PieceLabelled
  <2> QED BY <2>1, <2>3
<1> HIDE DEF a, b, c
<1>9. /\ PieceSound(Beside(a, b), agent.ctx, u) /\ PieceSound(Beside(a, b), agent.ctx, v)
      /\ DOMAIN Beside(a, b) = u
  <2>1. PieceSound(a, agent.ctx, u) /\ PieceSound(b, agent.ctx, u)
    BY <1>3, <1>7
  <2>2. PieceSound(a, agent.ctx, v) /\ PieceSound(b, agent.ctx, v)
    BY <1>3, <1>7
  <2> HIDE DEF u, v
  <2>3. PieceSound(Beside(a, b), agent.ctx, u) /\ DOMAIN Beside(a, b) = DOMAIN a \cup DOMAIN b
    <3>1. DOMAIN Beside(a, b) = DOMAIN a \cup DOMAIN b
      BY DEF Beside
    <3>2. PieceSound(Beside(a, b), agent.ctx, u)
      BY <2>1, PieceBeside
    <3> QED BY <3>1, <3>2
  <2>4. PieceSound(Beside(a, b), agent.ctx, v)
    BY <2>2, PieceBeside
  <2> QED BY <2>3, <2>4 DEF u
<1> DEFINE q == IF edge THEN <<c>> ELSE <<>>
<1>10. PatchSound(<<Beside(a, b)>> \o q, agent.ctx)
  <2>1. CASE edge
    <3>1. OpsSound(<<Beside(a, b)>>, agent.ctx, v) /\ Touches(<<Beside(a, b)>>) = u
      BY <1>9, OpsOne
    <3>2. OpsSound(<<c>>, agent.ctx, v) /\ Touches(<<c>>) = DOMAIN c
      BY <1>8, OpsOne
    <3> HIDE DEF v
    <3>3. /\ OpsSound(<<Beside(a, b)>> \o <<c>>, agent.ctx, v)
          /\ Touches(<<Beside(a, b)>> \o <<c>>) = Touches(<<Beside(a, b)>>) \cup Touches(<<c>>)
      BY <3>1, <3>2, OpsJoin
    <3> QED BY <2>1, <3>1, <3>2, <3>3 DEF PatchSound, v
  <2>2. CASE ~edge
    <3>1. PatchSound(<<Beside(a, b)>>, agent.ctx)
      BY <1>9, PatchOne
    <3>2. PatchSound(<<>>, agent.ctx)
      BY OpsNone DEF PatchSound
    <3>3. PatchSound(<<Beside(a, b)>> \o <<>>, agent.ctx)
      BY <3>1, <3>2, PatchJoin
    <3> QED BY <2>2, <3>3
  <2> QED BY <2>1, <2>2
<1>11. ToolError \/ ToolOk(<<Beside(a, b)>> \o q, {})
  BY <1>2 DEF a, b, c
<1> HIDE DEF q
<1> QED BY <1>1, <1>10, <1>11, ToolErrorStep, ToolOkStep
-----------------------------------------------------------------------------
\* The write tools together.
LEMMA WriteToolStep ==
    ASSUME AgentInv, WriteTool
    PROVE  AgentInv'
BY CreateElementStep, CreateComponentStep, CreateGroupStep, CreateFrameStep, UpdateElementStep, DeleteElementsStep,
   DuplicateElementsStep, ConnectElementsStep, UpdateConnectorStep, ReadingStep, MovesStep, AddAnnotationStep,
   CompileIrStep DEF WriteTool

\* The invariant of a run holds when the run is asked for.
LEMMA AgentInvInit == AgentInit => AgentInv
<1> SUFFICES ASSUME AgentInit PROVE AgentInv
  OBVIOUS
<1>1. PICK gone : canvas = Drawing(gone)
  BY DEF AgentInit
<1>2. SceneSound(canvas) /\ revision = 0
  BY <1>1, DrawingSound DEF AgentInit
<1>3. PICK sel, scopes : agent = [NoRunYet EXCEPT !.enabled = scopes, !.sel = sel]
  BY DEF AgentInit
<1>4. agent.phase = "context" /\ agent.patch = <<>> /\ AgentShape
  BY <1>3, Zenon DEF NoRunYet, AgentShape
<1> QED BY <1>2, <1>4 DEF AgentInv

\* A collaborator's deletion leaves a drawing, and moves the revision past every scene read before.
LEMMA CollaborateStep ==
    ASSUME AgentInv, NEW i \in DrawIds, Collaborate(i)
    PROVE  AgentInv'
<1>1. /\ Alive(canvas, i) /\ canvas' = [canvas EXCEPT ![i].dead = TRUE, ![i].ver = @ + 1]
      /\ revision' = revision + 1 /\ agent' = agent
  BY DEF Collaborate
<1>2. ASSUME SceneSound(canvas)
      PROVE  SceneSound(canvas')
  <2>1. PICK e \in Drawn : e = canvas[i] /\ e.ver = 1 /\ (e.type = "text" => References(e) \subseteq {e.ct, NoRef})
    BY <1>1, <1>2 DEF SceneSound, Alive, Drawn
  <2>2. PICK d : d = WithVer(WithDead(e, TRUE), e.ver + 1)
    OBVIOUS
  <2>3. canvas' = [canvas EXCEPT ![i] = d]
    BY <1>1, <2>1, <2>2, Zenon DEF WithVer, WithDead
  <2>4. PICK w \in Drawn : /\ w = WithDead(e, TRUE) /\ w.dead /\ w.ver = e.ver /\ w.type = e.type /\ w.ct = e.ct
                          /\ References(w) = References(e)
    BY DeadSet
  <2>5. /\ d = WithVer(w, 2) /\ d \in Drawn /\ d.ver = 2 /\ d.dead
        /\ d.type = e.type /\ d.ct = e.ct /\ References(d) = References(e)
    <3>1. d = WithVer(w, 2)
      BY <2>1, <2>2, <2>4
    <3>2. /\ WithVer(w, 2) \in Drawn /\ WithVer(w, 2).ver = 2 /\ WithVer(w, 2).dead = w.dead
          /\ WithVer(w, 2).type = w.type /\ WithVer(w, 2).ct = w.ct /\ References(WithVer(w, 2)) = References(w)
      <4>1. 2 \in Nat
        OBVIOUS
      <4> QED BY <4>1, VerSet
    <3> QED BY <2>4, <3>1, <3>2
  <2>6. canvas' \in [DrawIds -> Drawn] /\ canvas'[i] = d /\ \A j \in DrawIds \ {i} : canvas'[j] = canvas[j]
    BY <1>2, <2>3, <2>5 DEF SceneSound
  <2> QED BY <1>2, <2>1, <2>5, <2>6 DEF SceneSound
<1> QED BY <1>1, <1>2 DEF AgentInv, AgentShape, ReadOf

\* The steps of the run around the tools.
LEMMA RunStep ==
    ASSUME AgentInv, ReadContext \/ NoProvider \/ CallProvider \/ AttachPreview \/ Approve
    PROVE  AgentInv'
<1>1. CASE ReadContext
  <2>1. /\ agent'.phase = "call" /\ agent'.ctx = canvas /\ agent'.rev = revision /\ agent'.patch = agent.patch
        /\ AgentShape' /\ agent.phase = "context" /\ canvas' = canvas /\ revision' = revision
    BY <1>1 DEF ReadContext, AgentOnly, AgentInv, AgentShape
  <2> QED BY <2>1 DEF AgentInv, ReadOf
<1>2. CASE NoProvider
  BY <1>2, EndRunStep DEF NoProvider, RunFails
<1>3. CASE CallProvider
  <2>1. CASE RunFails
    BY <1>3, <2>1, EndRunStep DEF CallProvider, RunFails
  <2>2. CASE agent' = [agent EXCEPT !.phase = "tools"]
    <3>1. /\ agent'.phase = "tools" /\ agent'.ctx = agent.ctx /\ agent'.rev = agent.rev
          /\ agent'.patch = agent.patch /\ AgentShape'
          /\ agent.phase = "call" /\ canvas' = canvas /\ revision' = revision
      BY <1>3, <2>2 DEF CallProvider, AgentOnly, AgentInv, AgentShape
    <3>2. PatchSound(agent'.patch, agent'.ctx)
      BY <3>1, OpsNone DEF AgentInv, PatchSound
    <3> QED BY <3>1, <3>2 DEF AgentInv, ReadOf
  <2> QED BY <1>3, <2>1, <2>2 DEF CallProvider
<1>4. CASE AttachPreview
  <2>1. /\ agent'.phase = "awaiting_approval" /\ agent'.ctx = agent.ctx /\ agent'.rev = agent.rev
        /\ agent'.patch = agent.patch /\ AgentShape'
        /\ agent.phase = "tools" /\ canvas' = canvas /\ revision' = revision
    BY <1>4 DEF AttachPreview, AgentOnly, AgentInv, AgentShape
  <2> QED BY <2>1 DEF AgentInv, ReadOf
<1>5. CASE Approve
  <2>1. agent.phase = "awaiting_approval" /\ canvas' = canvas /\ revision' = revision
    BY <1>5 DEF Approve, AgentOnly
  <2>2. CASE revision # agent.rev
    BY <1>5, <2>1, <2>2, EndRunStep DEF Approve
  <2>3. CASE revision = agent.rev
    <3>1. agent.ctx = canvas
      BY <2>1, <2>3 DEF AgentInv, ReadOf
    <3>2. /\ agent'.phase = "applying" /\ agent'.ctx = canvas /\ agent'.at = revision
          /\ agent'.patch = agent.patch /\ AgentShape'
      BY <1>5, <2>3 DEF Approve, AgentInv, AgentShape
    <3> QED BY <2>1, <3>1, <3>2 DEF AgentInv, ReadOf
  <2> QED BY <2>2, <2>3
<1> QED BY <1>1, <1>2, <1>3, <1>4, <1>5

\* Every step of a run keeps its invariant.
LEMMA AgentInvNext == AgentInv /\ [AgentNext]_agentVars => AgentInv'
<1> SUFFICES ASSUME AgentInv, [AgentNext]_agentVars PROVE AgentInv'
  OBVIOUS
<1>1. CASE UNCHANGED agentVars
  BY <1>1 DEF agentVars, AgentInv, AgentShape, ReadOf
<1>2. ASSUME NEW i \in DrawIds, Collaborate(i)
      PROVE  AgentInv'
  BY <1>2, CollaborateStep
<1>3. CASE ReadDiagram \/ ReadLibrary \/ RejectArguments
  BY <1>3, ReadingStep
<1>4. CASE WriteTool
  BY <1>4, WriteToolStep
<1>5. CASE ReadContext \/ NoProvider \/ CallProvider \/ AttachPreview \/ Approve
  BY <1>5, RunStep
<1>6. CASE ApplyPatch
  <2>1. agent'.phase = "applied" /\ AgentShape'
    BY <1>6, Ended DEF ApplyPatch
  <2>2. revision' \in Nat
    BY <1>6 DEF ApplyPatch, AgentInv
  <2> QED BY <2>1, <2>2 DEF AgentInv
<1> QED BY <1>1, <1>2, <1>3, <1>4, <1>5, <1>6 DEF AgentNext
-----------------------------------------------------------------------------
(* What the patch does to the diagram.                                     *)

\* The patch of a run, on the scene it was made for.
Lands == agent.ctx = canvas /\ SceneSound(canvas) /\ PatchSound(agent.patch, canvas)

\* Where a delta comes from.
LEMMA DeltaOf ==
    ASSUME NEW i \in DrawIds, NEW d \in PatchToDeltas(i), agent.ctx = canvas
    PROVE  \E n \in Touching(agent.patch, i) :
             d = IF agent.patch[n][i].op = "upsert"
                 THEN WithVer(WithDead(agent.patch[n][i].el, FALSE),
                              IF canvas[i].ver > 0 THEN canvas[i].ver + 1 ELSE agent.patch[n][i].el.ver)
                 ELSE WithVer(WithDead(canvas[i], TRUE), canvas[i].ver + 1)
<1>1. \E n \in Touching(agent.patch, i) :
        d = IF agent.patch[n][i].op = "upsert"
            THEN [agent.patch[n][i].el EXCEPT !.dead = FALSE,
                                              !.ver = IF canvas[i].ver > 0 THEN canvas[i].ver + 1 ELSE @]
            ELSE [canvas[i] EXCEPT !.dead = TRUE, !.ver = canvas[i].ver + 1]
  BY DEF PatchToDeltas
<1> QED BY <1>1, Zenon DEF WithVer, WithDead

\* An operation of the patch that lands.
LEMMA OpOf ==
    ASSUME Lands, NEW i \in DrawIds, NEW n \in Touching(agent.patch, i), NEW o, o = agent.patch[n][i]
    PROVE  /\ canvas[i] \in Drawn /\ canvas[i].ver \in Nat
           /\ \/ o = Removal /\ o.op = "delete" /\ canvas[i].ver > 0
              \/ /\ o.op = "upsert" /\ o.el \in Drawn /\ o.el.ver \in 1..2
                 /\ References(o.el) \subseteq Known(canvas, Touched)
<1>1. PieceSound(agent.patch[n], canvas, Touched) /\ i \in DOMAIN agent.patch[n]
  BY DEF Lands, PatchSound, OpsSound, Touched, Touches, Touching
<1>2. o \in Operations /\ OpSound(o, i, canvas, Touched)
  BY <1>1, PieceShape DEF PieceSound
<1>3. canvas[i] \in Drawn /\ canvas[i].ver \in Nat
  BY DEF Lands, SceneSound, Drawn
<1> QED BY <1>2, <1>3 DEF OpSound, Operations, AliveIds, Alive, Removal

\* A delta is newer than the element it lands on.
LEMMA DeltaVersion ==
    ASSUME Lands, NEW i \in DrawIds, NEW d \in PatchToDeltas(i)
    PROVE  /\ d.ver \in Nat /\ d.ver > canvas[i].ver
           /\ IF canvas[i].ver > 0 THEN d.ver = canvas[i].ver + 1 ELSE d.ver \in 1..2
<1>1. PICK n \in Touching(agent.patch, i) :
        d = IF agent.patch[n][i].op = "upsert"
            THEN WithVer(WithDead(agent.patch[n][i].el, FALSE),
                         IF canvas[i].ver > 0 THEN canvas[i].ver + 1 ELSE agent.patch[n][i].el.ver)
            ELSE WithVer(WithDead(canvas[i], TRUE), canvas[i].ver + 1)
  BY DeltaOf DEF Lands
<1>2. PICK o : o = agent.patch[n][i]
  OBVIOUS
<1>3. /\ canvas[i] \in Drawn /\ canvas[i].ver \in Nat
      /\ \/ o = Removal /\ o.op = "delete" /\ canvas[i].ver > 0
         \/ o.op = "upsert" /\ o.el \in Drawn /\ o.el.ver \in 1..2
  BY <1>2, OpOf
<1>4. CASE o.op = "upsert"
  <2>1. PICK v \in Nat : v = IF canvas[i].ver > 0 THEN canvas[i].ver + 1 ELSE o.el.ver
    BY <1>3, <1>4 DEF Removal
  <2>2. PICK w \in Drawn : w = WithDead(o.el, FALSE)
    BY <1>3, <1>4, DeadSet DEF Removal
  <2>3. WithVer(w, v).ver = v
    BY VerSet
  <2>4. d = WithVer(w, v)
    BY <1>1, <1>2, <1>4, <2>1, <2>2
  <2> QED BY <1>3, <1>4, <2>1, <2>3, <2>4 DEF Removal
<1>5. CASE o.op = "delete"
  <2>1. PICK w \in Drawn : w = WithDead(canvas[i], TRUE)
    BY <1>3, DeadSet
  <2>2. PICK v \in Nat : v = canvas[i].ver + 1
    BY <1>3
  <2>3. WithVer(w, v).ver = v
    BY VerSet
  <2>4. d = WithVer(w, v)
    BY <1>1, <1>2, <1>5, <2>1, <2>2
  <2> QED BY <1>3, <1>5, <2>2, <2>3, <2>4
<1> QED BY <1>3, <1>4, <1>5

\* A delta of a patch that removes nothing is live and refers to what the run knew.
LEMMA DeltaIs ==
    ASSUME Lands, ~RemovesElements(canvas), NEW i \in DrawIds, NEW d \in PatchToDeltas(i)
    PROVE  d.dead = FALSE /\ References(d) \subseteq Known(canvas, Touched)
<1>1. PICK n \in Touching(agent.patch, i) :
        d = IF agent.patch[n][i].op = "upsert"
            THEN WithVer(WithDead(agent.patch[n][i].el, FALSE),
                         IF canvas[i].ver > 0 THEN canvas[i].ver + 1 ELSE agent.patch[n][i].el.ver)
            ELSE WithVer(WithDead(canvas[i], TRUE), canvas[i].ver + 1)
  BY DeltaOf DEF Lands
<1>2. PICK o : o = agent.patch[n][i]
  OBVIOUS
<1>3. o # Removal
  BY <1>2 DEF RemovesElements, Range, Touching
<1>4. /\ canvas[i].ver \in Nat /\ o.op = "upsert" /\ o.el \in Drawn /\ o.el.ver \in 1..2
      /\ References(o.el) \subseteq Known(canvas, Touched)
  BY <1>2, <1>3, OpOf
<1>5. PICK v \in Nat : v = IF canvas[i].ver > 0 THEN canvas[i].ver + 1 ELSE o.el.ver
  BY <1>4
<1>6. PICK w \in Drawn : w = WithDead(o.el, FALSE) /\ w.dead = FALSE /\ References(w) = References(o.el)
  BY <1>4, DeadSet
<1>7. WithVer(w, v).dead = w.dead /\ References(WithVer(w, v)) = References(w)
  BY VerSet
<1>8. d = WithVer(w, v)
  BY <1>1, <1>2, <1>4, <1>5, <1>6
<1> QED BY <1>4, <1>6, <1>7, <1>8

\* An id has deltas exactly when the patch touches it.
LEMMA DeltasOfTouched ==
    ASSUME NEW i \in DrawIds
    PROVE  PatchToDeltas(i) = {} <=> i \notin Touched
<1> DEFINE base == agent.ctx[i].ver
           ops == {agent.patch[n][i] : n \in Touching(agent.patch, i)}
           delta(o) == IF o.op = "upsert"
                       THEN [o.el EXCEPT !.dead = FALSE, !.ver = IF base > 0 THEN base + 1 ELSE @]
                       ELSE [canvas[i] EXCEPT !.dead = TRUE, !.ver = base + 1]
<1>1. PatchToDeltas(i) = {delta(o) : o \in ops}
  BY Zenon DEF PatchToDeltas
<1>2. ops = {} <=> i \notin Touched
  BY DEF Touched, Touching
<1> HIDE DEF ops, delta
<1> QED BY <1>1, <1>2

\* mergeScene settles on a delta where the patch touches the element, and leaves the others.
LEMMA WinnerIs ==
    ASSUME Lands, NEW i \in DrawIds
    PROVE  /\ Winners(i) # {}
           /\ i \in Touched => Winners(i) \subseteq PatchToDeltas(i)
           /\ i \notin Touched => Winners(i) = {canvas[i]}
<1> DEFINE D == PatchToDeltas(i)
<1>1. \A d \in D : /\ d.ver \in Nat /\ d.ver > canvas[i].ver
                   /\ IF canvas[i].ver > 0 THEN d.ver = canvas[i].ver + 1 ELSE d.ver \in 1..2
  BY DeltaVersion
<1>2. D = {} <=> i \notin Touched
  BY DeltasOfTouched
<1>3. canvas[i].ver \in Nat
  BY DEF Lands, SceneSound, Drawn
<1>4. \A e : e \in Winners(i) <=> /\ e = canvas[i] \/ e \in D
                                  /\ canvas[i].ver <= e.ver /\ \A d \in D : d.ver <= e.ver
  BY DEF Winners
<1> HIDE DEF D
<1>5. CASE D = {}
  BY <1>2, <1>3, <1>4, <1>5
<1>6. CASE D # {}
  <2>1. canvas[i] \notin Winners(i)
    BY <1>1, <1>3, <1>4, <1>6
  <2>2. Winners(i) # {}
    <3>1. CASE canvas[i].ver > 0
      BY <1>1, <1>3, <1>4, <1>6, <3>1
    <3>2. CASE canvas[i].ver = 0 /\ \E d \in D : d.ver = 2
      <4>1. PICK d \in D : d.ver = 2
        BY <3>2
      <4>2. d \in Winners(i)
        BY <1>1, <1>3, <1>4, <3>2, <4>1
      <4> QED BY <4>2
    <3>3. CASE canvas[i].ver = 0 /\ ~\E d \in D : d.ver = 2
      <4>1. PICK d \in D : TRUE
        BY <1>6
      <4>2. \A e \in D : e.ver = 1
        BY <1>1, <3>3
      <4>3. d \in Winners(i)
        BY <1>3, <1>4, <3>3, <4>1, <4>2
      <4> QED BY <4>3
    <3> QED BY <1>3, <3>1, <3>2, <3>3
  <2> QED BY <1>2, <1>4, <1>6, <2>1, <2>2 DEF D
<1> QED BY <1>5, <1>6

\* Every element becomes what mergeScene settles on.
LEMMA AppliedIsWinner ==
    ASSUME Lands, ApplyPatch
    PROVE  DOMAIN canvas' = DrawIds /\ \A i \in DrawIds : canvas'[i] \in Winners(i)
<1> DEFINE contested == {i \in DrawIds : Cardinality(Winners(i)) > 1}
<1>1. PICK won \in [contested -> UNION {Winners(i) : i \in contested}] :
        /\ \A i \in contested : won[i] \in Winners(i)
        /\ canvas' = [i \in DrawIds |-> IF i \in contested THEN won[i] ELSE CHOOSE e \in Winners(i) : TRUE]
  BY DEF ApplyPatch
<1> HIDE DEF contested
<1>2. DOMAIN canvas' = DrawIds
  BY <1>1
<1>3. ASSUME NEW i \in DrawIds
      PROVE  canvas'[i] \in Winners(i)
  <2>1. Winners(i) # {}
    BY WinnerIs
  <2>2. canvas'[i] = IF i \in contested THEN won[i] ELSE CHOOSE e \in Winners(i) : TRUE
    BY <1>1
  <2>3. (CHOOSE e \in Winners(i) : TRUE) \in Winners(i)
    BY <2>1
  <2> QED BY <1>1, <2>2, <2>3
<1> QED BY <1>2, <1>3

\* Applying a patch that removes nothing, on the scene it was made for.
LEMMA AppliedLeavesNoneDangling ==
    ASSUME Lands, ~RemovesElements(canvas), ApplyPatch
    PROVE  Dangling(canvas') \subseteq Dangling(canvas)
<1>1. DOMAIN canvas' = DrawIds /\ \A i \in DrawIds : canvas'[i] \in Winners(i)
  BY AppliedIsWinner
<1>2. DOMAIN canvas = DrawIds /\ \A i \in DrawIds : canvas[i].ver \in Nat
  BY DEF Lands, SceneSound, Drawn
<1>3. Touched \subseteq DrawIds
  BY PieceShape DEF Lands, PatchSound, OpsSound, PieceSound, Touched
<1>4. ASSUME NEW i \in DrawIds
      PROVE  IF i \in Touched
             THEN i \in AliveIds(canvas') /\ References(canvas'[i]) \subseteq Known(canvas, Touched)
             ELSE canvas'[i] = canvas[i]
  <2>1. CASE i \in Touched
    <3>1. canvas'[i] \in PatchToDeltas(i)
      BY <1>1, <2>1, WinnerIs
    <3>2. /\ canvas'[i].dead = FALSE /\ References(canvas'[i]) \subseteq Known(canvas, Touched)
          /\ canvas'[i].ver \in Nat /\ canvas'[i].ver > canvas[i].ver
      BY <3>1, DeltaIs, DeltaVersion
    <3> QED BY <1>1, <1>2, <2>1, <3>2 DEF AliveIds, Alive
  <2>2. CASE i \notin Touched
    BY <1>1, <2>2, WinnerIs
  <2> QED BY <2>1, <2>2
<1>5. AliveIds(canvas) \subseteq AliveIds(canvas') /\ Touched \subseteq AliveIds(canvas')
  BY <1>1, <1>2, <1>3, <1>4 DEF AliveIds, Alive
<1>6. ASSUME NEW i \in AliveIds(canvas')
      PROVE  References(canvas'[i]) \subseteq Known(canvas, Touched)
  <2>1. i \in DrawIds
    BY <1>1 DEF AliveIds
  <2>2. CASE i \in Touched
    BY <1>4, <2>1, <2>2
  <2>3. CASE i \notin Touched
    <3>1. canvas'[i] = canvas[i] /\ i \in AliveIds(canvas)
      BY <1>1, <1>2, <1>4, <2>1, <2>3 DEF AliveIds, Alive
    <3>2. References(canvas[i]) \subseteq Known(canvas, Touched)
      BY <3>1, LiveElement DEF Lands
    <3> QED BY <3>1, <3>2
  <2> QED BY <2>2, <2>3
<1> QED BY <1>5, <1>6 DEF Known, Dangling, References

\* The step that lands a patch as it was checked is approveAiRun's, on the scene the run read.
LEMMA LandsIs ==
    ASSUME AgentInv, [AgentNext]_agentVars, LandsAsChecked
    PROVE  Lands /\ ApplyPatch
<1>1. agent.phase = "applying" /\ agent'.phase = "applied" /\ agent.at = revision
  BY DEF LandsAsChecked
<1>2. Lands
  BY <1>1 DEF AgentInv, ReadOf, Lands
<1>3. ApplyPatch
  <2>1. ~UNCHANGED agentVars /\ \A i \in DrawIds : ~Collaborate(i)
    BY <1>1 DEF agentVars, Collaborate
  <2>2. /\ ~ReadDiagram /\ ~ReadLibrary /\ ~RejectArguments
        /\ ~ReadContext /\ ~NoProvider /\ ~CallProvider /\ ~AttachPreview /\ ~Approve
    BY <1>1 DEF ReadDiagram, ReadLibrary, RejectArguments, Answering, ReadContext, NoProvider, CallProvider,
                AttachPreview, Approve
  <2>3. ~WriteTool
    BY <1>1 DEF WriteTool, Answering, CreateElement, CreateComponent, CreateGroup, CreateFrame, UpdateElement,
                DeleteElements, DuplicateElements, ConnectElements, UpdateConnector, SetSemanticMetadata,
                AlignElements, DistributeElements, AutoLayout, ResizeContainer, AddAnnotation, GenerateIr, CompileIr
  <2> QED BY <2>1, <2>2, <2>3 DEF AgentNext
<1> QED BY <1>2, <1>3

\* The agent's tools look the elements up in the scene of the run's context, and the patch they make
\* leaves no reference to a missing element when approveAiRun lands it, removals apart: for any ids a
\* model may name and any number of calls.
THEOREM NothingLeftDangling == AgentSpec => NoNewDanglingReference
<1>1. ASSUME AgentInv, [AgentNext]_agentVars
      PROVE  LandsAsChecked /\ ~RemovesElements(canvas) => Dangling(canvas') \subseteq Dangling(canvas)
  <2> SUFFICES ASSUME LandsAsChecked, ~RemovesElements(canvas)
               PROVE  Dangling(canvas') \subseteq Dangling(canvas)
    OBVIOUS
  <2>1. Lands /\ ApplyPatch
    BY <1>1, LandsIs
  <2> QED BY <2>1, AppliedLeavesNoneDangling
<1> QED BY <1>1, AgentInvInit, AgentInvNext, PTL DEF AgentSpec, NoNewDanglingReference
-----------------------------------------------------------------------------
(* What was previewed is what lands.                                       *)

\* While the diagram stays where the run read it, the preview is of the patch on the diagram.
PreviewOf ==
  \/ agent.phase = "awaiting_approval" /\ agent.rev = revision
  \/ agent.phase = "applying" /\ agent.at = revision
  => agent.preview = ApplyPatchInMemory(canvas, agent.patch)

\* Neither a tool nor a run that ends waits for approval.
LEMMA NotWaiting ==
    ASSUME AgentInv, ReadDiagram \/ ReadLibrary \/ RejectArguments \/ WriteTool \/ ReadContext \/ NoProvider
                     \/ CallProvider \/ ApplyPatch
    PROVE  agent'.phase \notin {"awaiting_approval", "applying"}
<1>1. ASSUME NEW p, NEW m, ToolOk(p, m), agent.phase = "tools"
      PROVE  agent'.phase = "tools"
  BY <1>1 DEF ToolOk, AgentInv, AgentShape
<1>2. ASSUME NEW x, EndRun(x)
      PROVE  agent'.phase = x
  BY <1>2, Ended
<1>3. ASSUME ToolError \/ RunFails
      PROVE  agent'.phase = "failed"
  BY <1>2, <1>3 DEF ToolError, RunFails
<1>4. ASSUME NEW ids, NEW p, NEW m, CheckAllExist(ids, p, m), agent.phase = "tools"
      PROVE  agent'.phase \in {"tools", "failed"}
  BY <1>1, <1>3, <1>4 DEF CheckAllExist
<1>5. CASE ReadDiagram \/ ReadLibrary \/ RejectArguments
  <2>1. agent.phase = "tools"
    BY <1>5 DEF ReadDiagram, ReadLibrary, RejectArguments, Answering
  <2>2. CASE ToolError \/ \E p, m : ToolOk(p, m)
    BY <1>1, <1>3, <2>1, <2>2
  <2>3. CASE \E ids, p, m : CheckAllExist(ids, p, m)
    BY <1>4, <2>1, <2>3
  <2> QED BY <1>5, <2>2, <2>3 DEF ReadDiagram, ReadLibrary, RejectArguments
<1>6. CASE WriteTool
  <2>1. agent.phase = "tools"
    BY <1>6 DEF WriteTool, Answering, CreateElement, CreateComponent, CreateGroup, CreateFrame, UpdateElement,
                DeleteElements, DuplicateElements, ConnectElements, UpdateConnector, SetSemanticMetadata,
                AlignElements, DistributeElements, AutoLayout, ResizeContainer, AddAnnotation, GenerateIr, CompileIr
  <2>2. \/ ToolError \/ \E p, m : ToolOk(p, m)
        \/ \E ids, p, m : CheckAllExist(ids, p, m)
    BY <1>6, Zenon DEF WriteTool, CreateElement, CreateComponent, CreateGroup, CreateFrame, UpdateElement,
                DeleteElements, DuplicateElements, ConnectElements, UpdateConnector, SetSemanticMetadata, Moves,
                AlignElements, DistributeElements, AutoLayout, ResizeContainer, AddAnnotation, GenerateIr, CompileIr
  <2> QED BY <1>1, <1>3, <1>4, <2>1, <2>2
<1>7. CASE ReadContext
  <2>1. agent'.phase = "call"
    BY <1>7 DEF ReadContext, AgentInv, AgentShape
  <2> QED BY <2>1
<1>8. CASE NoProvider
  BY <1>3, <1>8 DEF NoProvider
<1>9. CASE CallProvider
  <2>1. CASE RunFails
    BY <1>3, <2>1
  <2>2. CASE agent' = [agent EXCEPT !.phase = "tools"]
    <3>1. agent'.phase = "tools"
      BY <2>2 DEF AgentInv, AgentShape
    <3> QED BY <3>1
  <2> QED BY <1>9, <2>1, <2>2 DEF CallProvider
<1>10. CASE ApplyPatch
  BY <1>2, <1>10 DEF ApplyPatch
<1> QED BY <1>5, <1>6, <1>7, <1>8, <1>9, <1>10

\* The preview stays right as long as it can be approved.
LEMMA PreviewOfNext == AgentInv /\ PreviewOf /\ [AgentNext]_agentVars => PreviewOf'
<1> SUFFICES ASSUME AgentInv, PreviewOf, [AgentNext]_agentVars PROVE PreviewOf'
  OBVIOUS
<1>1. CASE UNCHANGED agentVars
  BY <1>1 DEF agentVars, PreviewOf
<1>2. ASSUME NEW i \in DrawIds, Collaborate(i)
      PROVE  PreviewOf'
  <2>1. agent' = agent /\ revision' = revision + 1 /\ revision \in Nat
    BY <1>2 DEF Collaborate, AgentInv
  <2> QED BY <2>1 DEF AgentInv, ReadOf, PreviewOf
<1>3. CASE ReadDiagram \/ ReadLibrary \/ RejectArguments \/ WriteTool \/ ReadContext \/ NoProvider \/ CallProvider
           \/ ApplyPatch
  BY <1>3, NotWaiting DEF PreviewOf
<1>4. CASE AttachPreview
  <2>1. /\ agent'.phase = "awaiting_approval" /\ agent'.patch = agent.patch /\ canvas' = canvas
        /\ agent'.preview = ApplyPatchInMemory(canvas, agent.patch)
    BY <1>4 DEF AttachPreview, AgentOnly, AgentInv, AgentShape
  <2> QED BY <2>1 DEF PreviewOf
<1>5. CASE Approve
  <2>1. agent.phase = "awaiting_approval" /\ canvas' = canvas /\ revision' = revision
    BY <1>5 DEF Approve, AgentOnly
  <2>2. CASE revision # agent.rev
    <3>1. agent'.phase = "stale"
      BY <1>5, <2>2, Ended DEF Approve
    <3> QED BY <3>1 DEF PreviewOf
  <2>3. CASE revision = agent.rev
    <3>1. agent'.phase = "applying" /\ agent'.patch = agent.patch /\ agent'.preview = agent.preview
      BY <1>5, <2>3 DEF Approve, AgentInv, AgentShape
    <3> QED BY <2>1, <2>3, <3>1 DEF PreviewOf
  <2> QED BY <2>2, <2>3
<1> QED BY <1>1, <1>2, <1>3, <1>4, <1>5 DEF AgentNext

\* Of an id that the patch touches at most once, the scene and the preview say the same.
LEMMA AppliedAsPreviewed ==
    ASSUME Lands, ApplyPatch, NEW i \in DrawIds, \A m, n \in Touching(agent.patch, i) : m = n
    PROVE  [canvas'[i] EXCEPT !.ver = 0] = [ApplyPatchInMemory(canvas, agent.patch)[i] EXCEPT !.ver = 0]
<1> DEFINE p == agent.patch
           last == LastUpsert(p, i)
           e == IF last = 0 THEN canvas[i] ELSE [p[last][i].el EXCEPT !.dead = FALSE]
           shown == ApplyPatchInMemory(canvas, p)[i]
           upserts == {n \in Touching(p, i) : p[n][i].op = "upsert"}
<1>0. SUFFICES WithVer(canvas'[i], 0) = WithVer(shown, 0)
  BY Zenon DEF WithVer
<1>1. shown = IF \E n \in Touching(p, i) : n > last THEN [e EXCEPT !.dead = e.ver > 0] ELSE e
  BY DEF ApplyPatchInMemory
<1>2. last = IF upserts = {} THEN 0 ELSE CHOOSE n \in upserts : \A m \in upserts : m <= n
  BY DEF LastUpsert
<1>3. canvas'[i] \in Winners(i)
  BY AppliedIsWinner
<1>4. Touched = UNION {DOMAIN p[n] : n \in DOMAIN p} /\ \A n : n \in Touching(p, i) => n \in Nat \ {0}
  BY DEF Touched, Touching, Lands, PatchSound, OpsSound
<1>5. CASE Touching(p, i) = {}
  <2>1. i \notin Touched
    BY <1>5 DEF Touched, Touching
  <2>2. canvas'[i] = canvas[i]
    BY <1>3, <2>1, WinnerIs
  <2>3. shown = canvas[i]
    BY <1>1, <1>2, <1>5
  <2> QED BY <2>2, <2>3
<1>6. CASE Touching(p, i) # {}
  <2>1. PICK n : n \in Touching(p, i) /\ \A m \in Touching(p, i) : m = n
    BY <1>6
  <2>2. PICK o : o = p[n][i]
    OBVIOUS
  <2>3. n \in Nat /\ n > 0
    BY <1>4, <2>1
  <2>4. i \in Touched
    BY <2>1 DEF Touched, Touching
  <2>5. canvas'[i] \in PatchToDeltas(i)
    BY <1>3, <2>4, WinnerIs
  <2>6. canvas'[i] = IF o.op = "upsert"
                     THEN WithVer(WithDead(o.el, FALSE), IF canvas[i].ver > 0 THEN canvas[i].ver + 1 ELSE o.el.ver)
                     ELSE WithVer(WithDead(canvas[i], TRUE), canvas[i].ver + 1)
    <3> HIDE DEF last, e, shown, upserts
    <3>1. PICK m \in Touching(p, i) :
             canvas'[i] = IF p[m][i].op = "upsert"
                          THEN WithVer(WithDead(p[m][i].el, FALSE),
                                       IF canvas[i].ver > 0 THEN canvas[i].ver + 1 ELSE p[m][i].el.ver)
                          ELSE WithVer(WithDead(canvas[i], TRUE), canvas[i].ver + 1)
      BY <2>5, DeltaOf DEF Lands
    <3>2. m = n
      BY <2>1
    <3> QED BY <2>2, <3>1, <3>2
  <2>7. /\ canvas[i] \in Drawn /\ canvas[i].ver \in Nat
        /\ \/ o = Removal /\ o.op = "delete" /\ canvas[i].ver > 0
           \/ o.op = "upsert" /\ o.el \in Drawn /\ o.el.ver \in 1..2
    BY <2>1, <2>2, OpOf
  <2>8. CASE o.op = "upsert"
    <3>1. upserts = {n}
      BY <2>1, <2>2, <2>8
    <3>2. last = n
      BY <1>2, <2>3, <3>1
    <3>3. shown = [o.el EXCEPT !.dead = FALSE]
      BY <1>1, <2>1, <2>2, <2>3, <3>2
    <3>4. PICK w \in Drawn : w = WithDead(o.el, FALSE)
      BY <2>7, <2>8, DeadSet DEF Removal
    <3>5. PICK v \in Nat : v = IF canvas[i].ver > 0 THEN canvas[i].ver + 1 ELSE o.el.ver
      BY <2>7, <2>8 DEF Removal
    <3>6. canvas'[i] = WithVer(w, v) /\ shown = w
      BY <2>6, <2>8, <3>3, <3>4, <3>5 DEF WithDead
    <3> HIDE DEF shown
    <3>7. WithVer(WithVer(w, v), 0) = WithVer(w, 0)
      BY VerTwice
    <3> QED BY <3>6, <3>7
  <2>9. CASE o.op = "delete"
    <3>1. upserts = {}
      BY <2>1, <2>2, <2>9
    <3>2. last = 0
      BY <1>2, <3>1
    <3>3. e = canvas[i] /\ \E m \in Touching(p, i) : m > last
      BY <2>1, <2>3, <3>2
    <3>4. shown = [canvas[i] EXCEPT !.dead = canvas[i].ver > 0]
      BY <1>1, <3>3
    <3>5. (canvas[i].ver > 0) = TRUE
      BY <2>7, <2>9
    <3>6. PICK w \in Drawn : w = WithDead(canvas[i], TRUE)
      BY <2>7, DeadSet
    <3>7. PICK v \in Nat : v = canvas[i].ver + 1
      BY <2>7
    <3>8. canvas'[i] = WithVer(w, v)
      BY <2>6, <2>9, <3>6, <3>7
    <3>9. shown = w
      BY <3>4, <3>5, <3>6, Zenon DEF WithDead
    <3> HIDE DEF shown
    <3>10. WithVer(WithVer(w, v), 0) = WithVer(w, 0)
      BY VerTwice
    <3> QED BY <3>8, <3>9, <3>10
  <2> QED BY <2>7, <2>8, <2>9
<1> QED BY <1>5, <1>6

\* A user approves what attachPreview shows, and that is what approveAiRun makes of the diagram, versions
\* apart: for every element the calls touch at most once, whatever they are.
THEOREM AppliedAsApproved == AgentSpec => AppliesThePreview
<1>1. ASSUME AgentInv, PreviewOf, [AgentNext]_agentVars
      PROVE  LandsAsChecked => \A i \in DrawIds : (\A m, n \in Touching(agent.patch, i) : m = n)
                => [canvas'[i] EXCEPT !.ver = 0] = [agent.preview[i] EXCEPT !.ver = 0]
  <2> SUFFICES ASSUME LandsAsChecked, NEW i \in DrawIds, \A m, n \in Touching(agent.patch, i) : m = n
               PROVE  [canvas'[i] EXCEPT !.ver = 0] = [agent.preview[i] EXCEPT !.ver = 0]
    OBVIOUS
  <2>1. Lands /\ ApplyPatch
    BY <1>1, LandsIs
  <2>2. agent.preview = ApplyPatchInMemory(canvas, agent.patch)
    BY <1>1 DEF LandsAsChecked, PreviewOf
  <2> QED BY <2>1, <2>2, AppliedAsPreviewed
<1>2. AgentInit => PreviewOf
  <2> SUFFICES ASSUME AgentInit PROVE PreviewOf
    OBVIOUS
  <2>1. PICK sel, scopes : agent = [NoRunYet EXCEPT !.enabled = scopes, !.sel = sel]
    BY DEF AgentInit
  <2>2. agent.phase = "context"
    BY <2>1, Zenon DEF NoRunYet
  <2> QED BY <2>2 DEF PreviewOf
<1> QED BY <1>1, <1>2, AgentInvInit, AgentInvNext, PreviewOfNext, PTL DEF AgentSpec, AppliesThePreview
=============================================================================
