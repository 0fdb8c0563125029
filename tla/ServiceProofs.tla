---------------------------- MODULE ServiceProofs ----------------------------
(***************************************************************************)
(* Proofs about the smaller services of the server: the AI provider        *)
(* configurations (a write that ran alone converges), the generated        *)
(* documents (exactly the newest version is current), presence (the        *)
(* subscriptions follow the connections, a tab that is not connected shows *)
(* nobody) and webhook delivery (no delivery that is still owed is         *)
(* forgotten, except those a process took with it), for any number of      *)
(* writers, requests, tabs, connections, deliveries, workers and deaths.   *)
(***************************************************************************)
EXTENDS Presence, Providers, Docgen, Webhooks, TLAPS

-----------------------------------------------------------------------------
(* AI provider configurations.                                             *)

Config == [scope : Scopes \cup {"none"}, on : BOOLEAN]

Transaction == [st : {"idle", "patching", "written", "swept"}, id : SUBSET Configs, row : Config,
                off : SUBSET Configs, alone : BOOLEAN]

ProviderTypeOK ==
  /\ configs \in [Configs -> Config]
  /\ writer \in [Writers -> Transaction]

\* A write that is still alone is the only one open.
AloneIsAlone ==
  \A t, u \in Writers : Open(t) /\ writer[t].alone /\ Open(u) => t = u

\* What it disabled is still the whole of its scope besides its own row:
\* nobody else has committed since.
SweptAll ==
  \A t \in Writers : writer[t].st = "swept" /\ writer[t].alone /\ writer[t].row.on
    => writer[t].off = Siblings(t)

ProviderInv == ProviderTypeOK /\ AloneIsAlone /\ SweptAll

-----------------------------------------------------------------------------
\* A transaction that is not alone any more.
LEMMA Joined ==
  ASSUME NEW w \in Transaction
  PROVE  /\ [w EXCEPT !.alone = FALSE] \in Transaction
         /\ [w EXCEPT !.alone = FALSE].st = w.st /\ ~[w EXCEPT !.alone = FALSE].alone
BY DEF Transaction

\* A write that opens takes the others' solitude away.
LEMMA BeginStep ==
  ASSUME ProviderInv, NEW t \in Writers, NEW st \in {"patching", "written"}, NEW c \in Configs,
         NEW saved \in Config,
         Begin(t, st, c, saved), UNCHANGED configs
  PROVE  ProviderInv'
<1> DEFINE lone == ~\E other \in Writers : Open(other)
<1>1. /\ writer' = [u \in Writers |-> IF u = t THEN Write(st, {c}, saved, {}, lone)
                                       ELSE [writer[u] EXCEPT !.alone = FALSE]]
      /\ lone \in BOOLEAN
  BY DEF Begin
<1> HIDE DEF lone
<1>2. /\ writer'[t] = Write(st, {c}, saved, {}, lone)
      /\ \A u \in Writers \ {t} : writer'[u] = [writer[u] EXCEPT !.alone = FALSE]
  BY <1>1
<1>3. \A u \in Writers \ {t} : /\ writer'[u].st = writer[u].st /\ ~writer'[u].alone
                               /\ writer'[u] \in Transaction
  BY <1>2, Joined DEF ProviderInv, ProviderTypeOK
<1>4. /\ writer'[t].st = st /\ writer'[t].alone = lone
      /\ writer'[t] \in Transaction
  BY <1>1, <1>2 DEF Write, Transaction
<1>5. ProviderTypeOK'
  BY <1>1, <1>3, <1>4 DEF ProviderInv, ProviderTypeOK
<1>6. AloneIsAlone'
  BY <1>3, <1>4 DEF AloneIsAlone, Open, lone
<1>7. SweptAll'
  BY <1>3, <1>4 DEF SweptAll
<1>8. QED
  BY <1>5, <1>6, <1>7 DEF ProviderInv

\* Every step keeps the invariant.
LEMMA ProviderStep ==
  ProviderInv /\ [ProviderNext]_providerVars => ProviderInv'
<1> SUFFICES ASSUME ProviderInv, [ProviderNext]_providerVars PROVE ProviderInv'
  OBVIOUS
<1> USE DEF Config, Transaction
<1>1. ASSUME NEW t \in Writers, NEW c \in Configs, NEW s \in Scopes, NEW on \in BOOLEAN,
             PostProvider(t, c, s, on)
      PROVE  ProviderInv'
  BY <1>1, BeginStep DEF PostProvider
<1>2. ASSUME NEW t \in Writers, NEW c \in Configs, NEW on \in BOOLEAN, PatchProvider(t, c, on)
      PROVE  ProviderInv'
  BY <1>2, BeginStep DEF PatchProvider
<1>3. ASSUME NEW t \in Writers, NEW asked \in BOOLEAN, UpdateProviderConfig(t, asked) PROVE ProviderInv'
  <2>1. PICK c \in Configs, saved \in Config :
           writer' = [writer EXCEPT ![t] = Write("written", {c}, saved, {}, writer[t].alone)]
    BY <1>3 DEF UpdateProviderConfig, ProviderInv, ProviderTypeOK
  <2>2. writer[t].st = "patching" /\ UNCHANGED configs
    BY <1>3 DEF UpdateProviderConfig
  <2>3. /\ writer'[t] = Write("written", {c}, saved, {}, writer[t].alone)
        /\ \A u \in Writers \ {t} : writer'[u] = writer[u]
    BY <2>1 DEF ProviderInv, ProviderTypeOK
  <2>4. ProviderTypeOK'
    BY <2>1, <2>2 DEF ProviderInv, ProviderTypeOK, Write
  <2>5. AloneIsAlone'
    BY <2>2, <2>3 DEF ProviderInv, AloneIsAlone, Open, Write
  <2>6. SweptAll'
    BY <2>2, <2>3 DEF ProviderInv, SweptAll, Siblings, Write
  <2>7. QED
    BY <2>4, <2>5, <2>6 DEF ProviderInv
<1>4. ASSUME NEW t \in Writers, DisableSiblingConfigs(t) PROVE ProviderInv'
  <2>1. PICK off \in SUBSET Configs : /\ writer' = Swept(t, off)
                                      /\ writer[t].row.on => off = Siblings(t)
    BY <1>4 DEF DisableSiblingConfigs, Siblings, Enabled
  <2>2. writer[t].st = "written" /\ UNCHANGED configs
    BY <1>4 DEF DisableSiblingConfigs
  <2>3. /\ writer'[t] = Write("swept", writer[t].id, writer[t].row, off, writer[t].alone)
        /\ \A u \in Writers \ {t} : writer'[u] = writer[u]
    BY <2>1 DEF ProviderInv, ProviderTypeOK, Swept
  <2>4. ProviderTypeOK'
    BY <2>1, <2>2 DEF ProviderInv, ProviderTypeOK, Write, Swept
  <2>5. AloneIsAlone'
    BY <2>2, <2>3 DEF ProviderInv, AloneIsAlone, Open, Write
  <2>6. SweptAll'
    BY <2>1, <2>2, <2>3 DEF ProviderInv, SweptAll, Siblings, Write
  <2>7. QED
    BY <2>4, <2>5, <2>6 DEF ProviderInv
<1>5. ASSUME NEW t \in Writers, CommitWrite(t) PROVE ProviderInv'
  <2>1. /\ writer[t].st = "swept" /\ writer' = [writer EXCEPT ![t] = NoWrite]
        /\ configs' = [c \in Configs |-> IF c \in writer[t].id THEN writer[t].row
                                         ELSE IF c \in writer[t].off THEN [configs[c] EXCEPT !.on = FALSE] ELSE configs[c]]
    BY <1>5 DEF CommitWrite
  <2>2. NoWrite.st = "idle" /\ NoWrite \in Transaction
    BY DEF NoWrite, Write, NoConfig
  <2>3. writer'[t].st = "idle" /\ \A u \in Writers \ {t} : writer'[u] = writer[u]
    BY <2>1, <2>2 DEF ProviderInv, ProviderTypeOK
  <2>4. \A c \in Configs : [configs[c] EXCEPT !.on = FALSE] \in Config
    BY DEF ProviderInv, ProviderTypeOK
  <2>5. ProviderTypeOK'
    BY <2>1, <2>2, <2>4 DEF ProviderInv, ProviderTypeOK
  <2>6. AloneIsAlone'
    BY <2>3 DEF ProviderInv, AloneIsAlone, Open
  <2>7. SweptAll'
    BY <2>1, <2>3 DEF ProviderInv, AloneIsAlone, SweptAll, Open
  <2>8. QED
    BY <2>5, <2>6, <2>7 DEF ProviderInv
<1>6. ASSUME NEW t \in Writers, RollBack(t) PROVE ProviderInv'
  <2>1. UNCHANGED configs /\ writer' = [writer EXCEPT ![t] = NoWrite]
    BY <1>6 DEF RollBack
  <2>2. NoWrite.st = "idle" /\ NoWrite \in Transaction
    BY DEF NoWrite, Write, NoConfig
  <2>3. writer'[t].st = "idle" /\ \A u \in Writers \ {t} : writer'[u] = writer[u]
    BY <2>1, <2>2 DEF ProviderInv, ProviderTypeOK
  <2>4. ProviderTypeOK'
    BY <2>1, <2>2 DEF ProviderInv, ProviderTypeOK
  <2>5. AloneIsAlone'
    BY <2>3 DEF ProviderInv, AloneIsAlone, Open
  <2>6. SweptAll'
    BY <2>1, <2>3 DEF ProviderInv, SweptAll, Siblings
  <2>7. QED
    BY <2>4, <2>5, <2>6 DEF ProviderInv
<1>7. CASE UNCHANGED providerVars
  BY <1>7 DEF providerVars, ProviderInv, ProviderTypeOK, AloneIsAlone, SweptAll, Siblings, Open
<1>8. QED
  BY <1>1, <1>2, <1>3, <1>4, <1>5, <1>6, <1>7 DEF ProviderNext

-----------------------------------------------------------------------------
\* A write that ran alone and left its row enabled leaves it the only enabled
\* row of its scope.
THEOREM WritesConverge == ProviderSpec => WriteConverges
<1>1. ProviderInit => ProviderInv
  <2> SUFFICES ASSUME ProviderInit PROVE ProviderInv
    OBVIOUS
  <2>1. ProviderTypeOK
    <3>1. NoWrite \in Transaction /\ NoConfig \in Config
      BY DEF NoWrite, Write, NoConfig, Transaction, Config
    <3>2. [scope : Scopes, on : BOOLEAN] \subseteq Config
      BY DEF Config
    <3>3. QED
      BY <3>1, <3>2 DEF ProviderInit, ProviderTypeOK
  <2>2. \A t \in Writers : writer[t].st = "idle"
    BY DEF ProviderInit, NoWrite, Write
  <2>3. QED
    BY <2>1, <2>2 DEF ProviderInv, AloneIsAlone, SweptAll, Open
<1>2. ProviderInv /\ [ProviderNext]_providerVars
        => [\A t \in Writers : CommitWrite(t) /\ writer[t].alone /\ writer[t].row.on
              => Enabled(configs', writer[t].row.scope) = writer[t].id]_providerVars
  <2> SUFFICES ASSUME ProviderInv, NEW t \in Writers, CommitWrite(t), writer[t].alone, writer[t].row.on
               PROVE  Enabled(configs', writer[t].row.scope) = writer[t].id
    OBVIOUS
  <2>1. writer[t].off = Siblings(t) /\ writer[t].id \subseteq Configs
    BY DEF CommitWrite, ProviderInv, ProviderTypeOK, SweptAll, Transaction
  <2>2. ASSUME NEW c \in writer[t].id PROVE c \in Enabled(configs', writer[t].row.scope)
    BY <2>1, <2>2 DEF CommitWrite, Enabled
  <2>3. ASSUME NEW c \in Configs \ writer[t].id PROVE c \notin Enabled(configs', writer[t].row.scope)
    <3>1. CASE c \in writer[t].off
      BY <2>3, <3>1 DEF CommitWrite, Enabled, ProviderInv, ProviderTypeOK, Config
    <3>2. CASE c \notin writer[t].off
      BY <2>1, <2>3, <3>2 DEF CommitWrite, Enabled, Siblings
    <3>3. QED
      BY <3>1, <3>2
  <2>4. QED
    BY <2>1, <2>2, <2>3 DEF Enabled
<1>3. QED
  BY <1>1, <1>2, ProviderStep, PTL DEF ProviderSpec, WriteConverges

-----------------------------------------------------------------------------
(* Generated documents.                                                    *)

\* The versions are 1..n, and the n-th alone is current.
Newest(n) ==
  /\ specs \in [1..MaxVersions -> {NoSpec, "current", "superseded"}]
  /\ n \in 0..MaxVersions
  /\ \A v \in 1..MaxVersions : (specs[v] # NoSpec <=> v <= n) /\ (specs[v] = "current" <=> v = n)

\* A number a request has drawn was the next one when it drew it, so it is at
\* most the next one now.
Drawn(n) ==
  \A j \in Jobs : jobs[j].op # "none" /\ jobs[j].at \in {"numbered", "put"}
    => jobs[j].version \in 1..(n + 1) /\ jobs[j].version <= MaxVersions

DocgenInv ==
  /\ jobs = [j \in Jobs |-> jobs[j]]
  /\ \E n \in 0..MaxVersions : Newest(n) /\ Drawn(n)

-----------------------------------------------------------------------------
\* The latest version is the last of them.
LEMMA LatestIs ==
  ASSUME NEW n, Newest(n)
  PROVE  Versions = 1..n /\ LatestSpecVersion = n
<1>1. n \in Nat /\ n <= MaxVersions
  BY DocgenAssumption DEF Newest
<1>2. Versions = 1..n
  BY <1>1, DocgenAssumption DEF Newest, Versions
<1>3. n \in Versions \cup {0} /\ \A v \in Versions \cup {0} : v \in Int /\ v <= n
  BY <1>1, <1>2
<1>4. \A x \in Versions \cup {0} : (\A v \in Versions \cup {0} : v <= x) => x = n
  BY <1>1, <1>3
<1>5. LatestSpecVersion = n
  BY <1>3, <1>4 DEF LatestSpecVersion, Max
<1>6. QED
  BY <1>2, <1>5

\* A step that moves one request on, without a number of its own.
LEMMA JobStep ==
  ASSUME DocgenInv, UNCHANGED specs, NEW j \in Jobs, NEW k, jobs' = [jobs EXCEPT ![j] = k],
         \/ k.op = "none"
         \/ k.at \notin {"numbered", "put"}
         \/ jobs[j].op # "none" /\ jobs[j].at \in {"numbered", "put"} /\ k.version = jobs[j].version
  PROVE  DocgenInv'
<1>1. PICK n \in 0..MaxVersions : Newest(n) /\ Drawn(n)
  BY DEF DocgenInv
<1>2. Newest(n)'
  BY <1>1 DEF Newest
<1>3. jobs' = [i \in Jobs |-> jobs'[i]] /\ jobs'[j] = k /\ \A i \in Jobs \ {j} : jobs'[i] = jobs[i]
  BY DEF DocgenInv
<1>4. Drawn(n)'
  BY <1>1, <1>3 DEF Drawn
<1>5. QED
  BY <1>2, <1>3, <1>4 DEF DocgenInv

\* Every step keeps the invariant.
LEMMA DocgenStep ==
  DocgenInv /\ [DocgenNext]_docgenVars => DocgenInv'
<1> SUFFICES ASSUME DocgenInv, [DocgenNext]_docgenVars PROVE DocgenInv'
  OBVIOUS
<1>1. ASSUME UNCHANGED <<specs, jobs>> PROVE DocgenInv'
  BY <1>1 DEF DocgenInv, Newest, Drawn
<1>2. ASSUME NEW j \in Jobs, NEW job, job.at \notin {"numbered", "put"}, StartJob(j, job) PROVE DocgenInv'
  BY <1>2, JobStep DEF StartJob
<1>3. ASSUME NEW j \in Jobs, LoadList(j) \/ HandleLoadMore(j) \/ HandleGenerate(j) PROVE DocgenInv'
  BY <1>2, <1>3 DEF LoadList, HandleLoadMore, HandleGenerate, Job
<1>4. ASSUME NEW j \in Jobs, HandleRegenerateSection(j) \/ OtherClient(j) PROVE DocgenInv'
  <2>1. PICK job : StartJob(j, job) /\ job.at = "sent"
    <3>1. ASSUME NEW op, NEW by, NEW base, NEW section, StartJob(j, Job(op, by, base, section))
          PROVE  \E job : StartJob(j, job) /\ job.at = "sent"
      BY <3>1 DEF Job
    <3>2. QED
      BY <1>4, <3>1 DEF HandleRegenerateSection, OtherClient
  <2>2. QED
    BY <1>2, <2>1
<1>5. ASSUME NEW j \in Jobs, NEW at, at \notin {"numbered", "put"}, JobGoes(j, at), UNCHANGED specs PROVE DocgenInv'
  BY <1>5, JobStep DEF JobGoes, Advanced
<1>6. ASSUME NEW j \in Jobs, NEW at, at \notin {"numbered", "put"}, NEW text, JobReads(j, at, text), UNCHANGED specs
      PROVE  DocgenInv'
  BY <1>6, JobStep DEF JobReads, Advanced
<1>7. ASSUME NEW j \in Jobs, RefuseSpec(j) \/ LoseJob(j) \/ AnnounceGenerated(j) PROVE DocgenInv'
  BY <1>5, <1>7 DEF RefuseSpec, LoseJob, AnnounceGenerated
<1>8. ASSUME NEW j \in Jobs, GenerateSpecDocument(j) \/ ReadBase(j) \/ RegenerateSpecSection(j) PROVE DocgenInv'
  BY <1>6, <1>8 DEF GenerateSpecDocument, ReadBase, RegenerateSpecSection
<1>9. ASSUME NEW j \in Jobs, NumberSpec(j) PROVE DocgenInv'
  <2>1. PICK n \in 0..MaxVersions : Newest(n) /\ Drawn(n)
    BY DEF DocgenInv
  <2>2. LatestSpecVersion = n
    BY <2>1, LatestIs
  <2>3. PICK k : jobs' = [jobs EXCEPT ![j] = k] /\ k.version = n + 1 /\ n < MaxVersions
    BY <1>9, <2>2 DEF NumberSpec, Advanced
  <2>4. Newest(n)'
    BY <1>9, <2>1 DEF NumberSpec, Newest
  <2>5. jobs' = [i \in Jobs |-> jobs'[i]] /\ jobs'[j] = k /\ \A i \in Jobs \ {j} : jobs'[i] = jobs[i]
    BY <2>3 DEF DocgenInv
  <2>6. Drawn(n)'
    BY <2>1, <2>3, <2>5, DocgenAssumption DEF Drawn
  <2>7. QED
    BY <2>4, <2>5, <2>6 DEF DocgenInv
<1>10. ASSUME NEW j \in Jobs, PutMarkdown(j) PROVE DocgenInv'
  BY <1>10, JobStep DEF PutMarkdown, JobGoes, Advanced
<1>11. ASSUME NEW j \in Jobs, InsertNewSpecVersion(j) PROVE DocgenInv'
  <2>1. PICK n \in 0..MaxVersions : Newest(n) /\ Drawn(n)
    BY DEF DocgenInv
  <2>2. Versions = 1..n
    BY <2>1, LatestIs
  <2>3. CASE jobs[j].version \in Versions
    BY <1>5, <1>11, <2>3 DEF InsertNewSpecVersion
  <2>4. CASE jobs[j].version \notin Versions
    <3>1. PICK m \in 0..MaxVersions : m = n + 1 /\ jobs[j].version = m
      BY <1>11, <2>1, <2>2, <2>4, DocgenAssumption DEF InsertNewSpecVersion, Drawn
    <3>2. specs' = [SupersedeCurrent(specs, jobs[j]) EXCEPT ![m] = "current"]
      BY <1>11, <2>4, <3>1 DEF InsertNewSpecVersion
    <3>3. /\ specs' \in [1..MaxVersions -> {NoSpec, "current", "superseded"}] /\ specs'[m] = "current"
          /\ \A v \in (1..MaxVersions) \ {m} :
                specs'[v] = IF specs[v] = "current" THEN "superseded" ELSE specs[v]
      BY <2>1, <3>1, <3>2, DocgenAssumption DEF Newest, SupersedeCurrent
    <3>4. Newest(m)'
      BY <2>1, <3>1, <3>3, DocgenAssumption DEF Newest, NoSpec
    <3>5. PICK k : jobs' = [jobs EXCEPT ![j] = k] /\ k.at \in {"inserted", "created"}
      <4>1. PICK at \in {"inserted", "created"} : JobGoes(j, at)
        BY <1>11, <2>4 DEF InsertNewSpecVersion
      <4> DEFINE moved == Advanced(jobs[j], at, jobs[j].text, jobs[j].version, jobs[j].rows)
      <4>2. jobs' = [jobs EXCEPT ![j] = moved]
        BY <4>1 DEF JobGoes
      <4>3. moved.at = at
        BY DEF Advanced
      <4> HIDE DEF moved
      <4>4. QED
        BY <4>1, <4>2, <4>3
    <3>6. jobs' = [i \in Jobs |-> jobs'[i]] /\ jobs'[j] = k /\ \A i \in Jobs \ {j} : jobs'[i] = jobs[i]
      BY <3>5 DEF DocgenInv
    <3>7. Drawn(m)'
      BY <2>1, <3>1, <3>5, <3>6, DocgenAssumption DEF Drawn
    <3>8. QED
      BY <3>4, <3>6, <3>7 DEF DocgenInv
  <2>5. QED
    BY <2>3, <2>4
<1>12. ASSUME NEW j \in Jobs, ListSpecDocuments(j) PROVE DocgenInv'
  <2>1. PICK k : jobs' = [jobs EXCEPT ![j] = k] /\ k.at = "created"
    <3>1. ASSUME NEW text, NEW version, NEW rows,
                 jobs' = [jobs EXCEPT ![j] = Advanced(jobs[j], "created", text, version, rows)]
          PROVE  \E k : jobs' = [jobs EXCEPT ![j] = k] /\ k.at = "created"
      <4> DEFINE moved == Advanced(jobs[j], "created", text, version, rows)
      <4>1. jobs' = [jobs EXCEPT ![j] = moved]
        BY <3>1
      <4>2. moved.at = "created"
        BY DEF Advanced
      <4> HIDE DEF moved
      <4>3. QED
        BY <4>1, <4>2
    <3>2. QED
      BY <1>12, <3>1 DEF ListSpecDocuments
  <2>2. UNCHANGED specs
    BY <1>12 DEF ListSpecDocuments
  <2>3. QED
    BY <2>1, <2>2, JobStep
<1>13. ASSUME NEW j \in Jobs, TakeJob(j) PROVE DocgenInv'
  BY <1>13, JobStep DEF TakeJob, NoJob
<1>14. CASE DiagramChanges \/ SelectVersion \/ FetchContentFor \/ UNCHANGED docgenVars
  BY <1>1, <1>14 DEF DiagramChanges, SelectVersion, FetchContentFor, docgenVars
<1>15. QED
  BY <1>3, <1>4, <1>7, <1>8, <1>9, <1>10, <1>11, <1>12, <1>13, <1>14 DEF DocgenNext

-----------------------------------------------------------------------------
\* However generations and regenerations overlap and fail, the versions have
\* no gap and exactly the newest is current.
THEOREM NewestIsCurrent == DocgenSpec => []OneCurrentVersion
<1>1. DocgenInit => DocgenInv
  <2> SUFFICES ASSUME DocgenInit PROVE DocgenInv
    OBVIOUS
  <2>1. PICK k \in 0..(MaxVersions - 1) :
           specs = [v \in 1..MaxVersions |->
              IF v > k THEN NoSpec ELSE IF v = k THEN "current" ELSE "superseded"]
    BY DEF DocgenInit
  <2>2. k \in 0..MaxVersions /\ Newest(k)
    BY <2>1, DocgenAssumption DEF Newest, NoSpec
  <2>3. jobs = [j \in Jobs |-> NoJob] /\ NoJob.op = "none"
    BY DEF DocgenInit, NoJob
  <2>4. QED
    BY <2>2, <2>3 DEF DocgenInv, Drawn
<1>2. DocgenInv => OneCurrentVersion
  <2> SUFFICES ASSUME DocgenInv PROVE OneCurrentVersion
    OBVIOUS
  <2>1. PICK n \in 0..MaxVersions : Newest(n)
    BY DEF DocgenInv
  <2>2. Versions = 1..n /\ LatestSpecVersion = n
    BY <2>1, LatestIs
  <2>3. QED
    BY <2>1, <2>2, DocgenAssumption DEF OneCurrentVersion, Newest
<1>3. QED
  BY <1>1, <1>2, DocgenStep, PTL DEF DocgenSpec

-----------------------------------------------------------------------------
(* Presence.                                                               *)

\* The events of the channel, and the queues that hold one frame at a time.
Event == [sender : Tabs \cup Peers, status : {"active", "idle", "mutation"}]
OneEvent == {<<>>} \cup {<<e>> : e \in Event}

\* What a tab keeps of the participants it has heard from.
Ages == UNION {[S -> Nat] : S \in SUBSET (Tabs \cup Peers)}

Tab == [phase : {"connecting", "connected", "disconnected"},
        pc : {"new", "minting", "dialing", "open", "waiting", "refused", "stopped"},
        conn : Conns \cup {Off}, disposed : BOOLEAN, reconnect : BOOLEAN, sweep : BOOLEAN,
        throttle : BOOLEAN, status : {"active", "idle"}, age : Ages]

Gateway == [st : {"free", "ticketed", "up", "closed"}, tab : Tabs \cup {Off}, ready : BOOLEAN,
            sub : BOOLEAN, code : Nat, inbox : {Off, "active", "idle"}, out : OneEvent]

PresenceTypeOK ==
  /\ tab \in [Tabs -> Tab]
  /\ conn \in [Conns -> Gateway]
  /\ held \in BOOLEAN /\ listening \in BOOLEAN
  /\ commands \in Seq({"SUBSCRIBE", "UNSUBSCRIBE"})
  /\ bus \in OneEvent
  /\ present \subseteq Peers

\* One tab: it runs a sweep and shows others only while connected, waits for a
\* reconnection only in that state, and a disposed one never leaves it.
TabExact(c, t) ==
  /\ t.phase = "connected" => t.pc = "open" /\ ~t.disposed
  /\ t.pc = "open" /\ ~t.disposed => t.phase = "connected"
  /\ t.phase # "connected" => DOMAIN t.age = {} /\ ~t.sweep
  /\ t.reconnect => t.pc = "waiting"
  /\ t.disposed => t.phase = "disconnected" /\ t.conn = Off /\ ~t.reconnect /\ ~t.throttle
  /\ c \notin DOMAIN t.age

\* One connection: only an open one is subscribed, and it has its user.
ConnExact(k, g) ==
  /\ g.sub => g.st = "up"
  /\ g.st \in {"ticketed", "up"} => g.tab \in Tabs

\* The channel is held while somebody listens; the last command sent, or what
\* Redis does when none is on its way, agrees.
ChannelExact ==
  /\ held <=> \E k \in Conns : conn[k].sub
  /\ commands = <<>> => (listening <=> held)
  /\ commands # <<>> => (commands[Len(commands)] = "SUBSCRIBE" <=> held)

PresenceInv ==
  /\ PresenceTypeOK
  /\ \A c \in Tabs : TabExact(c, tab[c])
  /\ \A k \in Conns : ConnExact(k, conn[k])
  /\ ChannelExact

\* What a tab has heard is a function of participants; forgetting keeps it one.
LEMMA NoAges == [u \in {} |-> 0] \in Ages /\ DOMAIN [u \in {} |-> 0] = {}
<1>1. [u \in {} |-> 0] \in [{} -> Nat]
  OBVIOUS
<1>2. QED
  BY <1>1 DEF Ages

\* Stopping the timers and forgetting the others leaves the rest of a tab.
LEMMA Quieted ==
  ASSUME NEW t \in Tab, NEW u, u = ClearRemotes(StopTimers(t))
  PROVE  /\ u \in Tab
         /\ ~u.reconnect /\ ~u.sweep /\ ~u.throttle /\ DOMAIN u.age = {}
         /\ u.phase = t.phase /\ u.pc = t.pc /\ u.conn = t.conn /\ u.disposed = t.disposed
<1> DEFINE s == StopTimers(t)
<1>1. s \in Tab /\ ~s.reconnect /\ ~s.sweep /\ ~s.throttle
      /\ s.phase = t.phase /\ s.pc = t.pc /\ s.conn = t.conn /\ s.disposed = t.disposed
  BY DEF StopTimers, Tab
<1> HIDE DEF s
<1>2. u = [s EXCEPT !.age = [v \in {} |-> 0]]
  BY DEF s, ClearRemotes
<1>3. u \in Tab
  BY <1>1, <1>2, NoAges DEF Tab
<1>4. u.age = [v \in {} |-> 0] /\ u.reconnect = s.reconnect /\ u.sweep = s.sweep
      /\ u.throttle = s.throttle /\ u.phase = s.phase /\ u.pc = s.pc /\ u.conn = s.conn
      /\ u.disposed = s.disposed
  BY <1>1, <1>2 DEF Tab
<1>5. QED
  BY <1>1, <1>3, <1>4, NoAges

\* markDisconnected leaves a tab in order, whatever state its socket died in.
LEMMA Disconnected ==
  ASSUME NEW c \in Tabs, NEW t \in Tab, NEW code,
         t.disposed => TabExact(c, t)
  PROVE  MarkDisconnected(t, code) \in Tab /\ TabExact(c, MarkDisconnected(t, code))
<1>1. CASE t.disposed
  BY <1>1 DEF MarkDisconnected
<1>2. CASE ~t.disposed
  <2> DEFINE u == ClearRemotes(StopTimers(t))
             d == MarkDisconnected(t, code)
             pc == IF code \in {4403, 4413} THEN "refused" ELSE "waiting"
             again == code \notin {4403, 4413}
  <2>1. /\ u \in Tab
        /\ ~u.reconnect /\ ~u.sweep /\ ~u.throttle /\ DOMAIN u.age = {}
        /\ u.disposed = t.disposed
    BY Quieted
  <2>2. d = [u EXCEPT !.phase = "disconnected", !.pc = pc, !.reconnect = again]
    BY <1>2 DEF MarkDisconnected
  <2>a. pc \in {"refused", "waiting"} /\ again \in BOOLEAN /\ (again => pc = "waiting")
    OBVIOUS
  <2> HIDE DEF u, d, pc, again
  <2>3. d \in Tab
    BY <2>1, <2>2, <2>a DEF Tab
  <2>4. /\ d.phase = "disconnected" /\ d.sweep = u.sweep /\ d.age = u.age
        /\ d.disposed = u.disposed /\ d.pc = pc /\ d.reconnect = again
    BY <2>1, <2>2 DEF Tab
  <2>5. QED
    BY <1>2, <2>1, <2>3, <2>4, <2>a DEF TabExact, d
<1>3. QED
  BY <1>1, <1>2

\* A map of participants the tab has heard from.
LEMMA AgesAre ==
  /\ \A S \in SUBSET (Tabs \cup Peers) : \A f \in [S -> Nat] : f \in Ages
  /\ \A a \in Ages : DOMAIN a \subseteq Tabs \cup Peers /\ \A u \in DOMAIN a : a[u] \in Nat
BY DEF Ages

\* A step of one tab.
LEMMA TabsKept ==
  ASSUME PresenceInv, NEW c \in Tabs, tab' \in [Tabs -> Tab],
         \A d \in Tabs \ {c} : tab'[d] = tab[d],
         TabExact(c, tab'[c])
  PROVE  \A d \in Tabs : TabExact(d, tab'[d])
BY DEF PresenceInv, TabExact

\* Steps that leave the subscriptions alone.
LEMMA ChannelKept ==
  ASSUME ChannelExact, UNCHANGED <<held, commands, listening>>,
         \A k \in Conns : conn'[k].sub <=> conn[k].sub
  PROVE  ChannelExact'
BY DEF ChannelExact

\* A frame sent by a tab reaches at most the inbox of its connection.
LEMMA Published ==
  ASSUME PresenceInv, NEW c \in Tabs, NEW status \in {"active", "idle"}, Publish(c, status)
  PROVE  /\ conn' \in [Conns -> Gateway]
         /\ \A k \in Conns : ConnExact(k, conn'[k]) /\ (conn'[k].sub <=> conn[k].sub)
<1> DEFINE k == tab[c].conn
<1>1. CASE UNCHANGED conn
  BY <1>1 DEF PresenceInv, PresenceTypeOK
<1>2. CASE k \in Conns /\ conn' = [conn EXCEPT ![k].inbox = status]
  <2> HIDE DEF k
  <2>a. conn \in [Conns -> Gateway] /\ status \in {Off, "active", "idle"}
    BY DEF PresenceInv, PresenceTypeOK
  <2>1. conn' \in [Conns -> Gateway]
    BY <1>2, <2>a DEF Gateway
  <2>2. \A j \in Conns : /\ conn'[j].sub = conn[j].sub /\ conn'[j].st = conn[j].st
                         /\ conn'[j].tab = conn[j].tab
    BY <1>2, <2>a DEF Gateway
  <2>3. QED
    BY <2>1, <2>2 DEF PresenceInv, ConnExact
<1>3. QED
  <2>1. tab[c].conn \in Conns \cup {Off}
    BY DEF PresenceInv, PresenceTypeOK, Tab
  <2>2. QED
    BY <1>1, <1>2, <2>1 DEF Publish

\* A timer or an answer moves one tab along.
LEMMA TabStepInv ==
  ASSUME PresenceInv, NEW c \in Tabs,
         Connect(c) \/ ReconnectFires(c) \/ SendCursor(c) \/ \E k \in Conns : OnOpen(c, k)
  PROVE  PresenceInv'
<1>1. tab \in [Tabs -> Tab] /\ tab[c] \in Tab /\ TabExact(c, tab[c])
  BY DEF PresenceInv, PresenceTypeOK
<1>2. UNCHANGED <<conn, held, commands, listening, bus, present>>
  BY DEF Connect, ReconnectFires, SendCursor, OnOpen
<1>3. tab' \in [Tabs -> Tab] /\ \A d \in Tabs \ {c} : tab'[d] = tab[d]
  <2>1. CASE Connect(c)
    BY <1>1, <2>1 DEF Connect, Tab
  <2>2. CASE ReconnectFires(c)
    BY <1>1, <2>2 DEF ReconnectFires, Tab
  <2>3. CASE SendCursor(c)
    BY <1>1, <2>3 DEF SendCursor, Tab
  <2>4. ASSUME NEW k \in Conns, OnOpen(c, k)
        PROVE  tab' \in [Tabs -> Tab] /\ \A d \in Tabs \ {c} : tab'[d] = tab[d]
    BY <1>1, <2>4 DEF OnOpen, Tab
  <2>5. QED
    BY <2>1, <2>2, <2>3, <2>4
<1>4. TabExact(c, tab'[c])
  <2>1. CASE Connect(c)
    <3>1. /\ tab'[c].phase = "connecting" /\ tab'[c].pc = "minting" /\ ~tab[c].disposed
          /\ tab'[c].age = tab[c].age /\ tab'[c].sweep = tab[c].sweep /\ tab[c].pc = "new"
          /\ tab'[c].disposed = tab[c].disposed /\ tab'[c].reconnect = tab[c].reconnect
      BY <1>1, <2>1 DEF Connect, Tab
    <3>2. QED
      BY <1>1, <3>1 DEF TabExact
  <2>2. CASE ReconnectFires(c)
    <3>1. /\ tab'[c].phase = "connecting" /\ tab'[c].pc = "minting" /\ tab[c].reconnect
          /\ tab'[c].age = tab[c].age /\ tab'[c].sweep = tab[c].sweep
          /\ tab'[c].disposed = tab[c].disposed /\ ~tab'[c].reconnect
      BY <1>1, <2>2 DEF ReconnectFires, Tab
    <3>2. QED
      BY <1>1, <3>1 DEF TabExact
  <2>3. CASE SendCursor(c)
    <3>1. /\ tab'[c].phase = tab[c].phase /\ tab'[c].pc = tab[c].pc /\ ~tab[c].disposed
          /\ tab'[c].age = tab[c].age /\ tab'[c].sweep = tab[c].sweep
          /\ tab'[c].disposed = tab[c].disposed /\ tab'[c].reconnect = tab[c].reconnect
      BY <1>1, <2>3 DEF SendCursor, Tab
    <3>2. QED
      BY <1>1, <3>1 DEF TabExact
  <2>4. ASSUME NEW k \in Conns, OnOpen(c, k) PROVE TabExact(c, tab'[c])
    <3>1. /\ tab'[c].phase = "connected" /\ tab'[c].pc = "open" /\ tab[c].pc = "dialing"
          /\ tab'[c].age = tab[c].age /\ tab[c].conn # Off
          /\ tab'[c].disposed = tab[c].disposed /\ tab'[c].reconnect = tab[c].reconnect
      BY <1>1, <2>4, OffAssumption DEF OnOpen, Tab
    <3>2. QED
      BY <1>1, <3>1 DEF TabExact
  <2>5. QED
    BY <2>1, <2>2, <2>3, <2>4
<1>5. \A d \in Tabs : TabExact(d, tab'[d])
  BY <1>3, <1>4, TabsKept
<1>6. ChannelExact'
  BY <1>2, ChannelKept DEF PresenceInv
<1>7. QED
  BY <1>2, <1>3, <1>5, <1>6 DEF PresenceInv, PresenceTypeOK

\* close(), a broken line and a failed ticket leave the tab as markDisconnected
\* does, or disposed.
LEMMA TabStopsInv ==
  ASSUME PresenceInv, NEW c \in Tabs, Dispose(c) \/ OnClose(c) \/ MintFails(c)
  PROVE  PresenceInv'
<1>1. tab \in [Tabs -> Tab] /\ tab[c] \in Tab /\ TabExact(c, tab[c])
  BY DEF PresenceInv, PresenceTypeOK
<1>2. UNCHANGED <<conn, held, commands, listening, bus, present>>
  BY DEF Dispose, OnClose, MintFails
<1>3. \E t \in Tab : TabExact(c, t) /\ tab' = [tab EXCEPT ![c] = t]
  <2>1. CASE Dispose(c)
    <3> DEFINE u == ClearRemotes(StopTimers(tab[c]))
               t == [u EXCEPT !.disposed = TRUE, !.phase = "disconnected", !.conn = Off]
    <3>1. u \in Tab /\ ~u.reconnect /\ ~u.sweep /\ ~u.throttle /\ DOMAIN u.age = {}
      BY <1>1, Quieted
    <3>2. tab' = [tab EXCEPT ![c] = t]
      BY <2>1 DEF Dispose
    <3> HIDE DEF u
    <3>3. t \in Tab
      BY <3>1 DEF Tab
    <3>4. /\ t.disposed /\ t.phase = "disconnected" /\ t.conn = Off /\ t.age = u.age
          /\ t.reconnect = u.reconnect /\ t.sweep = u.sweep /\ t.throttle = u.throttle
      BY <3>1 DEF Tab
    <3> HIDE DEF t
    <3>5. TabExact(c, t)
      BY <3>1, <3>4 DEF TabExact
    <3>6. QED
      BY <3>2, <3>3, <3>5
  <2>2. CASE OnClose(c)
    <3> DEFINE t == [tab[c] EXCEPT !.conn = Off]
    <3>1. t \in Tab /\ (t.disposed => TabExact(c, t))
      BY <1>1, <2>2 DEF Tab, TabExact, OnClose
    <3> DEFINE code == IF conn[tab[c].conn].st = "closed" THEN conn[tab[c].conn].code ELSE 1006
    <3>2. tab' = [tab EXCEPT ![c] = MarkDisconnected(t, code)]
      BY <1>1, <2>2 DEF OnClose
    <3> HIDE DEF t, code
    <3>3. QED
      BY <3>1, <3>2, Disconnected
  <2>3. CASE MintFails(c)
    <3> DEFINE t == [tab[c] EXCEPT !.pc = "stopped"]
    <3>1. t \in Tab
      BY <1>1 DEF Tab
    <3>2. /\ t.phase = tab[c].phase /\ t.age = tab[c].age /\ t.sweep = tab[c].sweep /\ t.pc = "stopped"
          /\ t.disposed = tab[c].disposed /\ t.reconnect = tab[c].reconnect
          /\ t.conn = tab[c].conn /\ t.throttle = tab[c].throttle
      BY <1>1 DEF Tab
    <3>3. tab' = [tab EXCEPT ![c] = MarkDisconnected(t, 0)]
      BY <1>1, <2>3 DEF MintFails
    <3> HIDE DEF t
    <3>4. t.disposed => TabExact(c, t)
      BY <1>1, <3>2 DEF TabExact
    <3>5. QED
      BY <3>1, <3>3, <3>4, Disconnected
  <2>4. QED
    BY <2>1, <2>2, <2>3
<1>4. tab' \in [Tabs -> Tab] /\ (\A d \in Tabs \ {c} : tab'[d] = tab[d]) /\ TabExact(c, tab'[c])
  BY <1>1, <1>3
<1>5. \A d \in Tabs : TabExact(d, tab'[d])
  BY <1>4, TabsKept
<1>6. ChannelExact'
  BY <1>2, ChannelKept DEF PresenceInv
<1>7. QED
  BY <1>2, <1>4, <1>5, <1>6 DEF PresenceInv, PresenceTypeOK

\* A tab sends, or its timer does; a sweep forgets and ages what was heard.
LEMMA TabSendsInv ==
  ASSUME PresenceInv, NEW c \in Tabs, ThrottleFires(c) \/ SendSelection(c) \/ Sweep(c)
  PROVE  PresenceInv'
<1>1. tab \in [Tabs -> Tab] /\ tab[c] \in Tab /\ TabExact(c, tab[c])
  BY DEF PresenceInv, PresenceTypeOK
<1>2. UNCHANGED <<held, commands, listening, bus, present>>
  BY DEF ThrottleFires, SendSelection, Sweep
<1>3. /\ conn' \in [Conns -> Gateway]
      /\ \A k \in Conns : ConnExact(k, conn'[k]) /\ (conn'[k].sub <=> conn[k].sub)
  <2>1. CASE UNCHANGED conn
    BY <2>1 DEF PresenceInv, PresenceTypeOK
  <2>2. ASSUME NEW status \in {"active", "idle"}, Publish(c, status)
        PROVE  /\ conn' \in [Conns -> Gateway]
               /\ \A k \in Conns : ConnExact(k, conn'[k]) /\ (conn'[k].sub <=> conn[k].sub)
    BY <2>2, Published
  <2>3. tab[c].status \in {"active", "idle"}
    BY <1>1 DEF Tab
  <2>4. UNCHANGED conn \/ \E status \in {"active", "idle"} : Publish(c, status)
    BY <2>3 DEF ThrottleFires, SendSelection, Sweep
  <2>5. QED
    BY <2>1, <2>2, <2>4
<1>4. tab' \in [Tabs -> Tab] /\ (\A d \in Tabs \ {c} : tab'[d] = tab[d]) /\ TabExact(c, tab'[c])
  <2>1. CASE UNCHANGED tab
    BY <1>1, <2>1
  <2>2. CASE ThrottleFires(c)
    <3>1. tab' \in [Tabs -> Tab] /\ \A d \in Tabs \ {c} : tab'[d] = tab[d]
      BY <1>1, <2>2 DEF ThrottleFires, Tab
    <3>2. /\ tab'[c].phase = tab[c].phase /\ tab'[c].pc = tab[c].pc /\ ~tab'[c].throttle
          /\ tab'[c].age = tab[c].age /\ tab'[c].sweep = tab[c].sweep /\ tab'[c].conn = tab[c].conn
          /\ tab'[c].disposed = tab[c].disposed /\ tab'[c].reconnect = tab[c].reconnect
      BY <1>1, <2>2 DEF ThrottleFires, Tab
    <3>3. QED
      BY <1>1, <3>1, <3>2 DEF TabExact
  <2>3. CASE Sweep(c)
    <3> DEFINE kept == {u \in Remotes(c) : tab[c].age[u] < StaleSweeps}
               age == [u \in kept |-> tab[c].age[u] + 1]
    <3>1. /\ kept \subseteq DOMAIN tab[c].age /\ DOMAIN age = kept
          /\ age \in Ages
      <4>1. tab[c].age \in Ages
        BY <1>1 DEF Tab
      <4>2. kept \in SUBSET (Tabs \cup Peers) /\ \A u \in kept : tab[c].age[u] \in Nat
        BY <4>1, AgesAre DEF Remotes
      <4>3. age \in [kept -> Nat]
        BY <4>2
      <4>4. QED
        BY <4>2, <4>3, AgesAre DEF Remotes
    <3>2. PICK status \in {"active", "idle"} :
            tab' = [tab EXCEPT ![c].age = age, ![c].status = status]
      <4>1. tab[c].status \in {"active", "idle"}
        BY <1>1 DEF Tab
      <4>2. PICK idle \in BOOLEAN :
              tab' = [tab EXCEPT ![c].age = [u \in kept |-> @[u] + 1],
                                 ![c].status = IF idle THEN "idle" ELSE @]
        BY <2>3 DEF Sweep
      <4>3. tab' = [tab EXCEPT ![c].age = age,
                               ![c].status = IF idle THEN "idle" ELSE tab[c].status]
        BY <1>1, <4>2
      <4>4. QED
        BY <4>1, <4>3
    <3>3. tab[c].phase = "connected"
      BY <1>1, <2>3 DEF Sweep, TabExact
    <3> HIDE DEF age, kept
    <3>4. tab' \in [Tabs -> Tab] /\ \A d \in Tabs \ {c} : tab'[d] = tab[d]
      BY <1>1, <3>1, <3>2 DEF Tab
    <3>5. /\ tab'[c].phase = tab[c].phase /\ tab'[c].pc = tab[c].pc /\ tab'[c].age = age
          /\ tab'[c].disposed = tab[c].disposed /\ tab'[c].reconnect = tab[c].reconnect
      BY <1>1, <3>2 DEF Tab
    <3>6. QED
      BY <1>1, <3>1, <3>3, <3>4, <3>5 DEF TabExact
  <2>4. QED
    BY <2>1, <2>2, <2>3 DEF SendSelection
<1>5. \A d \in Tabs : TabExact(d, tab'[d])
  BY <1>4, TabsKept
<1>6. ChannelExact'
  BY <1>2, <1>3, ChannelKept DEF PresenceInv
<1>7. QED
  BY <1>2, <1>3, <1>4, <1>5, <1>6 DEF PresenceInv, PresenceTypeOK

\* A frame reaches the tab: others are shown only on the open socket, and never
\* the tab's own user.
LEMMA ReceiveInv ==
  ASSUME PresenceInv, NEW c \in Tabs, NEW k \in Conns, Receive(c, k)
  PROVE  PresenceInv'
<1> DEFINE e == Head(conn[k].out)
           age == tab[c].age
<1>1. tab \in [Tabs -> Tab] /\ tab[c] \in Tab /\ TabExact(c, tab[c])
  BY DEF PresenceInv, PresenceTypeOK
<1>2. UNCHANGED <<held, commands, listening, bus, present>>
  BY DEF Receive
<1>3. e \in Event
  <2>1. conn[k].out \in OneEvent /\ conn[k].out # <<>>
    BY DEF Receive, PresenceInv, PresenceTypeOK, Gateway
  <2>2. PICK f \in Event : conn[k].out = <<f>>
    BY <2>1 DEF OneEvent
  <2>3. QED
    BY <2>2
<1>4. /\ conn' \in [Conns -> Gateway]
      /\ \A j \in Conns : ConnExact(j, conn'[j]) /\ (conn'[j].sub <=> conn[j].sub)
  <2>1. <<>> \in OneEvent
    BY DEF OneEvent
  <2>a. conn \in [Conns -> Gateway] /\ conn' = [conn EXCEPT ![k].out = <<>>]
    BY DEF Receive, PresenceInv, PresenceTypeOK
  <2>2. conn' \in [Conns -> Gateway]
    BY <2>1, <2>a DEF Gateway
  <2>3. \A j \in Conns : /\ conn'[j].sub = conn[j].sub /\ conn'[j].st = conn[j].st
                         /\ conn'[j].tab = conn[j].tab
    BY <2>a DEF Gateway
  <2>4. QED
    BY <2>2, <2>3 DEF PresenceInv, ConnExact
<1> HIDE DEF e
<1>5. \/ UNCHANGED tab
      \/ \E new \in Ages : /\ c \notin DOMAIN new
                           /\ tab[c].pc = "open" /\ tab[c].conn = k
                           /\ tab' = [tab EXCEPT ![c].age = new]
  <2>1. age \in Ages /\ c \notin DOMAIN age
    BY <1>1 DEF Tab, TabExact
  <2>2. e.sender \in Tabs \cup Peers
    BY <1>3 DEF Event
  <2>3. CASE e.sender = c \/ tab[c].conn # k \/ tab[c].pc # "open"
    BY <2>3 DEF Receive, e
  <2>4. CASE e.sender # c /\ tab[c].conn = k /\ tab[c].pc = "open" /\ e.status = "idle"
    <3> DEFINE new == [u \in Remotes(c) \ {e.sender} |-> age[u]]
    <3>1. DOMAIN age \ {e.sender} \in SUBSET (Tabs \cup Peers) /\ \A u \in DOMAIN age : age[u] \in Nat
      BY <2>1, AgesAre
    <3>2. new \in Ages /\ DOMAIN new = DOMAIN age \ {e.sender}
      BY <3>1, AgesAre DEF Remotes
    <3>3. tab' = [tab EXCEPT ![c].age = new]
      BY <2>4 DEF Receive, e
    <3> HIDE DEF new
    <3>4. QED
      BY <2>1, <2>4, <3>2, <3>3
  <2>5. CASE e.sender # c /\ tab[c].conn = k /\ tab[c].pc = "open" /\ e.status # "idle"
    <3> DEFINE new == [u \in Remotes(c) \cup {e.sender} |-> IF u = e.sender THEN 0 ELSE age[u]]
    <3>1. /\ DOMAIN age \cup {e.sender} \in SUBSET (Tabs \cup Peers)
          /\ \A u \in DOMAIN age : age[u] \in Nat
      BY <2>1, <2>2, AgesAre
    <3>2. new \in Ages /\ DOMAIN new = DOMAIN age \cup {e.sender}
      BY <3>1, AgesAre DEF Remotes
    <3>3. tab' = [tab EXCEPT ![c].age = new]
      BY <2>5 DEF Receive, e
    <3> HIDE DEF new
    <3>4. QED
      BY <2>1, <2>5, <3>2, <3>3
  <2>6. QED
    BY <2>3, <2>4, <2>5
<1>6. tab' \in [Tabs -> Tab] /\ (\A d \in Tabs \ {c} : tab'[d] = tab[d]) /\ TabExact(c, tab'[c])
  <2>1. CASE UNCHANGED tab
    BY <1>1, <2>1
  <2>2. ASSUME NEW new \in Ages, c \notin DOMAIN new, tab[c].pc = "open", tab[c].conn = k,
               tab' = [tab EXCEPT ![c].age = new]
        PROVE  tab' \in [Tabs -> Tab] /\ (\A d \in Tabs \ {c} : tab'[d] = tab[d]) /\ TabExact(c, tab'[c])
    <3>1. tab' \in [Tabs -> Tab] /\ \A d \in Tabs \ {c} : tab'[d] = tab[d]
      BY <1>1, <2>2 DEF Tab
    <3>2. /\ tab'[c].phase = tab[c].phase /\ tab'[c].pc = tab[c].pc /\ tab'[c].age = new
          /\ tab'[c].disposed = tab[c].disposed /\ tab'[c].reconnect = tab[c].reconnect
          /\ tab'[c].conn = tab[c].conn /\ tab'[c].sweep = tab[c].sweep
      BY <1>1, <2>2 DEF Tab
    <3>3. k # Off
      BY OffAssumption
    <3>4. QED
      BY <1>1, <2>2, <3>1, <3>2, <3>3 DEF TabExact
  <2>3. QED
    BY <1>5, <2>1, <2>2
<1>7. \A d \in Tabs : TabExact(d, tab'[d])
  BY <1>6, TabsKept
<1>8. ChannelExact'
  BY <1>2, <1>4, ChannelKept DEF PresenceInv
<1>9. QED
  BY <1>2, <1>4, <1>6, <1>7, <1>8 DEF PresenceInv, PresenceTypeOK

\* The free connection slot.
LEMMA FreeConnIs ==
  FreeConn \in Gateway /\ ~FreeConn.sub /\ FreeConn.st = "free" /\ FreeConn.out = <<>>
BY DEF FreeConn, Gateway, OneEvent

\* A step of one connection.
LEMMA ConnsKept ==
  ASSUME PresenceInv, NEW k \in Conns, conn' \in [Conns -> Gateway],
         \A j \in Conns \ {k} : conn'[j] = conn[j],
         ConnExact(k, conn'[k])
  PROVE  \A j \in Conns : ConnExact(j, conn'[j])
BY DEF PresenceInv, ConnExact

\* The ticket is minted: the gateway has a connection for it and the tab, unless
\* it was disposed meanwhile, dials.
LEMMA MintedInv ==
  ASSUME PresenceInv, NEW c \in Tabs, NEW k \in Conns, Minted(c, k)
  PROVE  PresenceInv'
<1>1. /\ tab \in [Tabs -> Tab] /\ tab[c] \in Tab /\ TabExact(c, tab[c])
      /\ conn \in [Conns -> Gateway] /\ ConnExact(k, conn[k])
  BY DEF PresenceInv, PresenceTypeOK
<1>2. UNCHANGED <<held, commands, listening, bus, present>>
  BY DEF Minted
<1>3. tab' \in [Tabs -> Tab] /\ (\A d \in Tabs \ {c} : tab'[d] = tab[d]) /\ TabExact(c, tab'[c])
  <2>1. CASE tab[c].disposed
    <3>1. tab' = [tab EXCEPT ![c].pc = "stopped"]
      BY <2>1 DEF Minted
    <3>2. tab' \in [Tabs -> Tab] /\ \A d \in Tabs \ {c} : tab'[d] = tab[d]
      BY <1>1, <3>1 DEF Tab
    <3>3. /\ tab'[c].phase = tab[c].phase /\ tab'[c].pc = "stopped" /\ tab'[c].age = tab[c].age
          /\ tab'[c].disposed = tab[c].disposed /\ tab'[c].reconnect = tab[c].reconnect
          /\ tab'[c].conn = tab[c].conn /\ tab'[c].sweep = tab[c].sweep
          /\ tab'[c].throttle = tab[c].throttle
      BY <1>1, <3>1 DEF Tab
    <3>4. QED
      BY <1>1, <2>1, <3>2, <3>3 DEF TabExact
  <2>2. CASE ~tab[c].disposed
    <3>1. tab' = [tab EXCEPT ![c].pc = "dialing", ![c].conn = k] /\ tab[c].pc = "minting"
      BY <2>2 DEF Minted
    <3>2. tab' \in [Tabs -> Tab] /\ \A d \in Tabs \ {c} : tab'[d] = tab[d]
      BY <1>1, <3>1 DEF Tab
    <3>3. /\ tab'[c].phase = tab[c].phase /\ tab'[c].pc = "dialing" /\ tab'[c].age = tab[c].age
          /\ tab'[c].disposed = tab[c].disposed /\ tab'[c].reconnect = tab[c].reconnect
          /\ tab'[c].sweep = tab[c].sweep
      BY <1>1, <3>1 DEF Tab
    <3>4. QED
      BY <1>1, <2>2, <3>1, <3>2, <3>3 DEF TabExact
  <2>3. QED
    BY <2>1, <2>2
<1>4. /\ conn' \in [Conns -> Gateway] /\ \A j \in Conns \ {k} : conn'[j] = conn[j]
      /\ ConnExact(k, conn'[k]) /\ (conn'[k].sub <=> conn[k].sub)
  <2> DEFINE g == [FreeConn EXCEPT !.st = "ticketed", !.tab = c]
  <2>1. g \in Gateway /\ g.st = "ticketed" /\ g.tab = c /\ g.sub = FreeConn.sub
    BY FreeConnIs DEF Gateway
  <2>2. conn' = [conn EXCEPT ![k] = g]
    BY DEF Minted
  <2>3. ~conn[k].sub
    BY <1>1 DEF Minted, ConnExact
  <2> HIDE DEF g
  <2>4. QED
    BY <1>1, <2>1, <2>2, <2>3, FreeConnIs DEF ConnExact
<1>5. (\A d \in Tabs : TabExact(d, tab'[d])) /\ (\A j \in Conns : ConnExact(j, conn'[j]))
  BY <1>3, <1>4, TabsKept, ConnsKept
<1>6. \A j \in Conns : conn'[j].sub <=> conn[j].sub
  BY <1>4
<1>7. ChannelExact'
  BY <1>2, <1>6, ChannelKept DEF PresenceInv
<1>8. QED
  BY <1>2, <1>3, <1>4, <1>5, <1>7 DEF PresenceInv, PresenceTypeOK

\* Steps of the gateway that neither subscribe nor unsubscribe.
LEMMA GatewayStepInv ==
  ASSUME PresenceInv, NEW k \in Conns,
         Upgrade(k) \/ TicketExpires(k) \/ HandlePresence(k) \/ HandleMutation(k) \/ Forget(k)
  PROVE  PresenceInv'
<1>1. conn \in [Conns -> Gateway] /\ conn[k] \in Gateway /\ ConnExact(k, conn[k])
  BY DEF PresenceInv, PresenceTypeOK
<1>2. UNCHANGED <<tab, held, commands, listening, present>>
  BY DEF Upgrade, TicketExpires, HandlePresence, HandleMutation, Forget
<1>3. /\ conn' \in [Conns -> Gateway] /\ \A j \in Conns \ {k} : conn'[j] = conn[j]
      /\ ConnExact(k, conn'[k]) /\ (conn'[k].sub <=> conn[k].sub)
  <2>1. CASE Upgrade(k)
    <3>1. /\ conn' \in [Conns -> Gateway] /\ \A j \in Conns \ {k} : conn'[j] = conn[j]
          /\ conn'[k].sub = conn[k].sub /\ conn'[k].tab = conn[k].tab /\ conn[k].st = "ticketed"
      BY <1>1, <2>1 DEF Upgrade, Gateway
    <3>2. QED
      BY <1>1, <3>1 DEF ConnExact
  <2>2. CASE TicketExpires(k)
    <3>1. /\ conn' \in [Conns -> Gateway] /\ \A j \in Conns \ {k} : conn'[j] = conn[j]
          /\ conn'[k].sub = conn[k].sub /\ conn'[k].st = "closed" /\ conn[k].st = "ticketed"
      <4> DEFINE code == 1006
      <4>a. code \in Nat
        OBVIOUS
      <4>1. /\ conn' = [conn EXCEPT ![k].st = "closed", ![k].ready = TRUE, ![k].code = code]
            /\ conn[k].st = "ticketed"
        BY <2>2 DEF TicketExpires
      <4> HIDE DEF code
      <4>2. conn' \in [Conns -> Gateway]
        BY <1>1, <4>a, <4>1 DEF Gateway
      <4>3. QED
        BY <1>1, <4>1, <4>2 DEF Gateway
    <3>2. QED
      BY <1>1, <3>1 DEF ConnExact
  <2>3. CASE HandlePresence(k)
    <3>1. /\ conn' \in [Conns -> Gateway] /\ \A j \in Conns \ {k} : conn'[j] = conn[j]
          /\ conn'[k].sub = conn[k].sub /\ conn'[k].tab = conn[k].tab /\ conn'[k].st = conn[k].st
      BY <1>1, <2>3 DEF HandlePresence, Gateway
    <3>2. QED
      BY <1>1, <3>1 DEF ConnExact
  <2>4. CASE HandleMutation(k)
    BY <1>1, <2>4 DEF HandleMutation
  <2>5. CASE Forget(k)
    <3>1. conn' = [conn EXCEPT ![k] = FreeConn] /\ conn[k].st = "closed"
      BY <2>5 DEF Forget
    <3>2. QED
      BY <1>1, <3>1, FreeConnIs DEF ConnExact
  <2>6. QED
    BY <2>1, <2>2, <2>3, <2>4, <2>5
<1>4. \A j \in Conns : ConnExact(j, conn'[j])
  BY <1>3, ConnsKept
<1>5. \A j \in Conns : conn'[j].sub <=> conn[j].sub
  BY <1>3
<1>6. ChannelExact'
  BY <1>2, <1>5, ChannelKept DEF PresenceInv
<1>7. bus' \in OneEvent
  <2>1. CASE bus' = bus
    BY <2>1 DEF PresenceInv, PresenceTypeOK
  <2>2. CASE HandlePresence(k) /\ bus' # bus
    <3>1. bus' = <<[sender |-> conn[k].tab, status |-> conn[k].inbox]>> /\ conn[k].st = "up"
          /\ conn[k].inbox \in {"active", "idle"}
      BY <2>2 DEF HandlePresence
    <3>2. [sender |-> conn[k].tab, status |-> conn[k].inbox] \in Event
      BY <1>1, <3>1 DEF ConnExact, Event
    <3>3. QED
      BY <3>1, <3>2 DEF OneEvent
  <2>3. CASE HandleMutation(k)
    <3>1. [sender |-> conn[k].tab, status |-> "mutation"] \in Event
      BY <1>1, <2>3 DEF ConnExact, Event, HandleMutation
    <3>2. QED
      BY <2>3, <3>1 DEF OneEvent, HandleMutation
  <2>4. QED
    BY <2>1, <2>2, <2>3 DEF Upgrade, TicketExpires, Forget
<1>8. QED
  BY <1>2, <1>3, <1>4, <1>6, <1>7 DEF PresenceInv, PresenceTypeOK

\* One more command for Redis is the last one.
LEMMA Commanded ==
  ASSUME NEW command \in {"SUBSCRIBE", "UNSUBSCRIBE"}, PresenceInv,
         commands' = Append(commands, command)
  PROVE  /\ commands' \in Seq({"SUBSCRIBE", "UNSUBSCRIBE"})
         /\ commands' # <<>> /\ commands'[Len(commands')] = command
BY DEF PresenceInv, PresenceTypeOK

\* The name of the user is known: the connection subscribes, unless its socket
\* closed while it was looked up.
LEMMA IdentityInv ==
  ASSUME PresenceInv, NEW k \in Conns, IdentityReady(k)
  PROVE  PresenceInv'
<1>1. /\ conn \in [Conns -> Gateway] /\ conn[k] \in Gateway /\ ConnExact(k, conn[k])
      /\ ChannelExact
  BY DEF PresenceInv, PresenceTypeOK
<1>2. UNCHANGED <<tab, listening, bus, present>>
  BY DEF IdentityReady
<1>3. /\ conn' \in [Conns -> Gateway] /\ \A j \in Conns \ {k} : conn'[j] = conn[j]
      /\ ConnExact(k, conn'[k])
      /\ IF conn[k].st = "closed" THEN (conn'[k].sub <=> conn[k].sub) ELSE conn'[k].sub
  <2>1. CASE conn[k].st = "closed"
    <3>1. conn' = [conn EXCEPT ![k].ready = TRUE]
      BY <2>1 DEF IdentityReady
    <3>2. /\ conn' \in [Conns -> Gateway] /\ \A j \in Conns \ {k} : conn'[j] = conn[j]
          /\ conn'[k].sub = conn[k].sub /\ conn'[k].tab = conn[k].tab /\ conn'[k].st = conn[k].st
      BY <1>1, <3>1 DEF Gateway
    <3>3. QED
      BY <1>1, <2>1, <3>2 DEF ConnExact
  <2>2. CASE conn[k].st # "closed"
    <3>1. conn' = [conn EXCEPT ![k].ready = TRUE, ![k].sub = TRUE] /\ conn[k].st = "up"
      BY <2>2 DEF IdentityReady
    <3>2. /\ conn' \in [Conns -> Gateway] /\ \A j \in Conns \ {k} : conn'[j] = conn[j]
          /\ conn'[k].sub = TRUE /\ conn'[k].tab = conn[k].tab /\ conn'[k].st = conn[k].st
      BY <1>1, <3>1 DEF Gateway
    <3>3. QED
      BY <1>1, <2>2, <3>1, <3>2 DEF ConnExact
  <2>3. QED
    BY <2>1, <2>2
<1>4. \A j \in Conns : ConnExact(j, conn'[j])
  BY <1>3, ConnsKept
<1>5. ChannelExact' /\ held' \in BOOLEAN /\ commands' \in Seq({"SUBSCRIBE", "UNSUBSCRIBE"})
  <2>1. CASE conn[k].st = "closed"
    <3>1. UNCHANGED <<held, commands, listening>>
      BY <1>2, <2>1 DEF IdentityReady
    <3>2. \A j \in Conns : conn'[j].sub <=> conn[j].sub
      BY <1>3, <2>1
    <3>3. ChannelExact'
      BY <1>1, <3>1, <3>2, ChannelKept
    <3>4. QED
      BY <3>1, <3>3 DEF PresenceInv, PresenceTypeOK
  <2>2. CASE conn[k].st # "closed"
    <3>1. Subscribe /\ conn'[k].sub
      BY <1>3, <2>2 DEF IdentityReady
    <3>2. CASE held
      BY <1>1, <1>2, <3>1, <3>2 DEF Subscribe, ChannelExact, PresenceInv, PresenceTypeOK
    <3>3. CASE ~held
      <4>1. /\ commands' \in Seq({"SUBSCRIBE", "UNSUBSCRIBE"})
            /\ commands' # <<>> /\ commands'[Len(commands')] = "SUBSCRIBE"
        BY <3>1, <3>3, Commanded DEF Subscribe
      <4>2. QED
        BY <3>1, <4>1 DEF Subscribe, ChannelExact
    <3>4. QED
      BY <3>2, <3>3
  <2>3. QED
    BY <2>1, <2>2
<1>6. QED
  BY <1>2, <1>3, <1>4, <1>5 DEF PresenceInv, PresenceTypeOK

\* A socket closes, for whatever reason: its subscription goes with it.
LEMMA CloseInv ==
  ASSUME PresenceInv, NEW k \in Conns, NEW code \in Nat, CloseConn(k, code),
         UNCHANGED <<tab, listening, bus, present>>
  PROVE  PresenceInv'
<1>1. /\ conn \in [Conns -> Gateway] /\ conn[k] \in Gateway /\ ConnExact(k, conn[k])
      /\ ChannelExact
  BY DEF PresenceInv, PresenceTypeOK
<1>2. /\ conn' \in [Conns -> Gateway] /\ \A j \in Conns \ {k} : conn'[j] = conn[j]
      /\ conn'[k].sub = FALSE /\ conn'[k].st = "closed"
  <2>1. conn' = [conn EXCEPT ![k].st = "closed", ![k].sub = FALSE, ![k].code = code, ![k].inbox = Off]
    BY DEF CloseConn
  <2>2. QED
    BY <1>1, <2>1 DEF Gateway
<1>3. ConnExact(k, conn'[k])
  BY <1>2 DEF ConnExact
<1>4. \A j \in Conns : ConnExact(j, conn'[j])
  BY <1>2, <1>3, ConnsKept
<1>5. ChannelExact' /\ held' \in BOOLEAN /\ commands' \in Seq({"SUBSCRIBE", "UNSUBSCRIBE"})
  <2>1. CASE ~conn[k].sub
    <3>1. UNCHANGED <<held, commands, listening>>
      BY <2>1 DEF CloseConn, Unsubscribe
    <3>2. \A j \in Conns : conn'[j].sub <=> conn[j].sub
      BY <1>2, <2>1
    <3>3. ChannelExact'
      BY <1>1, <3>1, <3>2, ChannelKept
    <3>4. QED
      BY <3>1, <3>3 DEF PresenceInv, PresenceTypeOK
  <2>2. CASE conn[k].sub /\ \E j \in Conns \ {k} : conn[j].sub
    <3>1. UNCHANGED <<held, commands, listening>>
      BY <2>2 DEF CloseConn, Unsubscribe
    <3>2. (\E j \in Conns : conn[j].sub) /\ (\E j \in Conns : conn'[j].sub)
      BY <1>2, <2>2
    <3>3. QED
      BY <1>1, <3>1, <3>2 DEF ChannelExact, PresenceInv, PresenceTypeOK
  <2>3. CASE conn[k].sub /\ \A j \in Conns \ {k} : ~conn[j].sub
    <3>1. held
      BY <1>1, <2>3 DEF ChannelExact
    <3>2. held' = FALSE /\ commands' = Append(commands, "UNSUBSCRIBE")
      BY <2>3, <3>1 DEF CloseConn, Unsubscribe
    <3>3. /\ commands' \in Seq({"SUBSCRIBE", "UNSUBSCRIBE"})
          /\ commands' # <<>> /\ commands'[Len(commands')] = "UNSUBSCRIBE"
      BY <3>2, Commanded
    <3>4. \A j \in Conns : ~conn'[j].sub
      BY <1>2, <2>3
    <3>5. QED
      BY <3>2, <3>3, <3>4 DEF ChannelExact
  <2>4. QED
    BY <2>1, <2>2, <2>3
<1>6. QED
  BY <1>2, <1>4, <1>5 DEF PresenceInv, PresenceTypeOK

\* Redis applies the oldest command.
LEMMA RedisInv ==
  ASSUME PresenceInv, Redis
  PROVE  PresenceInv'
<1>1. /\ commands \in Seq({"SUBSCRIBE", "UNSUBSCRIBE"}) /\ commands # <<>>
      /\ listening' = (Head(commands) = "SUBSCRIBE") /\ commands' = Tail(commands)
      /\ UNCHANGED <<tab, conn, held, bus, present>>
  BY DEF Redis, PresenceInv, PresenceTypeOK
<1>2. commands' \in Seq({"SUBSCRIBE", "UNSUBSCRIBE"}) /\ listening' \in BOOLEAN
  BY <1>1
<1>3. commands' = <<>> => Head(commands) = commands[Len(commands)]
  <2>1. Len(commands') = Len(commands) - 1 /\ Head(commands) = commands[1]
    BY <1>1
  <2>2. commands' = <<>> => Len(commands') = 0
    OBVIOUS
  <2>3. Len(commands) \in Nat
    BY <1>1
  <2>4. commands' = <<>> => Len(commands) = 1
    BY <2>1, <2>2, <2>3
  <2>5. QED
    BY <2>1, <2>4
<1>4. commands' # <<>> => commands'[Len(commands')] = commands[Len(commands)]
  BY <1>1
<1>5. ChannelExact'
  BY <1>1, <1>3, <1>4 DEF PresenceInv, ChannelExact
<1>6. QED
  BY <1>1, <1>2, <1>5 DEF PresenceInv, PresenceTypeOK

\* The event on the bus reaches every other open connection.
LEMMA RelayInv ==
  ASSUME PresenceInv, Relay
  PROVE  PresenceInv'
<1> DEFINE e == Head(bus)
<1>1. conn \in [Conns -> Gateway] /\ e \in Event
  <2>1. bus \in OneEvent /\ bus # <<>>
    BY DEF Relay, PresenceInv, PresenceTypeOK
  <2>2. PICK f \in Event : bus = <<f>>
    BY <2>1 DEF OneEvent
  <2>3. QED
    BY <2>2 DEF PresenceInv, PresenceTypeOK
<1>2. bus' = <<>> /\ UNCHANGED <<tab, held, commands, listening, present>>
  BY DEF Relay
<1>3. <<e>> \in OneEvent /\ <<>> \in OneEvent
  BY <1>1 DEF OneEvent
<1>4. /\ DOMAIN conn' = Conns /\ conn' = [k \in Conns |-> conn'[k]]
      /\ \A k \in Conns : conn'[k] = conn[k] \/ conn'[k] = [conn[k] EXCEPT !.out = <<e>>]
  BY DEF Relay
<1> HIDE DEF e
<1>5. \A k \in Conns : /\ conn'[k] \in Gateway /\ conn'[k].sub = conn[k].sub
                       /\ conn'[k].st = conn[k].st /\ conn'[k].tab = conn[k].tab
  <2> SUFFICES ASSUME NEW k \in Conns
               PROVE  /\ conn'[k] \in Gateway /\ conn'[k].sub = conn[k].sub
                      /\ conn'[k].st = conn[k].st /\ conn'[k].tab = conn[k].tab
    OBVIOUS
  <2>1. conn[k] \in Gateway
    BY <1>1
  <2>2. CASE conn'[k] = conn[k]
    BY <2>1, <2>2
  <2>3. CASE conn'[k] = [conn[k] EXCEPT !.out = <<e>>]
    BY <1>3, <2>1, <2>3 DEF Gateway
  <2>4. QED
    BY <1>4, <2>2, <2>3
<1>6. conn' \in [Conns -> Gateway]
  BY <1>4, <1>5
<1>7. \A k \in Conns : ConnExact(k, conn'[k])
  BY <1>5 DEF PresenceInv, ConnExact
<1>8. ChannelExact'
  BY <1>2, <1>5, ChannelKept DEF PresenceInv
<1>9. QED
  BY <1>2, <1>3, <1>6, <1>7, <1>8 DEF PresenceInv, PresenceTypeOK

\* Peers publish and leave.
LEMMA PeerInv ==
  ASSUME PresenceInv,
         \/ \E u \in Tabs \cup Peers, status \in {"active", "idle"} : PeerPublishes(u, status)
         \/ \E u \in Peers : PeerLeaves(u)
  PROVE  PresenceInv'
<1>1. UNCHANGED <<tab, conn, held, commands, listening>> /\ present' \subseteq Peers
  BY DEF PeerPublishes, PeerLeaves, PresenceInv, PresenceTypeOK
<1>2. bus' \in OneEvent
  <2>1. CASE UNCHANGED bus
    BY <2>1 DEF PresenceInv, PresenceTypeOK
  <2>2. ASSUME NEW u \in Tabs \cup Peers, NEW status \in {"active", "idle"}, PeerPublishes(u, status)
        PROVE  bus' \in OneEvent
    <3>1. [sender |-> u, status |-> status] \in Event
      BY DEF Event
    <3>2. QED
      BY <2>2, <3>1 DEF PeerPublishes, OneEvent
  <2>3. QED
    BY <2>1, <2>2 DEF PeerLeaves
<1>3. QED
  BY <1>1, <1>2 DEF PresenceInv, PresenceTypeOK, ChannelExact

\* Every step keeps the invariant.
LEMMA PresenceStep ==
  PresenceInv /\ [PresenceNext]_presenceVars => PresenceInv'
<1> SUFFICES ASSUME PresenceInv, [PresenceNext]_presenceVars PROVE PresenceInv'
  OBVIOUS
<1>1. CASE UNCHANGED presenceVars
  BY <1>1 DEF presenceVars, PresenceInv, PresenceTypeOK, ChannelExact
<1>2. ASSUME NEW c \in Tabs,
             TabStep(c) \/ Dispose(c) \/ OnClose(c) \/ SendCursor(c) \/ SendSelection(c)
      PROVE  PresenceInv'
  BY <1>2, TabStepInv, TabStopsInv, TabSendsInv, ReceiveInv, MintedInv DEF TabStep
<1>3. ASSUME NEW k \in Conns,
             \/ ConnStep(k) \/ HandleMutation(k) \/ TicketExpires(k) \/ OnSocketClose(k)
             \/ \E kind \in {"too_large", "sync_request"} : HandleOther(k, kind)
      PROVE  PresenceInv'
  <2>1. CASE OnSocketClose(k)
    BY <2>1, CloseInv DEF OnSocketClose
  <2>2. ASSUME NEW kind, HandleOther(k, kind) PROVE PresenceInv'
    BY <2>2, CloseInv DEF HandleOther
  <2>3. QED
    BY <1>3, <2>1, <2>2, GatewayStepInv, IdentityInv DEF ConnStep
<1>4. CASE Redis \/ Relay
  BY <1>4, RedisInv, RelayInv
<1>5. QED
  BY <1>1, <1>2, <1>3, <1>4, PeerInv DEF PresenceNext

\* The invariant holds at first and ever after.
LEMMA PresenceInvariance == PresenceSpec => []PresenceInv
<1>1. PresenceInit => PresenceInv
  <2> SUFFICES ASSUME PresenceInit PROVE PresenceInv
    OBVIOUS
  <2>1. tab = [c \in Tabs |-> NewTab] /\ conn = [k \in Conns |-> FreeConn]
        /\ ~held /\ commands = <<>> /\ ~listening /\ bus = <<>> /\ present = Peers
    BY DEF PresenceInit
  <2>2. NewTab \in Tab /\ \A c \in Tabs : TabExact(c, NewTab)
    BY NoAges DEF NewTab, Tab, TabExact
  <2>3. \A k \in Conns : ConnExact(k, FreeConn) /\ ~FreeConn.sub
    BY FreeConnIs DEF ConnExact
  <2>4. PresenceTypeOK
    <3>1. <<>> \in OneEvent
      BY DEF OneEvent
    <3>2. held = FALSE /\ listening = FALSE
      BY DEF PresenceInit
    <3>3. tab \in [Tabs -> Tab] /\ conn \in [Conns -> Gateway]
      BY <2>1, <2>2, FreeConnIs
    <3>4. commands \in Seq({"SUBSCRIBE", "UNSUBSCRIBE"})
      BY <2>1
    <3>5. bus \in OneEvent /\ present \subseteq Peers
      BY <2>1, <3>1
    <3>6. QED
      BY <3>2, <3>3, <3>4, <3>5 DEF PresenceTypeOK
  <2>5. ChannelExact
    BY <2>1, <2>3 DEF ChannelExact
  <2>6. QED
    BY <2>1, <2>2, <2>3, <2>4, <2>5 DEF PresenceInv
<1>2. QED
  BY <1>1, PresenceStep, PTL DEF PresenceSpec

\* The subscriptions follow the connections exactly: no listener outlives its
\* socket, and once Redis has caught up the process receives the channel if and
\* only if somebody listens, for any number of tabs and connections.
THEOREM SubscriptionsFollowConnections == PresenceSpec => []SubscriptionsExact
<1>1. PresenceInv => SubscriptionsExact
  BY DEF PresenceInv, ConnExact, ChannelExact, SubscriptionsExact
<1>2. QED
  BY <1>1, PresenceInvariance, PTL

\* A tab that is not connected shows nobody and runs no sweep, and a disposed
\* one stays quiet, whatever was pending.
THEOREM DisconnectedTabsAreQuiet == PresenceSpec => []QuietUnlessConnected
<1>1. PresenceInv => QuietUnlessConnected
  BY DEF PresenceInv, TabExact, QuietUnlessConnected, Remotes
<1>2. QED
  BY <1>1, PresenceInvariance, PTL
-----------------------------------------------------------------------------
(* Webhook delivery.                                                       *)

\* A worker holds a delivery exactly while it is busy.
BusyHolds == \A w \in Workers : worker[w].pc = "idle" <=> worker[w].d = NoOne

\* A request has endpoints to do and a row to enqueue only while it emits.
EmitHolds == emit.on \/ (emit.todo = {} /\ emit.row = NoOne)

Owed(d) == row[d].status \in {"pending", "failed"}

Held(d) ==
  \/ emit.row = d
  \/ \E left \in 0..JobRetries : queued[d][left] > 0
  \/ \E w \in Workers : Working(w, d)
  \/ d \in orphan

HeldInv == WebhookTypeOK /\ BusyHolds /\ EmitHolds /\ HeldOrOrphaned

\* What the property says, by name.
LEMMA HeldIs == HeldOrOrphaned <=> \A d \in Deliveries : Owed(d) => Held(d)
BY DEF HeldOrOrphaned, Owed, Held

\* An UPDATE by id keeps the rows' types.
LEMMA SetRowTyped ==
  ASSUME row \in [Deliveries -> Row], NEW d \in Deliveries, NEW st \in Statuses, NEW n \in Nat
  PROVE  SetRow(d, st, n) \in [Deliveries -> Row]
BY DEF SetRow, Row

\* A worker with nothing to do.
LEMMA IdleTyped == Idle \in Execution
BY WebhookAssumption DEF Idle, Execution

\* Every step keeps the types.
LEMMA WebhookTypeStep ==
  WebhookTypeOK /\ BusyHolds /\ [WebhookNext]_webhookVars => WebhookTypeOK'
<1> SUFFICES ASSUME WebhookTypeOK, BusyHolds, [WebhookNext]_webhookVars PROVE WebhookTypeOK'
  OBVIOUS
<1> USE WebhookAssumption DEF WebhookTypeOK, Execution
<1>1. ASSUME NEW e \in Endpoints, CreateEndpoint(e) PROVE WebhookTypeOK'
  BY <1>1 DEF CreateEndpoint
<1>2. ASSUME NEW e \in Endpoints, UpdateEndpoint(e) PROVE WebhookTypeOK'
  BY <1>2 DEF UpdateEndpoint
<1>3. ASSUME NEW e \in Endpoints, DeleteDeliveries(e) PROVE WebhookTypeOK'
  <2>1. row' \in [Deliveries -> Row]
    BY <1>3 DEF DeleteDeliveries, Row, Statuses, Terminal
  <2>2. QED
    BY <1>3, <2>1 DEF DeleteDeliveries
<1>4. ASSUME DeleteEndpoint PROVE WebhookTypeOK'
  BY <1>4 DEF DeleteEndpoint
<1>5. ASSUME EmitStart PROVE WebhookTypeOK'
  <2>1. emit'.row \in Deliveries \cup {NoOne}
    BY <1>5 DEF EmitStart
  <2>2. QED
    BY <1>5, <2>1 DEF EmitStart
<1>6. ASSUME EmitEnqueue PROVE WebhookTypeOK'
  <2>1. queued' \in [Deliveries -> [0..JobRetries -> Nat]]
    BY <1>6 DEF EmitEnqueue, Enqueue
  <2>2. emit'.row \in Deliveries \cup {NoOne}
    BY <1>6 DEF EmitEnqueue, Enqueue
  <2>3. QED
    BY <1>6, <2>1, <2>2 DEF EmitEnqueue
<1>7. ASSUME EmitEnd PROVE WebhookTypeOK'
  <2>1. emit'.row \in Deliveries \cup {NoOne}
    BY <1>7 DEF EmitEnd, NoEmit
  <2>2. QED
    BY <1>7, <2>1 DEF EmitEnd
<1>8. ASSUME EmitDies PROVE WebhookTypeOK'
  <2>1. emit'.row \in Deliveries \cup {NoOne}
    BY <1>8 DEF EmitDies, NoEmit
  <2>2. orphan' \subseteq Deliveries
    BY <1>8 DEF EmitDies, NoEmit
  <2>3. QED
    BY <1>8, <2>1, <2>2 DEF EmitDies
<1>9. ASSUME NEW e \in Endpoints, NEW d \in Deliveries, EmitInsert(e, d) PROVE WebhookTypeOK'
  <2>1. CASE endpoint[e] = "none"
    BY <1>9, <2>1 DEF EmitInsert, NoEmit
  <2>2. CASE endpoint[e] # "none"
    <3>1. row' = [row EXCEPT ![d] = [ep |-> e, status |-> "pending", attempts |-> 0]]
      BY <1>9, <2>2 DEF EmitInsert
    <3>2. row' \in [Deliveries -> Row]
      BY <3>1 DEF Row, Statuses
    <3>3. emit' = [on |-> TRUE, todo |-> emit.todo \ {e}, row |-> d]
      BY <1>9, <2>2 DEF EmitInsert
    <3>4. emit'.row \in Deliveries \cup {NoOne}
      BY <3>3
    <3>5. QED
      BY <1>9, <3>2, <3>4 DEF EmitInsert
  <2>3. QED
    BY <2>1, <2>2
<1>10. ASSUME NEW w \in Workers, NEW d \in Deliveries, NEW left \in 0..JobRetries, WorkerTake(w, d, left) PROVE WebhookTypeOK'
  <2>1. queued' \in [Deliveries -> [0..JobRetries -> Nat]]
    <3>1. queued[d][left] - 1 \in Nat
      BY <1>10 DEF WorkerTake
    <3>2. [queued[d] EXCEPT ![left] = queued[d][left] - 1] \in [0..JobRetries -> Nat]
      BY <3>1
    <3>3. queued' = [queued EXCEPT ![d] = [queued[d] EXCEPT ![left] = queued[d][left] - 1]]
      BY <1>10 DEF WorkerTake
    <3>4. QED
      BY <3>2, <3>3
  <2>2. \A pc \in {"endpoint", "done"} :
          [pc |-> pc, d |-> d, left |-> left, attempts |-> row[d].attempts] \in Execution
    BY DEF Row
  <2>3. worker' \in [Workers -> Execution]
    BY <1>10, <2>2 DEF WorkerTake
  <2>4. QED
    BY <1>10, <2>1, <2>3 DEF WorkerTake
<1>11. ASSUME NEW w \in Workers, WorkerEndpoint(w) PROVE WebhookTypeOK'
  <2>1. worker[w].d \in Deliveries
    BY <1>11 DEF BusyHolds, WorkerEndpoint
  <2>2. SetRow(worker[w].d, "dead_letter", row[worker[w].d].attempts) \in [Deliveries -> Row]
    BY <2>1, SetRowTyped DEF Row, Statuses, Terminal
  <2>3. row' \in [Deliveries -> Row]
    BY <1>11, <2>2 DEF WorkerEndpoint
  <2>4. worker' \in [Workers -> Execution]
    <3>1. CASE endpoint[row[worker[w].d].ep] = "none"
      <4>1. worker' = [worker EXCEPT ![w].pc = "done"]
        BY <1>11, <3>1 DEF WorkerEndpoint
      <4>2. QED
        BY <4>1
    <3>2. CASE endpoint[row[worker[w].d].ep] # "none"
      <4>1. worker' = [worker EXCEPT ![w].pc = "post"]
        BY <1>11, <3>2 DEF WorkerEndpoint
      <4>2. QED
        BY <4>1
    <3>3. QED
      BY <3>1, <3>2
  <2>5. QED
    BY <1>11, <2>3, <2>4 DEF WorkerEndpoint
<1>12. ASSUME NEW w \in Workers, WorkerPost(w) PROVE WebhookTypeOK'
  <2>1. worker' \in [Workers -> Execution]
    <3>1. PICK outcome \in {"ok", "fail"} : worker' = [worker EXCEPT ![w].pc = outcome]
      BY <1>12 DEF WorkerPost
    <3>2. QED
      BY <3>1
  <2>2. QED
    BY <1>12, <2>1 DEF WorkerPost
<1>13. ASSUME NEW w \in Workers, WorkerRecord(w) PROVE WebhookTypeOK'
  <2>1. worker[w].d \in Deliveries /\ worker[w].attempts + 1 \in Nat
    BY <1>13 DEF BusyHolds, WorkerRecord
  <2>2. \A st \in {"delivered", "dead_letter", "failed"} :
          SetRow(worker[w].d, st, worker[w].attempts + 1) \in [Deliveries -> Row]
    BY <2>1, SetRowTyped DEF Statuses, Terminal
  <2>3. row' \in [Deliveries -> Row]
    BY <1>13, <2>2 DEF WorkerRecord
  <2>4. worker' \in [Workers -> Execution]
    <3>1. PICK pc \in {"done", "retry"} : worker' = [worker EXCEPT ![w].pc = pc]
      BY <1>13 DEF WorkerRecord
    <3>2. QED
      BY <3>1
  <2>5. QED
    BY <1>13, <2>3, <2>4 DEF WorkerRecord
<1>14. ASSUME NEW w \in Workers, WorkerRetry(w) PROVE WebhookTypeOK'
  <2>1. worker[w].d \in Deliveries
    BY <1>14 DEF BusyHolds, WorkerRetry
  <2>2. queued' \in [Deliveries -> [0..JobRetries -> Nat]]
    BY <1>14, <2>1 DEF WorkerRetry, Enqueue
  <2>3. worker' \in [Workers -> Execution]
    BY <1>14 DEF WorkerRetry
  <2>4. QED
    BY <1>14, <2>2, <2>3 DEF WorkerRetry
<1>15. ASSUME NEW w \in Workers, WorkerDies(w) PROVE WebhookTypeOK'
  <2>1. worker[w].d \in Deliveries /\ worker[w].left \in 0..JobRetries
    BY <1>15 DEF BusyHolds, WorkerDies
  <2>2. worker' \in [Workers -> Execution]
    BY <1>15 DEF WorkerDies, Idle
  <2>3. queued' \in [Deliveries -> [0..JobRetries -> Nat]]
    <3> DEFINE d == worker[w].d
               left == worker[w].left - 1
    <3>1. CASE worker[w].left > 0
      <4>1. left \in 0..JobRetries
        BY <2>1, <3>1
      <4>2. [queued[d] EXCEPT ![left] = queued[d][left] + 1] \in [0..JobRetries -> Nat]
        <5>1. queued[d] \in [0..JobRetries -> Nat]
          BY <2>1
        <5>2. queued[d][left] \in Nat
          BY <4>1, <5>1
        <5>3. queued[d][left] + 1 \in Nat
          BY <5>2
        <5>4. QED
          BY <5>1, <5>3
      <4>3. queued' = [queued EXCEPT ![d] = [queued[d] EXCEPT ![left] = queued[d][left] + 1]]
        BY <1>15, <3>1 DEF WorkerDies
      <4>4. QED
        BY <2>1, <4>2, <4>3
    <3>2. CASE ~(worker[w].left > 0)
      BY <1>15, <3>2 DEF WorkerDies
    <3>3. QED
      BY <3>1, <3>2
  <2>4. orphan' \subseteq Deliveries
    BY <1>15, <2>1 DEF WorkerDies
  <2>5. QED
    BY <1>15, <2>2, <2>3, <2>4 DEF WorkerDies
<1>16. ASSUME NEW w \in Workers, WorkerComplete(w) PROVE WebhookTypeOK'
  <2>1. worker' \in [Workers -> Execution]
    BY <1>16, IdleTyped DEF WorkerComplete
  <2>2. QED
    BY <1>16, <2>1 DEF WorkerComplete
<1>17. CASE UNCHANGED webhookVars
  BY <1>17 DEF webhookVars
<1>18. QED
  BY <1>1, <1>2, <1>3, <1>4, <1>5, <1>6, <1>7, <1>8, <1>9, <1>10, <1>11, <1>12, <1>13, <1>14, <1>15, <1>16, <1>17 DEF WebhookNext, EmitStep, WorkerStep

\* Every step keeps the workers' hold.
LEMMA BusyStep ==
  WebhookTypeOK /\ BusyHolds /\ [WebhookNext]_webhookVars => BusyHolds'
<1> SUFFICES ASSUME WebhookTypeOK, BusyHolds, [WebhookNext]_webhookVars PROVE BusyHolds'
  OBVIOUS
<1> USE DEF WebhookTypeOK, BusyHolds
<1>1. ASSUME NEW e \in Endpoints, CreateEndpoint(e) PROVE BusyHolds'
  BY <1>1 DEF CreateEndpoint
<1>2. ASSUME NEW e \in Endpoints, UpdateEndpoint(e) PROVE BusyHolds'
  BY <1>2 DEF UpdateEndpoint
<1>3. ASSUME NEW e \in Endpoints, DeleteDeliveries(e) PROVE BusyHolds'
  BY <1>3 DEF DeleteDeliveries
<1>4. ASSUME DeleteEndpoint PROVE BusyHolds'
  BY <1>4 DEF DeleteEndpoint
<1>5. ASSUME EmitStart PROVE BusyHolds'
  BY <1>5 DEF EmitStart
<1>6. ASSUME EmitEnqueue PROVE BusyHolds'
  BY <1>6 DEF EmitEnqueue
<1>7. ASSUME EmitEnd PROVE BusyHolds'
  BY <1>7 DEF EmitEnd
<1>8. ASSUME EmitDies PROVE BusyHolds'
  BY <1>8 DEF EmitDies
<1>9. ASSUME NEW e \in Endpoints, NEW d \in Deliveries, EmitInsert(e, d) PROVE BusyHolds'
  BY <1>9 DEF EmitInsert
<1>10. ASSUME NEW w \in Workers, NEW d \in Deliveries, NEW left \in 0..JobRetries, WorkerTake(w, d, left) PROVE BusyHolds'
  <2>1. \A v \in Workers \ {w} : worker'[v] = worker[v]
    BY <1>10 DEF WorkerTake
  <2>2. worker'[w].pc \in {"endpoint", "done"} /\ worker'[w].d = d
    BY <1>10 DEF WorkerTake, Execution
  <2>3. worker[w].pc = "idle" <=> worker[w].d = NoOne
    OBVIOUS
  <2>4. QED
    BY <1>10, <2>1, <2>2, <2>3, WebhookAssumption DEF WorkerTake, Idle
<1>11. ASSUME NEW w \in Workers, WorkerEndpoint(w) PROVE BusyHolds'
  <2>1. \A v \in Workers \ {w} : worker'[v] = worker[v]
    BY <1>11 DEF WorkerEndpoint
  <2>2. worker'[w].pc \in {"done", "post"} /\ worker'[w].d = worker[w].d
    BY <1>11 DEF WorkerEndpoint, Execution
  <2>3. worker[w].pc = "idle" <=> worker[w].d = NoOne
    OBVIOUS
  <2>4. QED
    BY <1>11, <2>1, <2>2, <2>3, WebhookAssumption DEF WorkerEndpoint, Idle
<1>12. ASSUME NEW w \in Workers, WorkerPost(w) PROVE BusyHolds'
  <2>1. \A v \in Workers \ {w} : worker'[v] = worker[v]
    BY <1>12 DEF WorkerPost
  <2>2. worker'[w].pc \in {"ok", "fail"} /\ worker'[w].d = worker[w].d
    BY <1>12 DEF WorkerPost, Execution
  <2>3. worker[w].pc = "idle" <=> worker[w].d = NoOne
    OBVIOUS
  <2>4. QED
    BY <1>12, <2>1, <2>2, <2>3, WebhookAssumption DEF WorkerPost, Idle
<1>13. ASSUME NEW w \in Workers, WorkerRecord(w) PROVE BusyHolds'
  <2>1. \A v \in Workers \ {w} : worker'[v] = worker[v]
    BY <1>13 DEF WorkerRecord, Exhausted
  <2>2. worker'[w].pc \in {"done", "retry"} /\ worker'[w].d = worker[w].d
    BY <1>13 DEF WorkerRecord, Exhausted, Execution
  <2>3. worker[w].pc = "idle" <=> worker[w].d = NoOne
    OBVIOUS
  <2>4. QED
    BY <1>13, <2>1, <2>2, <2>3, WebhookAssumption DEF WorkerRecord, Idle
<1>14. ASSUME NEW w \in Workers, WorkerRetry(w) PROVE BusyHolds'
  <2>1. \A v \in Workers \ {w} : worker'[v] = worker[v]
    BY <1>14 DEF WorkerRetry
  <2>2. worker'[w].pc = "done" /\ worker'[w].d = worker[w].d
    BY <1>14 DEF WorkerRetry, Execution
  <2>3. worker[w].pc = "idle" <=> worker[w].d = NoOne
    OBVIOUS
  <2>4. QED
    BY <1>14, <2>1, <2>2, <2>3, WebhookAssumption DEF WorkerRetry, Idle
<1>15. ASSUME NEW w \in Workers, WorkerDies(w) PROVE BusyHolds'
  <2>1. \A v \in Workers \ {w} : worker'[v] = worker[v]
    BY <1>15 DEF WorkerDies
  <2>2. worker'[w] = Idle
    BY <1>15 DEF WorkerDies, Execution
  <2>3. worker[w].pc = "idle" <=> worker[w].d = NoOne
    OBVIOUS
  <2>4. QED
    BY <1>15, <2>1, <2>2, <2>3, WebhookAssumption DEF WorkerDies, Idle
<1>16. ASSUME NEW w \in Workers, WorkerComplete(w) PROVE BusyHolds'
  <2>1. \A v \in Workers \ {w} : worker'[v] = worker[v]
    BY <1>16 DEF WorkerComplete
  <2>2. worker'[w] = Idle
    BY <1>16 DEF WorkerComplete, Execution
  <2>3. worker[w].pc = "idle" <=> worker[w].d = NoOne
    OBVIOUS
  <2>4. QED
    BY <1>16, <2>1, <2>2, <2>3, WebhookAssumption DEF WorkerComplete, Idle
<1>17. CASE UNCHANGED webhookVars
  BY <1>17 DEF webhookVars
<1>18. QED
  BY <1>1, <1>2, <1>3, <1>4, <1>5, <1>6, <1>7, <1>8, <1>9, <1>10, <1>11, <1>12, <1>13, <1>14, <1>15, <1>16, <1>17 DEF WebhookNext, EmitStep, WorkerStep

\* Every step keeps the request's hold.
LEMMA EmitStepKeeps ==
  EmitHolds /\ [WebhookNext]_webhookVars => EmitHolds'
<1> SUFFICES ASSUME EmitHolds, [WebhookNext]_webhookVars PROVE EmitHolds'
  OBVIOUS
<1> USE DEF EmitHolds
<1>1. ASSUME EmitStart PROVE EmitHolds'
  BY <1>1 DEF EmitStart, NoEmit
<1>2. ASSUME EmitEnqueue PROVE EmitHolds'
  BY <1>2 DEF EmitEnqueue, NoEmit
<1>3. ASSUME EmitEnd PROVE EmitHolds'
  BY <1>3 DEF EmitEnd, NoEmit
<1>4. ASSUME EmitDies PROVE EmitHolds'
  BY <1>4 DEF EmitDies, NoEmit
<1>5. ASSUME NEW e \in Endpoints, NEW d \in Deliveries, EmitInsert(e, d) PROVE EmitHolds'
  BY <1>5 DEF EmitInsert, NoEmit
<1>6. CASE UNCHANGED emit
  BY <1>6
<1>7. QED
  BY <1>1, <1>2, <1>3, <1>4, <1>5, <1>6 DEF WebhookNext, EmitStep, WorkerStep, webhookVars, CreateEndpoint, UpdateEndpoint,
       DeleteDeliveries, DeleteEndpoint, WorkerTake, WorkerEndpoint, WorkerPost, WorkerRecord, WorkerRetry,
       WorkerComplete, WorkerDies

\* A step that moves no job and makes no row owed.
LEMMA Unmoved ==
  ASSUME \A d \in Deliveries : Owed(d) => Held(d),
         \A d \in Deliveries : Owed(d)' => Owed(d),
         emit'.row = emit.row, UNCHANGED <<queued, worker, orphan>>
  PROVE  \A d \in Deliveries : Owed(d)' => Held(d)'
BY DEF Held, Working

\* A step that moves the jobs of one delivery, and leaves that one held.
LEMMA Moved ==
  ASSUME \A x \in Deliveries : Owed(x) => Held(x), NEW d \in Deliveries,
         \A x \in Deliveries \ {d} : Owed(x)' => Owed(x),
         \A x \in Deliveries \ {d} : queued'[x] = queued[x],
         emit'.row = emit.row \/ emit.row \in {d, NoOne},
         \A v \in Workers : worker'[v] = worker[v] \/ worker[v].d \in {d, NoOne},
         orphan \subseteq orphan',
         Owed(d)' => Held(d)'
  PROVE  \A x \in Deliveries : Owed(x)' => Held(x)'
<1>1. SUFFICES ASSUME NEW x \in Deliveries \ {d}, Held(x) PROVE Held(x)'
  OBVIOUS
<1>2. x # NoOne /\ x # d
  BY WebhookAssumption
<1>3. CASE emit.row = x
  BY <1>2, <1>3 DEF Held
<1>4. CASE \E left \in 0..JobRetries : queued[x][left] > 0
  BY <1>4 DEF Held
<1>5. ASSUME NEW v \in Workers, Working(v, x) PROVE Held(x)'
  <2>1. worker'[v] = worker[v]
    BY <1>2, <1>5 DEF Working
  <2>2. QED
    BY <1>5, <2>1 DEF Held, Working
<1>6. CASE x \in orphan
  BY <1>6 DEF Held
<1>7. QED
  BY <1>1, <1>3, <1>4, <1>5, <1>6 DEF Held

\* Every step hands a delivery on, ends it or orphans it.
LEMMA HeldStep ==
  HeldInv /\ [WebhookNext]_webhookVars => HeldOrOrphaned'
<1> SUFFICES ASSUME HeldInv, [WebhookNext]_webhookVars PROVE \A d \in Deliveries : Owed(d)' => Held(d)'
  BY DEF HeldOrOrphaned, Owed, Held
<1> \A d \in Deliveries : Owed(d) => Held(d)
  BY HeldIs DEF HeldInv
<1> USE WebhookAssumption DEF HeldInv, WebhookTypeOK, BusyHolds, Execution
<1>1. ASSUME NEW e \in Endpoints, CreateEndpoint(e) PROVE \A x \in Deliveries : Owed(x)' => Held(x)'
  BY <1>1, Unmoved DEF CreateEndpoint, Owed
<1>2. ASSUME NEW e \in Endpoints, UpdateEndpoint(e) PROVE \A x \in Deliveries : Owed(x)' => Held(x)'
  BY <1>2, Unmoved DEF UpdateEndpoint, Owed
<1>3. ASSUME NEW e \in Endpoints, DeleteDeliveries(e) PROVE \A x \in Deliveries : Owed(x)' => Held(x)'
  <2>1. \A x \in Deliveries : Owed(x)' => Owed(x)
    BY <1>3 DEF DeleteDeliveries, Owed
  <2>2. QED
    BY <1>3, <2>1, Unmoved DEF DeleteDeliveries
<1>4. ASSUME DeleteEndpoint PROVE \A x \in Deliveries : Owed(x)' => Held(x)'
  BY <1>4, Unmoved DEF DeleteEndpoint, Owed
<1>5. ASSUME EmitStart PROVE \A x \in Deliveries : Owed(x)' => Held(x)'
  <2>1. emit.row = NoOne /\ emit'.row = NoOne
    BY <1>5 DEF EmitHolds, EmitStart, NoEmit
  <2>2. QED
    BY <1>5, <2>1, Unmoved DEF EmitStart, Owed
<1>6. ASSUME EmitEnqueue PROVE \A x \in Deliveries : Owed(x)' => Held(x)'
  <2>1. PICK d \in Deliveries : d = emit.row
    BY <1>6 DEF EmitEnqueue
  <2>2. queued'[d][JobRetries] > 0 /\ JobRetries \in 0..JobRetries
    BY <1>6, <2>1 DEF EmitEnqueue, Enqueue
  <2>3. \A x \in Deliveries \ {d} : queued'[x] = queued[x]
    BY <1>6, <2>1 DEF EmitEnqueue, Enqueue
  <2>4. Held(d)'
    BY <2>2 DEF Held
  <2>5. UNCHANGED <<row, worker, orphan>>
    BY <1>6 DEF EmitEnqueue
  <2>6. QED
    BY <2>1, <2>3, <2>4, <2>5, Moved DEF Owed
<1>7. ASSUME EmitEnd PROVE \A x \in Deliveries : Owed(x)' => Held(x)'
  <2>1. emit.row = NoOne /\ emit'.row = NoOne
    BY <1>7 DEF EmitHolds, EmitEnd, NoEmit
  <2>2. QED
    BY <1>7, <2>1, Unmoved DEF EmitEnd, Owed
<1>8. ASSUME EmitDies PROVE \A x \in Deliveries : Owed(x)' => Held(x)'
  BY <1>8 DEF EmitDies, Owed, Held, Working
<1>9. ASSUME NEW e \in Endpoints, NEW d \in Deliveries, EmitInsert(e, d) PROVE \A x \in Deliveries : Owed(x)' => Held(x)'
  <2>1. CASE endpoint[e] = "none"
    BY <1>9, <2>1, Unmoved DEF EmitInsert, NoEmit, Owed
  <2>2. CASE endpoint[e] # "none"
    <3>1. emit' = [on |-> TRUE, todo |-> emit.todo \ {e}, row |-> d] /\ row' = [row EXCEPT ![d] = [ep |-> e, status |-> "pending", attempts |-> 0]]
      BY <1>9, <2>2 DEF EmitInsert
    <3>2. emit'.row = d
      BY <1>9, <3>1
    <3>3. Held(d)'
      BY <3>2 DEF Held
    <3>4. \A x \in Deliveries \ {d} : Owed(x)' => Owed(x)
      BY <3>1 DEF Owed
    <3>5. UNCHANGED <<queued, worker, orphan>> /\ emit.row = NoOne
      BY <1>9 DEF EmitInsert
    <3>6. QED
      BY <3>3, <3>4, <3>5, Moved
  <2>3. QED
    BY <2>1, <2>2
<1>10. ASSUME NEW w \in Workers, NEW d \in Deliveries, NEW left \in 0..JobRetries, WorkerTake(w, d, left) PROVE \A x \in Deliveries : Owed(x)' => Held(x)'
  <2>1. UNCHANGED <<row, emit, orphan>> /\ \A x \in Deliveries \ {d} : queued'[x] = queued[x]
    BY <1>10 DEF WorkerTake
  <2>2. worker[w].d = NoOne /\ \A v \in Workers \ {w} : worker'[v] = worker[v]
    BY <1>10 DEF WorkerTake
  <2>3. Owed(d) => Working(w, d)'
    BY <1>10 DEF WorkerTake, Owed, Terminal, Working
  <2>4. Owed(d)' => Held(d)'
    BY <2>1, <2>3 DEF Owed, Held
  <2>5. QED
    BY <2>1, <2>2, <2>4, Moved DEF Owed
<1>11. ASSUME NEW w \in Workers, WorkerEndpoint(w) PROVE \A x \in Deliveries : Owed(x)' => Held(x)'
  <2>1. PICK d \in Deliveries : d = worker[w].d
    BY <1>11 DEF WorkerEndpoint
  <2>2. \A v \in Workers \ {w} : worker'[v] = worker[v]
    BY <1>11 DEF WorkerEndpoint
  <2>3. \A x \in Deliveries \ {d} : Owed(x)' => Owed(x)
    BY <1>11, <2>1 DEF WorkerEndpoint, SetRow, Owed
  <2>4. Owed(d)' => Held(d)'
    <3>1. CASE endpoint[row[d].ep] = "none"
      BY <1>11, <2>1, <3>1 DEF WorkerEndpoint, SetRow, Owed
    <3>2. CASE endpoint[row[d].ep] # "none"
      <4>1. Working(w, d)'
        BY <1>11, <2>1, <3>2 DEF WorkerEndpoint, Working
      <4>2. QED
        BY <4>1 DEF Held
    <3>3. QED
      BY <3>1, <3>2
  <2>5. UNCHANGED <<queued, emit, orphan>>
    BY <1>11 DEF WorkerEndpoint
  <2>6. QED
    BY <2>1, <2>2, <2>3, <2>4, <2>5, Moved
<1>12. ASSUME NEW w \in Workers, WorkerPost(w) PROVE \A x \in Deliveries : Owed(x)' => Held(x)'
  <2>1. \A v \in Workers, x \in Deliveries : Working(v, x) => Working(v, x)'
    BY <1>12 DEF WorkerPost, Execution, Working
  <2>2. QED
    BY <1>12, <2>1 DEF WorkerPost, Owed, Held
<1>13. ASSUME NEW w \in Workers, WorkerRecord(w) PROVE \A x \in Deliveries : Owed(x)' => Held(x)'
  <2>1. PICK d \in Deliveries : d = worker[w].d
    BY <1>13 DEF WorkerRecord
  <2>2. \A v \in Workers \ {w} : worker'[v] = worker[v]
    BY <1>13 DEF WorkerRecord
  <2>3. \A x \in Deliveries \ {d} : Owed(x)' => Owed(x)
    BY <1>13, <2>1 DEF WorkerRecord, SetRow, Owed
  <2>4. Owed(d)' => Held(d)'
    <3>1. CASE worker'[w].pc = "retry"
      <4>1. Working(w, d)'
        BY <1>13, <2>1, <3>1 DEF WorkerRecord, Working
      <4>2. QED
        BY <4>1 DEF Held
    <3>2. CASE worker'[w].pc # "retry"
      <4>1. PICK st \in Terminal : row' = SetRow(d, st, worker[w].attempts + 1)
        BY <1>13, <2>1, <3>2 DEF WorkerRecord, Terminal
      <4>2. row'[d].status \in Terminal \cup {"deleted"}
        BY <4>1 DEF SetRow, Row
      <4>3. QED
        BY <4>2 DEF Owed, Terminal
    <3>3. QED
      BY <3>1, <3>2
  <2>5. UNCHANGED <<queued, emit, orphan>>
    BY <1>13 DEF WorkerRecord
  <2>6. QED
    BY <2>1, <2>2, <2>3, <2>4, <2>5, Moved
<1>14. ASSUME NEW w \in Workers, WorkerRetry(w) PROVE \A x \in Deliveries : Owed(x)' => Held(x)'
  <2>1. PICK d \in Deliveries : d = worker[w].d
    BY <1>14 DEF WorkerRetry
  <2>2. \A v \in Workers \ {w} : worker'[v] = worker[v]
    BY <1>14 DEF WorkerRetry
  <2>3. queued'[d][JobRetries] > 0 /\ JobRetries \in 0..JobRetries
    BY <1>14, <2>1 DEF WorkerRetry, Enqueue
  <2>4. \A x \in Deliveries \ {d} : queued'[x] = queued[x]
    BY <1>14, <2>1 DEF WorkerRetry, Enqueue
  <2>5. Held(d)'
    BY <2>3 DEF Held
  <2>6. UNCHANGED <<row, emit, orphan>>
    BY <1>14 DEF WorkerRetry
  <2>7. \A x \in Deliveries \ {d} : Owed(x)' => Owed(x)
    BY <2>6 DEF Owed
  <2>8. emit'.row = emit.row
    BY <2>6
  <2>9. \A v \in Workers : worker'[v] = worker[v] \/ worker[v].d \in {d, NoOne}
    BY <2>1, <2>2
  <2>10. orphan \subseteq orphan'
    BY <2>6
  <2>11. QED
    BY <2>4, <2>5, <2>7, <2>8, <2>9, <2>10, Moved
<1>15. ASSUME NEW w \in Workers, WorkerDies(w) PROVE \A x \in Deliveries : Owed(x)' => Held(x)'
  <2>1. PICK d \in Deliveries : d = worker[w].d
    BY <1>15 DEF WorkerDies
  <2>2. \A v \in Workers \ {w} : worker'[v] = worker[v]
    BY <1>15 DEF WorkerDies
  <2>3. UNCHANGED <<row, emit>> /\ orphan \subseteq orphan'
    BY <1>15 DEF WorkerDies
  <2>4. \A x \in Deliveries \ {d} : queued'[x] = queued[x]
    <3>1. CASE worker[w].left > 0
      BY <1>15, <2>1, <3>1 DEF WorkerDies
    <3>2. CASE ~(worker[w].left > 0)
      BY <1>15, <3>2 DEF WorkerDies
    <3>3. QED
      BY <3>1, <3>2
  <2>5. Owed(d)' => Held(d)'
    <3>1. CASE worker[w].left > 0
      <4>1. worker[w].left - 1 \in 0..JobRetries
        BY <3>1
      <4>2. queued'[d][worker[w].left - 1] > 0
        BY <1>15, <2>1, <3>1, <4>1 DEF WorkerDies
      <4>3. QED
        BY <4>1, <4>2 DEF Held
    <3>2. CASE ~(worker[w].left > 0) /\ HeldBesides(w, d)
      <4>1. UNCHANGED queued
        BY <1>15, <3>2 DEF WorkerDies
      <4>2. \A v \in Workers \ {w} : Working(v, d) => Working(v, d)'
        BY <2>2 DEF Working
      <4>3. QED
        BY <2>3, <3>2, <4>1, <4>2 DEF HeldBesides, Held
    <3>3. CASE ~(worker[w].left > 0) /\ ~HeldBesides(w, d)
      <4>1. orphan' = IF Working(w, d) THEN orphan \cup {d} ELSE orphan
        BY <1>15, <2>1, <3>3 DEF WorkerDies
      <4>2. Owed(d)' => Working(w, d) \/ d \in orphan
        BY <2>3, <3>3 DEF Owed, Held, HeldBesides
      <4>3. QED
        BY <4>1, <4>2 DEF Held
    <3>4. QED
      BY <3>1, <3>2, <3>3
  <2>6. \A v \in Workers : worker'[v] = worker[v] \/ worker[v].d \in {d, NoOne}
    BY <2>1, <2>2
  <2>7. \A x \in Deliveries \ {d} : Owed(x)' => Owed(x)
    BY <2>3 DEF Owed
  <2>8. QED
    BY <2>3, <2>4, <2>5, <2>6, <2>7, Moved
<1>16. ASSUME NEW w \in Workers, WorkerComplete(w) PROVE \A x \in Deliveries : Owed(x)' => Held(x)'
  <2>1. \A v \in Workers, x \in Deliveries : Working(v, x) => Working(v, x)'
    BY <1>16 DEF WorkerComplete, Working
  <2>2. QED
    BY <1>16, <2>1 DEF WorkerComplete, Owed, Held
<1>17. CASE UNCHANGED webhookVars
  BY <1>17, Unmoved DEF webhookVars, Owed
<1>18. QED
  BY <1>1, <1>2, <1>3, <1>4, <1>5, <1>6, <1>7, <1>8, <1>9, <1>10, <1>11, <1>12, <1>13, <1>14, <1>15, <1>16, <1>17 DEF WebhookNext, EmitStep, WorkerStep

\* No delivery still owed is forgotten: a request, a queued job or a worker
\* has it, or the process that had it died for good.
THEOREM DeliveriesHeld == WebhookSpec => []HeldOrOrphaned
<1>1. WebhookInit => WebhookTypeOK
  BY WebhookAssumption DEF WebhookInit, WebhookTypeOK, Unborn, Idle, NoEmit, Row, Execution, Statuses
<1>2. WebhookInit => BusyHolds /\ EmitHolds /\ HeldOrOrphaned
  BY DEF WebhookInit, BusyHolds, EmitHolds, HeldOrOrphaned, Unborn, Idle, NoEmit
<1>3. HeldInv /\ [WebhookNext]_webhookVars => HeldInv'
  BY WebhookTypeStep, BusyStep, EmitStepKeeps, HeldStep DEF HeldInv
<1>4. HeldInv => HeldOrOrphaned
  BY DEF HeldInv
<1>5. QED
  BY <1>1, <1>2, <1>3, <1>4, PTL DEF WebhookSpec, HeldInv
=============================================================================
