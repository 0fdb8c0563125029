------------------------------- MODULE Docgen -------------------------------
(***************************************************************************)
(* The generated documents of one diagram: generation and regeneration of  *)
(* one section, by the panel of one user or by another client, and what    *)
(* the panel shows.  A document's text is the revision each of its         *)
(* sections describes; a version is one row and one object in storage.     *)
(***************************************************************************)
EXTENDS Integers, FiniteSets, Sequences, SequencesExt

CONSTANTS
    Sections,     \* section names
    Headed,       \* revisions with a label or a description that reads like a heading
    MaxVersions,  \* bound: versions of the document
    Jobs,         \* bound: requests in flight
    MaxJobs,      \* bound: requests sent
    PageLimit     \* rows of one page of the list

ASSUME DocgenAssumption == MaxVersions \in Nat

VARIABLES
    specs,        \* [1..MaxVersions -> status of the row]
    stored,       \* [1..MaxVersions -> text of the object, or NoText]
    described,    \* revision of the diagram
    jobs,         \* [Jobs -> request]
    begun,        \* requests sent so far
    docs          \* the panel: [items, state, next, sel, shown]

docgenVars == <<specs, stored, described, jobs, begun, docs>>

NoText == [s \in Sections |-> 0]
Mixed == 3  \* a section with text of another
NoSpec == "none"
NoJob == [op |-> "none"]
Versions == {v \in 1..MaxVersions : specs[v] # NoSpec}
LatestSpecVersion == Max(Versions \cup {0})
BuildAllSections(rev) == [s \in Sections |-> rev]

DocgenInit ==
    /\ \E k \in 0..(MaxVersions - 1) :
         /\ specs = [v \in 1..MaxVersions |->
              IF v > k THEN NoSpec ELSE IF v = k THEN "current" ELSE "superseded"]
         /\ stored = [v \in 1..MaxVersions |-> IF v > k THEN NoText ELSE BuildAllSections(1)]
    /\ described = 1 /\ jobs = [j \in Jobs |-> NoJob] /\ begun = 0
    /\ docs = [items |-> <<>>, state |-> "loading", next |-> 0, sel |-> 0, shown |-> "idle"]

-----------------------------------------------------------------------------
(* generate.ts and regenerateSection.ts                                    *)

Job(op, by, base, section) ==
    [op |-> op, by |-> by, base |-> base, section |-> section, at |-> "sent", text |-> NoText, version |-> 0, rows |-> <<>>]
Sent(j, op) == jobs[j].op = op /\ jobs[j].at = "sent"
Advanced(k, at, text, version, rows) ==
    [op |-> k.op, by |-> k.by, base |-> k.base, section |-> k.section, at |-> at, text |-> text, version |-> version, rows |-> rows]
JobGoes(j, at) == LET k == jobs[j] IN jobs' = [jobs EXCEPT ![j] = Advanced(k, at, k.text, k.version, k.rows)]
JobReads(j, at, text) == LET k == jobs[j] IN jobs' = [jobs EXCEPT ![j] = Advanced(k, at, text, k.version, k.rows)]

\* the session, the role and can('diagram:mutate'); a viewer's request and a missing base end here
RefuseSpec(j) ==
    /\ jobs[j].op # "none" /\ jobs[j].at = "sent"
    /\ \E why \in {"forbidden", "not_found"} : JobGoes(j, why)
    /\ UNCHANGED <<specs, stored, described, begun, docs>>
\* loadSceneSemantics: the scene of now, for every section
GenerateSpecDocument(j) ==
    /\ Sent(j, "generate")
    /\ JobReads(j, "loaded", BuildAllSections(described))
    /\ UNCHANGED <<specs, stored, described, begun, docs>>
\* The text is cut at the first line that reads like each heading: every section as it was, unless a label or the
\* description holds such a line itself, and then the sections run into each other.
ParseMarkdownSections(text) ==
    IF \E s \in Sections : text[s] \in Headed THEN [s \in Sections |-> Mixed] ELSE text
ReadBase(j) ==
    /\ Sent(j, "regenerate") /\ jobs[j].base \in Versions
    /\ JobReads(j, "parsed", ParseMarkdownSections(stored[jobs[j].base]))
    /\ UNCHANGED <<specs, stored, described, begun, docs>>
RegenerateSpecSection(j) ==
    /\ jobs[j].op = "regenerate" /\ jobs[j].at = "parsed"
    /\ JobReads(j, "loaded", [jobs[j].text EXCEPT ![jobs[j].section] = described])
    /\ UNCHANGED <<specs, stored, described, begun, docs>>

\* insertNewSpecVersion: the next number, the object under that number, then the two rows in one transaction
NumberSpec(j) ==
    /\ jobs[j].op # "none" /\ jobs[j].at = "loaded" /\ LatestSpecVersion < MaxVersions
    /\ LET k == jobs[j] IN jobs' = [jobs EXCEPT ![j] = Advanced(k, "numbered", k.text, LatestSpecVersion + 1, k.rows)]
    /\ UNCHANGED <<specs, stored, described, begun, docs>>
PutMarkdown(j) ==
    /\ jobs[j].op # "none" /\ jobs[j].at = "numbered"
    /\ stored' = [stored EXCEPT ![jobs[j].version] = jobs[j].text]
    /\ JobGoes(j, "put")
    /\ UNCHANGED <<specs, described, begun, docs>>
\* for the mutant: a regeneration supersedes the version it was made from
SupersedeBase(rows, k) ==
    [v \in DOMAIN rows |-> IF rows[v] = "current" /\ (k.op = "regenerate" => v = k.base)
                           THEN "superseded" ELSE rows[v]]
SupersedeCurrent(rows, k) ==
    [v \in DOMAIN rows |-> IF rows[v] = "current" THEN "superseded" ELSE rows[v]]
\* the unique index on the version: whoever comes second with a number rolls back
InsertNewSpecVersion(j) ==
    LET k == jobs[j] IN
    /\ k.op # "none" /\ k.at = "put"
    /\ IF k.version \in Versions
       THEN JobGoes(j, "error") /\ UNCHANGED specs
       ELSE /\ specs' = [SupersedeCurrent(specs, k) EXCEPT ![k.version] = "current"]
            /\ JobGoes(j, IF k.op = "generate" THEN "inserted" ELSE "created")
    /\ UNCHANGED <<stored, described, begun, docs>>
\* the spec.generated event goes out before the answer
AnnounceGenerated(j) ==
    /\ jobs[j].op = "generate" /\ jobs[j].at = "inserted"
    /\ JobGoes(j, "created")
    /\ UNCHANGED <<specs, stored, described, begun, docs>>
\* listSpecDocuments: newest first, from below the cursor (0: from the top)
SpecsBelow(cursor) == SetToSortSeq({v \in Versions : cursor = 0 \/ v < cursor}, LAMBDA a, b : a > b)
ListSpecDocuments(j) ==
    LET rows == SpecsBelow(jobs[j].base)
        page == SubSeq(rows, 1, IF Len(rows) > PageLimit THEN PageLimit ELSE Len(rows))
    IN /\ Sent(j, "list")
       /\ jobs' = [jobs EXCEPT ![j] = Advanced(@, "created", @.text,
              IF Len(rows) > PageLimit THEN page[Len(page)] ELSE 0,
              [n \in DOMAIN page |-> [v |-> page[n], status |-> specs[page[n]]]])]
       /\ UNCHANGED <<specs, stored, described, begun, docs>>
\* the request or its answer is lost, or the process dies between two steps
LoseJob(j) ==
    /\ jobs[j].op # "none" /\ jobs[j].at # "error"
    /\ JobGoes(j, "error")
    /\ UNCHANGED <<specs, stored, described, begun, docs>>
DiagramChanges ==
    /\ described < 2 /\ described' = described + 1
    /\ UNCHANGED <<specs, stored, jobs, begun, docs>>

-----------------------------------------------------------------------------
(* DocsPanel                                                               *)

StartJob(j, job) ==
    /\ jobs[j].op = "none" /\ begun < MaxJobs
    /\ jobs' = [jobs EXCEPT ![j] = job] /\ begun' = begun + 1
    /\ UNCHANGED <<specs, stored, described, docs>>
Mine(op) == \E j \in Jobs : jobs[j].op = op /\ jobs[j].by = "panel"
TakesForCurrent(v) == \E n \in DOMAIN docs.items : docs.items[n] = [v |-> v, status |-> "current"]

LoadList(j) == docs.state = "loading" /\ ~Mine("list") /\ StartJob(j, Job("list", "panel", 0, "none"))
HandleLoadMore(j) == docs.state = "ready" /\ docs.next # 0 /\ ~Mine("list") /\ StartJob(j, Job("list", "panel", docs.next, "none"))
HandleGenerate(j) == ~Mine("generate") /\ StartJob(j, Job("generate", "panel", 0, "none"))
\* offered by SpecViewer while a version the panel takes for current is on the screen
HandleRegenerateSection(j) ==
    /\ docs.shown = "ready" /\ TakesForCurrent(docs.sel)
    /\ ~Mine("regenerate")
    /\ \E s \in Sections : StartJob(j, Job("regenerate", "panel", docs.sel, s))
OtherClient(j) == \E op \in {"generate", "regenerate"}, v \in Versions \cup {0}, s \in Sections :
    (op = "regenerate") = (v # 0) /\ StartJob(j, Job(op, "other", v, s))

\* fetchContentFor: the version is selected at once and its text comes later, unless it fails; an answer that is
\* not the latest request's is dropped (contentRequestIdRef).
Fetching(d, v) == [d EXCEPT !.sel = v, !.shown = "loading"]
SelectVersion ==
    /\ docs.state = "ready"
    /\ \E n \in DOMAIN docs.items : docs' = Fetching(docs, docs.items[n].v)
    /\ UNCHANGED <<specs, stored, described, jobs, begun>>
FetchContentFor ==
    /\ docs.shown = "loading"
    /\ docs' \in {[docs EXCEPT !.shown = "ready"], [docs EXCEPT !.shown = "error"]}
    /\ UNCHANGED <<specs, stored, described, jobs, begun>>

\* docgenClient: created, forbidden, not_found for a regeneration only, or error
DocgenClient(k) == IF k.at = "not_found" /\ k.op # "regenerate" THEN "error" ELSE k.at
ListedDocs(d, k) ==
    IF k.at = "created"
    THEN [d EXCEPT !.items = IF k.base = 0 THEN k.rows ELSE @ \o k.rows, !.next = k.version, !.state = "ready"]
    ELSE IF k.base = 0 THEN [d EXCEPT !.state = "error"] ELSE d
\* a generation goes on top of the list; a regeneration also marks the version it was made from
Regenerated(d, k) ==
    IF k.op = "regenerate"
    THEN [d EXCEPT !.items = [n \in DOMAIN @ |-> IF @[n].v = k.base THEN [@[n] EXCEPT !.status = "superseded"] ELSE @[n]]]
    ELSE d
TakeJob(j) ==
    LET k == jobs[j] IN
    /\ k.op # "none" /\ k.at \in {"created", "forbidden", "not_found", "error"}
    /\ docs' = IF k.by = "other" THEN docs
               ELSE IF k.op = "list" THEN ListedDocs(docs, k)
               ELSE IF DocgenClient(k) # "created" THEN docs
               ELSE Fetching([Regenerated(docs, k) EXCEPT !.items = <<[v |-> k.version, status |-> "current"]>> \o @], k.version)
    /\ jobs' = [jobs EXCEPT ![j] = NoJob]
    /\ UNCHANGED <<specs, stored, described, begun>>

DocgenNext ==
    \/ DiagramChanges \/ SelectVersion \/ FetchContentFor
    \/ \E j \in Jobs :
         \/ LoadList(j) \/ HandleLoadMore(j) \/ HandleGenerate(j) \/ HandleRegenerateSection(j) \/ OtherClient(j)
         \/ RefuseSpec(j) \/ GenerateSpecDocument(j) \/ ReadBase(j) \/ RegenerateSpecSection(j)
         \/ NumberSpec(j) \/ PutMarkdown(j) \/ InsertNewSpecVersion(j) \/ AnnounceGenerated(j) \/ ListSpecDocuments(j)
         \/ LoseJob(j) \/ TakeJob(j)

DocgenSpec == DocgenInit /\ [][DocgenNext]_docgenVars

-----------------------------------------------------------------------------
\* However generations and regenerations overlap and wherever they fail, the versions have no gap and exactly the
\* newest is current: the number is read before the transaction, and the unique index turns a race into an error.
OneCurrentVersion ==
    /\ Versions = 1..LatestSpecVersion
    /\ \A v \in Versions : specs[v] = "current" <=> v = LatestSpecVersion
=============================================================================
