------------------------------- MODULE OpLog -------------------------------
(***************************************************************************)
(* The operation log of ONE diagram: the append protocol of                *)
(* diagram-sync/operations.ts run by any number of concurrent requests     *)
(* (REST operations:batch and the WebSocket mutation message both call     *)
(* appendOperation), and the readers that catch up by sequence number.     *)
(*                                                                         *)
(* Every query of appendOperation is one step, so requests interleave      *)
(* between queries.  The table is Postgres at READ COMMITTED: a SELECT     *)
(* sees the committed rows at the moment it runs; a row written by an open *)
(* transaction is invisible to the others, but an INSERT that collides     *)
(* with it on a unique index waits until that transaction ends.            *)
(***************************************************************************)
EXTENDS Naturals

CONSTANTS Handlers,             \* request slots of the server
          MutationIds,          \* client-generated clientMutationIds
          NoMutation,           \* the id of a slot that serves no request
          Readers,              \* clients that follow the log by sequence
          MAX_SEQUENCE_RETRIES  \* attempts of one append, 5 in the code

ASSUME RetriesAssumption == MAX_SEQUENCE_RETRIES \in Nat \ {0}
ASSUME NoMutationAssumption == NoMutation \notin MutationIds

VARIABLES
  rows,       \* committed rows of diagram_operations
  staged,     \* staged[h]: rows written by h's open transaction ({} or one)
  \* The locals of the request that slot h serves.
  pc,         \* pc[h]: the query of appendOperation that h runs next
  mid,        \* mid[h]: clientMutationId of the envelope
  base,       \* base[h]: baseRevision of the envelope
  attempt,    \* attempt[h]: the loop counter of appendOperation
  next,       \* next[h]: nextSequence computed by the open attempt
  found,      \* found[h]: the row the reply is built from ({} or one)
  revision,   \* revision[h]: currentRevision read by buildResult
  missing,    \* missing[h]: sequences of missingOperations
  \* Clients that follow the log.
  have,       \* have[r]: sequences whose operation reader r has received
  cursor,     \* cursor[r]: the revision reader r believes it is at
  \* Observation only: no guard reads these.
  acks,       \* every ack sent so far
  startHead   \* startHead[h]: head of the log when h's request arrived

table == <<rows, staged>>
readerVars == <<have, cursor>>
vars == <<table, pc, mid, base, attempt, next, found, revision, missing,
          readerVars, acks, startHead>>

Row == [sequence: Nat, clientMutationId: MutationIds, baseRevision: Nat]

Ack == [clientMutationId: MutationIds, sequence: Nat]

Steps == {"idle", "findExisting", "begin", "insert", "commit", "reread",
          "latest", "missing", "respond", "refuse"}

----------------------------------------------------------------------------
(* Queries.                                                                *)

Sequences(S) == {r.sequence : r \in S}

\* ORDER BY sequence DESC LIMIT 1, or 0 when there is no row.
HeadOf(S) ==
  CHOOSE n \in Sequences(S) \cup {0} : \A k \in Sequences(S) \cup {0} : k <= n

LatestSequence == HeadOf(rows)

FindExisting(m) == {r \in rows : r.clientMutationId = m}

OperationsAfter(n) == {r \in rows : r.sequence > n}

\* Mutant of Collides: the (diagram_id, client_mutation_id) index is missing.
CollidesOnSequenceOnly(r, q) == r.sequence = q.sequence

\* The two unique indexes of diagram_operations.
Collides(r, q) ==
  \/ r.sequence = q.sequence
  \/ r.clientMutationId = q.clientMutationId

----------------------------------------------------------------------------
Init ==
  /\ rows = {}
  /\ staged = [h \in Handlers |-> {}]
  /\ pc = [h \in Handlers |-> "idle"]
  /\ mid = [h \in Handlers |-> NoMutation]
  /\ base = [h \in Handlers |-> 0]
  /\ attempt = [h \in Handlers |-> 0]
  /\ next = [h \in Handlers |-> 0]
  /\ found = [h \in Handlers |-> {}]
  /\ revision = [h \in Handlers |-> 0]
  /\ missing = [h \in Handlers |-> {}]
  /\ have = [r \in Readers |-> {}]
  /\ cursor = [r \in Readers |-> 0]
  /\ acks = {}
  /\ startHead = [h \in Handlers |-> 0]

Goto(h, step) == pc' = [pc EXCEPT ![h] = step]

\* A request that passed session, RBAC, envelope and asset checks reaches
\* appendOperation.  Its clientMutationId may be a resubmission; its
\* baseRevision is a revision some earlier reply reported.
Submit(h, m, b) ==
  /\ pc[h] = "idle"
  /\ Goto(h, "findExisting")
  /\ mid' = [mid EXCEPT ![h] = m]
  /\ base' = [base EXCEPT ![h] = b]
  /\ startHead' = [startHead EXCEPT ![h] = LatestSequence]
  /\ UNCHANGED <<table, attempt, next, found, revision, missing, readerVars,
                 acks>>

\* An existing row short-circuits to buildResult: no write is attempted.
FindExistingOperation(h) ==
  /\ pc[h] = "findExisting"
  /\ found' = [found EXCEPT ![h] = FindExisting(mid[h])]
  /\ Goto(h, IF FindExisting(mid[h]) = {} THEN "begin" ELSE "latest")
  /\ UNCHANGED <<table, mid, base, attempt, next, revision, missing,
                 readerVars, acks, startHead>>

\* Mutant of BeginAttempt: the number comes from a counter that also sees the
\* rows of open transactions.
BeginAttemptDirty(h) ==
  /\ pc[h] = "begin"
  /\ next' = [next EXCEPT ![h] =
                HeadOf(rows \cup UNION {staged[g] : g \in Handlers}) + 1]
  /\ Goto(h, "insert")
  /\ UNCHANGED <<table, mid, base, attempt, found, revision, missing,
                 readerVars, acks, startHead>>

\* BEGIN; SELECT the latest sequence.
BeginAttempt(h) ==
  /\ pc[h] = "begin"
  /\ next' = [next EXCEPT ![h] = LatestSequence + 1]
  /\ Goto(h, "insert")
  /\ UNCHANGED <<table, mid, base, attempt, found, revision, missing,
                 readerVars, acks, startHead>>

NewRow(h) == [sequence |-> next[h], clientMutationId |-> mid[h],
              baseRevision |-> base[h]]

\* Mutant of InsertUnblocked: the INSERT waits for every open transaction, as
\* under a table lock taken after BEGIN.
InsertWaitsForAll(h) ==
  \A g \in Handlers \ {h} : pc[g] \notin {"insert", "commit"}

\* The INSERT waits for every open transaction it collides with ...
InsertUnblocked(h) ==
  \A g \in Handlers \ {h} : \A q \in staged[g] : ~Collides(NewRow(h), q)

\* Mutant of InsertRow: the ack is built from the inserted row before COMMIT.
InsertRowAckEarly(h) ==
  /\ pc[h] = "insert"
  /\ InsertUnblocked(h)
  /\ \A q \in rows : ~Collides(NewRow(h), q)
  /\ staged' = [staged EXCEPT ![h] = {NewRow(h)}]
  /\ found' = [found EXCEPT ![h] = {NewRow(h)}]
  /\ Goto(h, "latest")
  /\ UNCHANGED <<rows, mid, base, attempt, next, revision, missing,
                 readerVars, acks, startHead>>

\* ... then writes the row if no committed row collides ...
InsertRow(h) ==
  /\ pc[h] = "insert"
  /\ InsertUnblocked(h)
  /\ \A q \in rows : ~Collides(NewRow(h), q)
  /\ staged' = [staged EXCEPT ![h] = {NewRow(h)}]
  /\ Goto(h, "commit")
  /\ UNCHANGED <<rows, mid, base, attempt, next, found, revision, missing,
                 readerVars, acks, startHead>>

\* ... or fails with a unique violation, which rolls the transaction back.
UniqueViolation(h) ==
  /\ pc[h] = "insert"
  /\ InsertUnblocked(h)
  /\ \E q \in rows : Collides(NewRow(h), q)
  /\ attempt' = [attempt EXCEPT ![h] = @ + 1]
  /\ Goto(h, "reread")
  /\ UNCHANGED <<table, mid, base, next, found, revision, missing,
                 readerVars, acks, startHead>>

\* COMMIT: the staged row becomes durable and visible in one step.
Commit(h) ==
  /\ pc[h] = "commit"
  /\ rows' = rows \cup staged[h]
  /\ found' = [found EXCEPT ![h] = staged[h]]
  /\ staged' = [staged EXCEPT ![h] = {}]
  /\ Goto(h, "latest")
  /\ UNCHANGED <<mid, base, attempt, next, revision, missing, readerVars,
                 acks, startHead>>

\* Mutants of AfterViolation: the retry bound is off by one, either way.
AfterViolationOneMore(h) ==
  IF FindExisting(mid[h]) # {} THEN "latest"
  ELSE IF attempt[h] <= MAX_SEQUENCE_RETRIES THEN "begin" ELSE "refuse"

AfterViolationOneLess(h) ==
  IF FindExisting(mid[h]) # {} THEN "latest"
  ELSE IF attempt[h] + 1 < MAX_SEQUENCE_RETRIES THEN "begin" ELSE "refuse"

\* After a violation: where the loop goes next.
AfterViolation(h) ==
  IF FindExisting(mid[h]) # {} THEN "latest"
  ELSE IF attempt[h] < MAX_SEQUENCE_RETRIES THEN "begin" ELSE "refuse"

\* After a violation: the same mutation won elsewhere (answer with its row),
\* or only the sequence was taken (try again, at most the retry limit).
Reread(h) ==
  /\ pc[h] = "reread"
  /\ found' = [found EXCEPT ![h] = FindExisting(mid[h])]
  /\ Goto(h, AfterViolation(h))
  /\ UNCHANGED <<table, mid, base, attempt, next, revision, missing,
                 readerVars, acks, startHead>>

\* buildResult, first query: the current revision.
ReadRevision(h) ==
  /\ pc[h] = "latest"
  /\ revision' = [revision EXCEPT ![h] = LatestSequence]
  /\ Goto(h, "missing")
  /\ UNCHANGED <<table, mid, base, attempt, next, found, missing,
                 readerVars, acks, startHead>>

\* Mutant of MissingOperations: a base two behind is treated as current.
MissingOperationsLate(op, current) ==
  IF op.baseRevision + 2 < current
  THEN Sequences({r \in OperationsAfter(op.baseRevision) :
                    r.clientMutationId # op.clientMutationId})
  ELSE {}

\* The operations a row's base missed: none for a base at most one behind.
MissingOperations(op, current) ==
  IF op.baseRevision + 1 < current
  THEN Sequences({r \in OperationsAfter(op.baseRevision) :
                    r.clientMutationId # op.clientMutationId})
  ELSE {}

\* buildResult, second query, on the table as it is by then.
ReadMissing(h) ==
  /\ pc[h] = "missing"
  /\ \E op \in found[h] :
       missing' = [missing EXCEPT ![h] = MissingOperations(op, revision[h])]
  /\ Goto(h, "respond")
  /\ UNCHANGED <<table, mid, base, attempt, next, found, revision,
                 readerVars, acks, startHead>>

\* The request is over: its locals are gone and its transaction, if one is
\* still open, is rolled back.
Release(h) ==
  /\ Goto(h, "idle")
  /\ staged' = [staged EXCEPT ![h] = {}]
  /\ mid' = [mid EXCEPT ![h] = NoMutation]
  /\ base' = [base EXCEPT ![h] = 0]
  /\ attempt' = [attempt EXCEPT ![h] = 0]
  /\ next' = [next EXCEPT ![h] = 0]
  /\ found' = [found EXCEPT ![h] = {}]
  /\ revision' = [revision EXCEPT ![h] = 0]
  /\ missing' = [missing EXCEPT ![h] = {}]
  /\ startHead' = [startHead EXCEPT ![h] = 0]
  /\ UNCHANGED <<rows, readerVars>>

\* The post-commit work of the route succeeded (compaction check, webhook
\* event) and the 200 body is sent.
Respond(h) ==
  /\ pc[h] = "respond"
  /\ acks' = acks \cup {[clientMutationId |-> op.clientMutationId,
                         sequence |-> op.sequence] : op \in found[h]}
  /\ Release(h)

\* Retries exhausted: 409.
Refuse(h) == pc[h] = "refuse" /\ Release(h) /\ UNCHANGED acks

\* Any other error, a lost connection or a crash of the process: the request
\* ends without a 200.  After COMMIT the row stays: the ack is lost, not the
\* operation.
Fail(h) == pc[h] # "idle" /\ Release(h) /\ UNCHANGED acks

\* GET bootstrap: the whole log folded by one SELECT, with its revision.
Bootstrap(r) ==
  /\ have' = [have EXCEPT ![r] = Sequences(rows)]
  /\ cursor' = [cursor EXCEPT ![r] = LatestSequence]
  /\ UNCHANGED <<table, pc, mid, base, attempt, next, found, revision,
                 missing, acks, startHead>>

\* GET operations?afterSequence=cursor: only what is newer is ever sent.
CatchUp(r) ==
  /\ OperationsAfter(cursor[r]) # {}
  /\ have' = [have EXCEPT ![r] = @ \cup Sequences(OperationsAfter(cursor[r]))]
  /\ cursor' = [cursor EXCEPT ![r] = LatestSequence]
  /\ UNCHANGED <<table, pc, mid, base, attempt, next, found, revision,
                 missing, acks, startHead>>

AppendStep(h) ==
  \/ FindExistingOperation(h)
  \/ BeginAttempt(h)
  \/ InsertRow(h)
  \/ UniqueViolation(h)
  \/ Commit(h)
  \/ Reread(h)
  \/ ReadRevision(h)
  \/ ReadMissing(h)
  \/ Respond(h)
  \/ Refuse(h)

Next ==
  \/ \E h \in Handlers, m \in MutationIds, b \in Sequences(rows) \cup {0} :
       Submit(h, m, b)
  \/ \E h \in Handlers : AppendStep(h) \/ Fail(h)
  \/ \E r \in Readers : Bootstrap(r) \/ CatchUp(r)

Spec == Init /\ [][Next]_vars

\* An admitted request keeps running: Node resumes every settled promise.  An
\* INSERT that waits is woken each time the transaction it waits for ends, so
\* one that can proceed again and again does proceed.
FairSpec ==
  /\ Spec
  /\ \A h \in Handlers :
       /\ WF_vars(AppendStep(h))
       /\ SF_vars(InsertRow(h) \/ UniqueViolation(h))

----------------------------------------------------------------------------
(* Properties.                                                             *)

\* The shape of the state; the loop counter of appendOperation never passes
\* its limit.
TypeOK ==
  /\ rows \subseteq Row
  /\ staged \in [Handlers -> SUBSET Row]
  /\ pc \in [Handlers -> Steps]
  /\ mid \in [Handlers -> MutationIds \cup {NoMutation}]
  /\ base \in [Handlers -> Nat]
  /\ attempt \in [Handlers -> 0..MAX_SEQUENCE_RETRIES]
  /\ next \in [Handlers -> Nat]
  /\ found \in [Handlers -> SUBSET Row]
  /\ revision \in [Handlers -> Nat]
  /\ missing \in [Handlers -> SUBSET Nat]
  /\ have \in [Readers -> SUBSET Nat]
  /\ cursor \in [Readers -> Nat]
  /\ acks \subseteq Ack
  /\ startHead \in [Handlers -> Nat]

\* The committed log has no gap: writers that race, abort and retry still
\* number the operations 1, 2, 3, ... without a hole that a fold or an
\* afterSequence query would step over.
LogDense ==
  \A r \in rows :
    /\ r.sequence > 0
    /\ \A n \in 1..r.sequence : \E q \in rows : q.sequence = n

\* EDT-04 and the sequence index: a clientMutationId submitted any number of
\* times, concurrently or after a lost ack, has exactly one durable row, and
\* no two rows share a sequence.
OneRowPerKey ==
  \A r, q \in rows :
    \/ r.sequence = q.sequence
    \/ r.clientMutationId = q.clientMutationId
    => r = q

\* EDT-03: an ack that was ever sent names a row that is durable, with the
\* sequence that row has now; every resubmission is acked with the same one.
AckDurable ==
  \A a \in acks : \E r \in rows :
    /\ r.clientMutationId = a.clientMutationId
    /\ r.sequence = a.sequence

\* A client that follows the log with afterSequence has every operation up to
\* its cursor: no operation commits behind a revision a reader already has.
ReaderComplete ==
  \A r \in Readers : have[r] = 1..cursor[r]

\* A client at baseRevision that receives a reply and takes its own operation
\* and missingOperations holds every operation up to currentRevision,
\* although the revision and the missing rows are read by two queries.
ReplyCoversGap ==
  \A h \in Handlers : pc[h] = "respond" =>
    \A op \in found[h] : \A n \in (op.baseRevision + 1)..revision[h] :
      n = op.sequence \/ n \in missing[h]

\* A request is refused with 409 only after at least MAX_SEQUENCE_RETRIES
\* other operations were committed while it ran: contention, not bad luck
\* with one writer, and never after its own row was stored.
RefusedOnlyUnderContention ==
  \A h \in Handlers : pc[h] = "refuse" =>
    /\ LatestSequence >= startHead[h] + MAX_SEQUENCE_RETRIES
    /\ found[h] = {}

\* Append-only, in order: a step never changes or removes a committed row, and
\* a row that becomes visible is numbered after everything visible before it.
CommitsInOrder ==
  [][/\ rows \subseteq rows'
     /\ \A r \in rows' \ rows : \A q \in rows : q.sequence < r.sequence]_vars

\* Every admitted request is answered or fails: the retry loop ends, and no
\* INSERT waits for ever behind another request's transaction.
RequestEnds ==
  \A h \in Handlers : pc[h] = "findExisting" ~> pc[h] = "idle"
============================================================================
