---------------------------- MODULE OpLogProofs ----------------------------
(***************************************************************************)
(* Proofs about the operation log for any number of request slots, readers *)
(* and mutation ids and any retry limit.                                   *)
(***************************************************************************)
EXTENDS OpLogRefinement, TLAPS

----------------------------------------------------------------------------
(* The inductive invariant.  The safety properties are not inductive: they *)
(* rest on what each request knows at each of its steps.                   *)

\* The table has a head: the largest sequence, or 0.
HasHead ==
  \E n \in Sequences(rows) \cup {0} :
    \A k \in Sequences(rows) \cup {0} : k <= n

\* A row's base was a revision of the log when the request arrived.
BaseBehindRow == \A r \in rows : r.baseRevision < r.sequence

\* Before the first query and before an attempt: every lost attempt is paid
\* for by an operation another request committed.
BeforeAttempt(h) ==
  pc[h] \in {"findExisting", "begin"} =>
    /\ base[h] <= LatestSequence
    /\ attempt[h] < MAX_SEQUENCE_RETRIES
    /\ startHead[h] + attempt[h] <= LatestSequence

\* An open attempt numbers its row one after a head it has read.
OpenAttempt(h) ==
  pc[h] \in {"insert", "commit"} =>
    /\ next[h] > 0
    /\ next[h] <= LatestSequence + 1
    /\ base[h] < next[h]
    /\ attempt[h] < MAX_SEQUENCE_RETRIES
    /\ startHead[h] + attempt[h] < next[h]

\* A staged row is the next one of the log, and collides with no committed
\* row; only a request about to commit has one.
Staged(h) ==
  IF pc[h] = "commit"
  THEN /\ staged[h] = {NewRow(h)}
       /\ next[h] = LatestSequence + 1
       /\ \A q \in rows : q.clientMutationId # mid[h]
  ELSE staged[h] = {}

\* At most one transaction holds a staged row.
OneOpenWriter ==
  \A g, h \in Handlers : pc[g] = "commit" /\ pc[h] = "commit" => g = h

\* After a violation either the mutation is already stored or the attempt was
\* lost to a commit that happened while the request ran.
AfterLostAttempt(h) ==
  pc[h] = "reread" =>
    /\ base[h] <= LatestSequence
    /\ \/ FindExisting(mid[h]) # {}
       \/ startHead[h] + attempt[h] <= LatestSequence

Refused(h) ==
  pc[h] = "refuse" =>
    /\ found[h] = {}
    /\ startHead[h] + MAX_SEQUENCE_RETRIES <= LatestSequence

\* The reply is built from one committed row.
Answering(h) ==
  pc[h] \in {"latest", "missing", "respond"} =>
    \E op \in rows : found[h] = {op}

RevisionRead(h) ==
  pc[h] \in {"missing", "respond"} =>
    /\ revision[h] <= LatestSequence
    /\ \A op \in found[h] : op.sequence <= revision[h]

Identified(h) ==
  IF pc[h] = "idle" THEN attempt[h] = 0 ELSE mid[h] \in MutationIds

\* What one request relies on.
RequestInv(h) ==
  /\ Identified(h)
  /\ BeforeAttempt(h)
  /\ OpenAttempt(h)
  /\ Staged(h)
  /\ AfterLostAttempt(h)
  /\ Refused(h)
  /\ Answering(h)
  /\ RevisionRead(h)

IInv ==
  /\ TypeOK
  /\ HasHead
  /\ LogDense
  /\ OneRowPerKey
  /\ BaseBehindRow
  /\ OneOpenWriter
  /\ \A h \in Handlers : RequestInv(h)
  /\ ReplyCoversGap
  /\ AckDurable
  /\ \A r \in Readers : cursor[r] <= LatestSequence
  /\ ReaderComplete

----------------------------------------------------------------------------
(* Facts about the head of a table.                                        *)

\* A sequence of the table that no other exceeds is what latestSequence reads.
LEMMA HeadIs ==
  ASSUME NEW S \in SUBSET Row,
         NEW n \in Sequences(S) \cup {0},
         \A k \in Sequences(S) \cup {0} : k <= n
  PROVE  HeadOf(S) = n
<1>1. Sequences(S) \cup {0} \subseteq Nat
  BY DEF Sequences, Row
<1>2. PICK m \in Sequences(S) \cup {0} :
        m = HeadOf(S) /\ \A k \in Sequences(S) \cup {0} : k <= m
  BY DEF HeadOf
<1>3. m <= n /\ n <= m
  BY <1>2
<1>4. QED
  BY <1>1, <1>2, <1>3

\* latestSequence reads a natural number that bounds every committed sequence
\* and is the sequence of a row unless the table is empty.
LEMMA HeadFacts ==
  ASSUME TypeOK, HasHead
  PROVE  /\ LatestSequence \in Nat
         /\ \A r \in rows : r.sequence <= LatestSequence
         /\ LatestSequence = 0 \/ \E r \in rows : r.sequence = LatestSequence
<1>1. rows \in SUBSET Row
  BY DEF TypeOK
<1>2. PICK n \in Sequences(rows) \cup {0} :
        \A k \in Sequences(rows) \cup {0} : k <= n
  BY DEF HasHead
<1>3. LatestSequence = n
  BY <1>1, <1>2, HeadIs DEF LatestSequence
<1>4. QED
  BY <1>1, <1>2, <1>3 DEF Sequences, Row

\* In a dense log every number up to the head is the sequence of a row.
LEMMA DenseToHead ==
  ASSUME TypeOK, HasHead, LogDense
  PROVE  \A n \in 1..LatestSequence : \E q \in rows : q.sequence = n
BY HeadFacts DEF LogDense, TypeOK, Row

----------------------------------------------------------------------------
(* Initial states.                                                         *)

\* The invariant holds at first.
LEMMA InitIInv == Init => IInv
<1> SUFFICES ASSUME Init PROVE IInv
  OBVIOUS
<1>1. TypeOK
  BY RetriesAssumption DEF Init, TypeOK, Steps
<1>2. HasHead
  BY DEF Init, HasHead, Sequences
<1>3. LatestSequence = 0
  BY <1>1, <1>2, HeadFacts DEF Init
<1>4. QED
  BY <1>1, <1>2, <1>3
     DEF Init, IInv, RequestInv, LogDense, OneRowPerKey, BaseBehindRow, OneOpenWriter,
         Identified, BeforeAttempt, OpenAttempt, Staged, AfterLostAttempt,
         Refused, Answering, RevisionRead, ReplyCoversGap, AckDurable,
         ReaderComplete

----------------------------------------------------------------------------
(* Steps that do not commit leave the table as it is.                      *)

\* What is said of the table alone survives a step that does not commit.
LEMMA TableFrame ==
  ASSUME UNCHANGED rows
  PROVE  /\ LatestSequence' = LatestSequence
         /\ HasHead => HasHead'
         /\ LogDense => LogDense'
         /\ OneRowPerKey => OneRowPerKey'
         /\ BaseBehindRow => BaseBehindRow'
         /\ \A m : FindExisting(m)' = FindExisting(m)
BY DEF LatestSequence, HeadOf, HasHead, LogDense, OneRowPerKey, BaseBehindRow,
       Sequences, FindExisting

\* A request that takes no step keeps what it relies on, as long as no row is
\* committed.
LEMMA RequestFrame ==
  ASSUME NEW g, UNCHANGED rows, RequestInv(g),
         staged'[g] = staged[g], pc'[g] = pc[g], mid'[g] = mid[g],
         base'[g] = base[g], attempt'[g] = attempt[g], next'[g] = next[g],
         found'[g] = found[g], revision'[g] = revision[g],
         startHead'[g] = startHead[g]
  PROVE  RequestInv(g)'
<1>1. LatestSequence' = LatestSequence /\ \A m : FindExisting(m)' = FindExisting(m)
  BY TableFrame
<1>2. NewRow(g)' = NewRow(g)
  BY DEF NewRow
<1>3. Identified(g)' /\ BeforeAttempt(g)' /\ OpenAttempt(g)' /\ Refused(g)'
  BY <1>1 DEF RequestInv, Identified, BeforeAttempt, OpenAttempt, Refused
<1>4. Staged(g)'
  BY <1>1, <1>2 DEF RequestInv, Staged
<1>5. FindExisting(mid[g])' = FindExisting(mid[g])
  BY DEF FindExisting
<1>6. AfterLostAttempt(g)'
  BY <1>1, <1>5 DEF RequestInv, AfterLostAttempt
<1>7. Answering(g)' /\ RevisionRead(g)'
  BY <1>1 DEF RequestInv, Answering, RevisionRead
<1>8. QED
  BY <1>3, <1>4, <1>6, <1>7 DEF RequestInv

\* The requests after a step of one of them that does not commit: the one that
\* moved is checked, the others are as before.
LEMMA RequestsFrame ==
  ASSUME IInv, NEW h \in Handlers, UNCHANGED rows,
         \A g \in Handlers \ {h} :
           /\ staged'[g] = staged[g] /\ pc'[g] = pc[g] /\ mid'[g] = mid[g]
           /\ base'[g] = base[g] /\ attempt'[g] = attempt[g]
           /\ next'[g] = next[g] /\ found'[g] = found[g]
           /\ revision'[g] = revision[g] /\ startHead'[g] = startHead[g],
         RequestInv(h)'
  PROVE  \A g \in Handlers : RequestInv(g)'
<1> SUFFICES ASSUME NEW g \in Handlers PROVE RequestInv(g)'
  OBVIOUS
<1>1. CASE g = h
  BY <1>1
<1>2. CASE g # h
  BY <1>2, RequestFrame DEF IInv
<1>3. QED
  BY <1>1, <1>2

----------------------------------------------------------------------------
(* Each step of a request preserves the invariant.                         *)

\* A request is admitted.
LEMMA SubmitIInv ==
  ASSUME IInv, NEW h \in Handlers, NEW m \in MutationIds,
         NEW b \in Sequences(rows) \cup {0}, Submit(h, m, b)
  PROVE  IInv'
<1> USE DEF Submit, Goto, table, readerVars
<1>1. LatestSequence \in Nat /\ b \in Nat /\ b <= LatestSequence
  BY HeadFacts DEF IInv, TypeOK, Sequences, Row
<1>2. TypeOK'
  BY <1>1 DEF IInv, TypeOK, Steps
<1>3. UNCHANGED rows
  OBVIOUS
<1>4. LatestSequence' = LatestSequence /\ HasHead' /\ LogDense'
      /\ OneRowPerKey' /\ BaseBehindRow'
  BY <1>3, TableFrame DEF IInv
<1>5. RequestInv(h)'
  BY <1>1, <1>2, <1>4, RetriesAssumption
     DEF IInv, TypeOK, RequestInv, Identified, BeforeAttempt, OpenAttempt,
         Staged, AfterLostAttempt, Refused, Answering, RevisionRead
<1>6. \A g \in Handlers : RequestInv(g)'
  BY <1>3, <1>5, RequestsFrame DEF IInv, TypeOK
<1>7. OneOpenWriter' /\ ReplyCoversGap' /\ AckDurable' /\ ReaderComplete'
      /\ \A r \in Readers : cursor'[r] <= LatestSequence'
  BY <1>4 DEF IInv, TypeOK, OneOpenWriter, ReplyCoversGap, AckDurable,
              ReaderComplete
<1>8. QED
  BY <1>2, <1>4, <1>6, <1>7 DEF IInv

\* The first look for a row of the request's id.
LEMMA FindExistingOperationIInv ==
  ASSUME IInv, NEW h \in Handlers, FindExistingOperation(h)
  PROVE  IInv'
<1> USE DEF FindExistingOperation, Goto, table, readerVars
<1>1. LatestSequence \in Nat
  BY HeadFacts DEF IInv
<1>2. TypeOK'
  BY <1>1 DEF IInv, TypeOK, Steps, FindExisting
<1>3. UNCHANGED rows
  OBVIOUS
<1>4. LatestSequence' = LatestSequence /\ HasHead' /\ LogDense'
      /\ OneRowPerKey' /\ BaseBehindRow'
  BY <1>3, TableFrame DEF IInv
<1>a. FindExisting(mid[h]) = {} \/ \E op \in rows : FindExisting(mid[h]) = {op}
  BY DEF IInv, OneRowPerKey, FindExisting
<1>5. RequestInv(h)'
  BY <1>1, <1>2, <1>4, <1>a
     DEF IInv, TypeOK, RequestInv, Identified, BeforeAttempt, OpenAttempt,
         Staged, AfterLostAttempt, Refused, Answering, RevisionRead
<1>6. \A g \in Handlers : RequestInv(g)'
  BY <1>3, <1>5, RequestsFrame DEF IInv, TypeOK
<1>7. OneOpenWriter' /\ ReplyCoversGap' /\ AckDurable' /\ ReaderComplete'
      /\ \A r \in Readers : cursor'[r] <= LatestSequence'
  BY <1>4 DEF IInv, TypeOK, OneOpenWriter, ReplyCoversGap, AckDurable,
              ReaderComplete
<1>8. QED
  BY <1>2, <1>4, <1>6, <1>7 DEF IInv

\* An attempt reads the head.
LEMMA BeginAttemptIInv ==
  ASSUME IInv, NEW h \in Handlers, BeginAttempt(h)
  PROVE  IInv'
<1> USE DEF BeginAttempt, Goto, table, readerVars
<1>1. LatestSequence \in Nat
  BY HeadFacts DEF IInv
<1>2. TypeOK'
  BY <1>1 DEF IInv, TypeOK, Steps
<1>3. UNCHANGED rows
  OBVIOUS
<1>4. LatestSequence' = LatestSequence /\ HasHead' /\ LogDense'
      /\ OneRowPerKey' /\ BaseBehindRow'
  BY <1>3, TableFrame DEF IInv
<1>5. RequestInv(h)'
  BY <1>1, <1>2, <1>4
     DEF IInv, TypeOK, RequestInv, Identified, BeforeAttempt, OpenAttempt,
         Staged, AfterLostAttempt, Refused, Answering, RevisionRead
<1>6. \A g \in Handlers : RequestInv(g)'
  BY <1>3, <1>5, RequestsFrame DEF IInv, TypeOK
<1>7. OneOpenWriter' /\ ReplyCoversGap' /\ AckDurable' /\ ReaderComplete'
      /\ \A r \in Readers : cursor'[r] <= LatestSequence'
  BY <1>4 DEF IInv, TypeOK, OneOpenWriter, ReplyCoversGap, AckDurable,
              ReaderComplete
<1>8. QED
  BY <1>2, <1>4, <1>6, <1>7 DEF IInv

\* An insert collides with a committed row.
LEMMA UniqueViolationIInv ==
  ASSUME IInv, NEW h \in Handlers, UniqueViolation(h)
  PROVE  IInv'
<1> USE DEF UniqueViolation, Goto, table, readerVars
<1>1. LatestSequence \in Nat
  BY HeadFacts DEF IInv
<1>2. TypeOK'
  BY <1>1, RetriesAssumption DEF IInv, TypeOK, Steps, RequestInv, OpenAttempt
<1>3. UNCHANGED rows
  OBVIOUS
<1>4. LatestSequence' = LatestSequence /\ HasHead' /\ LogDense'
      /\ OneRowPerKey' /\ BaseBehindRow'
  BY <1>3, TableFrame DEF IInv
<1>a. \A r \in rows : r.sequence \in Nat /\ r.sequence <= LatestSequence
  BY HeadFacts DEF IInv, TypeOK, Row
<1>b. FindExisting(mid[h])' # {} \/ next[h] <= LatestSequence
  BY <1>a DEF Collides, NewRow, FindExisting
<1>5. RequestInv(h)'
  BY <1>1, <1>2, <1>4, <1>b
     DEF IInv, TypeOK, RequestInv, Identified, BeforeAttempt, OpenAttempt,
         Staged, AfterLostAttempt, Refused, Answering, RevisionRead
<1>6. \A g \in Handlers : RequestInv(g)'
  BY <1>3, <1>5, RequestsFrame DEF IInv, TypeOK
<1>7. OneOpenWriter' /\ ReplyCoversGap' /\ AckDurable' /\ ReaderComplete'
      /\ \A r \in Readers : cursor'[r] <= LatestSequence'
  BY <1>4 DEF IInv, TypeOK, OneOpenWriter, ReplyCoversGap, AckDurable,
              ReaderComplete
<1>8. QED
  BY <1>2, <1>4, <1>6, <1>7 DEF IInv

\* After a violation the request looks for its own row again.
LEMMA RereadIInv ==
  ASSUME IInv, NEW h \in Handlers, Reread(h)
  PROVE  IInv'
<1> USE DEF Reread, Goto, table, readerVars
<1>1. LatestSequence \in Nat
  BY HeadFacts DEF IInv
<1>2. TypeOK'
  BY <1>1 DEF IInv, TypeOK, Steps, FindExisting, AfterViolation
<1>3. UNCHANGED rows
  OBVIOUS
<1>4. LatestSequence' = LatestSequence /\ HasHead' /\ LogDense'
      /\ OneRowPerKey' /\ BaseBehindRow'
  BY <1>3, TableFrame DEF IInv
<1>a. FindExisting(mid[h]) = {} \/ \E op \in rows : FindExisting(mid[h]) = {op}
  BY DEF IInv, OneRowPerKey, FindExisting
<1>5. RequestInv(h)'
  BY <1>1, <1>2, <1>4, <1>a, RetriesAssumption
     DEF IInv, TypeOK, RequestInv, Identified, BeforeAttempt, OpenAttempt,
         Staged, AfterLostAttempt, Refused, Answering, RevisionRead, AfterViolation
<1>6. \A g \in Handlers : RequestInv(g)'
  BY <1>3, <1>5, RequestsFrame DEF IInv, TypeOK
<1>7. OneOpenWriter' /\ ReplyCoversGap' /\ AckDurable' /\ ReaderComplete'
      /\ \A r \in Readers : cursor'[r] <= LatestSequence'
  BY <1>4 DEF IInv, TypeOK, OneOpenWriter, ReplyCoversGap, AckDurable,
              ReaderComplete, AfterViolation
<1>8. QED
  BY <1>2, <1>4, <1>6, <1>7 DEF IInv

\* The reply's revision is read.
LEMMA ReadRevisionIInv ==
  ASSUME IInv, NEW h \in Handlers, ReadRevision(h)
  PROVE  IInv'
<1> USE DEF ReadRevision, Goto, table, readerVars
<1>1. LatestSequence \in Nat
  BY HeadFacts DEF IInv
<1>2. TypeOK'
  BY <1>1 DEF IInv, TypeOK, Steps
<1>3. UNCHANGED rows
  OBVIOUS
<1>4. LatestSequence' = LatestSequence /\ HasHead' /\ LogDense'
      /\ OneRowPerKey' /\ BaseBehindRow'
  BY <1>3, TableFrame DEF IInv
<1>a. \A r \in rows : r.sequence <= LatestSequence
  BY HeadFacts DEF IInv
<1>5. RequestInv(h)'
  BY <1>1, <1>2, <1>4, <1>a
     DEF IInv, TypeOK, RequestInv, Identified, BeforeAttempt, OpenAttempt,
         Staged, AfterLostAttempt, Refused, Answering, RevisionRead
<1>6. \A g \in Handlers : RequestInv(g)'
  BY <1>3, <1>5, RequestsFrame DEF IInv, TypeOK
<1>7. OneOpenWriter' /\ ReplyCoversGap' /\ AckDurable' /\ ReaderComplete'
      /\ \A r \in Readers : cursor'[r] <= LatestSequence'
  BY <1>4 DEF IInv, TypeOK, OneOpenWriter, ReplyCoversGap, AckDurable,
              ReaderComplete
<1>8. QED
  BY <1>2, <1>4, <1>6, <1>7 DEF IInv

\* An insert that no open transaction blocks stages its row.
LEMMA InsertRowIInv ==
  ASSUME IInv, NEW h \in Handlers, InsertRow(h)
  PROVE  IInv'
<1> USE DEF InsertRow, Goto, readerVars
<1>1. LatestSequence \in Nat /\ mid[h] \in MutationIds /\ OpenAttempt(h)
      /\ NewRow(h)' = NewRow(h)
  BY HeadFacts DEF IInv, RequestInv, Identified, NewRow
<1>2. TypeOK'
  BY <1>1 DEF IInv, TypeOK, Steps, NewRow, Row
<1>3. UNCHANGED rows
  OBVIOUS
<1>4. LatestSequence' = LatestSequence /\ HasHead' /\ LogDense'
      /\ OneRowPerKey' /\ BaseBehindRow'
  BY <1>3, TableFrame DEF IInv
<1>5. next[h] = LatestSequence + 1 /\ \A q \in rows : q.clientMutationId # mid[h]
  <2>1. \A q \in rows : q.sequence # next[h] /\ q.clientMutationId # mid[h]
    BY DEF Collides, NewRow
  <2>2. next[h] \in Nat /\ next[h] > 0 /\ next[h] <= LatestSequence + 1
    BY <1>1 DEF IInv, TypeOK, OpenAttempt
  <2>3. next[h] \notin 1..LatestSequence
    BY <2>1, DenseToHead DEF IInv
  <2>4. QED
    BY <1>1, <2>1, <2>2, <2>3
<1>6. RequestInv(h)'
  <2>1. Staged(h)'
    BY <1>1, <1>2, <1>4, <1>5 DEF Staged, IInv, TypeOK
  <2>2. QED
    BY <1>1, <1>2, <1>4, <2>1
       DEF IInv, TypeOK, RequestInv, Identified, BeforeAttempt, OpenAttempt,
           AfterLostAttempt, Refused, Answering, RevisionRead
<1>7. \A g \in Handlers : RequestInv(g)'
  BY <1>3, <1>6, RequestsFrame DEF IInv, TypeOK
<1>8. ASSUME NEW g \in Handlers, g # h
      PROVE  pc[g] # "commit"
  <2> SUFFICES ASSUME pc[g] = "commit" PROVE FALSE
    OBVIOUS
  <2>1. staged[g] = {NewRow(g)} /\ next[g] = LatestSequence + 1
    BY <1>8 DEF IInv, RequestInv, Staged
  <2>2. ~Collides(NewRow(h), NewRow(g))
    BY <1>8, <2>1 DEF InsertUnblocked
  <2>3. QED
    BY <1>5, <2>1, <2>2 DEF Collides, NewRow
<1>9. OneOpenWriter'
  BY <1>8 DEF OneOpenWriter, IInv, TypeOK
<1>10. ReplyCoversGap' /\ AckDurable' /\ ReaderComplete'
       /\ \A r \in Readers : cursor'[r] <= LatestSequence'
  BY <1>4 DEF IInv, TypeOK, ReplyCoversGap, AckDurable, ReaderComplete
<1>11. QED
  BY <1>2, <1>4, <1>7, <1>9, <1>10 DEF IInv

\* The reply's missing operations are read.
LEMMA ReadMissingIInv ==
  ASSUME IInv, NEW h \in Handlers, ReadMissing(h)
  PROVE  IInv'
<1> USE DEF ReadMissing, Goto, table, readerVars
<1>1. LatestSequence \in Nat
  BY HeadFacts DEF IInv
<1>2. PICK op \in rows : found[h] = {op}
  BY DEF IInv, RequestInv, Answering
<1>3. missing' = [missing EXCEPT ![h] = MissingOperations(op, revision[h])]
  BY <1>2
<1>4. MissingOperations(op, revision[h]) \subseteq Nat
  BY DEF IInv, TypeOK, MissingOperations, Sequences, OperationsAfter, Row
<1>5. TypeOK'
  BY <1>3, <1>4 DEF IInv, TypeOK, Steps
<1>6. UNCHANGED rows
  OBVIOUS
<1>7. LatestSequence' = LatestSequence /\ HasHead' /\ LogDense'
      /\ OneRowPerKey' /\ BaseBehindRow'
  BY <1>6, TableFrame DEF IInv
<1>8. RequestInv(h)'
  BY <1>1, <1>5, <1>7
     DEF IInv, TypeOK, RequestInv, Identified, BeforeAttempt, OpenAttempt,
         Staged, AfterLostAttempt, Refused, Answering, RevisionRead
<1>9. \A g \in Handlers : RequestInv(g)'
  BY <1>6, <1>8, RequestsFrame DEF IInv, TypeOK
<1>10. ASSUME NEW n \in (op.baseRevision + 1)..revision[h]
       PROVE  n = op.sequence \/ n \in MissingOperations(op, revision[h])
  <2>1. /\ op.baseRevision \in Nat /\ op.sequence \in Nat /\ revision[h] \in Nat
        /\ op.baseRevision < op.sequence
        /\ op.sequence <= revision[h] /\ revision[h] <= LatestSequence
    BY <1>2 DEF IInv, TypeOK, Row, BaseBehindRow, RequestInv, RevisionRead
  <2>2. CASE op.baseRevision + 1 < revision[h]
    <3>1. n \in 1..LatestSequence
      BY <1>1, <2>1
    <3>2. PICK q \in rows : q.sequence = n
      BY <3>1, DenseToHead DEF IInv
    <3>3. CASE q.clientMutationId = op.clientMutationId
      BY <3>2, <3>3 DEF IInv, OneRowPerKey
    <3>4. CASE q.clientMutationId # op.clientMutationId
      <4>1. q \in {r \in OperationsAfter(op.baseRevision) :
                     r.clientMutationId # op.clientMutationId}
        BY <2>1, <3>2, <3>4 DEF OperationsAfter
      <4>2. QED
        BY <2>2, <3>2, <4>1 DEF MissingOperations, Sequences
    <3>5. QED
      BY <3>3, <3>4
  <2>3. CASE ~(op.baseRevision + 1 < revision[h])
    BY <2>1, <2>3
  <2>4. QED
    BY <2>2, <2>3
<1>11. ReplyCoversGap'
  <2> SUFFICES ASSUME NEW g \in Handlers, (pc[g] = "respond")',
                      NEW o \in found'[g],
                      NEW n \in ((o.baseRevision + 1)..revision[g])'
               PROVE  (n = o.sequence \/ n \in missing[g])'
    BY DEF ReplyCoversGap
  <2>1. CASE g = h
    BY <1>2, <1>3, <1>10, <2>1 DEF IInv, TypeOK
  <2>2. CASE g # h
    BY <2>2 DEF IInv, TypeOK, ReplyCoversGap
  <2>3. QED
    BY <2>1, <2>2
<1>12. OneOpenWriter' /\ AckDurable' /\ ReaderComplete'
       /\ \A r \in Readers : cursor'[r] <= LatestSequence'
  BY <1>7 DEF IInv, TypeOK, OneOpenWriter, AckDurable, ReaderComplete
<1>13. QED
  BY <1>5, <1>7, <1>9, <1>11, <1>12 DEF IInv

\* The end of a request, whatever is acknowledged with it.
LEMMA ReleaseIInv ==
  ASSUME IInv, NEW h \in Handlers, Release(h), acks' \subseteq Ack, AckDurable'
  PROVE  IInv'
<1> USE DEF Release, Goto, readerVars
<1>1. LatestSequence \in Nat
  BY HeadFacts DEF IInv
<1>2. TypeOK'
  BY RetriesAssumption DEF IInv, TypeOK, Steps
<1>3. UNCHANGED rows
  OBVIOUS
<1>4. LatestSequence' = LatestSequence /\ HasHead' /\ LogDense'
      /\ OneRowPerKey' /\ BaseBehindRow'
  BY <1>3, TableFrame DEF IInv
<1>5. RequestInv(h)'
  BY <1>2 DEF IInv, TypeOK, RequestInv, Identified, BeforeAttempt, OpenAttempt,
              Staged, AfterLostAttempt, Refused, Answering, RevisionRead
<1>6. \A g \in Handlers : RequestInv(g)'
  BY <1>3, <1>5, RequestsFrame DEF IInv, TypeOK
<1>7. OneOpenWriter' /\ ReplyCoversGap' /\ ReaderComplete'
      /\ \A r \in Readers : cursor'[r] <= LatestSequence'
  BY <1>4 DEF IInv, TypeOK, OneOpenWriter, ReplyCoversGap, ReaderComplete
<1>8. QED
  BY <1>2, <1>4, <1>6, <1>7 DEF IInv

\* The ack goes out.
LEMMA RespondIInv ==
  ASSUME IInv, NEW h \in Handlers, Respond(h)
  PROVE  IInv'
<1>1. PICK op \in rows : found[h] = {op}
  BY DEF IInv, RequestInv, Answering, Respond
<1>2. acks' = acks \cup {[clientMutationId |-> op.clientMutationId,
                          sequence |-> op.sequence]}
  BY <1>1 DEF Respond
<1>3. acks' \subseteq Ack
  BY <1>2 DEF IInv, TypeOK, Ack, Row
<1>4. AckDurable'
  BY <1>2 DEF IInv, AckDurable, Respond, Release
<1>5. QED
  BY <1>3, <1>4, ReleaseIInv DEF Respond

\* A request that is refused, or fails, gives up what it holds.
LEMMA EndIInv ==
  ASSUME IInv, NEW h \in Handlers, Refuse(h) \/ Fail(h)
  PROVE  IInv'
<1>1. Release(h) /\ UNCHANGED acks /\ UNCHANGED rows
  BY DEF Refuse, Fail, Release
<1>2. acks' \subseteq Ack /\ AckDurable'
  BY <1>1 DEF IInv, TypeOK, AckDurable
<1>3. QED
  BY <1>1, <1>2, ReleaseIInv

----------------------------------------------------------------------------
(* Readers.                                                                *)

\* The sequences of a dense log are an interval.
LEMMA SequencesAreInterval ==
  ASSUME IInv
  PROVE  Sequences(rows) = 1..LatestSequence
<1>1. \A n \in 1..LatestSequence : \E q \in rows : q.sequence = n
  BY DenseToHead DEF IInv
<1>2. LatestSequence \in Nat /\ \A r \in rows : r.sequence <= LatestSequence
  BY HeadFacts DEF IInv
<1>3. \A r \in rows : r.sequence \in Nat /\ r.sequence > 0
  BY DEF IInv, TypeOK, LogDense, Row
<1>4. QED
  BY <1>1, <1>2, <1>3 DEF Sequences

\* A reader bootstraps or catches up.
LEMMA ReaderIInv ==
  ASSUME IInv, NEW r \in Readers, Bootstrap(r) \/ CatchUp(r)
  PROVE  IInv'
<1>1. LatestSequence \in Nat
  BY HeadFacts DEF IInv
<1>2. UNCHANGED <<rows, staged, pc, mid, base, attempt, next, found, revision,
                  missing, acks, startHead>>
  BY DEF Bootstrap, CatchUp, table
<1>3. LatestSequence' = LatestSequence /\ HasHead' /\ LogDense'
      /\ OneRowPerKey' /\ BaseBehindRow'
  BY <1>2, TableFrame DEF IInv
<1>4. \A h \in Handlers : RequestInv(h)'
  BY <1>2, RequestFrame DEF IInv
<1>5. OneOpenWriter' /\ ReplyCoversGap' /\ AckDurable'
  BY <1>2 DEF IInv, OneOpenWriter, ReplyCoversGap, AckDurable
<1>6. cursor' = [cursor EXCEPT ![r] = LatestSequence]
      /\ have' = [have EXCEPT ![r] = 1..LatestSequence]
  <2>1. CASE Bootstrap(r)
    BY <2>1, SequencesAreInterval DEF Bootstrap
  <2>2. CASE CatchUp(r)
    <3>1. have[r] = 1..cursor[r] /\ cursor[r] \in Nat /\ cursor[r] <= LatestSequence
      BY DEF IInv, ReaderComplete, TypeOK
    <3>2. Sequences(OperationsAfter(cursor[r])) =
            {n \in Sequences(rows) : n > cursor[r]}
      BY DEF Sequences, OperationsAfter
    <3>3. have[r] \cup Sequences(OperationsAfter(cursor[r])) = 1..LatestSequence
      BY <1>1, <3>1, <3>2, SequencesAreInterval
    <3>4. QED
      BY <2>2, <3>3 DEF CatchUp, IInv, TypeOK
  <2>3. QED
    BY <2>1, <2>2
<1>7. ReaderComplete' /\ \A q \in Readers : cursor'[q] <= LatestSequence'
  BY <1>1, <1>3, <1>6 DEF IInv, TypeOK, ReaderComplete
<1>8. TypeOK'
  BY <1>1, <1>2, <1>6 DEF IInv, TypeOK
<1>9. QED
  BY <1>3, <1>4, <1>5, <1>7, <1>8 DEF IInv

----------------------------------------------------------------------------
(* COMMIT, the only step that changes the table.                           *)

\* A commit appends the next row of the log and nothing else.
LEMMA CommitAppends ==
  ASSUME IInv, NEW h \in Handlers, Commit(h)
  PROVE  /\ LatestSequence \in Nat
         /\ NewRow(h) \in Row
         /\ NewRow(h).sequence = LatestSequence + 1
         /\ NewRow(h).baseRevision < NewRow(h).sequence
         /\ \A q \in rows : q.clientMutationId # NewRow(h).clientMutationId
         /\ staged[h] = {NewRow(h)}
         /\ rows' = rows \cup {NewRow(h)}
         /\ LatestSequence' = LatestSequence + 1
         /\ HasHead'
<1>1. /\ LatestSequence \in Nat
      /\ \A r \in rows : r.sequence \in Nat /\ r.sequence <= LatestSequence
  BY HeadFacts DEF IInv, TypeOK, Row
<1>2. /\ staged[h] = {NewRow(h)}
      /\ next[h] = LatestSequence + 1
      /\ base[h] < next[h]
      /\ mid[h] \in MutationIds
      /\ \A q \in rows : q.clientMutationId # mid[h]
  BY DEF IInv, RequestInv, Staged, OpenAttempt, Identified, Commit
<1>3. NewRow(h) \in Row
  BY <1>2 DEF IInv, TypeOK, NewRow, Row
<1>4. rows' = rows \cup {NewRow(h)}
  BY <1>2 DEF Commit
<1>5. /\ LatestSequence + 1 \in Sequences(rows')
      /\ \A k \in Sequences(rows') \cup {0} : k <= LatestSequence + 1
  <2>1. NewRow(h).sequence = LatestSequence + 1 /\ NewRow(h) \in rows'
    BY <1>2, <1>4 DEF NewRow
  <2>2. \A r \in rows' : r.sequence <= LatestSequence + 1
    BY <1>1, <1>4, <2>1
  <2>3. LatestSequence + 1 \in Sequences(rows')
    BY <2>1 DEF Sequences
  <2>4. \A k \in Sequences(rows') : k <= LatestSequence + 1
    BY <2>2 DEF Sequences
  <2>5. 0 <= LatestSequence + 1
    BY <1>1
  <2>6. QED
    BY <2>3, <2>4, <2>5
<1>6. rows' \in SUBSET Row
  BY <1>3, <1>4 DEF IInv, TypeOK
<1>7. HeadOf(rows') = LatestSequence + 1
  BY <1>5, <1>6, HeadIs
<1>8. HasHead'
  BY <1>5 DEF HasHead, Sequences
<1>9. LatestSequence' = LatestSequence + 1
  BY <1>7 DEF LatestSequence, HeadOf, Sequences
<1>10. QED
  BY <1>1, <1>2, <1>3, <1>4, <1>8, <1>9 DEF NewRow

\* COMMIT: the head grows by exactly one.
LEMMA CommitIInv ==
  ASSUME IInv, NEW h \in Handlers, Commit(h)
  PROVE  IInv'
<1> DEFINE row == NewRow(h)
<1>1. /\ LatestSequence \in Nat
      /\ row \in Row
      /\ row.sequence = LatestSequence + 1
      /\ row.baseRevision < row.sequence
      /\ \A q \in rows : q.clientMutationId # row.clientMutationId
      /\ staged[h] = {row}
      /\ rows' = rows \cup {row}
      /\ LatestSequence' = LatestSequence + 1
      /\ HasHead'
  BY CommitAppends
<1>2. \A r \in rows : r \in Row /\ r.sequence <= LatestSequence
  BY HeadFacts DEF IInv, TypeOK
<1> HIDE DEF row
<1>3. TypeOK'
  BY <1>1 DEF IInv, TypeOK, Commit, Goto, Steps, readerVars
<1>4. LogDense'
  <2> SUFFICES ASSUME NEW r \in rows \cup {row}
               PROVE  /\ r.sequence > 0
                      /\ \A n \in 1..r.sequence :
                           \E q \in rows \cup {row} : q.sequence = n
    BY <1>1 DEF LogDense
  <2>1. CASE r \in rows
    BY <2>1 DEF IInv, LogDense
  <2>2. CASE r = row
    <3>1. \A n \in 1..LatestSequence : \E q \in rows : q.sequence = n
      BY DenseToHead DEF IInv
    <3>2. \A n \in 1..(LatestSequence + 1) :
            n \in 1..LatestSequence \/ n = LatestSequence + 1
      BY <1>1
    <3>3. QED
      BY <1>1, <2>2, <3>1, <3>2
  <2>3. QED
    BY <2>1, <2>2
<1>5. OneRowPerKey'
  <2>1. \A q \in rows : q.sequence # row.sequence
                        /\ q.clientMutationId # row.clientMutationId
    BY <1>1, <1>2 DEF Row
  <2>2. QED
    BY <1>1, <2>1 DEF IInv, OneRowPerKey
<1>6. BaseBehindRow'
  BY <1>1 DEF IInv, BaseBehindRow
<1>7. OneOpenWriter'
  BY DEF IInv, TypeOK, OneOpenWriter, Commit, Goto
<1>8. ASSUME NEW g \in Handlers
      PROVE  RequestInv(g)'
  <2>1. CASE g = h
    <3>1. found'[h] = {row} /\ pc'[h] = "latest" /\ staged'[h] = {}
          /\ mid'[h] = mid[h]
      BY <1>1 DEF IInv, TypeOK, Commit, Goto
    <3>2. mid[h] \in MutationIds
      BY DEF IInv, RequestInv, Identified, Commit
    <3>3. QED
      BY <1>1, <2>1, <3>1, <3>2
         DEF RequestInv, Identified, BeforeAttempt, OpenAttempt, Staged,
             AfterLostAttempt, Refused, Answering, RevisionRead
  <2>2. CASE g # h
    <3>1. /\ pc'[g] = pc[g] /\ mid'[g] = mid[g] /\ base'[g] = base[g]
          /\ attempt'[g] = attempt[g] /\ next'[g] = next[g]
          /\ found'[g] = found[g] /\ revision'[g] = revision[g]
          /\ staged'[g] = staged[g] /\ startHead'[g] = startHead[g]
      BY <2>2 DEF IInv, TypeOK, Commit, Goto
    <3>2. pc[g] # "commit"
      BY <2>2 DEF IInv, OneOpenWriter, Commit
    <3>3. /\ base[g] \in Nat /\ attempt[g] \in Nat /\ next[g] \in Nat
          /\ revision[g] \in Nat /\ startHead[g] \in Nat
      BY DEF IInv, TypeOK
    <3>4. Identified(g)' /\ BeforeAttempt(g)' /\ OpenAttempt(g)' /\ Refused(g)'
      BY <1>1, <3>1, <3>3, RetriesAssumption
         DEF IInv, RequestInv, Identified, BeforeAttempt, OpenAttempt, Refused
    <3>5. Staged(g)' /\ Answering(g)'
      BY <1>1, <3>1, <3>2 DEF IInv, RequestInv, Staged, Answering
    <3>6. AfterLostAttempt(g)'
      <4>1. FindExisting(mid[g]) # {} => FindExisting(mid[g])' # {}
        BY <1>1, <3>1 DEF FindExisting
      <4>2. pc[g] = "reread" =>
              /\ base[g] <= LatestSequence
              /\ \/ FindExisting(mid[g]) # {}
                 \/ startHead[g] + attempt[g] <= LatestSequence
        BY DEF IInv, RequestInv, AfterLostAttempt
      <4>3. base[g] <= LatestSequence => base[g] <= LatestSequence + 1
        BY <1>1, <3>3
      <4>4. startHead[g] + attempt[g] <= LatestSequence
              => startHead[g] + attempt[g] <= LatestSequence + 1
        BY <1>1, <3>3
      <4>5. pc'[g] = "reread" =>
              /\ base'[g] <= LatestSequence'
              /\ \/ FindExisting(mid[g])' # {}
                 \/ startHead'[g] + attempt'[g] <= LatestSequence'
        <5>1. /\ base'[g] <= LatestSequence' <=> base[g] <= LatestSequence + 1
              /\ startHead'[g] + attempt'[g] <= LatestSequence'
                   <=> startHead[g] + attempt[g] <= LatestSequence + 1
          BY <1>1, <3>1
        <5>2. QED
          BY <3>1, <4>1, <4>2, <4>3, <4>4, <5>1, Zenon
      <4>6. QED
        BY <4>5, Zenon DEF AfterLostAttempt
    <3>7. RevisionRead(g)'
      BY <1>1, <3>1, <3>3 DEF IInv, RequestInv, RevisionRead
    <3>8. QED
      BY <3>4, <3>5, <3>6, <3>7 DEF RequestInv
  <2>3. QED
    BY <2>1, <2>2
<1>9. ReplyCoversGap'
  BY DEF IInv, TypeOK, ReplyCoversGap, Commit, Goto
<1>10. AckDurable'
  BY <1>1 DEF IInv, AckDurable, Commit
<1>11. ReaderComplete' /\ \A r \in Readers : cursor'[r] <= LatestSequence'
  BY <1>1 DEF IInv, TypeOK, ReaderComplete, Commit, readerVars
<1>12. QED
  BY <1>1, <1>3, <1>4, <1>5, <1>6, <1>7, <1>8, <1>9, <1>10, <1>11 DEF IInv

----------------------------------------------------------------------------
(* The theorems.                                                           *)

\* A step that changes nothing keeps the invariant.
LEMMA StutterIInv == IInv /\ UNCHANGED vars => IInv'
<1> SUFFICES ASSUME IInv, UNCHANGED vars PROVE IInv'
  OBVIOUS
<1>1. UNCHANGED <<rows, staged, pc, mid, base, attempt, next, found, revision,
                  missing, have, cursor, acks, startHead>>
  BY DEF vars, table, readerVars
<1>2. LatestSequence' = LatestSequence /\ HasHead' /\ LogDense'
      /\ OneRowPerKey' /\ BaseBehindRow'
  BY <1>1, TableFrame DEF IInv
<1>3. \A h \in Handlers : RequestInv(h)'
  BY <1>1, RequestFrame DEF IInv
<1>4. QED
  BY <1>1, <1>2, <1>3 DEF IInv, TypeOK, OneOpenWriter, ReplyCoversGap,
                          AckDurable, ReaderComplete

\* Every step keeps the invariant.
LEMMA NextIInv == IInv /\ [Next]_vars => IInv'
<1> SUFFICES ASSUME IInv, [Next]_vars PROVE IInv'
  OBVIOUS
<1>1. CASE UNCHANGED vars
  BY <1>1, StutterIInv
<1>2. ASSUME NEW h \in Handlers, NEW m \in MutationIds,
             NEW b \in Sequences(rows) \cup {0}, Submit(h, m, b)
      PROVE  IInv'
  BY <1>2, SubmitIInv
<1>3. ASSUME NEW h \in Handlers, AppendStep(h)
      PROVE  IInv'
  BY <1>3, FindExistingOperationIInv, BeginAttemptIInv, InsertRowIInv,
     UniqueViolationIInv, CommitIInv, RereadIInv, ReadRevisionIInv,
     ReadMissingIInv, RespondIInv, EndIInv DEF AppendStep
<1>4. ASSUME NEW h \in Handlers, Fail(h)
      PROVE  IInv'
  BY <1>4, EndIInv
<1>5. ASSUME NEW r \in Readers, Bootstrap(r) \/ CatchUp(r)
      PROVE  IInv'
  BY <1>5, ReaderIInv
<1>6. QED
  BY <1>1, <1>2, <1>3, <1>4, <1>5 DEF Next

\* The strengthened invariant holds in every reachable state of the append
\* protocol, for any number of concurrent requests.
THEOREM Invariance == Spec => []IInv
BY InitIInv, NextIInv, PTL DEF Spec

\* Every reachable state is well typed, and no request retries more often than
\* MAX_SEQUENCE_RETRIES.
THEOREM TypeCorrect == Spec => []TypeOK
<1>1. IInv => TypeOK
  BY DEF IInv
<1>2. QED
  BY <1>1, Invariance, PTL

\* Concurrent, aborted and retried appends never leave a gap in the log.
THEOREM LogIsDense == Spec => []LogDense
<1>1. IInv => LogDense
  BY DEF IInv
<1>2. QED
  BY <1>1, Invariance, PTL

\* A clientMutationId has at most one durable row, a sequence too (EDT-04).
THEOREM Idempotence == Spec => []OneRowPerKey
<1>1. IInv => OneRowPerKey
  BY DEF IInv
<1>2. QED
  BY <1>1, Invariance, PTL

\* Every ack ever sent names a durable row at its present place (EDT-03).
THEOREM AckAfterCommit == Spec => []AckDurable
<1>1. IInv => AckDurable
  BY DEF IInv
<1>2. QED
  BY <1>1, Invariance, PTL

\* A reader that follows the log by sequence misses nothing up to its cursor.
THEOREM ReadersMissNothing == Spec => []ReaderComplete
<1>1. IInv => ReaderComplete
  BY DEF IInv
<1>2. QED
  BY <1>1, Invariance, PTL

\* A reply, with the operation it acknowledges, brings the client from its
\* base to currentRevision without a gap.
THEOREM RepliesAreComplete == Spec => []ReplyCoversGap
<1>1. IInv => ReplyCoversGap
  BY DEF IInv
<1>2. QED
  BY <1>1, Invariance, PTL

\* A 409 is only given to a request during which at least
\* MAX_SEQUENCE_RETRIES other operations were committed.
THEOREM RefusalNeedsContention == Spec => []RefusedOnlyUnderContention
<1>1. IInv => RefusedOnlyUnderContention
  <2> SUFFICES ASSUME IInv, NEW h \in Handlers, pc[h] = "refuse"
               PROVE  /\ LatestSequence >= startHead[h] + MAX_SEQUENCE_RETRIES
                      /\ found[h] = {}
    BY DEF RefusedOnlyUnderContention
  <2>1. LatestSequence \in Nat /\ startHead[h] \in Nat
    BY HeadFacts DEF IInv, TypeOK
  <2>2. QED
    BY <2>1, RetriesAssumption DEF IInv, RequestInv, Refused
<1>2. QED
  BY <1>1, Invariance, PTL

\* Committed rows never change, and each new one is numbered after all that
\* were visible before it.
THEOREM AppendOnlyInOrder == Spec => CommitsInOrder
<1> DEFINE InOrder == /\ rows \subseteq rows'
                      /\ \A r \in rows' \ rows : \A q \in rows :
                           q.sequence < r.sequence
<1>1. IInv /\ [Next]_vars => [InOrder]_vars
  <2> SUFFICES ASSUME IInv, Next PROVE InOrder
    OBVIOUS
  <2>1. ASSUME NEW h \in Handlers, Commit(h)
        PROVE  InOrder
    <3>1. /\ rows' = rows \cup {NewRow(h)}
          /\ NewRow(h).sequence = LatestSequence + 1
          /\ LatestSequence \in Nat
      BY <2>1, CommitAppends
    <3>2. \A r \in rows : r.sequence \in Nat /\ r.sequence <= LatestSequence
      BY HeadFacts DEF IInv, TypeOK, Row
    <3>3. QED
      BY <3>1, <3>2
  <2>2. CASE UNCHANGED rows
    BY <2>2
  <2>3. UNCHANGED rows \/ \E h \in Handlers : Commit(h)
    BY DEF Next, AppendStep, Submit, FindExistingOperation, BeginAttempt,
           InsertRow, UniqueViolation, Reread, ReadRevision, ReadMissing,
           Respond, Refuse, Fail, Release, Bootstrap, CatchUp, table
  <2>4. QED
    BY <2>1, <2>2, <2>3
<1>2. QED
  BY <1>1, Invariance, PTL DEF Spec, CommitsInOrder

----------------------------------------------------------------------------
(* The append protocol implements the abstract log.                        *)

\* The abstract log holds, at each position up to the head, the mutation of
\* the row with that number.
LEMMA LogOfRow ==
  ASSUME IInv
  PROVE  /\ LatestSequence \in Nat
         /\ LogOf(rows, LatestSequence) \in Seq(MutationIds)
         /\ Len(LogOf(rows, LatestSequence)) = LatestSequence
         /\ \A r \in rows :
              /\ r.sequence \in 1..LatestSequence
              /\ LogOf(rows, LatestSequence)[r.sequence] = r.clientMutationId
         /\ \A n \in 1..LatestSequence : \E r \in rows : r.sequence = n
<1>1. LatestSequence \in Nat /\ \A r \in rows : r.sequence <= LatestSequence
  BY HeadFacts DEF IInv
<1>2. \A n \in 1..LatestSequence : \E q \in rows : q.sequence = n
  BY DenseToHead DEF IInv
<1>3. \A r \in rows : r.sequence \in Nat /\ r.clientMutationId \in MutationIds
                      /\ r.sequence > 0
  BY DEF IInv, TypeOK, LogDense, Row
<1>4. \A r \in rows : r.sequence \in 1..LatestSequence
  BY <1>1, <1>3
<1>5. \A r \in rows : (CHOOSE q \in rows : q.sequence = r.sequence) = r
  BY DEF IInv, OneRowPerKey
<1>6. \A r \in rows :
        LogOf(rows, LatestSequence)[r.sequence] = r.clientMutationId
  BY <1>4, <1>5 DEF LogOf
<1>7. \A n \in 1..LatestSequence :
        LogOf(rows, LatestSequence)[n] \in MutationIds
  BY <1>2, <1>3, <1>6
<1>8. LogOf(rows, LatestSequence) \in [1..LatestSequence -> MutationIds]
  BY <1>7 DEF LogOf
<1>9. LogOf(rows, LatestSequence) \in Seq(MutationIds)
      /\ Len(LogOf(rows, LatestSequence)) = LatestSequence
  BY <1>1, <1>8
<1>10. QED
  BY <1>1, <1>2, <1>4, <1>6, <1>9

\* A COMMIT is the step of the abstract log that accepts the request's
\* mutation.
LEMMA CommitAccepts ==
  ASSUME IInv, NEW h \in Handlers, Commit(h)
  PROVE  mid[h] \in MutationIds /\ Durable!Accept(mid[h])
<1> DEFINE row == NewRow(h)
           n == LatestSequence
           before == LogOf(rows, n)
           after == LogOf(rows', n + 1)
<1>1. /\ n \in Nat
      /\ row.sequence = n + 1
      /\ row.clientMutationId = mid[h]
      /\ \A q \in rows : q.clientMutationId # mid[h]
      /\ rows' = rows \cup {row}
      /\ LatestSequence' = n + 1
  BY CommitAppends DEF NewRow
<1>2. mid[h] \in MutationIds
  BY DEF IInv, RequestInv, Identified, Commit
<1>3. /\ before \in Seq(MutationIds) /\ Len(before) = n
      /\ \A r \in rows : r.sequence \in 1..n
                         /\ before[r.sequence] = r.clientMutationId
      /\ \A k \in 1..n : \E r \in rows : r.sequence = k
  BY LogOfRow
<1>4. \A k \in 1..Len(before) : before[k] # mid[h]
  BY <1>1, <1>3
<1>5. after = Append(before, mid[h])
  <2>1. \A k \in 1..n : (CHOOSE r \in rows' : r.sequence = k)
                        = (CHOOSE r \in rows : r.sequence = k)
    <3> SUFFICES ASSUME NEW k \in 1..n
                 PROVE  (CHOOSE r \in rows' : r.sequence = k)
                        = (CHOOSE r \in rows : r.sequence = k)
      OBVIOUS
    <3>1. PICK r \in rows : r.sequence = k
      BY <1>3
    <3>2. \A q \in rows' : q.sequence = k => q = r
      <4>1. n + 1 # k
        BY <1>1
      <4>2. QED
        BY <1>1, <3>1, <4>1 DEF IInv, OneRowPerKey
    <3>3. r \in rows'
      BY <1>1
    <3>4. QED
      BY <3>1, <3>2, <3>3, <1>1
  <2>2. (CHOOSE r \in rows' : r.sequence = n + 1) = row
    <3>1. \A q \in rows' : q.sequence = n + 1 => q = row
      <4>1. \A q \in rows : q.sequence # n + 1
        BY <1>1, <1>3
      <4>2. QED
        BY <1>1, <4>1
    <3>2. row \in rows'
      BY <1>1
    <3>3. QED
      BY <1>1, <3>1, <3>2
  <2> HIDE DEF row
  <2>3. after \in [1..(n + 1) -> MutationIds]
    <3>1. \A k \in 1..(n + 1) : k \in 1..n \/ k = n + 1
      BY <1>1
    <3>2. \A k \in 1..n : after[k] = before[k] /\ before[k] \in MutationIds
      BY <1>1, <1>3, <2>1 DEF LogOf
    <3>3. after[n + 1] = mid[h]
      BY <1>1, <2>2 DEF LogOf
    <3>4. QED
      BY <1>2, <3>1, <3>2, <3>3 DEF LogOf
  <2>4. \A k \in 1..n : after[k] = before[k]
    BY <1>1, <2>1 DEF LogOf
  <2>5. after[n + 1] = mid[h]
    BY <1>1, <2>2 DEF LogOf
  <2> HIDE DEF after, before
  <2>6. QED
    BY <1>1, <1>2, <1>3, <2>3, <2>4, <2>5
<1>6. LogOf(rows, LatestSequence)' = after
  BY <1>1 DEF LogOf
<1>7. UNCHANGED acks
  BY DEF Commit
<1>8. QED
  BY <1>2, <1>4, <1>5, <1>6, <1>7 DEF Durable!Accept

\* An answer is the step of the abstract log that acknowledges the position of
\* the answered row.
LEMMA RespondAcknowledges ==
  ASSUME IInv, NEW h \in Handlers, Respond(h)
  PROVE  \E n \in 1..Len(LogOf(rows, LatestSequence)) : Durable!Acknowledge(n)
<1>1. PICK op \in rows : found[h] = {op}
  BY DEF IInv, RequestInv, Answering, Respond
<1>2. acks' = acks \cup {[clientMutationId |-> op.clientMutationId,
                          sequence |-> op.sequence]}
  BY <1>1 DEF Respond
<1>3. /\ op.sequence \in 1..Len(LogOf(rows, LatestSequence))
      /\ LogOf(rows, LatestSequence)[op.sequence] = op.clientMutationId
  BY LogOfRow
<1>4. UNCHANGED LogOf(rows, LatestSequence)
  <2>1. UNCHANGED rows
    BY DEF Respond, Release
  <2>2. QED
    BY <2>1, TableFrame DEF LogOf
<1>5. Durable!Acknowledge(op.sequence)
  BY <1>2, <1>3, <1>4 DEF Durable!Acknowledge
<1>6. QED
  BY <1>3, <1>5

\* Requests that interleave query by query, lose races, retry, abort, crash and
\* lose their acks behave like one atomic append-once log: the protocol
\* implements DurableLog under the mapping of OpLogRefinement.
THEOREM Refinement == Spec => ImplementsDurableLog
<1>1. Init => Durable!Init
  <2> SUFFICES ASSUME Init PROVE Durable!Init
    OBVIOUS
  <2>1. LatestSequence = 0
    <3>1. TypeOK /\ HasHead /\ rows = {}
      BY InitIInv DEF IInv, Init
    <3>2. QED
      BY <3>1, HeadFacts
  <2>2. LogOf(rows, LatestSequence) = << >>
    BY <2>1 DEF LogOf
  <2>3. QED
    BY <2>2 DEF Init, Durable!Init
<1>2. IInv /\ [Next]_vars => [Durable!Next]_Durable!vars
  <2> SUFFICES ASSUME IInv, [Next]_vars
               PROVE  Durable!Next \/ UNCHANGED Durable!vars
    OBVIOUS
  <2>1. ASSUME NEW h \in Handlers, Commit(h)
        PROVE  Durable!Next
    BY <2>1, CommitAccepts DEF Durable!Next
  <2>2. ASSUME NEW h \in Handlers, Respond(h)
        PROVE  Durable!Next
    BY <2>2, RespondAcknowledges DEF Durable!Next
  <2>3. CASE UNCHANGED <<rows, acks>>
    <3>1. UNCHANGED LogOf(rows, LatestSequence)
      BY <2>3, TableFrame DEF LogOf
    <3>2. QED
      BY <2>3, <3>1 DEF Durable!vars
  <2>4. \/ UNCHANGED <<rows, acks>>
        \/ \E h \in Handlers : Commit(h) \/ Respond(h)
    BY DEF Next, vars, AppendStep, Submit, FindExistingOperation, BeginAttempt,
           InsertRow, UniqueViolation, Reread, ReadRevision, ReadMissing,
           Refuse, Fail, Release, Bootstrap, CatchUp, table
  <2>5. QED
    BY <2>1, <2>2, <2>3, <2>4
<1>3. QED
  BY <1>1, <1>2, Invariance, PTL DEF Spec, ImplementsDurableLog, Durable!Spec
============================================================================
