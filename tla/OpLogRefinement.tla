-------------------------- MODULE OpLogRefinement --------------------------
(***************************************************************************)
(* The append protocol implements the abstract durable log: the rows in    *)
(* sequence order are the abstract log, COMMIT is the step that extends    *)
(* it, and every other step of a request is invisible or sends an ack.     *)
(***************************************************************************)
EXTENDS OpLog, Sequences

\* The committed rows as the abstract sequence of mutation ids.
LogOf(S, n) ==
  [k \in 1..n |-> (CHOOSE r \in S : r.sequence = k).clientMutationId]

Durable == INSTANCE DurableLog
  WITH log <- LogOf(rows, LatestSequence), acked <- acks

\* Refinement: requests that interleave query by query, retry, abort, crash
\* and lose acks behave like one atomic append-once log.
ImplementsDurableLog == Durable!Spec
============================================================================
