----------------------------- MODULE DurableLog -----------------------------
(***************************************************************************)
(* What the operation log promises its callers: one sequence of client     *)
(* mutations.  A mutation enters at most once, atomically, at the end; an  *)
(* ack may be sent, any number of times, for a mutation that is in the     *)
(* log, and names its position.                                            *)
(***************************************************************************)
EXTENDS Naturals, Sequences

CONSTANT MutationIds

VARIABLES log,   \* the mutations in sequence order
          acked  \* the acks sent so far

vars == <<log, acked>>

Init == log = << >> /\ acked = {}

Accept(m) ==
  /\ \A n \in 1..Len(log) : log[n] # m
  /\ log' = Append(log, m)
  /\ UNCHANGED acked

Acknowledge(n) ==
  /\ acked' = acked \cup {[clientMutationId |-> log[n], sequence |-> n]}
  /\ UNCHANGED log

Next ==
  \/ \E m \in MutationIds : Accept(m)
  \/ \E n \in 1..Len(log) : Acknowledge(n)

Spec == Init /\ [][Next]_vars
============================================================================
