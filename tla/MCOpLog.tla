------------------------------ MODULE MCOpLog ------------------------------
(***************************************************************************)
(* Small instances of the operation log for TLC.  Request slots and        *)
(* mutation ids are interchangeable: the specification only compares them  *)
(* for equality.                                                           *)
(***************************************************************************)
EXTENDS OpLogRefinement, TLC

Symmetry == Permutations(Handlers) \cup Permutations(MutationIds)
============================================================================
