------------------------------ MODULE MCAiRuns ------------------------------
(***************************************************************************)
(* Small instances of the history with AI runs, for TLC.                   *)
(***************************************************************************)
EXTENDS AiRuns, TLC

Symmetry == Permutations(Calls)
============================================================================
