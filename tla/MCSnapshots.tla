---------------------------- MODULE MCSnapshots ----------------------------
(***************************************************************************)
(* Small instances of the history without AI runs, for TLC.                *)
(***************************************************************************)
EXTENDS Snapshots, TLC

Symmetry == Permutations(Calls)
============================================================================
