---------------------------- MODULE MCSyncClient ----------------------------
(***************************************************************************)
(* Small instances of the sync client for TLC.  Clients are                *)
(* interchangeable.                                                        *)
(***************************************************************************)
EXTENDS SyncClient, TLC

Symmetry == Permutations(Clients)
============================================================================
