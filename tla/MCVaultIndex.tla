---------------------------- MODULE MCVaultIndex ----------------------------
(* VaultIndex for TLC: Paths are model values given by the cfg. *)
EXTENDS VaultIndex

\* Watcher and writer lag behind by at most three events and jobs.
ShortQueues == Len(rt.jobs) <= 3 /\ Len(events) <= 3
=============================================================================
