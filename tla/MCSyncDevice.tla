----------------------------- MODULE MCSyncDevice ----------------------------
(* Small instances of SyncDevice for TLC. *)
EXTENDS SyncDevice, TLC

\* Once users have deleted every edit there is none left to lose.
SomethingKept == dropped # Edits

Symmetry == Permutations(Devices) \cup Permutations(Edits) \cup Permutations(Copies)
=============================================================================
