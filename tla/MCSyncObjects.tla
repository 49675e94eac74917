---------------------------- MODULE MCSyncObjects ----------------------------
(* Small instances of SyncObjects for TLC. *)
EXTENDS SyncObjects, TLC

CONSTANTS c1, c2

\* One small and one larger ciphertext.
MCSize == [c \in Contents |-> IF c = c1 THEN 1 ELSE 2]

\* Names of workspaces, devices, objects and requests are interchangeable.
Symmetry ==
    Permutations(Workspaces) \cup Permutations(Devices)
        \cup Permutations(Objects) \cup Permutations(Requests)

\* Bounds.  A workspace has one device, nothing is explored beyond a purge, and an
\* account is not being deleted at the last moment.
OneDeviceEach == \A d, e \in Devices : d # e /\ devWs[d] = devWs[e] => devWs[d] = None
NothingPurged == \A w \in Workspaces : wsState[w] # "purged"
ClosedByTheEnd == now < MaxTime \/ closing = None
=============================================================================
