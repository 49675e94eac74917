---------------------------- MODULE MCSyncCommits ----------------------------
(* Small instances of SyncCommits for TLC. *)
EXTENDS SyncCommits

CONSTANTS b1, k1, MaxDeviceSeq

MCKind == (b1 :> "commit_body") @@ (k1 :> "checkpoint_pack")

Param(id, kind, expected, parents, d, n, refs, genuine) ==
    [id |-> id, kind |-> kind, expected |-> expected, parents |-> parents,
     dev |-> d, seq |-> n, body |-> b1, refs |-> refs, genuine |-> genuine]

Others(id) == CommitIds \ {id}

\* A first checkpoint, and incremental commits on any head.
MCRaceParams ==
    {Param(id, "checkpoint", None, {}, d, n, {k1}, TRUE) :
        id \in CommitIds, d \in Devices, n \in 1 .. MaxDeviceSeq}
    \cup UNION {{Param(id, "incremental", e, {e}, d, n, {}, TRUE) : e \in Others(id)} :
        id \in CommitIds, d \in Devices, n \in 1 .. MaxDeviceSeq}

\* Histories of one device while another desktop pulls: a checkpoint possible
\* at any point, merges with the head and, to be refused, merges that leave out
\* the head and a first checkpoint with a forged signature.
MCParams ==
    UNION {
        {Param(id, "checkpoint", None, {}, d, 1, {k1}, g) :
            id \in CommitIds, d \in Devices, g \in BOOLEAN},
        UNION {{Param(id, k, e, {e}, d, n, {k1}, TRUE) : e \in Others(id)} :
            id \in CommitIds, d \in Devices, k \in {"checkpoint", "incremental"},
            n \in 2 .. MaxDeviceSeq},
        UNION {UNION {{Param(id, "merge", e, ps, d, MaxDeviceSeq, {}, TRUE) :
            ps \in {Others(id), Others(id) \ {e}}} : e \in Others(id)} :
            id \in CommitIds, d \in Devices}}

Symmetry == Permutations(CommitIds) \cup Permutations(Devices) \cup Permutations(Requests)
=============================================================================
