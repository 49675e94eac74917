------------------------------- MODULE SyncLog -------------------------------
(***************************************************************************)
(* What the sync server promises a client that calls PublishCommit: each   *)
(* workspace has one history, a commit joins it at its end and only if its *)
(* author named the commit that was last, a repeated call joins it once    *)
(* and is told so, and a head conflict is reported only when there is one. *)
(* A call takes effect at one moment between its start and its answer.     *)
(***************************************************************************)
EXTENDS Sequences, Naturals

CONSTANTS
    Requests,   \* calls that can be in progress at the same time
    Params,     \* what a call asks for: a record with (at least) id and expected
    None

VARIABLES
    log,        \* the published commits, oldest first
    call        \* each call: None, or [p |-> ..., out |-> ...]

logVars == <<log, call>>

Outcomes == {"open", "ok", "conflict", "refused"}

LastId == IF log = <<>> THEN None ELSE log[Len(log)].id

Published(id) == \E i \in 1 .. Len(log) : log[i].id = id

LogInit == log = <<>> /\ call = [r \in Requests |-> None]

Invoke(r, p) ==
    /\ call[r] = None
    /\ call' = [call EXCEPT ![r] = [p |-> p, out |-> "open"]]
    /\ UNCHANGED log

Answer(r, out) == call' = [call EXCEPT ![r] = [p |-> call[r].p, out |-> out]]

IsOpen(r) == call[r] # None /\ call[r].out = "open"

\* The commit becomes the last one.
Extend(r) ==
    /\ IsOpen(r)
    /\ LastId = call[r].p.expected
    /\ ~Published(call[r].p.id)
    /\ log' = Append(log, call[r].p)
    /\ Answer(r, "ok")

\* The same commit is already there: the caller is retrying.
Repeat(r) ==
    /\ IsOpen(r)
    /\ \E i \in 1 .. Len(log) : log[i] = call[r].p
    /\ Answer(r, "ok")
    /\ UNCHANGED log

Conflict(r) ==
    /\ IsOpen(r)
    /\ LastId # call[r].p.expected
    /\ ~Published(call[r].p.id)
    /\ Answer(r, "conflict")
    /\ UNCHANGED log

\* Any other error.  It leaves the history as it is.
Refuse(r) ==
    /\ IsOpen(r)
    /\ Answer(r, "refused")
    /\ UNCHANGED log

Return(r) ==
    /\ call[r] # None
    /\ call' = [call EXCEPT ![r] = None]
    /\ UNCHANGED log

LogNext ==
    \E r \in Requests :
        \/ \E p \in Params : Invoke(r, p)
        \/ Extend(r) \/ Repeat(r) \/ Conflict(r) \/ Refuse(r) \/ Return(r)

LogSpec == LogInit /\ [][LogNext]_logVars
=============================================================================
