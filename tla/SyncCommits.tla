----------------------------- MODULE SyncCommits -----------------------------
(***************************************************************************)
(* The history of one workspace: PublishCommit (apps/server/internal/sync/ *)
(* commit.go), the reads a pull makes (GetHead, ListCommits) and the part  *)
(* of the desktop's pull that turns pages of commits into the commits to   *)
(* replay (apps/desktop/src-tauri/src/sync/applier.rs).                    *)
(*                                                                         *)
(* PublishCommit reads twice before it waits for the workspace row's lock: *)
(* the workspace, and whether the commit is there already.  Each read is a *)
(* step; the body under the lock is one step, because every writer of the  *)
(* workspace's history takes that lock and holds it until it commits.  The *)
(* reads of a pull are separate statements or requests and separate steps. *)
(*                                                                         *)
(* Objects are abstracted to the set of available ones: SyncObjects shows  *)
(* that an available object of a live workspace stays so.                  *)
(***************************************************************************)
EXTENDS Integers, FiniteSets, SequencesExt

CONSTANTS
    CommitIds,      \* ids clients choose
    Devices,        \* ids of kuku.sync_devices of this workspace
    Objects,        \* ids of kuku.sync_objects of this workspace
    Kind,           \* object_kind of each object
    Requests,       \* PublishCommit calls in flight at the same time
    Readers,        \* desktops that pull
    Params,         \* PublishCommit parameters clients may send
    None,           \* SQL NULL and the empty id
    PageSize,       \* commits per ListCommits page
    MaxServerSeq    \* bound on the identity column, for model checking

ObjectKinds == {"commit_body", "checkpoint_pack", "other"}
Outcomes == {"open", "ok", "conflict", "refused"}
Calls == [pc : {"lookup", "lock", "ok", "conflict", "refused"}, p : Params]
CommitKinds == {"checkpoint", "incremental", "merge"}

\* PublishCommitParams once normalized: lists without duplicates are sets, the
\* body is not among the referenced objects.  genuine: the signature verifies
\* under the author's key, and the body's sha256 and size are its row's.
PublishParams ==
    {p \in [id : CommitIds, kind : CommitKinds, expected : CommitIds \cup {None},
            parents : SUBSET CommitIds, dev : Devices, seq : Nat \ {0},
            body : Objects, refs : SUBSET Objects, genuine : BOOLEAN] :
        p.body \notin p.refs}

ASSUME CommitsAssumption ==
    /\ None \notin CommitIds \cup Params \cup Calls \cup [p : Params, out : Outcomes]
    /\ Kind \in [Objects -> ObjectKinds]
    /\ \A p \in Params : p \in PublishParams
    /\ PageSize \in Nat \ {0}
    /\ MaxServerSeq \in Nat

VARIABLES
    wsLive,      \* the workspace row exists and is not deleted
    head,        \* current_head_commit_id
    headVersion, \* head_version
    commits,     \* rows of kuku.sync_commits: the parameters each was made from
    serverSeq,   \* server_seq of each row; 0 before it exists
    nextSeq,     \* next value of the identity column, shared by all workspaces
    active,      \* registered devices that are not revoked
    lastSeq,     \* last_device_seq
    cursor,      \* rows of kuku.sync_device_cursors
    avail,       \* available objects
    req,         \* PublishCommit calls: None or where they are
    pull,        \* pulls: what each has read so far
    localHead,   \* local_head_commit_id of each reader's vault record
    applied,     \* history: commits each reader has applied, in order
    log          \* history: published commits in the order their transactions ended

tableVars == <<head, headVersion, commits, serverSeq, lastSeq, cursor, log>>
readVars == <<pull, localHead, applied>>
vars == <<wsLive, tableVars, nextSeq, active, avail, req, readVars>>

NoPull == [pc |-> "idle", head |-> None, ckpt |-> None, after |-> 0,
           got |-> <<>>, replay |-> <<>>]

CommitRefs == CommitIds \cup {None}

ServerTypeOK ==
    /\ wsLive \in BOOLEAN
    /\ head \in CommitRefs
    /\ headVersion \in Nat
    /\ commits \in [CommitIds -> Params \cup {None}]
    /\ serverSeq \in [CommitIds -> Nat]
    /\ nextSeq \in Nat \ {0}
    /\ active \subseteq Devices
    /\ lastSeq \in [Devices -> Nat]
    /\ cursor \in [Devices -> [seen : CommitRefs, checkpoint : CommitRefs]]
    /\ avail \subseteq Objects
    /\ req \in [Requests -> Calls \cup {None}]
    /\ log \in Seq(CommitIds)

TypeOK ==
    /\ ServerTypeOK
    /\ pull \in [Readers -> [pc : {"idle", "ckpt", "pages", "apply"}, head : CommitRefs,
                             ckpt : CommitRefs, after : Nat, got : Seq(CommitIds),
                             replay : Seq(CommitIds)]]
    /\ localHead \in [Readers -> CommitRefs]
    /\ applied \in [Readers -> Seq(CommitIds)]

Rows == {c \in CommitIds : commits[c] # None}

Init ==
    /\ wsLive = TRUE
    /\ head = None
    /\ headVersion = 0
    /\ commits = [c \in CommitIds |-> None]
    /\ serverSeq = [c \in CommitIds |-> 0]
    /\ nextSeq = 1
    /\ active = {}
    /\ lastSeq = [d \in Devices |-> 0]
    /\ cursor = [d \in Devices |-> [seen |-> None, checkpoint |-> None]]
    /\ avail = {}
    /\ req = [r \in Requests |-> None]
    /\ pull = [d \in Readers |-> NoPull]
    /\ localHead = [d \in Readers |-> None]
    /\ applied = [d \in Readers |-> <<>>]
    /\ log = <<>>

-----------------------------------------------------------------------------
(* PublishCommit.                                                          *)

Reply(r, out) == req' = [req EXCEPT ![r].pc = out]

At(r, pc) == req[r] # None /\ req[r].pc = pc

\* Mutant: the payloads are not compared.
MatchReplyById(p) == "ok"

\* Mutant: a retry has an outcome of its own that no caller knows.
MatchReplyIdempotent(p) == IF commits[p.id] = p THEN "idempotent" ELSE "refused"

\* A retry is the same commit: payload and signature match the row's.
MatchReply(p) == IF commits[p.id] = p THEN "ok" ELSE "refused"

\* authorizeWorkspace, unlocked.
PublishAuthorize(r, p) ==
    /\ req[r] = None
    /\ wsLive
    /\ req' = [req EXCEPT ![r] = [pc |-> "lookup", p |-> p]]
    /\ UNCHANGED <<wsLive, tableVars, nextSeq, active, avail, readVars>>

\* The first GetSyncCommit, unlocked: a commit that is there is answered at
\* once, otherwise the call goes on to wait for the workspace row.
PublishLookup(r) ==
    /\ At(r, "lookup")
    /\ Reply(r, IF commits[req[r].p.id] = None THEN "lock" ELSE MatchReply(req[r].p))
    /\ UNCHANGED <<wsLive, tableVars, nextSeq, active, avail, readVars>>

\* Mutant: the parents need not name the head the commit replaces.
ParentsValidAnywhere(p) ==
    /\ p.kind = "checkpoint" \/ p.parents # {}
    /\ \A q \in p.parents : commits[q] # None

\* validateParents.
ParentsValid(p) ==
    /\ IF p.kind = "checkpoint" /\ p.expected = None THEN p.parents = {}
       ELSE /\ p.expected \in p.parents
            /\ IF p.kind = "merge" THEN Cardinality(p.parents) >= 2
               ELSE Cardinality(p.parents) = 1
    /\ \A q \in p.parents : commits[q] # None

\* Mutant: referenced objects are not looked up.
ObjectsValidBodyOnly(p) == p.body \in avail /\ Kind[p.body] = "commit_body"

\* validateCommitObjects, apart from the body's descriptor.
ObjectsValid(p) ==
    /\ p.body \in avail /\ Kind[p.body] = "commit_body"
    /\ \A o \in p.refs : o \in avail /\ Kind[o] # "commit_body"
    /\ p.kind = "checkpoint" => \E o \in p.refs : Kind[o] = "checkpoint_pack"

\* Mutant: a sequence number may be used again.
SeqFreshOrSame(p) == p.seq >= lastSeq[p.dev]

\* device_seq must grow.
SeqFresh(p) == p.seq > lastSeq[p.dev]

Acceptable(p) ==
    /\ p.dev \in active
    /\ SeqFresh(p)
    /\ p.genuine
    /\ ParentsValid(p)
    /\ ObjectsValid(p)

\* Mutant: the identity value was drawn before the lock was taken.
EarlySeq == IF nextSeq > 2 THEN nextSeq - 2 ELSE nextSeq

\* server_seq GENERATED ALWAYS AS IDENTITY: drawn by the INSERT, under the lock.
DrawnSeq == nextSeq

\* The writes of an accepted commit: the row, the device's sequence and
\* cursor (an older checkpoint is kept: COALESCE), and the head.
InsertCommit(p) ==
    /\ nextSeq < MaxServerSeq
    /\ commits' = [commits EXCEPT ![p.id] = p]
    /\ serverSeq' = [serverSeq EXCEPT ![p.id] = DrawnSeq]
    /\ nextSeq' = nextSeq + 1
    /\ lastSeq' = [lastSeq EXCEPT ![p.dev] = p.seq]
    /\ cursor' = [cursor EXCEPT ![p.dev] =
          [seen |-> p.id, checkpoint |-> IF p.kind = "checkpoint" THEN p.id ELSE @.checkpoint]]
    /\ head' = p.id
    /\ headVersion' = headVersion + 1
    /\ log' = Append(log, p.id)

\* Mutant: expected_head_commit_id is compared before the lock only.
HeadUnchecked(p) == TRUE

\* The compare of compare-and-swap.
HeadMatches(p) == head = p.expected

\* Mutant: the commit is not looked up again under the lock.
FreshBeforeLock(p) == TRUE

\* The second GetSyncCommit: another call may have inserted it meanwhile.
FreshUnderLock(p) == commits[p.id] = None

\* Everything after GetSyncWorkspaceForUpdate.
PublishLocked(r) ==
    LET p == req[r].p
    IN  /\ At(r, "lock")
        /\ IF wsLive /\ FreshUnderLock(p) /\ HeadMatches(p) /\ Acceptable(p)
           THEN InsertCommit(p) /\ Reply(r, "ok")
           ELSE /\ Reply(r, IF ~wsLive THEN "refused"
                            ELSE IF ~FreshUnderLock(p) THEN MatchReply(p)
                            ELSE IF ~HeadMatches(p) THEN "conflict"
                            ELSE "refused")
                /\ UNCHANGED <<tableVars, nextSeq>>
        /\ UNCHANGED <<wsLive, active, avail, readVars>>

\* The transaction fails: a lost connection, a cancelled call, a constraint.
\* Whether or not it had reached the INSERT, nothing but the identity column
\* can show it (SkipServerSeq).
PublishAbort(r) ==
    /\ req[r] # None /\ req[r].pc \in {"lookup", "lock"}
    /\ Reply(r, "refused")
    /\ UNCHANGED <<wsLive, tableVars, nextSeq, active, avail, readVars>>

\* The answer reaches the client, or is lost.
PublishReturn(r) ==
    /\ req[r] # None /\ req[r].pc \in {"ok", "conflict", "refused"}
    /\ req' = [req EXCEPT ![r] = None]
    /\ UNCHANGED <<wsLive, tableVars, nextSeq, active, avail, readVars>>

\* A rolled back INSERT, or one for another workspace, uses up a value.
SkipServerSeq ==
    /\ nextSeq < MaxServerSeq
    /\ nextSeq' = nextSeq + 1
    /\ UNCHANGED <<wsLive, tableVars, active, avail, req, readVars>>

-----------------------------------------------------------------------------
(* The rest of the workspace, as far as PublishCommit can see it.          *)

RegisterDevice(d) ==
    /\ wsLive
    /\ d \notin active
    /\ active' = active \cup {d}
    /\ UNCHANGED <<wsLive, tableVars, nextSeq, avail, req, readVars>>

\* An upload completes (SyncObjects).
ObjectAvailable(o) ==
    /\ wsLive
    /\ o \notin avail
    /\ avail' = avail \cup {o}
    /\ UNCHANGED <<wsLive, tableVars, nextSeq, active, req, readVars>>

\* DeleteWorkspace; with whole = TRUE DeleteAccount, which also marks the
\* objects and revokes the devices.
DeleteWorkspace(whole) ==
    /\ wsLive
    /\ wsLive' = FALSE
    /\ active' = IF whole THEN {} ELSE active
    /\ avail' = IF whole THEN {} ELSE avail
    /\ UNCHANGED <<tableVars, nextSeq, req, readVars>>

-----------------------------------------------------------------------------
(* A pull: GetHead, all pages of ListCommits, select_replay_commits, replay. *)

\* ORDER BY server_seq.
InSeqOrder(S) ==
    CHOOSE s \in Bijection(1 .. Cardinality(S), S) :
        \A i, j \in DOMAIN s : i < j => serverSeq[s[i]] <= serverSeq[s[j]]

\* GetLatestSyncCheckpointCommitID.
LatestCheckpoint ==
    LET ckpts == {c \in Rows : commits[c].kind = "checkpoint"}
    IN  IF ckpts = {} THEN None
        ELSE CHOOSE c \in ckpts : \A e \in ckpts : serverSeq[e] <= serverSeq[c]

\* ListCommits: one row more than the page is fetched, to know has_more.
After(after) == InSeqOrder({c \in Rows : serverSeq[c] > after})

\* Mutant: next_after_server_seq is taken from the extra row.
PagePastNext(after) ==
    LET rows == After(after)
        page == SubSeq(rows, 1, IF Len(rows) > PageSize THEN PageSize ELSE Len(rows))
    IN  [commits |-> page, more |-> Len(rows) > PageSize,
         next |-> IF page = <<>> THEN 0
                  ELSE serverSeq[rows[IF Len(rows) > PageSize THEN PageSize + 1 ELSE Len(rows)]]]

Page(after) ==
    LET rows == After(after)
        page == SubSeq(rows, 1, IF Len(rows) > PageSize THEN PageSize ELSE Len(rows))
    IN  [commits |-> page, more |-> Len(rows) > PageSize,
         next |-> IF page = <<>> THEN 0 ELSE serverSeq[Last(page)]]

\* GetHead, first statement: the workspace row.  A pull of an empty history
\* ends here.
PullHead(d) ==
    /\ pull[d].pc = "idle"
    /\ wsLive /\ head # None
    /\ pull' = [pull EXCEPT ![d].pc = "ckpt", ![d].head = head]
    /\ UNCHANGED <<wsLive, tableVars, nextSeq, active, avail, req, localHead, applied>>

\* GetHead, second statement: the latest checkpoint by then.
PullCheckpoint(d) ==
    /\ pull[d].pc = "ckpt"
    /\ pull' = [pull EXCEPT ![d].pc = "pages", ![d].ckpt = LatestCheckpoint]
    /\ UNCHANGED <<wsLive, tableVars, nextSeq, active, avail, req, localHead, applied>>

Position(s, c) == CHOOSE i \in 1 .. Len(s) : s[i] = c

\* select_replay_commits.  <<>> also stands for its errors: the local head or
\* the checkpoint is not in the history, or the history does not end with the
\* head that was read first (a commit was published in between).
Replay(d, got) ==
    LET from == IF localHead[d] # None THEN localHead[d] ELSE pull[d].ckpt
        start == IF from = None THEN 1
                 ELSE Position(got, from) + (IF localHead[d] # None THEN 1 ELSE 0)
    IN  IF \/ localHead[d] = pull[d].head
           \/ (from # None /\ ~Contains(got, from))
           \/ got = <<>>
        THEN <<>>
        ELSE LET replay == SubSeq(got, start, Len(got))
             IN  IF replay # <<>> /\ Last(replay) = pull[d].head THEN replay ELSE <<>>

\* One ListCommits request; list_all_commits checks that the cursor advances
\* and that server_seq grows, and after the last page the replay is selected.
PullPage(d) ==
    /\ pull[d].pc = "pages"
    /\ wsLive
    /\ LET page == Page(pull[d].after)
           got == pull[d].got \o page.commits
           ordered == \A i \in 1 .. Len(got) - 1 : serverSeq[got[i]] < serverSeq[got[i + 1]]
           replay == Replay(d, got)
       IN  pull' = [pull EXCEPT ![d] =
              IF ~ordered \/ (page.more /\ page.next <= @.after) THEN NoPull
              ELSE IF page.more THEN [@ EXCEPT !.after = page.next, !.got = got]
              ELSE IF replay = <<>> THEN NoPull
              ELSE [@ EXCEPT !.pc = "apply", !.after = 0, !.got = <<>>, !.replay = replay]]
    /\ UNCHANGED <<wsLive, tableVars, nextSeq, active, avail, req, localHead, applied>>

\* One commit of the replay: its files, then persist_applied_commit, whose
\* last write is the local head (update_vault_after_pull).
PullApply(d) ==
    /\ pull[d].pc = "apply"
    /\ LET c == Head(pull[d].replay)
           rest == Tail(pull[d].replay)
       IN  /\ localHead' = [localHead EXCEPT ![d] = c]
           /\ applied' = [applied EXCEPT ![d] = Append(@, c)]
           /\ pull' = [pull EXCEPT ![d] = IF rest = <<>> THEN NoPull
                                          ELSE [@ EXCEPT !.replay = rest]]
    /\ UNCHANGED <<wsLive, tableVars, nextSeq, active, avail, req>>

\* A transport error, a commit that cannot be decrypted or written, or the app
\* quits: the pull is over, what was applied stays.
PullFail(d) ==
    /\ pull[d].pc # "idle"
    /\ pull' = [pull EXCEPT ![d] = NoPull]
    /\ UNCHANGED <<wsLive, tableVars, nextSeq, active, avail, req, localHead, applied>>

Next ==
    \/ \E r \in Requests :
        \/ \E p \in Params : PublishAuthorize(r, p)
        \/ PublishLookup(r) \/ PublishLocked(r) \/ PublishAbort(r) \/ PublishReturn(r)
    \/ SkipServerSeq
    \/ \E d \in Devices : RegisterDevice(d)
    \/ \E o \in Objects : ObjectAvailable(o)
    \/ \E whole \in BOOLEAN : DeleteWorkspace(whole)
    \/ \E d \in Readers :
        \/ PullHead(d) \/ PullCheckpoint(d) \/ PullPage(d) \/ PullApply(d) \/ PullFail(d)

Spec == Init /\ [][Next]_vars
-----------------------------------------------------------------------------
(* Garbage collection's view (gc.go): which commits the head reaches.      *)

\* visitReachableCommits, n parents away from the head.
Reach[n \in Nat] ==
    IF n = 0 THEN {head} \cap Rows
    ELSE Reach[n - 1] \cup ((UNION {commits[c].parents : c \in Reach[n - 1]}) \cap Rows)

\* No commit is farther away than there are rows.
Reachable == Reach[Cardinality(Rows)]

\* Mutant: the checkpoint itself is left out.
PreservedAfterCheckpoint ==
    IF LatestCheckpoint = None THEN Reachable
    ELSE {c \in Rows : serverSeq[c] > serverSeq[LatestCheckpoint]}

\* buildReachableObjectGraph: what a later collection of old history would
\* keep, the latest checkpoint and everything after it.
Preserved ==
    IF LatestCheckpoint = None THEN Reachable
    ELSE {c \in Rows : serverSeq[c] >= serverSeq[LatestCheckpoint]}

-----------------------------------------------------------------------------
(* Properties.                                                             *)

Expected(i) == IF i = 1 THEN None ELSE log[i - 1]

\* Concurrent publishers, retries and rolled back transactions leave one
\* linear history: the rows are the log, each commit replaced the one before
\* it, the head is the last, and head_version counts them.
HistoryLinear ==
    /\ Rows = {log[i] : i \in 1 .. Len(log)}
    /\ \A i \in 1 .. Len(log) : commits[log[i]].id = log[i] /\ commits[log[i]].expected = Expected(i)
    /\ head = Expected(Len(log) + 1)
    /\ headVersion = Len(log)

\* server_seq orders commits as their transactions ended, although the
\* identity column is drawn by concurrent transactions and skips values: a
\* reader that has seen a page never misses a commit that appears later.
ServerSeqOrder ==
    \A i, j \in 1 .. Len(log) :
        i < j => serverSeq[log[i]] < serverSeq[log[j]]

\* A device's sequence numbers grow along the history, also when it has two
\* calls in flight: no number is used twice.
DeviceSeqOrder ==
    \A i, j \in 1 .. Len(log) :
        i < j /\ commits[log[i]].dev = commits[log[j]].dev =>
            commits[log[i]].seq < commits[log[j]].seq

\* Parents are older commits, the replaced head among them, so the parent
\* graph has no cycle and no second tip.
ParentsEarlier ==
    \A i \in 1 .. Len(log) :
        /\ \A q \in commits[log[i]].parents : \E j \in 1 .. i - 1 : log[j] = q
        /\ i > 1 => log[i - 1] \in commits[log[i]].parents

\* What collection would preserve is enough for a new device: it starts with a
\* checkpoint, or with the first commit, and goes on to the head without a gap.
PreservedIsSuffix ==
    \E i \in 1 .. Len(log) + 1 :
        /\ Preserved = {log[j] : j \in i .. Len(log)}
        /\ i > 1 /\ i <= Len(log) => commits[log[i]].kind = "checkpoint"
        /\ i > Len(log) => log = <<>>

\* Every object a published commit names is available while the workspace
\* lives: a desktop can download what a commit lists.
CommitsDownloadable ==
    wsLive => \A c \in Rows : {commits[c].body} \cup commits[c].refs \subseteq avail

\* What keeps the properties above: numbers already given out stay below the
\* next ones, of the identity column and of each device.
NumbersBounded ==
    \A c \in Rows : /\ serverSeq[c] < nextSeq
                    /\ commits[c].seq <= lastSeq[commits[c].dev]

HistoryInv ==
    /\ ServerTypeOK
    /\ NumbersBounded
    /\ HistoryLinear
    /\ ServerSeqOrder
    /\ DeviceSeqOrder
    /\ ParentsEarlier
    /\ CommitsDownloadable

\* However pages and publishes interleave, a desktop applies a gapless run of
\* the history without repetition, from its beginning or from a checkpoint,
\* and its local head is the last commit it applied.
ReplayIsSegment ==
    \A d \in Readers :
        LET a == applied[d]
        IN  a # <<>> =>
              /\ localHead[d] = Last(a)
              /\ \E i \in 1 .. Len(log) :
                    /\ i + Len(a) - 1 <= Len(log)
                    /\ a = SubSeq(log, i, i + Len(a) - 1)
                    /\ i > 1 => commits[a[1]].kind = "checkpoint"

\* A commit, once published, is never changed, renumbered or removed.
AppendOnly ==
    [][/\ Len(log) <= Len(log') /\ \A i \in 1 .. Len(log) : log'[i] = log[i]
       /\ \A c \in Rows : commits'[c] = commits[c] /\ serverSeq'[c] = serverSeq[c]]_vars

\* PublishCommit behaves like one atomic append to a log (SyncLog).
LogOf == [i \in 1 .. Len(log) |-> commits[log[i]]]
CallOf ==
    [r \in Requests |->
        IF req[r] = None THEN None
        ELSE [p   |-> req[r].p,
              out |-> IF req[r].pc \in {"lookup", "lock"} THEN "open" ELSE req[r].pc]]

Abstract == INSTANCE SyncLog WITH log <- LogOf, call <- CallOf

\* Every interleaving of the unlocked lookups, the locked body, aborts and
\* lost answers is one the abstract log allows: a commit joins once and only
\* after the head it names; a retry succeeds; a conflict is a real one.
ImplementsLog == Abstract!LogSpec
=============================================================================
