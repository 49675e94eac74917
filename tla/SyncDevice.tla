----------------------------- MODULE SyncDevice ------------------------------
(***************************************************************************)
(* The desktop's side of sync (apps/desktop/src-tauri/src/sync): what a    *)
(* run does to the vault's files and to the local sync database, against a *)
(* server whose history is the log that SyncCommits implements.            *)
(*                                                                         *)
(* run_sync_once pulls, then pushes; if the push loses the race for the    *)
(* head it pulls once more and pushes a merge commit.  A step is what      *)
(* happens between two awaits.  Users write to the vault at any time, with *)
(* EditDuringRun also while a run is on its way; a run may fail or the app *)
(* may quit between any two steps; a reply may be lost.                    *)
(*                                                                         *)
(* A file's content is the set of edits it holds.  Names stand for         *)
(* normalized paths (file_id is a hash of the path the file first had).    *)
(***************************************************************************)
EXTENDS Integers, Sequences

CONSTANTS
    Devices,        \* desktops connected to one workspace
    Files,          \* paths users write to
    Copies,         \* paths for conflict copies
    Edits,          \* edits users make
    Absent,         \* no file
    NoRow,          \* no row in sync_files, and no name
    EditDuringRun,  \* users also write while their device syncs
    UserDeletes,    \* users also delete files
    MaxLog          \* bound on published commits

Names == Files \cup Copies
States == {Absent} \cup SUBSET Edits          \* of a file on disk or in a tree
Trees == [Names -> States]
EmptyTree == [n \in Names |-> Absent]
Row == [hash : States, dirty : BOOLEAN]

ASSUME DeviceAssumption ==
    /\ \A s \in SUBSET Edits : s # Absent
    /\ NoRow \notin Row \cup Names
    /\ EditDuringRun \in BOOLEAN /\ UserDeletes \in BOOLEAN
    /\ MaxLog \in Nat

VARIABLES
    log,      \* published commits; a commit's id is its place in the log
    lastSeq,  \* server: last_device_seq of each device
    disk,     \* the files of each vault
    rows,     \* sync_files; hash = Absent is deleted = 1
    vault,    \* sync_vaults: local head (0 for none) and next_device_seq
    tree,     \* sync_tree_entries of the local head
    run,      \* the active run, where it is and what it has read
    written,  \* history: edits made
    dropped,  \* history: edits in files that a user deleted
    settled   \* history: since its last run began, nobody wrote and no run failed

vars == <<log, lastSeq, disk, rows, vault, tree, run, written, dropped, settled>>

CommitKinds == {"checkpoint", "incremental", "merge"}
Commits == [dev : Devices, seq : Nat, kind : CommitKinds, expected : Nat, parents : SUBSET (Nat \ {0}),
            ops : UNION {[S -> States] : S \in SUBSET Names}, tree : Trees]

\* second: after a head conflict.  parent: local_parent.  target: the head that
\* was read.  snap, gone: the dirty files and those of them with deleted = 1.
\* left: changes of commit vault.head + 1 to apply; work: tree_by_file_id;
\* synced: synced_file_ids; read: a local file read for a merge.
Idle == [pc |-> "idle", second |-> FALSE, parent |-> 0, target |-> 0, snap |-> {}, gone |-> {},
         left |-> {}, work |-> EmptyTree, synced |-> {}, read |-> NoRow, local |-> Absent,
         plan |-> NoRow]

Runs == [pc : {"idle", "pull", "apply", "marked", "push", "upload", "sent", "saved"},
         second : BOOLEAN, parent : Nat, target : Nat, snap : SUBSET Names, gone : SUBSET Names,
         left : SUBSET Names, work : Trees, synced : SUBSET Names,
         read : Names \cup {NoRow}, local : States, plan : Commits \cup {NoRow}]

\* Merge commits have two different parents, the head they replace and an
\* older commit the device had.
MergeParents ==
    \A i \in 1 .. Len(log) :
        log[i].kind = "merge" =>
            \E p \in 1 .. i - 2 : log[i].parents = {i - 1, p}

\* Every variable keeps its type, and the parents of a commit are as the server
\* demands also after a lost race for the head (run_sync_once).
TypeOK ==
    /\ log \in Seq(Commits)
    /\ lastSeq \in [Devices -> Nat]
    /\ disk \in [Devices -> Trees]
    /\ rows \in [Devices -> [Names -> Row \cup {NoRow}]]
    /\ vault \in [Devices -> [head : Nat, seq : Nat \ {0}]]
    /\ tree \in [Devices -> Trees]
    /\ run \in [Devices -> Runs]
    /\ written \subseteq Edits /\ dropped \subseteq written
    /\ settled \in [Devices -> BOOLEAN]
    /\ MergeParents

Init ==
    /\ log = <<>>
    /\ lastSeq = [d \in Devices |-> 0]
    /\ disk = [d \in Devices |-> EmptyTree]
    /\ rows = [d \in Devices |-> [n \in Names |-> NoRow]]
    /\ vault = [d \in Devices |-> [head |-> 0, seq |-> 1]]
    /\ tree = [d \in Devices |-> EmptyTree]
    /\ run = [d \in Devices |-> Idle]
    /\ written = {}
    /\ dropped = {}
    /\ settled = [d \in Devices |-> FALSE]

-----------------------------------------------------------------------------
(* Users and the status poll.                                              *)

\* A user adds something to a file, or creates it.
Edit(d, n, e) ==
    /\ e \notin written
    /\ EditDuringRun \/ run[d].pc = "idle"
    /\ disk' = [disk EXCEPT ![d][n] = IF @ = Absent THEN {e} ELSE @ \cup {e}]
    /\ written' = written \cup {e}
    /\ settled' = [settled EXCEPT ![d] = FALSE]
    /\ UNCHANGED <<log, lastSeq, rows, vault, tree, run, dropped>>

Delete(d, n) ==
    /\ UserDeletes
    /\ disk[d][n] # Absent
    /\ EditDuringRun \/ run[d].pc = "idle"
    /\ disk' = [disk EXCEPT ![d][n] = Absent]
    /\ dropped' = dropped \cup disk[d][n]
    /\ settled' = [settled EXCEPT ![d] = FALSE]
    /\ UNCHANGED <<log, lastSeq, rows, vault, tree, run, written>>

\* apply_scan: dirty is sticky, a file that was deleted or is new is dirty, a
\* row whose file is gone becomes deleted and dirty.
Scanned(r, files) ==
    [n \in Names |->
        IF files[n] # Absent
        THEN [hash |-> files[n],
              dirty |-> r[n] = NoRow \/ (r[n] # NoRow /\ (r[n].dirty \/ r[n].hash # files[n]))]
        ELSE IF r[n] = NoRow THEN NoRow
        ELSE [hash |-> Absent, dirty |-> r[n].dirty \/ r[n].hash # Absent]]

\* ScanApplyResult.deletions: rows this scan found deleted.
Deletions(r, files) == {n \in Names : files[n] = Absent /\ r[n] # NoRow /\ r[n].hash # Absent}

Dirty(r) == {n \in Names : r[n] # NoRow /\ r[n].dirty}

\* mark_files_synced.
Marked(r, S) == [n \in Names |-> IF n \in S /\ r[n] # NoRow THEN [r[n] EXCEPT !.dirty = FALSE] ELSE r[n]]

\* sync_get_status with scan_local, refused while a run is active:
\* pending_upload_count scans, then clear_dirty_files_matching_head.
StatusScan(d) ==
    /\ run[d].pc = "idle"
    /\ LET r == Scanned(rows[d], disk[d])
           same == {n \in Names : r[n] # NoRow /\ r[n].hash = tree[d][n]}
       IN  rows' = [rows EXCEPT ![d] = IF vault[d].head = 0 THEN r ELSE Marked(r, same)]
    /\ UNCHANGED <<log, lastSeq, disk, vault, tree, run, written, dropped, settled>>

-----------------------------------------------------------------------------
(* Pull.                                                                   *)

\* A commit's changes on top of a tree; a checkpoint starts from nothing.
Applied(t, c) ==
    LET base == IF c.kind = "checkpoint" THEN EmptyTree ELSE t
    IN  [n \in Names |-> IF n \in DOMAIN c.ops THEN c.ops[n] ELSE base[n]]

\* rematerialize_tree_entries.
TreeAt[i \in Nat] == IF i = 0 THEN EmptyTree ELSE Applied(TreeAt[i - 1], log[i])

\* Turns to the commit after i, or ends the pull.
NextCommit(r, i, t) ==
    IF i = r.target
    THEN [r EXCEPT !.pc = "push", !.snap = {}, !.gone = {}, !.left = {}, !.work = EmptyTree,
                   !.synced = {}, !.target = 0, !.parent = IF r.second THEN @ ELSE i]
    ELSE [r EXCEPT !.pc = "apply", !.left = DOMAIN log[i + 1].ops, !.synced = {},
                   !.work = IF log[i + 1].kind = "checkpoint" THEN EmptyTree ELSE t]

\* get_head, list_all_commits and select_replay_commits; only with commits to
\* replay, refresh_local_scan and the one list_dirty_files of this pull.  The
\* tree starts from the cache, or is rebuilt when the cache has no entry.
\* Desktops publish a checkpoint as first commit only, so a replay from the
\* latest checkpoint is one from the start.
PullStart(d) ==
    /\ run[d].pc \in {"idle", "pull"}
    /\ LET begun == [run[d] EXCEPT !.target = Len(log)]
           head == vault[d].head
           r == Scanned(rows[d], disk[d])
           start == IF tree[d] = EmptyTree THEN TreeAt[head] ELSE tree[d]
       IN  IF head = Len(log)
           THEN /\ run' = [run EXCEPT ![d] = NextCommit(begun, head, tree[d])]
                /\ UNCHANGED rows
           ELSE /\ rows' = [rows EXCEPT ![d] = r]
                /\ run' = [run EXCEPT ![d] =
                      NextCommit([begun EXCEPT !.snap = Dirty(r),
                                               !.gone = {n \in Dirty(r) : r[n].hash = Absent}],
                                 head, start)]
    /\ settled' = [settled EXCEPT ![d] = @ \/ run[d].pc = "idle"]
    /\ UNCHANGED <<log, lastSeq, disk, vault, tree, written, dropped>>

Remote(d, n) == log[vault[d].head + 1].ops[n]

\* The change of file n is done: files is what is on disk now.
ChangeDone(d, n, files, clean) ==
    /\ disk' = [disk EXCEPT ![d] = files]
    /\ run' = [run EXCEPT ![d].left = @ \ {n},
                          ![d].work = [@ EXCEPT ![n] = Remote(d, n)],
                          ![d].synced = IF clean THEN @ \cup {n} ELSE @,
                          ![d].read = NoRow, ![d].local = Absent]
    /\ UNCHANGED <<log, lastSeq, rows, vault, tree, written, dropped, settled>>

\* Mutant: the conflict is only recorded.
WithoutCopy(files, content, c) == files

\* write_conflict_copy.  The path holds the time of the pull and a suffix that
\* makes it new in the vault, so it is one that was never used.
WithCopy(files, content, c) == [files EXCEPT ![c] = content]
FreeCopies(d) ==
    {c \in Copies : \A o \in Devices : disk[o][c] = Absent /\ rows[o][c] = NoRow}

\* A file that was not dirty when the pull began, and a deletion on both
\* sides: apply_remote_write or apply_remote_delete.
ApplyClean(d, n) ==
    /\ run[d].pc = "apply" /\ n \in run[d].left
    /\ IF Remote(d, n) = Absent THEN n \notin run[d].snap \ run[d].gone ELSE n \notin run[d].snap
    /\ ChangeDone(d, n, [disk[d] EXCEPT ![n] = Remote(d, n)], TRUE)

\* merge_remote_upsert of a file deleted here: a copy of the remote version.
ApplyToDeleted(d, n) ==
    /\ run[d].pc = "apply" /\ n \in run[d].left \cap run[d].gone
    /\ Remote(d, n) # Absent
    /\ \E c \in FreeCopies(d) : ChangeDone(d, n, WithCopy(disk[d], Remote(d, n), c), FALSE)

\* read_local_file of a file edited here; a merge then awaits the download of
\* the common base.
ReadLocal(d, n) ==
    /\ run[d].pc = "apply" /\ n \in run[d].left \cap (run[d].snap \ run[d].gone)
    /\ run[d].read = NoRow
    /\ disk[d][n] # Absent
    /\ run' = [run EXCEPT ![d].read = n, ![d].local = disk[d][n]]
    /\ UNCHANGED <<log, lastSeq, disk, rows, vault, tree, written, dropped, settled>>

\* merge_markdown: what was added on either side of the base and kept by both.
Merge(base, local, remote) ==
    (local \cap remote) \cup (local \ base) \cup (remote \ base)

\* Mutant: a merged file counts as synced.
IsRemoteAlways(merged, remote) == TRUE

\* RemoteApplyAction: a merge that kept something local stays dirty.
IsRemote(merged, remote) == merged = remote

\* merge_remote_upsert of a file edited here.  Unless one side is unchanged,
\* whether the lines collide decides between a merge and a conflict copy.
ApplyMerge(d, n) ==
    LET base == run[d].work[n]
        local == run[d].local
        remote == Remote(d, n)
        merged == Merge(base, local, remote)
    IN  /\ run[d].pc = "apply" /\ run[d].read = n
        /\ remote # Absent
        /\ base # Absent
        /\ ChangeDone(d, n, [disk[d] EXCEPT ![n] = merged], IsRemote(merged, remote))

ApplyConflict(d, n) ==
    LET base == run[d].work[n]
        local == run[d].local
        remote == Remote(d, n)
    IN  /\ run[d].pc = "apply" /\ run[d].read = n
        /\ remote # Absent
        /\ base \notin {local, remote} /\ (local = remote => base = Absent)
        /\ \E c \in FreeCopies(d) : ChangeDone(d, n, WithCopy(disk[d], remote, c), FALSE)

\* merge_remote_delete of a file edited here: a copy of what was read, then
\* the file goes.
ApplyDeleteToEdited(d, n) ==
    /\ run[d].pc = "apply" /\ run[d].read = n
    /\ Remote(d, n) = Absent
    /\ \E c \in FreeCopies(d) :
          ChangeDone(d, n, WithCopy([disk[d] EXCEPT ![n] = Absent], run[d].local, c), TRUE)

\* persist_applied_commit: the tree id must be the commit's; the tree cache, a
\* scan, mark_files_synced.
PersistApplied(d) ==
    /\ run[d].pc = "apply" /\ run[d].left = {}
    /\ run[d].work = log[vault[d].head + 1].tree
    /\ rows' = [rows EXCEPT ![d] = Marked(Scanned(rows[d], disk[d]), run[d].synced)]
    /\ run' = [run EXCEPT ![d].pc = "marked"]
    /\ UNCHANGED <<log, lastSeq, disk, vault, tree, written, dropped, settled>>

\* ... and, as its last write, update_vault_after_pull.
AdvanceHead(d) ==
    /\ run[d].pc = "marked"
    /\ vault' = [vault EXCEPT ![d].head = @ + 1]
    /\ tree' = [tree EXCEPT ![d] = run[d].work]
    /\ run' = [run EXCEPT ![d] = NextCommit(@, vault[d].head + 1, run[d].work)]
    /\ UNCHANGED <<log, lastSeq, disk, rows, written, dropped, settled>>

-----------------------------------------------------------------------------
(* Push.                                                                   *)

\* Mutant: only what changed since the scan before, as for deletions.
UpsertsOfThisScan(r, files) ==
    {n \in Names : files[n] # Absent /\ (IF r[n] = NoRow THEN TRUE ELSE r[n].hash # files[n])}

\* plan_incremental: the files that are dirty after the scan.
Upserts(r, files) == {n \in Dirty(Scanned(r, files)) : files[n] # Absent}

\* plan_initial_checkpoint takes every file, plan_incremental the dirty files
\* and the deletions of this scan.
PlanOps(d, kind) ==
    LET names == IF kind = "checkpoint" THEN {n \in Names : disk[d][n] # Absent}
                 ELSE Upserts(rows[d], disk[d]) \cup Deletions(rows[d], disk[d])
    IN  [n \in names |-> disk[d][n]]

\* parent_ids.
ParentIds(h) == IF h = 0 THEN {} ELSE {h}

\* Mutant: deleted files stay in the tree.
TreeWithDeleted(t, ops) ==
    [n \in Names |-> IF n \in DOMAIN ops /\ ops[n] # Absent THEN ops[n] ELSE t[n]]

\* materialize_tree_entries.
MaterializedTree(t, ops) == [n \in Names |-> IF n \in DOMAIN ops THEN ops[n] ELSE t[n]]

\* Mutant: also without a local head to merge with.
PushKindNoParent(d) ==
    IF run[d].second THEN "merge" ELSE IF Len(log) = 0 THEN "checkpoint" ELSE "incremental"

\* run_sync_once pushes a merge commit after a conflict, unless there was no
\* local head to merge with.
PushKind(d) ==
    IF run[d].second /\ run[d].parent # 0 THEN "merge"
    ELSE IF Len(log) = 0 THEN "checkpoint"
    ELSE "incremental"

\* push_local_changes and push_merge_commit up to the upload: get_head again,
\* ensure_local_head_can_push, scan, plan.  An empty plan ends the run well.
PushPlan(d) ==
    /\ run[d].pc = "push"
    /\ vault[d].head = Len(log)
    /\ LET kind == PushKind(d)
           ops == PlanOps(d, kind)
           commit == [dev |-> d, seq |-> vault[d].seq, kind |-> kind, expected |-> Len(log),
                      parents |-> ParentIds(Len(log))
                                  \cup (IF kind = "merge" THEN {run[d].parent} ELSE {}),
                      ops |-> ops, tree |-> MaterializedTree(tree[d], ops)]
       IN  /\ kind = "merge" => run[d].parent # Len(log)
           /\ rows' = [rows EXCEPT ![d] = Scanned(rows[d], disk[d])]
           /\ run' = [run EXCEPT ![d] = IF DOMAIN ops = {} THEN Idle
                                        ELSE [@ EXCEPT !.pc = "upload", !.plan = commit]]
    /\ UNCHANGED <<log, lastSeq, disk, vault, tree, written, dropped, settled>>

SeqAccepted(d) == run[d].plan.seq > lastSeq[d]

\* PublishCommit: the commit joins the history.
PublishAccepted(d) ==
    /\ run[d].pc = "upload"
    /\ Len(log) < MaxLog
    /\ run[d].plan.expected = Len(log)
    /\ SeqAccepted(d)
    /\ log' = Append(log, run[d].plan)
    /\ lastSeq' = [lastSeq EXCEPT ![d] = run[d].plan.seq]
    /\ run' = [run EXCEPT ![d].pc = "sent"]
    /\ UNCHANGED <<disk, rows, vault, tree, written, dropped, settled>>

\* PublishCommit: head conflict.  The first one makes the run pull again.
PublishConflict(d) ==
    /\ run[d].pc = "upload"
    /\ run[d].plan.expected # Len(log)
    /\ run' = [run EXCEPT ![d] = IF @.second THEN Idle
                                 ELSE [Idle EXCEPT !.pc = "pull", !.second = TRUE, !.parent = run[d].parent]]
    /\ settled' = [settled EXCEPT ![d] = @ /\ ~run[d].second]
    /\ UNCHANGED <<log, lastSeq, disk, rows, vault, tree, written, dropped>>

\* The reply arrives: apply_publish_success caches the tree, marks the files ...
PublishSaved(d) ==
    /\ run[d].pc = "sent"
    /\ rows' = [rows EXCEPT ![d] = Marked(@, DOMAIN run[d].plan.ops)]
    /\ run' = [run EXCEPT ![d].pc = "saved"]
    /\ UNCHANGED <<log, lastSeq, disk, vault, tree, written, dropped, settled>>

\* ... and, as its last write, update_vault_after_publish.  The run ends well.
PublishDone(d) ==
    /\ run[d].pc = "saved"
    /\ vault' = [vault EXCEPT ![d] = [head |-> run[d].plan.expected + 1, seq |-> run[d].plan.seq + 1]]
    /\ tree' = [tree EXCEPT ![d] = run[d].plan.tree]
    /\ run' = [run EXCEPT ![d] = Idle]
    /\ UNCHANGED <<log, lastSeq, disk, rows, written, dropped, settled>>

\* The run ends with an error anywhere on its way: no connection, a refusal, a
\* lost reply, a file that cannot be read; or the app quits.
RunFail(d) ==
    /\ run[d].pc # "idle"
    /\ run' = [run EXCEPT ![d] = Idle]
    /\ settled' = [settled EXCEPT ![d] = FALSE]
    /\ UNCHANGED <<log, lastSeq, disk, rows, vault, tree, written, dropped>>

Apply(d, n) ==
    \/ ApplyClean(d, n) \/ ApplyToDeleted(d, n) \/ ReadLocal(d, n)
    \/ ApplyMerge(d, n) \/ ApplyConflict(d, n) \/ ApplyDeleteToEdited(d, n)

Next ==
    \E d \in Devices :
        \/ \E n \in Files, e \in Edits : Edit(d, n, e)
        \/ \E n \in Names : Delete(d, n)
        \/ StatusScan(d)
        \/ PullStart(d)
        \/ \E n \in Names : Apply(d, n)
        \/ PersistApplied(d) \/ AdvanceHead(d)
        \/ PushPlan(d)
        \/ PublishAccepted(d) \/ PublishConflict(d) \/ PublishSaved(d) \/ PublishDone(d)
        \/ RunFail(d)

Spec == Init /\ [][Next]_vars
-----------------------------------------------------------------------------
(* Properties.                                                             *)

\* Every tree a device keeps is the one the history gives for its local head,
\* and every commit carries the tree its readers compute: the tree id check of
\* persist_applied_commit never refuses a commit, whatever failed before.
TreesAgree ==
    /\ \A i \in 1 .. Len(log) : log[i].tree = TreeAt[i]
    /\ \A d \in Devices : tree[d] = TreeAt[vault[d].head]

\* A file the local database calls clean, which a pull overwrites without a
\* merge, is in the history as it is.
CleanIsInHistory ==
    \A d \in Devices, n \in Names :
        rows[d][n] # NoRow /\ ~rows[d][n].dirty =>
            \E i \in 0 .. Len(log) : TreeAt[i][n] = rows[d][n].hash

\* An edit nobody deleted is in some vault or in the newest tree: runs, merges,
\* conflict copies, failures and retries lose no edit.
NoEditLost ==
    \A e \in written \ dropped :
        \E n \in Names :
            \/ TreeAt[Len(log)][n] # Absent /\ e \in TreeAt[Len(log)][n]
            \/ \E d \in Devices : disk[d][n] # Absent /\ e \in disk[d][n]

\* After a run that ended well, with nobody writing meanwhile, nothing is
\* dirty and the vault is the tree of its local head, as long as no user has
\* deleted a file (DeletesReachTree is about those).
SettledIsSynced ==
    \A d \in Devices :
        settled[d] /\ run[d].pc = "idle" /\ dropped = {} =>
            Dirty(rows[d]) = {} /\ disk[d] = tree[d]

\* A run that pulled up to the head and then publishes on it is not refused.
RetryAccepted ==
    \A d \in Devices :
        run[d].pc = "upload" /\ run[d].plan.expected = Len(log) => SeqAccepted(d)

\* After a run that ended well, with nobody writing meanwhile, no file deleted
\* here is left in the tree of the local head.
DeletesReachTree ==
    \A d \in Devices :
        settled[d] /\ run[d].pc = "idle" =>
            \A n \in Names : disk[d][n] = Absent => tree[d][n] = Absent
=============================================================================
