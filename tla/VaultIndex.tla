----------------------------- MODULE VaultIndex -----------------------------
(***************************************************************************)
(* How the desktop keeps its search index in step with the open vault:     *)
(* the app's file commands with the ledger of expected changes, the        *)
(* watcher thread, the queue of index jobs and the writer thread.          *)
(*                                                                         *)
(* The vault's markdown files are changed by the app and by others.  The   *)
(* app announces its own changes to the index and enters them in a ledger  *)
(* so that the watcher drops the events they cause; all other events go to *)
(* the index.  Time is left open: a ledger entry may expire and a pending  *)
(* rename may time out whenever the watcher looks.  A file's content is a  *)
(* version number, also its checksum and modification time; 0 is no file.  *)
(***************************************************************************)
EXTENDS Integers, Sequences, FiniteSets, SequencesExt

CONSTANTS
    Paths,          \* markdown files of the vault
    MaxOps,         \* bound: commands of the app
    MaxOutside,     \* bound: changes by others
    MaxExtras       \* bound: rebuild requests, changes of the setting, editor loads,
                    \*        event storms and failures

ASSUME VaultIndexAssumption ==
    Paths # {} /\ MaxOps \in Nat /\ MaxOutside \in Nat /\ MaxExtras \in Nat

Ops == 1..MaxOps
None == 0
MaxVersion == 1 + MaxOps + MaxOutside

VARIABLES
    disk,       \* the vault
    index,      \* indexed content of each path
    rt,         \* SearchRuntime: jobs, pending_index_paths, rebuild_state, incremental_updates
    writer,     \* the writer thread: the job under way and what it has read
    ledger,     \* ExpectedMutationLedger.entries
    platform,   \* decides which events a change causes
    watching,   \* the watcher has been started
    events,     \* events the operating system has queued for it
    moved,      \* PendingRename: the "from" event whose "to" is awaited, or none
    op,         \* the app's commands
    used,       \* counters of the bounds; version numbers handed out
    missed,     \* history: paths with a change that no notice or read followed
    last        \* history: kind of the last job that touched a path

vars == <<disk, index, rt, writer, ledger, platform, watching, events, moved, op, used, missed, last>>

Kinds == {"create", "modify", "delete", "rename", "from", "to"}
Event(kind, p, old, by) == [kind |-> kind, path |-> p, old |-> old, by |-> by]
Job(kind, p, old) == [kind |-> kind, path |-> p, old |-> old]
AnyPath == CHOOSE p \in Paths : TRUE
FullRebuild == Job("rebuild", AnyPath, AnyPath)

Events == [kind : Kinds, path : Paths, old : Paths, by : SUBSET (Ops \cup {None})]
Jobs == [kind : {"rebuild", "index", "remove", "rename"}, path : Paths, old : Paths]
NoOp == [pc |-> "unused", kind |-> "write", path |-> AnyPath, old |-> AnyPath]
Idle == [pc |-> "idle", job |-> FullRebuild, files |-> {}, todo |-> {}, docs |-> [p \in Paths |-> 0]]

TypeOK ==
    /\ disk \in [Paths -> 0..MaxVersion] /\ index \in [Paths -> 0..MaxVersion]
    /\ rt \in [jobs : Seq(Jobs), pending : SUBSET Paths, incremental : BOOLEAN,
               rebuild : [queued : BOOLEAN, running : BOOLEAN, rerun : BOOLEAN]]
    /\ writer \in [pc : {"idle", "commit", "collect", "rebuild"}, job : Jobs,
                   files : SUBSET Paths, todo : SUBSET Paths, docs : [Paths -> 0..MaxVersion]]
    /\ ledger \in Seq([id : Ops, kind : {"write", "delete", "rename"}, path : Paths, old : Paths])
    /\ platform \in {"linux", "macos", "windows"} /\ watching \in BOOLEAN /\ events \in Seq(Events) /\ moved \in Seq(Events) /\ Len(moved) <= 1
    /\ op \in [Ops -> [pc : {"unused", "recorded", "applied", "done"},
                       kind : {"write", "delete", "rename"}, path : Paths, old : Paths]]
    /\ used \in [outside : 0..MaxOutside, extras : 0..MaxExtras, version : 1..MaxVersion]
    /\ missed \subseteq Paths /\ last \in [Paths -> {"none", "read", "remove"}]

\* vault_open up to start_watching_with_search: the index is what an earlier
\* session left, a rebuild is queued if it had to be reset or by the setting.
Init ==
    /\ \E files \in {{AnyPath}, Paths} : disk = [p \in Paths |-> IF p \in files THEN 1 ELSE 0]
    /\ \E reset, reindex \in BOOLEAN :
        /\ reset => reindex
        /\ index = [p \in Paths |-> IF reset THEN 0 ELSE disk[p]]
        /\ rt = [jobs |-> IF reindex THEN <<FullRebuild>> ELSE <<>>, pending |-> {}, incremental |-> TRUE,
                 rebuild |-> [queued |-> reindex, running |-> FALSE, rerun |-> FALSE]]
    /\ missed = {p \in Paths : index[p] # disk[p]}
    /\ writer = Idle
    /\ ledger = <<>>
    /\ platform \in {"linux", "macos", "windows"} /\ watching = FALSE /\ events = <<>> /\ moved = <<>>
    /\ op = [i \in Ops |-> NoOp]
    /\ used = [outside |-> 0, extras |-> 0, version |-> 1]
    /\ last = [p \in Paths |-> "none"]

-----------------------------------------------------------------------------
(* The search runtime's queue: search/mod.rs.                              *)

\* queue_rebuild.
QueueRebuild(s) ==
    IF s.rebuild.running THEN [s EXCEPT !.rebuild.rerun = TRUE]
    ELSE IF s.rebuild.queued THEN s
    ELSE [s EXCEPT !.rebuild.queued = TRUE, !.jobs = Append(@, FullRebuild)]

\* Mutant: also dropped while the rebuild is running.
EnqueueUnlessRebuilding(s, p) ==
    IF s.rebuild.queued \/ s.rebuild.running \/ p \in s.pending THEN s
    ELSE [s EXCEPT !.pending = @ \cup {p}, !.jobs = Append(@, Job("index", p, p))]

\* enqueue_index_job: dropped when a rebuild is still to come, or when a job for
\* the path waits already.
EnqueueIndexJob(s, p) ==
    IF (s.rebuild.queued /\ ~s.rebuild.running) \/ p \in s.pending THEN s
    ELSE [s EXCEPT !.pending = @ \cup {p}, !.jobs = Append(@, Job("index", p, p))]

\* notify_written, notify_removed, notify_renamed.
NotifyWritten(s, p) == IF s.incremental THEN EnqueueIndexJob(s, p) ELSE QueueRebuild(s)

NotifyRemoved(s, p) ==
    IF s.incremental THEN [s EXCEPT !.pending = @ \ {p}, !.jobs = Append(@, Job("remove", p, p))]
    ELSE QueueRebuild(s)

NotifyRenamed(s, old, new) ==
    IF s.incremental THEN [s EXCEPT !.pending = @ \ {old, new}, !.jobs = Append(@, Job("rename", new, old))]
    ELSE QueueRebuild(s)

-----------------------------------------------------------------------------
(* Changes to the files and the events they cause.  A file that leaves the *)
(* vault is reported as deleted, as moved from, or just as changed; a      *)
(* rename in halves, in halves and whole, or as a change of each path.     *)

EventsOfWrite(p, by) ==
    LET first == Event(IF disk[p] = 0 THEN "create" ELSE "modify", p, p, by)
    IN  {IF platform = "linux" THEN <<first, Event("modify", p, p, by)>> ELSE <<first>>}

EventsOfRemoval(p, by) ==
    {<<Event(kind, p, p, by)>> : kind \in {"delete", IF platform = "macos" THEN "modify" ELSE "from"}}

EventsOfRename(p, q, by) ==
    LET halves == <<Event("from", p, p, by), Event("to", q, q, by)>>
    IN  {CASE platform = "windows" -> halves
           [] platform = "linux" -> Append(halves, Event("rename", q, p, by))
           [] platform = "macos" -> <<Event("modify", p, p, by), Event("modify", q, q, by)>>}

Emitted(options) ==
    IF watching THEN \E es \in options : events' = events \o es ELSE UNCHANGED events

Fresh == used.version + 1

\* One more of the extras.
Extra ==
    /\ used.extras < MaxExtras
    /\ used' = [used EXCEPT !.extras = @ + 1]

\* Somebody else writes, removes or renames a file.
Outside(change) ==
    LET by == {None}
        touched == {change.path, change.old}
    IN  /\ used.outside < MaxOutside
        /\ missed' = IF watching THEN missed ELSE missed \cup touched
        /\ used' = [used EXCEPT !.outside = @ + 1, !.version = IF change.kind = "write" THEN Fresh ELSE @]
        /\ \/ /\ change.kind = "write" /\ change.old = change.path
              /\ disk' = [disk EXCEPT ![change.path] = Fresh]
              /\ Emitted(EventsOfWrite(change.path, by))
           \/ /\ change.kind = "delete" /\ change.old = change.path /\ disk[change.path] # 0
              /\ disk' = [disk EXCEPT ![change.path] = 0]
              /\ Emitted(EventsOfRemoval(change.path, by))
           \/ /\ change.kind = "rename" /\ change.old # change.path /\ disk[change.old] # 0
              /\ disk' = [disk EXCEPT ![change.path] = disk[change.old], ![change.old] = 0]
              /\ Emitted(EventsOfRename(change.old, change.path, by))
        /\ UNCHANGED <<index, rt, writer, ledger, platform, watching, moved, op, last>>

-----------------------------------------------------------------------------
(* The app's commands: check and record, change the file, tell the index.  *)

\* vault_write_text, vault_write_with_checksum, vault_delete, vault_rename and
\* AppMutationSync::record.  Deleting what is not there records nothing.
Record(i, kind, p, q) ==
    /\ op[i].pc = "unused" /\ (i > 1 => op[i - 1].pc # "unused")
    /\ kind = "rename" => q # p /\ disk[q] # 0
    /\ kind # "rename" => q = p
    /\ LET absent == kind = "delete" /\ disk[p] = 0
       IN  /\ op' = [op EXCEPT ![i] = [pc |-> IF absent THEN "applied" ELSE "recorded",
                                        kind |-> kind, path |-> p, old |-> q]]
           /\ ledger' = IF absent THEN ledger
                        ELSE Append(ledger, [id |-> i, kind |-> kind, path |-> p, old |-> q])
    /\ UNCHANGED <<disk, index, rt, writer, platform, watching, events, moved, used, missed, last>>

\* The file operation.
ApplyOp(i) ==
    LET o == op[i]
        by == {i}
    IN  /\ o.pc = "recorded"
        /\ op' = [op EXCEPT ![i].pc = "applied"]
        /\ used' = [used EXCEPT !.version = IF o.kind = "write" THEN Fresh ELSE @]
        /\ \/ /\ o.kind = "write"
              /\ disk' = [disk EXCEPT ![o.path] = Fresh]
              /\ Emitted(EventsOfWrite(o.path, by))
           \/ /\ o.kind = "delete" /\ disk[o.path] # 0
              /\ disk' = [disk EXCEPT ![o.path] = 0]
              /\ Emitted(EventsOfRemoval(o.path, by))
           \/ /\ o.kind = "rename" /\ disk[o.old] # 0
              /\ disk' = [disk EXCEPT ![o.path] = disk[o.old], ![o.old] = 0]
              /\ Emitted(EventsOfRename(o.old, o.path, by))
        /\ UNCHANGED <<index, rt, writer, ledger, platform, watching, moved, missed, last>>

\* The operation fails, as it does when the file is gone, and
\* ExpectedMutationLedger::cancel; the ledger holds an id at most once.
FailOp(i) ==
    /\ op[i].pc = "recorded"
    /\ Extra \/ (op[i].kind # "write" /\ disk[op[i].old] = 0 /\ UNCHANGED used)
    /\ op' = [op EXCEPT ![i].pc = "done"]
    /\ ledger' = RemoveFirstMatch(ledger, LAMBDA e : e.id = i)
    /\ UNCHANGED <<disk, index, rt, writer, platform, watching, events, moved, missed, last>>

\* notify_applied.
NotifyOp(i) ==
    LET o == op[i]
    IN  /\ o.pc = "applied"
        /\ op' = [op EXCEPT ![i].pc = "done"]
        /\ rt' = CASE o.kind = "write" -> NotifyWritten(rt, o.path)
                   [] o.kind = "delete" -> NotifyRemoved(rt, o.path)
                   [] o.kind = "rename" -> NotifyRenamed(rt, o.old, o.path)
        /\ UNCHANGED <<disk, index, writer, ledger, platform, watching, events, moved, used, missed, last>>

-----------------------------------------------------------------------------
(* The watcher thread: vault/watcher.rs.                                   *)

StartWatching ==
    /\ ~watching
    /\ watching' = TRUE
    /\ UNCHANGED <<disk, index, rt, writer, ledger, platform, events, moved, op, used, missed, last>>

\* expected_mutation_matches_event.
Matches(e, ev) ==
    CASE e.kind = "write" -> ev.kind \in {"create", "modify"} /\ ev.path = e.path
      [] e.kind = "delete" -> \/ ev.kind = "delete" /\ ev.path = e.path
                              \/ ev.kind = "rename" /\ ev.old = e.path
      [] e.kind = "rename" -> \/ ev.kind \in {"create", "modify"} /\ ev.path = e.path
                              \/ ev.kind = "rename" /\ ev.path = e.path /\ ev.old = e.old

\* handle_watcher_event.
HandleSearchEvent(s, ev) ==
    CASE ev.kind \in {"create", "modify"} -> NotifyWritten(s, ev.path)
      [] ev.kind = "delete" -> NotifyRemoved(s, ev.path)
      [] ev.kind = "rename" -> NotifyRenamed(s, ev.old, ev.path)

\* consume_matching after the oldest entries have expired, then
\* handle_search_event: in a storm of changed files a rebuild instead.  An event
\* taken for a change that did not cause it goes unnoticed.
Observe(ev) ==
    \E expired \in 0..Len(ledger) :
        LET live == SubSeq(ledger, expired + 1, Len(ledger))
            hits == {k \in 1..Len(live) : Matches(live[k], ev)}
        IN  IF hits # {}
            THEN LET k == CHOOSE k \in hits : \A j \in hits : k <= j
                 IN  /\ ledger' = RemoveAt(live, k)
                     /\ missed' = IF ev.by = {live[k].id} THEN missed ELSE missed \cup {ev.path, ev.old}
                     /\ UNCHANGED <<rt, used>>
            ELSE /\ ledger' = live
                 /\ \/ rt' = HandleSearchEvent(rt, ev) /\ UNCHANGED used
                    \/ ev.kind \in {"create", "modify"} /\ Extra /\ rt' = QueueRebuild(rt)
                 /\ UNCHANGED missed

\* maybe_cleanup_pending: no "to" came in time.
MovedTimeout ==
    /\ moved # <<>>
    /\ moved' = <<>>
    /\ Observe([moved[1] EXCEPT !.kind = "delete"])
    /\ UNCHANGED <<disk, index, writer, platform, watching, events, op, last>>

\* Mutant: every "from" is kept.
HeldAll(ev) == Append(moved, ev)

\* map_event, RenameMode::From: a second one replaces the first, which is then
\* never reported.
Held(ev) == <<ev>>

\* The loop of start_watching_with_search, and map_event.
WatchEvent ==
    /\ events # <<>>
    /\ events' = Tail(events)
    /\ LET ev == Head(events)
       IN  \/ /\ ev.kind \in {"create", "modify", "delete", "rename"}
              /\ Observe(ev)
              /\ UNCHANGED moved
           \/ /\ ev.kind = "from"
              /\ moved' = Held(ev)
              /\ missed' = missed \cup {moved[k].path : k \in {k \in DOMAIN moved : moved[k].by = {None}}}
              /\ UNCHANGED <<ledger, rt, used>>
           \/ /\ ev.kind = "to"
              /\ moved' = <<>>
              /\ Observe(IF moved = <<>> THEN [ev EXCEPT !.kind = "create"]
                         ELSE Event("rename", ev.path, moved[1].path, ev.by \cup moved[1].by))
    /\ UNCHANGED <<disk, index, writer, platform, watching, op, last>>

-----------------------------------------------------------------------------
(* Requests from the panel and the editor.                                 *)

Request(s) ==
    /\ Extra
    /\ rt' = s
    /\ UNCHANGED <<disk, index, writer, ledger, platform, watching, events, moved, op, missed, last>>

\* request_rebuild, also for a changed setting that calls for one.
RequestRebuild == Request(QueueRebuild(rt))

\* set_config: incremental_updates is switched.
SetConfig == Request([rt EXCEPT !.incremental = ~@])

\* vault_read_with_checksum and reconcile_loaded_markdown: a file newer than its
\* entry is indexed, whatever is queued.
Load(p) ==
    /\ disk[p] # 0 /\ rt.incremental
    /\ index[p] = 0 \/ disk[p] > index[p]
    /\ Request([rt EXCEPT !.jobs = Append(@, Job("index", p, p))])

-----------------------------------------------------------------------------
(* The writer thread: search/writer.rs.                                    *)

\* History: the content of p, or its absence if the job acts on that, was read.
SeenBy(p, actsOnAbsence) ==
    IF disk[p] = 0 /\ ~actsOnAbsence THEN UNCHANGED <<missed, last>>
    ELSE missed' = missed \ {p} /\ last' = [last EXCEPT ![p] = "read"]

\* The runtime after its first job was taken: the path leaves pending_index_paths
\* before its file is read.
Taken(s) ==
    [s EXCEPT !.jobs = Tail(@),
              !.pending = IF Head(s.jobs).kind = "index" THEN @ \ {Head(s.jobs).path} ELSE @]

\* The loop of start_writer_thread and build_document.
TakeJob ==
    /\ writer.pc = "idle" /\ rt.jobs # <<>>
    /\ LET job == Head(rt.jobs)
           s == Taken(rt)
       IN  \/ /\ job.kind = "rebuild"
              /\ rt' = [s EXCEPT !.rebuild.queued = FALSE, !.rebuild.running = TRUE]
              /\ writer' = [Idle EXCEPT !.pc = "collect"]
              /\ UNCHANGED <<missed, last>>
           \/ /\ job.kind \in {"index", "rename"}
              /\ rt' = s
              /\ writer' = [Idle EXCEPT !.pc = "commit", !.job = job, !.docs[job.path] = disk[job.path]]
              /\ SeenBy(job.path, job.kind = "index")
           \/ /\ job.kind = "remove"
              /\ rt' = s
              /\ writer' = [Idle EXCEPT !.pc = "commit", !.job = job]
              /\ UNCHANGED <<missed, last>>
    /\ UNCHANGED <<disk, index, ledger, platform, watching, events, moved, op, used>>

\* The transaction of handle_index_file, handle_remove_file, handle_rename_file.
CommitJob ==
    LET job == writer.job
        doc == writer.docs[job.path]
    IN  /\ writer.pc = "commit"
        /\ index' = CASE job.kind = "index" -> [index EXCEPT ![job.path] = doc]
                      [] job.kind = "remove" -> [index EXCEPT ![job.path] = 0]
                      [] job.kind = "rename" ->
                            [index EXCEPT ![job.old] = 0, ![job.path] = IF doc # 0 THEN doc ELSE @]
        /\ last' = IF job.kind = "index" THEN last ELSE [last EXCEPT ![job.old] = "remove"]
        /\ writer' = Idle
        /\ UNCHANGED <<disk, rt, ledger, platform, watching, events, moved, op, used, missed>>

\* An I/O or database error ends the job.
FailJob ==
    /\ writer.pc = "commit" /\ Extra
    /\ writer' = Idle
    /\ missed' = missed \cup {writer.job.path, writer.job.old}
    /\ UNCHANGED <<disk, index, rt, ledger, platform, watching, events, moved, op, last>>

\* handle_full_rebuild: list the files, read each, write what was read and drop
\* the documents of files that were not listed.
CollectFiles ==
    /\ writer.pc = "collect"
    /\ LET files == {p \in Paths : disk[p] # 0}
       IN  /\ writer' = [writer EXCEPT !.pc = "rebuild", !.files = files, !.todo = files]
           /\ missed' = missed \cap files
           /\ last' = [p \in Paths |-> IF p \in files THEN last[p] ELSE "read"]
    /\ UNCHANGED <<disk, index, rt, ledger, platform, watching, events, moved, op, used>>

RebuildRead(p) ==
    /\ writer.pc = "rebuild" /\ p \in writer.todo
    /\ writer' = [writer EXCEPT !.todo = @ \ {p}, !.docs[p] = disk[p]]
    /\ SeenBy(p, FALSE)
    /\ UNCHANGED <<disk, index, rt, ledger, platform, watching, events, moved, op, used>>

FinishRebuild ==
    /\ writer.pc = "rebuild" /\ writer.todo = {}
    /\ index' = [p \in Paths |-> IF p \notin writer.files THEN 0
                                 ELSE IF writer.docs[p] # 0 THEN writer.docs[p] ELSE index[p]]
    /\ rt' = IF rt.rebuild.rerun
             THEN [rt EXCEPT !.rebuild = [queued |-> TRUE, running |-> FALSE, rerun |-> FALSE],
                             !.jobs = Append(@, FullRebuild)]
             ELSE [rt EXCEPT !.rebuild.running = FALSE]
    /\ writer' = Idle
    /\ UNCHANGED <<disk, ledger, platform, watching, events, moved, op, used, missed, last>>

\* Mutant: the flags are left as they are.
FailRebuildStuck ==
    /\ writer.pc \in {"collect", "rebuild"} /\ Extra
    /\ writer' = Idle
    /\ missed' = Paths
    /\ UNCHANGED <<disk, index, rt, ledger, platform, watching, events, moved, op, last>>

\* reset_rebuild_state_after_error: the rerun that was asked for and the notices
\* that were dropped on account of this rebuild are lost with it.
FailRebuild ==
    /\ writer.pc \in {"collect", "rebuild"} /\ Extra
    /\ rt' = [rt EXCEPT !.rebuild = [queued |-> FALSE, running |-> FALSE, rerun |-> FALSE]]
    /\ writer' = Idle
    /\ missed' = Paths
    /\ UNCHANGED <<disk, index, ledger, platform, watching, events, moved, op, last>>

-----------------------------------------------------------------------------
Writer == TakeJob \/ CommitJob \/ FailJob \/ CollectFiles
          \/ (\E p \in Paths : RebuildRead(p)) \/ FinishRebuild \/ FailRebuild
Watcher == StartWatching \/ MovedTimeout \/ WatchEvent
Command(i) == ApplyOp(i) \/ FailOp(i) \/ NotifyOp(i)

Next ==
    \/ Writer \/ Watcher
    \/ \E i \in Ops : Command(i)
    \/ \E i \in Ops, kind \in {"write", "delete", "rename"}, p, q \in Paths : Record(i, kind, p, q)
    \/ \E kind \in {"write", "delete", "rename"}, p, q \in Paths : Outside([kind |-> kind, path |-> p, old |-> q])
    \/ RequestRebuild \/ SetConfig \/ \E p \in Paths : Load(p)

Spec == Init /\ [][Next]_vars

-----------------------------------------------------------------------------
(* Properties.                                                             *)

Settled ==
    /\ writer = Idle /\ rt.jobs = <<>> /\ watching /\ events = <<>> /\ moved = <<>>
    /\ \A i \in Ops : op[i].pc \in {"unused", "done"}

\* Once everything announced has been handled the index is the vault, whatever
\* the order in which commands, events, jobs and rebuilds came: but for paths of
\* which a change was taken for another or fell to an error, and for a note that
\* is missing because the last job about it was a removal, which does not look
\* at the disk (handle_remove_file, handle_rename_file).
SettledIndexIsVault ==
    Settled => \A p \in Paths \ missed : index[p] = disk[p] \/ (index[p] = 0 /\ last[p] = "remove")

\* A notice that is dropped because one waits already has one to rely on: every
\* pending path has an index job in the queue (enqueue_index_job).
PendingHaveJobs == \A p \in rt.pending : \E k \in DOMAIN rt.jobs : rt.jobs[k] = Job("index", p, p)

\* The rebuild flags describe the queue and the writer: queued means one rebuild
\* is in the queue, also for the notices dropped on its account; running means
\* the writer is in it; a rerun is only noted then.
RebuildFlagsExact ==
    /\ Cardinality({k \in DOMAIN rt.jobs : rt.jobs[k] = FullRebuild}) = (IF rt.rebuild.queued THEN 1 ELSE 0)
    /\ rt.rebuild.running <=> writer.pc \in {"collect", "rebuild"}
    /\ rt.rebuild.rerun => rt.rebuild.running

\* What the runtime notes of the queue, and drops notices for, is so.
QueueIsAsNoted == PendingHaveJobs /\ RebuildFlagsExact

=============================================================================
