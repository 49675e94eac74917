# kuku: TLA+ models, checks and proofs

This directory specifies the parts of the kuku knowledge base that are hard to
get right by testing:

* the end-to-end encrypted sync: the Go server that stores encrypted objects and
  orders commits (`src/apps/server`), and the Rust desktop that turns a vault of
  Markdown files into commits and back (`src/apps/desktop/src-tauri/src/sync`);
* the AI chat session, its approvals and its changes to the vault
  (`src/crates/kuku-ai`, `ai_host/`, `ai_tools/`, `vault/checksum.rs`);
* the search index and how it follows the vault (`vault/`, `search/`);
* applying a knowledge decision document to several files, with a journal
  (`knowledge/apply.rs`).

The models are translated from the code; `PROJECT.json` maps every definition to
the lines it stands for. TLC checks small instances; TLAPS proves most of the safety
properties for every instance.

## 1. The system

| Component | State | Operations | Hard parts |
|---|---|---|---|
| **Sync server, objects** (`internal/sync/presign.go`, `service.go`, `quota.go`, `gc.go`, `cleanup.go`) | object rows, usage counters per workspace and account, bytes in S3 or on disk | reserve, presign, complete, dev upload, GC, recalculate, delete workspace, cleanup | authorization before the lock; bytes and rows in two systems; URLs that outlive rows; rolled back transactions whose store effects stay |
| **Sync server, history** (`commit.go`, `checkpoint.go`, `ListCommits`, `GetHead`) | head, commits, `server_seq`, device sequences, cursors | publish, list, head, reachable graph | compare-and-swap on the head, idempotent retry, identity column under concurrency |
| **Account deletion** (`internal/auth/service.go`) | all of the above | `DeleteAccount` | takes locks in the opposite order of the handlers |
| **Desktop sync** (`applier.rs`, `checkpoint.rs`, `planner.rs`, `db.rs`, `commands.rs`) | files on disk, `sync_files` with dirty flags, tree cache, local head, next device sequence | scan, pull, merge, conflict copy, plan, upload, publish, save | files change under the run; crashes between writes; lost replies; a lost race for the head |
| **Markdown merge** (`merge.rs`) | none | three-way merge by line index | lost or glued lines |
| **Runtime status** (`sync/mod.rs`) | run id, phase, progress | begin, progress, finish, error | progress of an old run |
| **Transfer queue, client** (`transfer.rs`, `client.rs`) | queue, attempts | upload, download, retry with backoff, token refresh | retry after a partial batch |
| **Cryptography, packs, keys** | key material | encrypt, sign, pack | none that a model would show |
| **AI session** (`crates/kuku-ai/src/session.rs`, `state.rs`, `tools/`; `ai_host/desktop_host.rs`, `ai_tools/file_tools.rs`; the panel's `chat_store.ts`) | status, cancellation token, deferred cancel, senders of open approvals and proxy calls, messages, snapshots of paths | send, stream, tool call, approve, apply, proxy call, cancel, reset | cancel against approval; a change applied on an old snapshot; late answers; a run nobody can reach |
| **Vault** (`vault/watcher.rs`, `commands.rs`, `mutation_sync.rs`) | ledger of expected mutations, pending rename, event queue | file commands, watcher loop | late, merged, doubled file events; an entry that swallows another's event |
| **Search index** (`search/`) | job queue, pending paths, rebuild flags, documents, links | notify, rebuild, load, index, remove, rename, resolve | dropped notices, failed rebuilds, selective re-resolution, uids that move |
| **Knowledge apply** (`knowledge/apply.rs`) | decision document, target files, journal, two lock files | lock, recover or undo an old journal, stage, publish, record, finalize, save, clean up | crash between any two writes; failure of one file of several; the user edits meanwhile; stale locks |
| **Other knowledge, indexer, auth, other UI, web** | see `PROJECT.json` | | not modelled |

How they interact. A desktop *run* (`sync_run_once`, started by the user or
the UI) calls `GetHead` and `ListCommits`, downloads and applies what is new,
scans the vault, reserves and uploads encrypted packs through presigned URLs,
completes them, and calls `PublishCommit` with the head it expects. If another
device was faster, it pulls again and publishes a merge commit. Each server
handler is one Postgres transaction; handlers of one account meet at the row
locks of the usage and workspace tables. The local database is SQLite; its
writes are separate transactions, so a crash may fall between any two.

A chat *run* (`run_turn`) is a spawned task per message. It shares the session's
control block with the commands `ai_cancel`, `ai_resolve_approval` and
`ai_reset_state`, and the vault with the user. What it applies goes through the
same ledger and search notices as the app's own commands. An *apply*
(`knowledge_apply_decision_document`) writes the vault by itself, under lock files,
and leaves its state in a journal that only the next apply reads. The watcher thread
turns file events into notices unless the ledger expected them; notices become
jobs of one writer thread, which reads the vault and writes the index.

What makes each part correct:

* objects: counters equal what the rows add up to; limits hold whatever runs
  concurrently; an available object has its bytes; a collected one has none;
  a row never moves backwards;
* history: one linear, append-only log; `PublishCommit` is an atomic append;
  what readers page through has no gaps; every listed object can be downloaded;
* desktop: no edit is lost; a run that ends well leaves the vault equal to the
  tree of its head; trees agree on all devices; a retry works;
* AI session: nothing is changed without approval of that very call; content the
  session has not seen is not destroyed; cancellation is effective and reported;
  the model is sent whole turns;
* index: when everything announced is handled, the index is the vault; every
  link has the resolution that resolving all of them would give;
* knowledge: a resolved document has exactly the files it says were committed; at
  every instant the journal accounts for what is published; a crash is repaired
  by applying again; nothing the user wrote is replaced.

## 2. Modules

| Module | Contents |
|---|---|
| `SyncObjects` | objects, store, usage, workspaces, devices, deletion (one account) |
| `SyncLog` | abstract specification of `PublishCommit`: an atomic append with answers |
| `SyncCommits` | `PublishCommit` step by step, `GetHead` / `ListCommits`, selection of the replay, reachable graph; implements `SyncLog` |
| `SyncDevice` | vault files, local database and runs of several desktops against the log |
| `AiSession` | one chat session with the desktop's host and file tools, the panel and the user |
| `VaultIndex` | file commands, ledger, watcher, job queue, writer thread, for one open vault |
| `SearchLinks` | documents and wikilinks in the search database under any sequence of jobs |
| `KnowledgeApply` | concurrent apply commands on one decision document, with crashes and recovery |
| `SyncObjectsProofs`, `SyncCommitsProofs`, `SyncDeviceProofs`, `AiSessionProofs`, `VaultIndexProofs`, `SearchLinksProofs`, `KnowledgeApplyProofs` | theorems about the module of that name |
| `DataFacts` | facts about numbers, sequences and sums over finite sets that several of the proofs use |
| `MCSyncObjects`, `MCSyncCommits`, `MCSyncDevice`, `MCAiSession`, `MCVaultIndex`, `MCSearchLinks`, `MCKnowledgeApply` | instances for TLC; those of sync and of the knowledge apply use symmetry |

They compose by what each assumes of the other. `SyncCommits` sees objects as a
set that only grows while the workspace lives, which is `RowLifecycle` of
`SyncObjects`. `SyncDevice` sees the server as a log to which a commit is
appended if its `expected` is the last one, which is what `SyncLog` promises
and `SyncCommits` is shown to implement. `VaultIndex` says which jobs reach the
writer and when, and treats a job as one write to the index; `SearchLinks` takes
any sequence of jobs and looks inside the write.

### SyncObjects

*State.* `wsState` (none, live, soft-deleted, row gone), `devWs`, `revoked`;
per object `objState`, `objWs`, `objDevice`, `objMeta`, `objExpires`; the store
`blob` (S3 or local: `provider`) and the deadline `putUntil` of the newest presigned URL; `wsUse` and
`acct`, the usage rows; `auth`, what the handlers in flight were authorized
for; `closing`, the rows an uncommitted `DeleteAccount` holds; the clock.

*Atomicity.* Handlers authorize by plain reads and then wait for
`SELECT ... FOR UPDATE` on the account's usage row. `Authorize` is the first
part. The body is a second action and runs on what the database holds by then.
Between lock and commit nothing else of the account that matters can run. Two
exceptions are modelled: `DeleteAccount` marks object rows before it touches
the account row (`DeleteAccountMark`, `DeleteAccountCommit`,
`DeleteAccountAbort`), and store effects of a transaction that rolls back stay
(`AbortWorkspaceGC`, `ok = FALSE` in `UploadDev` and
`RunDeletedWorkspaceCleanup`). A rolled back handler is `Reject`.

*Data.* A ciphertext (sha256 and size) is a member of `Contents`. The presigned
PUT signs key, length and checksum, so `PutBlob` stores the row's descriptor.
Object kinds, ids and keys are left out.

`stale` is a history variable: the account's counters were changed on behalf of
a workspace that had been deleted. It makes `AccountUsageExact` say that this
is the only way the account can drift, and that a recalculation repairs it.
`admitted` is another: a live workspace was given bytes while the account's row
had drifted. `QuotaRespected` claims the account's limit as long as this has not
happened.

### SyncCommits and SyncLog

`PublishAuthorize`, `PublishLookup` and `PublishLocked` are the two unlocked
reads and the body under the lock of the workspace row. `PublishAbort` is a
failing transaction, `PublishReturn` an answer that arrives or is lost,
`SkipServerSeq` a value of the identity column used up by a rolled back insert
or by another workspace. Parameters are those of `normalizePublishCommitParams`;
`genuine` abstracts signature and body descriptor. A pull is `PullHead`,
`PullCheckpoint` (two statements of `GetHead`), `PullPage` for each request,
then `PullApply` per commit; `PullFail` ends it anywhere.

Refinement mapping: the abstract log holds the parameters of the published
commits; a call is "open" until its answer is decided.

### SyncDevice

A file's content is the set of edits in it, so "no edit is lost" can be stated
and a merge is what both sides kept and either side added. Whether two edits
collide on a line is a choice between `ApplyMerge` and `ApplyConflict`. Names
are paths. Conflict copies get paths from `Copies`.

Steps are what happens between two awaits of the run: `PullStart` (head, list,
scan, the one snapshot of dirty files), one step per changed file (`ReadLocal`
and the write after the download are two), `PersistApplied` and `AdvanceHead`
(two writes a crash can separate), `PushPlan`, `PublishAccepted` or
`PublishConflict`, `PublishSaved` and `PublishDone`. `RunFail` ends a run at any
point and stands for errors, a lost reply (at `sent`) and the app quitting.
`StatusScan` is the status poll the UI makes after every change of the vault.
`EditDuringRun` and `UserDeletes` say what users do, so that a run can show
which guarantee needs which discipline.

The server's part of this module is the last entry of the log and
`last_device_seq`. Desktops publish a checkpoint only as first commit
(`push_local_changes` never calls `should_create_checkpoint`), so the replay
from a later checkpoint is left to `SyncCommits`.

### AiSession

A step of a run is what the task does between two awaits or between two takings
of the session's locks. `task[r]` holds where run *r* is and its local
variables; `control`, `approvals`, `messages` and `snap` are the fields of
`SessionRuntime`, `pending` is the broker's, `ui` what the panel knows.
`Cancel`, `ResolveApproval`, `SubmitProxyToolResult`, `ResetState` and
`UserWrites` may come between any two steps. A file's content is a version
number, which is also its checksum. `Precheck`, `GuardedCheck` and `GuardedWrite`
are the three times `apply_mutation` and `guarded_*` look at or touch a file. A
`select!` takes either branch when both are ready.

History variables: `approved` and `imposed` (calls approved, calls that reached
the disk without it), `seen` (contents the session read or wrote), `window`
(contents somebody else wrote after the last check of the operation under way),
`lost`. `OnlySeenIsLost` thus says that the window between check and write is
the only place where another writer's content can be destroyed: the code has
that window, and no file system call it uses would close it.

`ControlDescribesRun` rests on the panel: `finalize_run` also runs for a message
that `start_run` refused and resets the live run's control block; the mutant that
lets the panel send at once shows it. `SendMessage` therefore models the panel's
gate, and the command layer alone is not claimed to be safe.

### VaultIndex

Content is a version number, also checksum and modification time. `platform`
decides which events a change causes (a write gives a create or a modify event
and on Linux one more; a rename comes in halves, in halves and whole, or as a
change of each path); this is the part of the `notify` crate the code relies on
and is external. Time is left open: a ledger entry expires and a pending rename
times out whenever the watcher looks. A job is `TakeJob` (its file is read) and
`CommitJob`; a rebuild lists the files, reads each and commits.

`SettledIndexIsVault` has two excuses, which say exactly where the code can
leave a wrong entry until the next change or rebuild. `missed` collects paths of
changes before the watcher started, events the ledger took for another's,
a pending rename that a second one replaced, and failed jobs and rebuilds. A
path leaves it when a job reads the file. `last` is "remove" if the last job
about a path was a removal, which does not look at the disk.

### SearchLinks

A path is a folder, a name in lower case and the case it is written in, so that
the case-insensitive look-up of the uid can be modelled. A job is two
transactions, the text and then the links its plan selects; the second may fail
(`FailReresolve`), a rebuild may fail after its batch (`FailRebuild`). `stale` and
`displaced` name what is not claimed: links after such a failure until the next
rebuild, and links of a row that a rename onto its path deleted.

### KnowledgeApply

`doc`, `files` and `journal` are on disk, `locks` are the two lock files, and
`call[c]` is what command *c* holds in memory, its program counter included. A step
is one file operation. A lock file is free, held, left behind by a crash, or
stale (`LocksAge`); a lock held by a live call never ages, since `LOCK_STALE_AFTER`
is half an hour. `Crash` ends every call and keeps the disk. A failing file
operation ends a call (`GiveUp`), takes the path the code has for it (`Stage`,
`PublishFails`, `UpdateFails`, `UndoFails`, `RenameDocument`, ...), or leaves a
journal behind that could not be removed.

Memory items and new wiki pages differ only in how their bytes are rendered and
are both "create" in `op`; a wiki document may mix them with updates. The bytes
carry the time of the call, so a checksum of one call never matches the file of
another. Two calls within one second would render the same bytes; the locks keep
them apart. Left out: the case-insensitive look-up of existing names, staged
copies (only their failure is kept), and a malformed journal.

History variables: `touched` (targets the user changed), `raced` (the user wrote
between a check and the write it guards), `doubled` (a lock in use was taken over)
and `abandoned` (published files whose journal was dropped). They name what the
code does not promise:

* when the second of two publications fails, the journal is dropped and the first
  file stays; a new apply then stops at "output path already exists";
* recovery of a staged journal deletes what was created, forgets what was
  updated, and the next apply stops because the page is no longer the proposal's;
* a crash while an update is being published always needs manual cleanup: an
  untouched page is a checksum mismatch, a replaced one cannot be undone;
* two calls that find the same stale lock may both proceed, because the second
  renames away whatever lock file is there (`ReplaceStaleLock`), and a lock is
  dropped by name, whoever holds it (`Return`).

## 3. What TLC checks

Only `ai_progress` states liveness. It assumes weak fairness of each run's own
task (`WF_vars(Step(r))`): the executor polls a task that can go on, file
operations return, a proxy call has a timeout, and a provider answers or closes
the connection. The last is an assumption about the network, since the HTTP
client sets no timeout. Nothing is assumed of the user, who may never answer.
Elsewhere no fairness is justified: sync runs are started by users, handlers by
clients, and GC, recalculation and cleanup are not wired to any scheduler in the
server. All specifications may stop, so deadlock is not checked.

| Run | Properties | Shows |
|---|---|---|
| `objects_account` | `TypeOK`, `AccountUsageExact`, `QuotaRespected` | two workspaces, one request racing with deletion, GC, cleanup, account deletion |
| `objects_workspace` | `WorkspaceUsageExact`, `AvailableHasBytes`, `NoLeakedBlob`, `RowLifecycle` | two requests on two objects over four ticks |
| `commits_publish` | `HistoryLinear`, `DeviceSeqOrder`, `AppendOnly`, `ImplementsLog` | two calls of two devices in flight |
| `commits_history` | `TypeOK`, `ServerSeqOrder`, `ParentsEarlier`, `CommitsDownloadable`, `ReplayIsSegment`, `PreservedIsSuffix` | histories of three commits, merges, checkpoints, refused commits, and a desktop that pages through them while they appear |
| `device_sync` | `TypeOK`, `CleanIsInHistory`, `NoEditLost`, `TreesAgree`, `SettledIsSynced` | two desktops edit and delete one file, failures anywhere |
| `ai_session` | `TypeOK`, `ControlDescribesRun`, `ChangesAreApproved`, `OnlySeenIsLost`, `CancelIsReported`, `RequestsAreWellFormed` | two messages, two rounds, two tool calls on two files, a user who writes the same files, cancels, resets, answers late |
| `ai_progress` | `CancelledRunsEnd`, `RunsReachEndOrUser` | a cancelled run ends; nothing but a question to the user holds up a run |
| `vault_index` | `TypeOK`, `SettledIndexIsVault`, `QueueIsAsNoted` | a command, a change from outside and a failure or request, on three platforms, in every order |
| `knowledge_apply` | `TypeOK`, `OneApplyAtATime`, `PublishedIsAccounted`, `CrashesAreRepaired`, `OnlySeenIsReplaced` | two applies at once, three in all, with any two crashes, failures and changes by the user |
| `search_links` | `TypeOK`, `LinksAreResolved` | any sequence of jobs over four paths and three uids, failures between transactions |

Some invariants have named parts. `TypeOK` of `SyncDevice` contains `MergeParents`
(a merge commit names the head it replaces and an older commit), `TypeOK` of
`SearchLinks` the tables' keys and `LinksAreOfDocuments`; `ControlDescribesRun`
contains `SendersAreAwaited` (the open senders are those a run waits for), and
`QueueIsAsNoted` is `PendingHaveJobs` (a notice dropped as a duplicate has a job to
rely on) and `RebuildFlagsExact`.

Two runs show where the code does not do what a test or a text of the
repository says:

| Run | Property | What happens |
|---|---|---|
| `device_retry` | `RetryAccepted` | after a lost reply the device's sequence number is never advanced and each later publish is refused |
| `device_tombstone` | `DeletesReachTree` | a scan before the push's own consumes the deletion; the file stays in the workspace |

Four more disagreements are noted without a run. A pull overwrites a file that
was edited after the pull's one snapshot of dirty files, without a merge or a
conflict copy, where `en.ts:172` speaks of "Open conflicts created when automatic
merge cannot preserve both edits in one file"; `NoEditLost` fails in
`SyncDevice_sync.cfg` with `EditDuringRun = TRUE`. A presign authorized before
`DeleteWorkspace` and executed after it charges the account for a workspace that
is gone, where `service_integration_test.go:260` expects "released account quota";
`AccountUsageExact` allows it by its history variable `stale`. A complete that is
late in the same way and fails the upload releases its bytes from the account row a
second time (`failPendingObject`, after the recalculation of `DeleteWorkspace`), and
the next batch of another workspace is admitted past the account's limit, where
`presign_integration_test.go:257` says "want user total storage quota". TLC finds
`WithinAccountLimit` violated in `SyncObjects_account.cfg` with three objects,
`MaxTime = 1`, `MaxAccountBytes = 2` and the other limits 4; `QuotaRespected` allows it
by its history variable `admitted`. And the comment in
`vault_read_with_checksum` says that loading does not trigger index
reconciliation, while the command starts `reconcile_loaded_markdown` (`Load`).

Every property of a passing run has a mutant in `PROJECT.json`: a definition
changed the way a plausible bug would, under which TLC finds the property
violated. The mutated forms stand before the definitions they replace, marked
"Mutant".

### Bounds

* `SyncObjects`: two objects, two ciphertexts of sizes 1 and 2, limits of 3, so
  that one large and one small upload fill the limit and a second large one
  exceeds it; a GC batch of one, so that `LIMIT` leaves an orphan behind; four
  ticks, so that a row can be reserved, presigned, presigned again, expire and
  be collected. With two workspaces the account limit is tighter than the two
  workspace limits together. One account, because accounts share no row.
  `provider` is chosen by `Init`, so both runs cover the S3 store (presign and
  complete) and the local one (bytes written inside a transaction that may fail).
* `SyncCommits`: two calls, because a race needs two; three commits where shape
  matters (a merge needs a head and another parent), a page size of one, so that
  each commit is a page boundary; `MaxServerSeq` leaves room for skipped values.
* `SyncDevice`: two devices, one path, two edits (one on each side), one
  conflict copy, three commits: first checkpoint, a lost race, a merge. States
  after users have deleted both edits are not explored further (`SomethingKept`);
  the instance without that constraint, 3.0 million states, was checked apart
  with the same result.
* `AiSession`: two messages, because a second run meets what the first left (its
  messages, snapshots, senders); two rounds and two calls, so that a read can be
  followed by a change, in one turn or two; one change by somebody else; two
  files, one of them absent, so that there is something to create and to rename.
  `MinRawTurns` is 1, so that compaction can cut at each boundary. `ai_progress`
  has one round and no change by others, which liveness does not depend on.
* `VaultIndex`: one command, one change from outside and one of {rebuild request,
  setting, load, storm, failure} on two paths, with an index that was kept, reset
  or queued for a rebuild. Watcher and writer lag behind by at most three events
  and jobs (`ShortQueues`); without that limit, 6.5 million states, the result is
  the same. Two changes by others without a
  command, and two commands without one, were checked apart with the same result.
* `SearchLinks`: three documents at a time are enough for a link with two
  candidates and a source apart from both; two of the four paths differ only in
  case; a text has no links or both.
* `KnowledgeApply`: two files, because a crash must fall between two publications;
  both new, or an updated page before a new one; four selections (two files, one
  beside a decision to be revised, none, one still open); two calls at a time for
  the locks, a third because an undo may be cut off as well; two faults (crashes,
  failures and changes by the user together). The order create, update was
  checked apart with the same result. States after a lock in use was taken over
  are not explored further (`NotDoubled`): nothing is claimed of them.
* Symmetry is used for ids that the specification only compares. All properties
  checked with it are safety properties.

## 4. What is proved

TLAPS proves the following for every value of the constants (any number of
workspaces, devices, objects, commits, requests, pulls, files, edits, messages,
tool calls, paths, jobs, apply calls and failures), with the named assumptions on
constants, which TLC evaluates in each run:

* `SyncObjectsProofs`: `StoreInvariant`, and from it `AvailableHasBytesAlways`,
  `NoLeakedBlobAlways`, `RowTypes`; `RowLifecycleAlways`, an action property; and
  `UsageInvariant`, from which `WorkspaceUsageAlways`, `AccountUsageAlways`,
  `QuotaAlways` and `ObjectsTypeOK`: every property its runs check.
* `SyncCommitsProofs`: `HistoryInvariant`, and from it `HistoryLinearAlways`,
  `ServerSeqOrderAlways`, `DeviceSeqOrderAlways`, `ParentsEarlierAlways`,
  `CommitsDownloadableAlways`, `PreservedIsSuffixAlways`; `AppendOnlyAlways`;
  `ImplementsLogAlways`, that `SyncCommits` implements `SyncLog`; `PullInvariant`,
  and from it `CommitsTypeOK` and `ReplayIsSegmentAlways`.
* `SyncDeviceProofs`: `DeviceInvariant`, and from it `DeviceTypeOK` (which contains
  `MergeParents`), `DeviceTreesAgree` and `DeviceClean`; `KeepInvariant`, and from it
  `EditsAreKept` (`NoEditLost`); `SyncInvariant`, and from it `SettledDevices`
  (`SettledIsSynced`): every invariant `device_sync` checks.
* `AiSessionProofs`: `SessionInvariant`, and from it `SessionTypeOK`,
  `ControlIsOfRun`, `ApprovedChanges`, `SeenIsLost`, `ReportedCancel`,
  `WellFormedRequests`: every invariant the runs check.
* `VaultIndexProofs`: `IndexInvariant`, and from it `IndexTypeOK`, `QueueAsNoted`,
  `SettledIndex`, and `IndexFollowsVault`, which says of every instant what
  `SettledIndexIsVault` says of a quiet one.
* `SearchLinksProofs`: `LinksInvariant`, and from it `LinksTypeOK` (which contains
  the tables' keys and `LinksAreOfDocuments`) and `LinksResolved`.
* `KnowledgeApplyProofs`: `ApplyInvariant`, and from it `ApplyTypeOK`, `OneApply`,
  `AccountedFiles`; `SeenIsReplaced`, an action property; and `RepairedCrashes`, with an
  inductive invariant of its own.

The inductive invariants and why they are needed. Each was checked by TLC on the
instances of section 3 before it was proved.

* `StoreInv`. That a complete never makes an object available without bytes
  needs, besides the HEAD, that nobody deletes bytes of an available row: GC
  takes only rows that are not available, and an open `DeleteAccount` holds rows
  that still exist (`ClosingHoldsRows`). That GC leaves no bytes behind needs
  that no URL of a collected row is still usable: `UrlsExpireFirst`, which
  relates `putUntil`, `expires_at` and the row's state, and holds because
  `MarkSyncObjectPending` renews the expiry with each URL. Both need that rows
  and requests name workspaces that exist (`RowsHaveWorkspace`,
  `RequestsHaveWorkspace`); for the local store, that no row is pending.
* `UsageInv`, on top of `StoreInv`. A counter is the sum over the rows in a state, so
  a step that moves rows changes it by the bytes of these rows: sums over disjoint
  sets add (`BytesUnion`), and the account's sum is that of one workspace and that of
  the others (`AccountSplit`). It needs that every row counted has a size
  (`DescribedRows`), that a workspace not created yet has no rows and that the local
  store has no pending ones, and, for the limits, that batches are charged under the
  lock they are checked under. An earlier form of `QuotaRespected` claimed the
  account's limit whenever `stale` does not hold. Its proof failed at the batch that
  is admitted after a drift, the disagreement noted in section 3: a recalculation
  repairs the counters but not what they let in. The instances of the runs have too
  few objects to show it.
* `HistoryInv`. Linearity is inductive with the log as history variable;
  `ServerSeqOrder` and `DeviceSeqOrder` need that numbers given out stay below
  the next ones (`NumbersBounded`); `ParentsEarlier` needs that rows are exactly
  the log, which is part of `HistoryLinear`.
* The refinement uses `HistoryInv`: `PublishLocked` maps to `Extend`, `Repeat`,
  `Conflict` or `Refuse`, and an answer "ok" given by `PublishLookup` maps to
  `Repeat`, because a row with the same payload is an entry of the log. There
  is one lemma per kind of step.
* `PullInv`. What a pull has paged through is the beginning of the log, its
  cursor the number of the last commit of it, its checkpoint a row; the replay is
  a part of the log that follows the local head, or that begins where a new
  desktop may begin. A page keeps this because `ORDER BY server_seq` over the rows
  after the cursor is the rest of the log (`SortedIsLog`, from `ServerSeqOrder`),
  a publish because it only appends (`SegmentStays`). For `PreservedIsSuffix` the
  head is shown to reach every commit (`ReachCovers`).
* `DeviceInv`. `TreesAgree` needs that a plan's tree is the tree at the local head
  with the plan's changes, that this head is the one the plan expects, and that
  what a pull has written so far is the next tree but for the files left.
  `CleanIsInHistory` needs, while users leave the vault alone, that a file a pull
  has written is still there when its rows are marked (`SyncedOK`), and that rows
  have the contents the plan was made from (`PlanScanned`). `DeviceClean` has the
  condition `~EditDuringRun`, which is the instance `device_sync` checks: the
  property is false otherwise, as section 3 says.
* `KeepInv`, on top of `DeviceInv`. An edit can leave a file on one device while it
  is in the tree, the working tree or the plan of another, so "it is somewhere" is
  not inductive. What is: every edit has a home, a name under which nobody drops it
  (`Home`). A device that has the edit there in its tree, in the tree its pull works
  on or in its plan also has it on disk (`HomeAt`), and once it is in the history
  under that name it stays (`StaysInHistory`). A merge, an overwrite of a clean
  file and a publish keep a home. A conflict copy takes a name that nobody has
  seen, which becomes the new home (`HomeMoves`, `FreeUnseen`). `PullOK` says what a
  pull may rely on: what it takes for deleted is, what it takes for clean is in the
  history, what a merge read is still there. This also needs `~EditDuringRun`: with
  writes during a run edits are lost, as section 3 says.
* `SyncInv` and `OwnInv`, on top of `KeepInv`. While no file that held something was
  deleted, a row called clean is as in the local tree or in the commit after it: a
  run that dies between `mark_files_synced` and the move of the head leaves the
  second (`RowsAt`). So a plan, which takes all that is dirty, gives the vault as its
  tree (`PlanAt`), and a run that ends well leaves nothing to do (`SettledAt`).
  `SettledIsSynced` speaks of deletions by `dropped`, the edits in the deleted
  files, so the proof must show that no file is empty, which a merge could make
  it: `OwnInv` says that each file is as in the local tree, as in the commit
  after it, or holds an edit that is nowhere else under its name, and such an edit
  survives a merge.
* `SessionInv`. Where a task is determines which sender, which answer and which
  guard it has; at most one task is live, and the control block is its own.
  Approved calls are those whose answer was taken from a sender of that call. A
  snapshot is of content the session has seen, a check of content that was there
  or is in `window`. The messages are whole turns, but for a turn under way.
* `IndexInv`. Every path whose entry differs from the disk has an event on the way,
  a job, a rebuild that will still read it, or is in `missed`. An event on the way
  counts only if the ledger does not take it, so the invariant also says which
  ledger entries can match whose events, and that each command's id is in the
  ledger at most once.
* `LinksInv`. While a job's second transaction is open, every link its plan does not
  select is resolved. This holds because a job changes only documents of the names
  in its plan, which needs the tables' keys (a row that is replaced by uid is the
  one that was looked up), and because a resolution depends only on the documents
  of the name that is linked to (`ResolveByName`). In a batch, whose uids are
  looked up before anything is written, a path's own row is still there when its
  turn comes (`BatchOK`), so a rebuild displaces nobody's links.
* `ApplyInv`. Per program counter, what a call relies on (`Relies`): that no
  journal is there, that the document is still pending, that the journal on disk is
  the one in memory and lists what was published. It holds as long as locks are
  exclusive (`Held`), and nothing but types is claimed after `doubled`.
* `RepairInv`, on top of `ApplyInv`, for `CrashesAreRepaired`. While nothing but
  crashes has happened, a journal on disk is of the document as it stands, each of
  its files is either not there or has the journal's content, and all are there once
  the document is finalized; and every call that has both locks gets through: each
  early return is shown to need a failure or a change by the user.

Inductions over data are by the least counterexample (`LeastNatural`), since the
library's induction theorems cannot be instantiated. `SetInduction` brings finite
sets to that form: a sum is the last of its partial sums, which are shown to
exist (`PartialSumsExist`, `SumIsPartialSum`). In the same way the three
recursive functions the proofs meet, `TreeAt`, `Reach` and the batch of `Indexed`,
are first shown to be well-defined (`TreeDefined`, `ReachDefined`, `BatchExists`).

Assumptions on constants that were added for proofs: there is at least one path
(`Paths # {}`, in `VaultIndex` and `AiSession`, whose models use an arbitrary path
as a placeholder), the names of calls are not the words for the other states
of a lock (`KnowledgeApply`), there are finitely many workspaces and objects
(`SyncObjects`, whose counters are sums over them), and the markdown paths form a sequence and their
folders have a length (`SearchLinks`). `NoLeakedBlob` assumes `PresignTTL <= PendingAge`. The
defaults satisfy it, but `config.go` does not check it.

Only model-checked: liveness (`CancelledRunsEnd`, `RunsReachEndOrUser`), which is out
of the prover's reach. Every other property of a passing run is a theorem.

## 5. What is not modelled

Key and metadata storage of the server, the RPC layer, cryptography and packing,
the transfer queue's retries (a failed transfer is `RunFail`), the line algorithm
of the merge, path normalisation, case-only renames, connecting and
disconnecting a vault, conflict resolution commands and the runtime status of
sync; directories, the trash and binary files of the vault; reopening a vault
while the old writer thread still works off its queue; chunks, queries and the
graph of the search index; prompts, summaries and providers of the AI crate;
proposals, parsing and search of the knowledge base; refresh tokens; rate limits. Generated protobuf code, which is
almost half of the Rust lines, holds no logic of its own. `PROJECT.json` lists
each component with the reason.

Known hazards that no property covers: glued lines in `merge_markdown`; a
presigned PUT used after `RunDeletedWorkspaceCleanup`; recognition of the head
conflict by its text; `sync_files` rows that survive a disconnect; needless
conflict copies after a lost first reply; an assistant message whose calls have
no results after a cancelled run; a message sent to a session while it is reset;
two writer threads after reopening; two notes that differ only in case sharing
one row on a case-sensitive file system.

## 6. Plan

Models still worth writing: `merge_markdown` on lines against a reference
definition; connect and disconnect in `SyncDevice`; the transfer queue's retries;
refresh token rotation.

## 7. Running

```
tlc -workers 2 -config SyncCommits_publish.cfg MCSyncCommits
tlapm SyncCommitsProofs.tla
```
