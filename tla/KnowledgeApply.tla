--------------------------- MODULE KnowledgeApply ----------------------------
(***************************************************************************)
(* Applying a decision document (apps/desktop/src-tauri/src/knowledge/     *)
(* apply.rs): the memory or wiki files the user said yes to are published, *)
(* the document is resolved, and a journal on disk lets a later call undo  *)
(* or finish what a crash interrupted.                                     *)
(*                                                                         *)
(* One document, whose decisions 1 .. N each name one target file, in the  *)
(* order of the document. A proposal creates its file (memory items and    *)
(* new wiki pages, which the code treats alike once planned) or updates an *)
(* existing wiki page; `op` says which. A checksum is the content it is    *)
(* of. The bytes of a target carry the time of the call that rendered      *)
(* them, here the call's number. Staged copies under apply-tmp are only    *)
(* written, linked and deleted by the call that owns them; what matters of *)
(* staging is that it may fail.                                            *)
(***************************************************************************)
EXTENDS Naturals, FiniteSets, FiniteSetsExt

CONSTANTS
    N,              \* number of decisions in the document
    Operations,     \* what the proposals of the document may ask for
    Calls,          \* apply commands that may be in progress at once
    Selections,     \* what may be selected in the document
    MaxApplies,     \* bound: apply commands issued
    MaxFaults       \* bound: crashes of the app, file operations that fail and
                    \* changes by the user to document or targets, together

ASSUME KnowledgeApplyAssumption ==
    /\ N \in Nat \ {0}
    /\ MaxApplies \in Nat /\ MaxFaults \in Nat
    /\ Calls \cap {"free", "left", "stale"} = {}

Decisions == 1 .. N
Options == {"none", "yes", "no", "other"}
Locks == {"apply", "document"}

ASSUME DocumentsAssumption ==
    /\ Operations \subseteq [Decisions -> {"create", "update"}]
    /\ Selections \subseteq [Decisions -> Options]

VARIABLES
    op,         \* the operation of each proposal, "create" or "update"
    doc,        \* the decision document
    files,      \* the content of each target
    journal,    \* apply-journal/<doc id>.json
    locks,      \* the two lock files: free, held by a call, left by a crash
    call,       \* what each apply command holds in memory
    counts,     \* applies, crashes, failures and edits so far
    touched,    \* history: targets the user has changed
    raced,      \* history: the user wrote between a check and the write it guards
    abandoned,  \* history: published files whose journal was dropped
    doubled     \* history: a lock in use was taken over

disk == <<doc, files, journal>>
history == <<touched, raced, abandoned, doubled>>
vars == <<op, disk, locks, call, counts, history>>

----------------------------------------------------------------------------
(* Documents, targets and journals *)

NoFile == [by |-> "nobody", stamp |-> 0]
OldPage == [by |-> "before", stamp |-> 0]
UserFile == [by |-> "user", stamp |-> 0]
Written(n) == [by |-> "apply", stamp |-> n]

NoDoc == [status |-> "unread"]
NoJournal == [state |-> "none"]

Yes(sel) == {d \in Decisions : sel[d] = "yes"}

\* document_status_for_outcomes
StatusFor(sel) ==
    LET revise == \E d \in Decisions : sel[d] = "other"
    IN  CASE revise /\ Yes(sel) # {} -> "partially_applied"
          [] revise /\ Yes(sel) = {} -> "needs_revision"
          [] OTHER -> "applied"

\* The decision statuses of apply_decision_updates and of the journal.
ResultOf(sel) ==
    [d \in Decisions |->
        CASE sel[d] = "yes" -> "committed"
          [] sel[d] = "no" -> "rejected"
          [] OTHER -> "needs_revision"]

\* apply_decision_updates: the document with the outcomes recorded in it.
Resolved(document, sel) ==
    [document EXCEPT !.status = StatusFor(sel), !.res = ResultOf(sel)]

\* mark_document_apply_failed
Failed(document) == [document EXCEPT !.status = "apply_failed"]

\* ApplyJournal::new, new_wiki: planned paths, results and checksums follow from
\* the document read and the number of the call.
NewJournal(document, n) ==
    [state |-> "staged", before |-> document, stamp |-> n, created |-> {},
     updated |-> {}, inflight |-> 0, finalized |-> {}]

Planned(j) == Yes(j.before.sel)
Unpublished(j) == Planned(j) \ (j.created \cup j.updated)

\* Mutant: the checksum is not compared.
PathStateUnchecked(j, d) == IF files[d] = NoFile THEN "missing" ELSE "match"

\* journal_path_state
PathState(j, d) ==
    CASE files[d] = NoFile -> "missing"
      [] files[d] = Written(j.stamp) -> "match"
      [] OTHER -> "mismatch"

\* Mutant: inflight_publish_path is not reset.
RecordedInflight(j, d) ==
    IF op[d] = "create" THEN [j EXCEPT !.created = @ \cup {d}]
                        ELSE [j EXCEPT !.updated = @ \cup {d}]

\* A published file joins created_paths or updated_paths.
Recorded(j, d) ==
    IF op[d] = "create" THEN [j EXCEPT !.created = @ \cup {d}, !.inflight = 0]
                        ELSE [j EXCEPT !.updated = @ \cup {d}, !.inflight = 0]

----------------------------------------------------------------------------
(* Steps of a call *)

Idle == [pc |-> "idle", stamp |-> 0, want |-> "apply", holds |-> {},
         expected |-> NoDoc, recover |-> FALSE, before |-> NoDoc,
         j |-> NoJournal, todo |-> {}, write |-> NoDoc, then |-> "return"]

At(c, pc) == call[c].pc = pc

Go(c, pc) == call' = [call EXCEPT ![c].pc = pc]

\* The call goes on at pc with journal j in memory.
GoWith(c, pc, j) == call' = [call EXCEPT ![c].pc = pc, ![c].j = j]

\* The call goes on to undo the files in todo, then to pc.
GoUndo(c, j, todo, pc) ==
    call' = [call EXCEPT ![c].pc = "undo", ![c].j = j, ![c].todo = todo, ![c].then = pc]

\* The call goes on to replace the document, then to pc.
GoSave(c, j, document, pc) ==
    call' = [call EXCEPT ![c].pc = "save", ![c].j = j, ![c].write = document, ![c].then = pc]

MoreFaults(n) == n.crashes + n.failures + n.edits < MaxFaults

\* A file operation fails.
Failure ==
    /\ MoreFaults(counts)
    /\ counts' = [counts EXCEPT !.failures = @ + 1]

Works == UNCHANGED counts

\* persist_cleanup_required_error: the call ends, and the journal asks for manual
\* cleanup unless it cannot be written.
NeedsCleanup(j) ==
    \/ journal' = [j EXCEPT !.state = "cleanup_required"] /\ Works
    \/ UNCHANGED journal /\ Failure

\* What the call forgets when it drops a journal: files of it that stay.
Forget(kept) == abandoned' = abandoned \cup {d \in kept : files'[d].by = "apply"}

----------------------------------------------------------------------------
(* Locks: ApplyLock, DocumentWriteLock *)

\* The user applies the document as the editor shows it.
Start(c, recover) ==
    /\ At(c, "idle")
    /\ counts.applies < MaxApplies
    /\ counts' = [counts EXCEPT !.applies = @ + 1]
    /\ call' = [call EXCEPT ![c] = [Idle EXCEPT
            !.pc = "create", !.stamp = counts.applies + 1,
            !.expected = doc, !.recover = recover]]
    /\ UNCHANGED <<op, disk, locks, history>>

\* Mutant: the lock file is opened whether or not it exists.
CreateLockAnyway(c) ==
    LET l == call[c].want IN
    /\ call[c].pc \in {"create", "recreate"}
    /\ locks' = [locks EXCEPT ![l] = c]
    /\ call' = [call EXCEPT
            ![c].holds = @ \cup {l}, ![c].want = "document",
            ![c].pc = IF l = "apply" THEN "create" ELSE "read"]
    /\ UNCHANGED <<op, disk, counts, history>>

\* create_lock_file succeeds; the document's lock is next, then the work.
CreateLock(c) ==
    LET l == call[c].want IN
    /\ call[c].pc \in {"create", "recreate"}
    /\ locks[l] = "free"
    /\ locks' = [locks EXCEPT ![l] = c]
    /\ call' = [call EXCEPT
            ![c].holds = @ \cup {l}, ![c].want = "document",
            ![c].pc = IF l = "apply" THEN "create" ELSE "read"]
    /\ UNCHANGED <<op, disk, counts, history>>

\* The file exists. After a takeover that ends the call.
LockExists(c) ==
    /\ call[c].pc \in {"create", "recreate"}
    /\ locks[call[c].want] # "free"
    /\ Go(c, IF At(c, "create") THEN "stat" ELSE "return")
    /\ UNCHANGED <<op, disk, locks, counts, history>>

\* lock_is_stale: also a lock that has just gone counts as stale.
LockIsStale(c) ==
    /\ At(c, "stat")
    /\ Go(c, IF locks[call[c].want] \in {"free", "stale"} THEN "takeover" ELSE "return")
    /\ UNCHANGED <<op, disk, locks, counts, history>>

\* replace_stale_lock: whatever lock is there now is renamed away.
ReplaceStaleLock(c) ==
    LET l == call[c].want IN
    /\ At(c, "takeover")
    /\ locks' = [locks EXCEPT ![l] = "free"]
    /\ doubled' = (doubled \/ locks[l] \in Calls)
    /\ Go(c, "recreate")
    /\ UNCHANGED <<op, disk, counts, touched, raced, abandoned>>

\* The command returns and drops its locks, by name.
Return(c) ==
    /\ At(c, "return")
    /\ locks' = [l \in Locks |-> IF l \in call[c].holds THEN "free" ELSE locks[l]]
    /\ call' = [call EXCEPT ![c] = Idle]
    /\ UNCHANGED <<op, disk, counts, history>>

\* An operation whose failure ends the call and changes nothing.
GiveUp(c) ==
    /\ \/ call[c].pc \in {"create", "stat", "takeover", "recreate", "read", "check",
                          "journal", "save"}
       \/ At(c, "next") /\ Unpublished(call[c].j) # {}
       \/ At(c, "undo") /\ call[c].todo # {}
    /\ Failure
    /\ Go(c, "return")
    /\ UNCHANGED <<op, disk, locks, history>>

----------------------------------------------------------------------------
(* An existing journal: handle_existing_journal *)

\* The document is read under the locks, and then the journal.
Read(c, state) ==
    /\ At(c, "read")
    /\ journal.state = state

Reading(c, pc) == call' = [call EXCEPT ![c].pc = pc, ![c].before = doc]

ReadNoJournal(c) ==
    /\ Read(c, "none")
    /\ Reading(c, "check")
    /\ UNCHANGED <<op, disk, locks, counts, history>>

\* recover_staged_journal with nothing to undo, and the removal of the journal
\* of a document that was saved.
DropJournal(c) ==
    /\ \/ Read(c, "staged") /\ journal.created = {} /\ journal.inflight = 0
       \/ Read(c, "document_saved")
    /\ journal' = NoJournal
    /\ UNCHANGED <<doc, files>>
    /\ IF journal.state = "staged" THEN Forget(journal.updated) ELSE UNCHANGED abandoned
    /\ Reading(c, "check")
    /\ UNCHANGED <<op, locks, counts, touched, raced, doubled>>

\* What rollback_staged_journal has to undo, given the state of the file that
\* was being published.
Undoable(j) ==
    j.created \cup {d \in {j.inflight} \ {0} : PathState(j, d) = "match"}

\* Mutant: a published file is never undone, as if it were an update.
InflightPublished(j) == j.inflight # 0 /\ PathState(j, j.inflight) # "missing"

\* An update that was published, or a file that is not the journal's, is left to
\* the user. A page not yet updated counts as such a file.
InflightUnclear(j) ==
    /\ j.inflight # 0
    /\ \/ PathState(j, j.inflight) = "mismatch"
       \/ PathState(j, j.inflight) = "match" /\ op[j.inflight] = "update"

RecoverStaged(c) ==
    /\ Read(c, "staged")
    /\ journal.created # {} \/ journal.inflight # 0
    /\ ~InflightUnclear(journal)
    /\ call' = [call EXCEPT ![c].pc = "undo", ![c].before = doc, ![c].j = journal,
                            ![c].todo = Undoable(journal), ![c].then = "check"]
    /\ UNCHANGED <<op, disk, locks, counts, history>>

RecoverUnclear(c) ==
    /\ Read(c, "staged")
    /\ InflightUnclear(journal)
    /\ NeedsCleanup(journal)
    /\ Reading(c, "return")
    /\ UNCHANGED <<op, doc, files, locks, history>>

\* completed_orphan_matches
OrphanMatches(j) ==
    /\ doc.status \in {"applied", "partially_applied", "needs_revision"}
    /\ \A d \in j.finalized : PathState(j, d) = "match"
    /\ doc.res = ResultOf(j.before.sel)

\* cleanup_completed_orphan_journal: the document was saved, the journal stayed.
CleanupOrphan(c) ==
    /\ Read(c, "finalized")
    /\ doc.status # "pending"
    /\ \/ OrphanMatches(journal) /\ journal' = NoJournal /\ Reading(c, "check")
       \/ ~OrphanMatches(journal) /\ UNCHANGED journal /\ Reading(c, "return")
    /\ UNCHANGED <<op, doc, files, locks, counts, history>>

\* Recovery is refused: not asked for, or the journal waits for the user.
RefuseRecovery(c) ==
    /\ \/ Read(c, "finalized") /\ doc.status = "pending" /\ ~call[c].recover
       \/ Read(c, "cleanup_required")
    /\ Reading(c, "return")
    /\ UNCHANGED <<op, disk, locks, counts, history>>

\* Mutant: decision_document_checksum_before is not compared.
FinalizedFilesMatch(c, j) ==
    /\ doc = call[c].expected
    /\ \A d \in j.finalized : PathState(j, d) = "match"

\* validate_finalized_journal_match
FinalizedMatches(c, j) ==
    /\ doc = call[c].expected
    /\ doc = j.before
    /\ \A d \in j.finalized : PathState(j, d) = "match"
    /\ \A d \in Yes(doc.sel) \ j.finalized : files[d] = NoFile

\* recover_finalized_journal: only the document is left to write.
RecoverFinalized(c) ==
    /\ Read(c, "finalized")
    /\ doc.status = "pending" /\ call[c].recover
    /\ FinalizedMatches(c, journal)
    /\ call' = [call EXCEPT ![c].pc = "save", ![c].before = doc, ![c].j = journal,
                            ![c].write = Resolved(doc, journal.before.sel), ![c].then = "saved"]
    /\ UNCHANGED <<op, disk, locks, counts, history>>

\* handle_finalized_journal_mismatch
FinalizedMismatch(c) ==
    /\ Read(c, "finalized")
    /\ doc.status = "pending" /\ call[c].recover
    /\ ~FinalizedMatches(c, journal)
    /\ NeedsCleanup(journal)
    /\ call' = [call EXCEPT ![c].before = doc, ![c].write = Failed(doc), ![c].then = "return",
                            ![c].pc = IF doc = call[c].expected THEN "save" ELSE "return"]
    /\ UNCHANGED <<op, doc, files, locks, history>>

----------------------------------------------------------------------------
(* Undoing: rollback_staged_journal *)

\* The next candidate is compared with the checksum in the journal.
Undo(c) ==
    LET j == call[c].j
        d == Min(call[c].todo)
    IN
    /\ At(c, "undo")
    /\ call[c].todo # {}
    /\ \/ PathState(j, d) = "match" /\ Go(c, "remove") /\ UNCHANGED <<journal, counts>>
       \/ /\ PathState(j, d) = "missing"
          /\ call' = [call EXCEPT ![c].todo = @ \ {d}]
          /\ UNCHANGED <<journal, counts>>
       \/ PathState(j, d) = "mismatch" /\ NeedsCleanup(j) /\ Go(c, "return")
    /\ UNCHANGED <<op, doc, files, locks, history>>

\* ... and removed, whatever it is by now.
RemoveFile(c) ==
    LET j == call[c].j
        d == Min(call[c].todo)
    IN
    /\ At(c, "remove")
    /\ \/ /\ files[d] # NoFile
          /\ files' = [files EXCEPT ![d] = NoFile]
          /\ call' = [call EXCEPT ![c].pc = "undo", ![c].todo = @ \ {d}]
          /\ UNCHANGED <<journal, counts>>
       \/ /\ files[d] = NoFile
          /\ NeedsCleanup(j)
          /\ Go(c, "return")
          /\ UNCHANGED files
    /\ UNCHANGED <<op, doc, locks, history>>

\* Staging directory and journal go. Updated pages are not undone.
UndoDone(c) ==
    /\ At(c, "undo")
    /\ call[c].todo = {}
    /\ journal' = NoJournal
    /\ UNCHANGED <<doc, files>>
    /\ Forget(call[c].j.updated)
    /\ Go(c, call[c].then)
    /\ UNCHANGED <<op, locks, counts, touched, raced, doubled>>

\* A removal fails; the journal is to be cleaned up by hand.
UndoFails(c) ==
    /\ \/ At(c, "remove")
       \/ At(c, "undo") /\ call[c].todo = {}
    /\ Failure
    /\ journal' \in {journal, [call[c].j EXCEPT !.state = "cleanup_required"]}
    /\ Go(c, "return")
    /\ UNCHANGED <<op, doc, files, locks, history>>

----------------------------------------------------------------------------
(* Applying: apply_decision_document_with_locks, apply_with_memory_writes and *)
(* apply_with_wiki_writes                                                     *)

\* validate_decision_document_integrity: files to be created are not there, pages
\* to be updated are.
Integrity(sel) == \A d \in Yes(sel) : (files[d] = NoFile) <=> (op[d] = "create")

\* plan_wiki_writes: a page to be updated is the one the proposal was made for.
PagesUnchanged(sel) == \A d \in Yes(sel) : op[d] = "update" => files[d] = OldPage

\* collect_decision_outcomes: every decision is taken.
Decided(sel) == \A d \in Decisions : sel[d] # "none"

Acceptable(c) ==
    LET b == call[c].before IN
    /\ b = call[c].expected
    /\ b.status = "pending"
    /\ Integrity(b.sel) /\ Decided(b.sel) /\ PagesUnchanged(b.sel)

Check(c) ==
    LET b == call[c].before IN
    /\ At(c, "check")
    /\ \/ ~Acceptable(c) /\ Go(c, "return")
       \/ Acceptable(c) /\ Yes(b.sel) = {} /\ GoSave(c, NoJournal, Resolved(b, b.sel), "return")
       \/ Acceptable(c) /\ Yes(b.sel) # {} /\ GoWith(c, "journal", NewJournal(b, call[c].stamp))
    /\ UNCHANGED <<op, disk, locks, counts, history>>

WriteJournal(c) ==
    /\ At(c, "journal")
    /\ journal' = call[c].j
    /\ Go(c, "stage")
    /\ UNCHANGED <<op, doc, files, locks, counts, history>>

\* stage_memory_file, stage_wiki_file; a failure drops the journal.
Stage(c) ==
    /\ At(c, "stage")
    /\ \/ Works /\ UNCHANGED journal /\ Go(c, "next")
       \/ Failure /\ journal' \in {journal, NoJournal} /\ Go(c, "return")
    /\ UNCHANGED <<op, doc, files, locks, history>>

\* The file about to be published is written to the journal first.
MarkInflight(c) ==
    LET j == [call[c].j EXCEPT !.inflight = Min(Unpublished(call[c].j))] IN
    /\ At(c, "next")
    /\ Unpublished(call[c].j) # {}
    /\ journal' = j
    /\ GoWith(c, "publish", j)
    /\ UNCHANGED <<op, doc, files, locks, counts, history>>

\* publish_memory_file and the creating half of publish_wiki_file: a hard link,
\* which never replaces a file.
PublishNew(c) ==
    LET d == call[c].j.inflight IN
    /\ At(c, "publish") /\ op[d] = "create"
    /\ files[d] = NoFile
    /\ files' = [files EXCEPT ![d] = Written(call[c].j.stamp)]
    /\ Go(c, "record")
    /\ UNCHANGED <<op, doc, journal, locks, counts, history>>

\* guarded_replace_file of a page: the check ...
CheckPage(c) ==
    LET d == call[c].j.inflight IN
    /\ At(c, "publish") /\ op[d] = "update"
    /\ files[d] = OldPage
    /\ Go(c, "replace")
    /\ UNCHANGED <<op, disk, locks, counts, history>>

\* ... and the rename, some awaits later.
ReplacePage(c) ==
    LET d == call[c].j.inflight IN
    /\ At(c, "replace")
    /\ files' = [files EXCEPT ![d] = Written(call[c].j.stamp)]
    /\ Go(c, "record")
    /\ UNCHANGED <<op, doc, journal, locks, counts, history>>

\* The file cannot be published: the target is not what was planned for, or an
\* operation fails before or after the file is in place. The journal is dropped
\* and what was published stays; a journal that cannot be dropped stays too.
PublishFails(c) ==
    LET j == call[c].j
        d == j.inflight
        target == IF op[d] = "create" THEN NoFile ELSE OldPage
    IN
    /\ \/ At(c, "publish") /\ files[d] # target /\ UNCHANGED files /\ Works
       \/ call[c].pc \in {"publish", "replace"} /\ UNCHANGED files /\ Failure
       \/ At(c, "record") /\ UNCHANGED files /\ Failure
       \/ At(c, "record") /\ files[d] # Written(j.stamp) /\ UNCHANGED files /\ Works
    /\ \/ journal' = NoJournal /\ Forget(j.created \cup j.updated \cup {d})
       \/ MoreFaults(counts') /\ journal' = [j EXCEPT !.inflight = 0] /\ Forget({d})
       \/ MoreFaults(counts') /\ journal' = j /\ UNCHANGED abandoned
    /\ Go(c, "return")
    /\ UNCHANGED <<op, doc, locks, touched, raced, doubled>>

\* The published file is recorded in the journal.
RecordPublished(c) ==
    LET j == Recorded(call[c].j, call[c].j.inflight) IN
    /\ At(c, "record")
    /\ journal' = j
    /\ GoWith(c, "next", j)
    /\ UNCHANGED <<op, doc, files, locks, counts, history>>

Finalized(j) == [j EXCEPT !.state = "finalized", !.finalized = Planned(j)]

Finalize(c) ==
    LET j == Finalized(call[c].j)
        b == call[c].before
    IN
    /\ At(c, "next")
    /\ Unpublished(call[c].j) = {}
    /\ journal' = j
    /\ GoSave(c, j, Resolved(b, b.sel), "saved")
    /\ UNCHANGED <<op, doc, files, locks, counts, history>>

\* The journal cannot be updated after a publication: created files are undone,
\* but all is left to the user if the file published, or when it comes to
\* finalizing any file, was an update.
UpdateFails(c) ==
    LET record == At(c, "record")
        j == IF record THEN Recorded(call[c].j, call[c].j.inflight) ELSE Finalized(call[c].j)
        updated == IF record THEN op[call[c].j.inflight] = "update" ELSE j.updated # {}
    IN
    /\ record \/ (At(c, "next") /\ Unpublished(call[c].j) = {})
    /\ Failure
    /\ \/ ~updated /\ GoUndo(c, j, j.created, "return") /\ UNCHANGED journal
       \/ /\ updated
          /\ Go(c, "return")
          /\ journal' \in {journal, [j EXCEPT !.state = "cleanup_required"]}
    /\ UNCHANGED <<op, doc, files, locks, history>>

\* guarded_replace_file of the document: the check ...
CheckDocument(c) ==
    /\ At(c, "save")
    /\ Go(c, IF doc = call[c].before THEN "rename" ELSE "return")
    /\ UNCHANGED <<op, disk, locks, counts, history>>

\* ... and the rename. It may fail, or be done and reported as failed.
RenameDocument(c) ==
    /\ At(c, "rename")
    /\ \/ doc' = call[c].write /\ Works /\ Go(c, call[c].then)
       \/ doc' \in {doc, call[c].write} /\ Failure /\ Go(c, "return")
    /\ UNCHANGED <<op, files, journal, locks, history>>

\* The journal of a saved document is marked and removed; a failure is a warning.
MarkSaved(c) ==
    /\ At(c, "saved")
    /\ \/ /\ Works
          /\ journal' = [call[c].j EXCEPT !.state = "document_saved"]
          /\ Go(c, "drop")
       \/ Failure /\ UNCHANGED journal /\ Go(c, "return")
    /\ UNCHANGED <<op, doc, files, locks, history>>

RemoveJournal(c) ==
    /\ At(c, "drop")
    /\ \/ Works /\ journal' = NoJournal
       \/ Failure /\ UNCHANGED journal
    /\ Go(c, "return")
    /\ UNCHANGED <<op, doc, files, locks, history>>

----------------------------------------------------------------------------
(* The user, crashes, time *)

Edit ==
    /\ MoreFaults(counts)
    /\ counts' = [counts EXCEPT !.edits = @ + 1]

\* The user changes the selections in the pending document.
EditSelections(sel) ==
    /\ Edit
    /\ doc.status = "pending" /\ doc.sel # sel
    /\ doc' = [doc EXCEPT !.sel = sel]
    /\ raced' = (raced \/ (\E c \in Calls : At(c, "rename")))
    /\ UNCHANGED <<op, files, journal, locks, call, touched, abandoned, doubled>>

\* The user, or another program, writes or deletes a target.
TouchTarget(d, content) ==
    /\ Edit
    /\ files[d] # content
    /\ files' = [files EXCEPT ![d] = content]
    /\ touched' = touched \cup {d}
    /\ abandoned' = abandoned \ {d}
    /\ raced' = (raced \/ (\E c \in Calls :
                    \/ At(c, "replace") /\ call[c].j.inflight = d
                    \/ At(c, "remove") /\ Min(call[c].todo) = d))
    /\ UNCHANGED <<op, doc, journal, locks, call, doubled>>

\* The app dies; lock files stay.
Crash ==
    /\ MoreFaults(counts)
    /\ \E c \in Calls : ~At(c, "idle")
    /\ counts' = [counts EXCEPT !.crashes = @ + 1]
    /\ call' = [c \in Calls |-> Idle]
    /\ locks' = [l \in Locks |-> IF locks[l] \in Calls THEN "left" ELSE locks[l]]
    /\ UNCHANGED <<op, disk, history>>

\* LOCK_STALE_AFTER passes; a call that lives is done long before.
LocksAge ==
    /\ \E l \in Locks : locks[l] = "left"
    /\ locks' = [l \in Locks |-> IF locks[l] = "left" THEN "stale" ELSE locks[l]]
    /\ UNCHANGED <<op, disk, call, counts, history>>

----------------------------------------------------------------------------

Init ==
    /\ op \in Operations
    /\ doc \in {[status |-> "pending", sel |-> sel, res |-> [d \in Decisions |-> "pending"]] :
                    sel \in Selections}
    /\ files = [d \in Decisions |-> IF op[d] = "create" THEN NoFile ELSE OldPage]
    /\ journal = NoJournal
    /\ locks = [l \in Locks |-> "free"]
    /\ call = [c \in Calls |-> Idle]
    /\ counts = [applies |-> 0, crashes |-> 0, failures |-> 0, edits |-> 0]
    /\ touched = {}
    /\ raced = FALSE
    /\ abandoned = {}
    /\ doubled = FALSE

LockStep(c) ==
    \/ \E recover \in BOOLEAN : Start(c, recover)
    \/ CreateLock(c) \/ LockExists(c) \/ LockIsStale(c) \/ ReplaceStaleLock(c)
    \/ Return(c) \/ GiveUp(c)

JournalStep(c) ==
    \/ ReadNoJournal(c) \/ DropJournal(c) \/ RecoverStaged(c) \/ RecoverUnclear(c)
    \/ CleanupOrphan(c) \/ RefuseRecovery(c) \/ RecoverFinalized(c) \/ FinalizedMismatch(c)
    \/ Undo(c) \/ RemoveFile(c) \/ UndoDone(c) \/ UndoFails(c)

ApplyStep(c) ==
    \/ Check(c) \/ WriteJournal(c) \/ Stage(c) \/ MarkInflight(c)
    \/ PublishNew(c) \/ CheckPage(c) \/ ReplacePage(c) \/ PublishFails(c)
    \/ RecordPublished(c) \/ Finalize(c) \/ UpdateFails(c)
    \/ CheckDocument(c) \/ RenameDocument(c) \/ MarkSaved(c) \/ RemoveJournal(c)

UserStep ==
    \/ \E sel \in Selections : EditSelections(sel)
    \/ \E d \in Decisions, content \in {NoFile, UserFile} : TouchTarget(d, content)

Next ==
    \/ \E c \in Calls : LockStep(c) \/ JournalStep(c) \/ ApplyStep(c)
    \/ UserStep
    \/ Crash
    \/ LocksAge

Spec == Init /\ [][Next]_vars

----------------------------------------------------------------------------
(* What applying promises *)

Document ==
    [status : {"pending", "applied", "partially_applied", "needs_revision", "apply_failed"},
     sel : [Decisions -> Options],
     res : [Decisions -> {"pending", "committed", "rejected", "needs_revision"}]]

Journal ==
    [state : {"staged", "finalized", "document_saved", "cleanup_required"},
     before : Document, stamp : 1 .. MaxApplies, created : SUBSET Decisions,
     updated : SUBSET Decisions, inflight : 0 .. N, finalized : SUBSET Decisions]

\* Everything keeps its type. A journal lists only files it planned, publishes
\* them one at a time in the document's order, and is finalized when none is left.
TypeOK ==
    /\ doc \in Document
    /\ files \in [Decisions -> {NoFile, OldPage, UserFile} \cup {Written(n) : n \in 1 .. MaxApplies}]
    /\ \A c \in Calls : \A j \in {journal, call[c].j} \ {NoJournal} :
        /\ j \in Journal
        /\ j.created \cup j.updated \cup j.finalized \subseteq Planned(j)
        /\ j.inflight # 0 =>
            j.inflight \in Unpublished(j) /\ \A d \in Unpublished(j) : j.inflight <= d
        /\ j.state \in {"finalized", "document_saved"} => Unpublished(j) = {}

InUse(c) == call[c].holds = Locks

\* Two calls work on the document only after one of them, having found a stale
\* lock, renamed away the fresh lock that the other had put in its place.
OneApplyAtATime ==
    doubled \/ Cardinality({c \in Calls : InUse(c)}) <= 1

\* The files a journal accounts for.
Covered(j) ==
    IF j = NoJournal THEN {} ELSE j.created \cup j.updated \cup j.finalized \cup {j.inflight}

ByApply == {d \in Decisions : files[d].by = "apply"}

\* At every instant, so at every crash, a published file is accounted for. Until
\* the document is resolved it is in the journal on disk: write_journal_atomic
\* comes first, and a journal goes only after its files. A resolved document
\* records what the user chose in it, and its committed decisions, and no other,
\* have their file, unless the user has changed that since; recovery never undoes
\* or repeats it. Exceptions are the files that the failure of a later
\* publication or the recovery of an update leaves behind.
PublishedIsAccounted ==
    \/ doubled
    \/ /\ doc.status \in {"pending", "apply_failed"}
       /\ ByApply \ abandoned \subseteq Covered(journal)
    \/ /\ doc.res = ResultOf(doc.sel)
       /\ doc.status = StatusFor(doc.sel)
       /\ Yes(doc.sel) \ touched \subseteq ByApply
       /\ ByApply \subseteq Yes(doc.sel) \cup abandoned

\* With new files, crashes alone never need the user: an apply that gets both
\* locks, may recover and is not itself cut off leaves the document resolved and
\* no journal, whatever was interrupted before.
CrashesAreRepaired ==
    doubled \/ (\E d \in Decisions : op[d] = "update") \/ counts.failures + counts.edits > 0
        \/ \A c \in Calls :
            At(c, "return") /\ InUse(c) /\ call[c].recover
                /\ Decided(doc.sel)
                /\ call[c].expected.status = "pending"
                => doc.status = StatusFor(doc.sel) /\ journal = NoJournal

\* The app replaces the document only as the user saw it when he applied it, and
\* never replaces or deletes what somebody else wrote to a target, outside the
\* windows between the checks of guarded_replace_file and of the rollback and
\* the writes they guard.
OnlySeenIsReplaced ==
    [][ ~raced /\ ~doubled /\ counts'.edits = counts.edits =>
            /\ doc' = doc \/ (\E c \in Calls : doc = call[c].expected)
            /\ \A d \in Decisions : files[d] = UserFile => files'[d] = files[d] ]_vars
=============================================================================
