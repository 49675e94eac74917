----------------------------- MODULE SearchLinks -----------------------------
(***************************************************************************)
(* The documents and wikilinks of the desktop's search database, and how   *)
(* the writer thread keeps the links resolved: after each job it resolves  *)
(* again only the links its plan selects, after a rebuild all of them.     *)
(*                                                                         *)
(* VaultIndex says which jobs come and when; here any job may come at any  *)
(* time and find any content.  A path is a folder, a name in lower case    *)
(* and the case it is written in; the links of a note are a set.  Titles,  *)
(* chunks and positions are left out.                                      *)
(***************************************************************************)
EXTENDS Integers, Sequences, FiniteSets, SequencesExt

CONSTANTS
    DocIds,     \* the markdown paths, in the order of doc_id
    Targets,    \* what links name: a folder, perhaps empty, and a name
    Texts,      \* the contents of notes: sets of targets
    MaxUid      \* bound: documents ever inserted

Paths == Range(DocIds)

ASSUME SearchLinksAssumption ==
    /\ DocIds \in Seq(Paths) /\ IsInjective(DocIds)
    /\ \A p \in Paths : Len(p.folder) \in Nat
    /\ Texts \subseteq SUBSET Targets
    /\ MaxUid \in Nat

Uids == 1..MaxUid
None == 0

VARIABLES
    docs,       \* documents: note_uid, doc_id and the links of the indexed text
    refs,       \* wikilink_refs
    lastUid,    \* the AUTOINCREMENT sequence of documents
    plan,       \* ReResolutionPlan of the job whose text is committed, or NoPlan
    displaced,  \* history: uids whose row a rename onto their path deleted
    stale       \* history: a job failed before it had resolved its links

vars == <<docs, refs, lastUid, plan, displaced, stale>>

Kinds == {"exact", "basename", "ambiguous", "unresolved"}
Resolution(kind, uid, distance) == [kind |-> kind, uid |-> uid, distance |-> distance]
Unresolved == Resolution("unresolved", None, None)
Ambiguous == Resolution("ambiguous", None, None)

NoPlan == [open |-> FALSE, sources |-> {}, resolved |-> {}, targets |-> {}, names |-> {}]

\* The links in the table are those of the indexed texts, under the path the
\* document now has; others belong to a row that a rename displaced.
LinksAreOfDocuments ==
    /\ \A d \in docs : {<<r.path, r.target>> : r \in {r \in refs : r.uid = d.uid}} = {d.path} \X d.links
    /\ \A r \in refs : r.uid \in displaced \/ \E d \in docs : d.uid = r.uid

\* The tables keep their types, their keys and the references between them.
TypeOK ==
    /\ docs \subseteq [uid : Uids, path : Paths, links : Texts]
    /\ refs \subseteq [uid : Uids, path : Paths, target : Targets,
                       resolution : [kind : Kinds, uid : {None} \cup Uids, distance : Nat]]
    /\ lastUid \in {None} \cup Uids
    /\ plan.open \in BOOLEAN /\ plan.sources \cup plan.resolved \subseteq Uids
    /\ displaced \subseteq Uids /\ stale \in BOOLEAN
    /\ \A d, e \in docs : d.uid = e.uid \/ d.path = e.path => d = e     \* the table's keys
    /\ LinksAreOfDocuments

Init ==
    /\ docs = {} /\ refs = {} /\ lastUid = None
    /\ plan = NoPlan /\ displaced = {} /\ stale = FALSE

-----------------------------------------------------------------------------
(* Resolving a link: search/wikilink.rs.                                   *)

\* normalize_link_target: without the case.
Normalized(p) == [folder |-> p.folder, name |-> p.name]

\* folder_distance_between.
Distance == [p \in Paths |-> [q \in Paths |->
    LET Common(n) == n <= Len(p.folder) /\ n <= Len(q.folder) /\ SubSeq(p.folder, 1, n) = SubSeq(q.folder, 1, n)
        common == CHOOSE n \in 0..Len(p.folder) : Common(n) /\ ~Common(n + 1)
    IN  (Len(p.folder) - common) + (Len(q.folder) - common)]]

\* The last of the documents D in the order of their paths.
LastOf(D) == LET Pos(d) == CHOOSE i \in DOMAIN DocIds : DocIds[i] = d.path
             IN  CHOOSE d \in D : \A e \in D : Pos(e) <= Pos(d)

\* resolve_wikilink: by path if the target has a folder, else the nearest
\* document of that name.
Resolve(path, target, D) ==
    LET exact == {d \in D : Normalized(d.path) = target}
        named == {d \in D : d.path.name = target.name}
        nearest == {d \in named : \A e \in named : Distance[path][d.path] <= Distance[path][e.path]}
        Found(kind, d) == Resolution(kind, d.uid, Distance[path][d.path])
    IN  IF target.folder # <<>> /\ exact # {} THEN Found("exact", LastOf(exact))
        ELSE IF named = {} THEN Unresolved
        ELSE IF Cardinality(nearest) = 1 THEN Found("basename", LastOf(nearest))
        ELSE Ambiguous

-----------------------------------------------------------------------------
(* Documents: search/db.rs.                                                *)

\* find_note_uid_by_doc_id, then find_note_uid_by_doc_id_nocase.
ExactUid(D, p) == {d.uid : d \in {d \in D : d.path = p}}
FindUid(D, p) ==
    LET nocase == {d \in D : Normalized(d.path) = Normalized(p)}
    IN  IF ExactUid(D, p) # {} THEN ExactUid(D, p)
        ELSE IF Cardinality(nocase) = 1 THEN {d.uid : d \in nocase} ELSE {}

\* Mutant: the links of the replaced text are kept.
ReplacedKeepingLinks(db, uid, p, links) ==
    LET u == IF uid = {} THEN db.last + 1 ELSE CHOOSE u \in uid : TRUE
    IN  [docs |-> {d \in db.docs : d.path # p /\ d.uid # u} \cup {[uid |-> u, path |-> p, links |-> links]},
         refs |-> db.refs \cup {[uid |-> u, path |-> p, target |-> t, resolution |-> Unresolved] : t \in links},
         last |-> IF uid = {} THEN u ELSE db.last]

\* replace_document, with the uid of the document or a new one: rows of that path
\* or that uid make way, but only the links of that uid.
Replaced(db, uid, p, links) ==
    LET u == IF uid = {} THEN db.last + 1 ELSE CHOOSE u \in uid : TRUE
    IN  [docs |-> {d \in db.docs : d.path # p /\ d.uid # u} \cup {[uid |-> u, path |-> p, links |-> links]},
         refs |-> {r \in db.refs : r.uid # u}
                    \cup {[uid |-> u, path |-> p, target |-> t, resolution |-> Unresolved] : t \in links},
         last |-> IF uid = {} THEN u ELSE db.last]

\* remove_document, for each of these paths.
Removed(db, P) ==
    LET uids == {d.uid : d \in {d \in db.docs : d.path \in P}}
    IN  [docs |-> {d \in db.docs : d.path \notin P}, refs |-> {r \in db.refs : r.uid \notin uids},
         last |-> db.last]

Database == [docs |-> docs, refs |-> refs, last |-> lastUid]
Commit(db) ==
    /\ db.last <= MaxUid
    /\ docs' = db.docs /\ refs' = db.refs /\ lastUid' = db.last

-----------------------------------------------------------------------------
(* The jobs: search/writer.rs.  The text is one transaction, the links     *)
(* another.                                                                *)

PlanFor(sources, resolved, paths) ==
    [open |-> TRUE, sources |-> sources, resolved |-> resolved,
     targets |-> {Normalized(p) : p \in paths}, names |-> {p.name : p \in paths}]

\* handle_index_file of a file with these links; an unchanged text is skipped.
IndexFile(p, links) ==
    LET uid == FindUid(docs, p)
        db == Replaced(Database, uid, p, links)
    IN  /\ ~plan.open
        /\ \A d \in docs : ~(d.path = p /\ d.links = links)
        /\ Commit(db)
        /\ plan' = PlanFor(ExactUid(db.docs, p), {}, {p})
        /\ UNCHANGED <<displaced, stale>>

\* handle_remove_file, and handle_index_file of a file that is gone.
RemoveFile(p) ==
    /\ ~plan.open
    /\ Commit(Removed(Database, {p}))
    /\ plan' = PlanFor({}, ExactUid(docs, p), {p})
    /\ UNCHANGED <<displaced, stale>>

\* handle_rename_file: the uid moves along.  The file may be gone again.
RenameFile(p, q, links) ==
    LET uid == ExactUid(docs, p)
        db == Replaced(Removed(Database, {p}), uid, q, links)
    IN  /\ ~plan.open /\ p # q
        /\ Commit(db)
        /\ plan' = PlanFor(ExactUid(db.docs, q), uid \cup ExactUid(db.docs, q), {p, q})
        /\ displaced' = displaced \cup (ExactUid(docs, q) \ ExactUid(db.docs, q))
        /\ UNCHANGED stale

RenameFileGone(p, q) ==
    /\ ~plan.open /\ p # q
    /\ Commit(Removed(Database, {p}))
    /\ plan' = PlanFor({}, ExactUid(docs, p), {p, q})
    /\ UNCHANGED <<displaced, stale>>

\* Mutant: a link is resolved again only if it names the path.
SelectedByTarget(r) ==
    r.uid \in plan.sources \/ r.target \in plan.targets \/ r.resolution.uid \in plan.resolved

\* should_reresolve_row.
Selected(r) ==
    \/ r.uid \in plan.sources
    \/ r.target \in plan.targets \/ r.target.name \in plan.names
    \/ r.resolution.uid \in plan.resolved

\* rereresolve_wikilinks.
Reresolve ==
    /\ plan.open
    /\ refs' = {IF Selected(r) THEN [r EXCEPT !.resolution = Resolve(r.path, r.target, docs)] ELSE r : r \in refs}
    /\ plan' = NoPlan
    /\ UNCHANGED <<docs, lastUid, displaced, stale>>

\* The second transaction fails: the job ends with an error.
FailReresolve ==
    /\ plan.open
    /\ plan' = NoPlan
    /\ stale' = TRUE
    /\ UNCHANGED <<docs, refs, lastUid, displaced>>

\* handle_full_rebuild over a vault with these files, in one batch whose uids are
\* looked up before any is replaced.
Indexed(files) ==
    LET uid == [p \in DOMAIN files |-> FindUid(docs, p)]
        replaced[n \in 0..Len(DocIds)] ==
            IF n = 0 THEN Database
            ELSE IF DocIds[n] \notin DOMAIN files THEN replaced[n - 1]
            ELSE Replaced(replaced[n - 1], uid[DocIds[n]], DocIds[n], files[DocIds[n]])
    IN  replaced[Len(DocIds)]

\* Bound: the documents a rebuild of the files P inserts.
Fits(P) == lastUid + Cardinality({p \in P : FindUid(docs, p) = {}}) <= MaxUid

\* The other documents are removed and resolve_all_wikilinks runs.
Rebuild(P) ==
    /\ ~plan.open /\ Fits(P)
    /\ \E files \in [P -> Texts] :
        LET db == Removed(Indexed(files), Paths \ P)
        IN  Commit([db EXCEPT !.refs = {[r EXCEPT !.resolution = Resolve(r.path, r.target, db.docs)] : r \in @}])
    /\ stale' = FALSE
    /\ UNCHANGED <<plan, displaced>>

\* It fails after the batch is committed.
FailRebuild(P) ==
    /\ ~plan.open /\ Fits(P)
    /\ \E files \in [P -> Texts] : Commit(Indexed(files))
    /\ stale' = TRUE
    /\ UNCHANGED <<plan, displaced>>

-----------------------------------------------------------------------------
Next ==
    \/ \E p \in Paths, links \in Texts : IndexFile(p, links)
    \/ \E p \in Paths : RemoveFile(p)
    \/ \E p, q \in Paths, links \in Texts : RenameFile(p, q, links)
    \/ \E p, q \in Paths : RenameFileGone(p, q)
    \/ Reresolve \/ FailReresolve
    \/ \E P \in SUBSET Paths : Rebuild(P) \/ FailRebuild(P)

Spec == Init /\ [][Next]_vars

-----------------------------------------------------------------------------
(* Properties.                                                             *)

\* Resolving only what the plan selects is enough: between jobs every link has
\* the resolution a full pass over the present documents would give it, unless a
\* job failed after its text was committed and no rebuild came since.
LinksAreResolved ==
    ~plan.open /\ ~stale => \A r \in refs : r.resolution = Resolve(r.path, r.target, docs)

=============================================================================
