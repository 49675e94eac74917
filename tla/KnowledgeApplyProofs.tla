------------------------- MODULE KnowledgeApplyProofs -------------------------
(***************************************************************************)
(* Proofs about KnowledgeApply, for any document, number of calls, crashes,*)
(* failures and changes by the user.  Unless a lock in use was taken over, *)
(* one call at a time works on the document, and what it has in memory     *)
(* agrees with what is on disk.                                            *)
(***************************************************************************)
EXTENDS KnowledgeApply, DataFacts, FiniteSetTheorems, TLAPS

\* Where a call holds both locks and has yet to return; where it goes about
\* publishing a journal of its own.
Publishing == {"journal", "stage", "next", "publish", "replace", "record"}
Working == Publishing \cup {"read", "check", "undo", "remove", "save", "rename", "saved", "drop"}
CallPcs == Working \cup {"idle", "create", "stat", "takeover", "recreate", "return"}

CallType ==
    [pc : CallPcs, stamp : 0 .. MaxApplies, want : Locks, holds : SUBSET Locks,
     expected : Document \cup {NoDoc}, recover : BOOLEAN, before : Document \cup {NoDoc},
     j : Journal \cup {NoJournal}, todo : SUBSET Decisions, write : Document \cup {NoDoc},
     then : {"return", "check", "saved"}]
Contents == {NoFile, OldPage, UserFile} \cup {Written(n) : n \in 1 .. MaxApplies}

\* A journal is as TypeOK says, and its final files are all it planned or none.
JournalOK(j) ==
    /\ j \in Journal
    /\ j.created \cup j.updated \cup j.finalized \subseteq Planned(j)
    /\ j.inflight # 0 => j.inflight \in Unpublished(j) /\ \A d \in Unpublished(j) : j.inflight <= d
    /\ j.state \in {"finalized", "document_saved"} => Unpublished(j) = {} /\ j.finalized = Planned(j)
    /\ j.state = "staged" => j.finalized = {}

\* What a call t holds in memory fits where it is, whatever other calls do.
CallOK(t) ==
    /\ t \in CallType
    /\ t.pc # "idle" => t.stamp # 0
    /\ t.want = "document" => "apply" \in t.holds
    /\ t.pc \in Working => t.holds = Locks
    /\ t.j # NoJournal => JournalOK(t.j)
    /\ t.pc \in Publishing \cup {"check", "save", "rename"} => t.before \in Document
    /\ t.pc \in Publishing \cup {"save", "rename"} => t.before.status = "pending" /\ t.before = t.expected
    /\ t.pc \in Publishing => t.j \in Journal /\ t.j.state = "staged" /\ t.j.before = t.before
    /\ t.pc \in {"journal", "stage", "next"} => t.j.inflight = 0
    /\ t.pc \in {"journal", "stage"} => t.j.created = {} /\ t.j.updated = {}
    /\ t.pc \in {"publish", "replace", "record"} => t.j.inflight # 0
    /\ t.pc \in {"undo", "remove"} => t.j \in Journal /\ t.then # "saved" /\ (t.then = "check" => t.before \in Document)
    /\ t.pc = "remove" => t.todo # {}
    /\ t.pc \in {"save", "rename"} => /\ t.write \in {Resolved(t.before, t.before.sel), Failed(t.before)}
                                      /\ t.then # "check"
                                      /\ t.then = "saved" => t.write = Resolved(t.before, t.before.sel)
    /\ (t.pc \in {"save", "rename"} /\ t.then = "saved") \/ t.pc = "saved"
            => t.j \in Journal /\ t.j.state = "finalized"

\* The document and the files agree: it is open and what was published is in the
\* journal, or it is resolved and nothing will undo what it says.
Open == doc.status \in {"pending", "apply_failed"} /\ ByApply \ abandoned \subseteq Covered(journal)
Settled ==
    /\ doc.res = ResultOf(doc.sel) /\ doc.status = StatusFor(doc.sel)
    /\ Yes(doc.sel) \ touched \subseteq ByApply /\ ByApply \subseteq Yes(doc.sel) \cup abandoned
DiskOK ==
    \/ Open /\ journal.state # "document_saved"
    \/ Settled /\ journal.state # "staged"

\* What a call t relies on that works on the document alone.
Relies(t) ==
    /\ t.pc \in {"check", "journal"} => journal = NoJournal
    /\ t.pc = "check" => (t.before.status = "pending" => doc.status = "pending")
    /\ t.pc \in Publishing \cup {"save", "rename"} => doc.status = "pending"
    /\ t.pc \in Publishing \ {"journal"} => journal = t.j
    /\ t.pc \in Publishing => (t.j.created \cup t.j.updated) \ touched \subseteq ByApply
    /\ t.pc = "replace" => raced \/ files[t.j.inflight] = OldPage
    /\ t.pc = "record" => t.j.inflight \in ByApply \cup touched
    /\ t.pc \in {"undo", "remove"} =>
        /\ journal.state = "staged" /\ Covered(journal) \subseteq Covered(t.j)
        /\ t.then = "check" /\ t.before.status = "pending" => doc.status = "pending"
        /\ ByApply \ abandoned \subseteq t.todo \cup t.j.updated
    /\ t.pc = "remove" => raced \/ files[Min(t.todo)] = Written(t.j.stamp)
    /\ t.pc \in {"save", "rename"} /\ t.write.status # "apply_failed" =>
        /\ journal.state # "staged"
        /\ Yes(t.before.sel) \ touched \subseteq ByApply /\ ByApply \subseteq Yes(t.before.sel) \cup abandoned
    /\ t.pc = "rename" => raced \/ doc = t.before
    /\ t.pc \in {"saved", "drop"} => Settled

\* A lock that a call holds is in its name.
Held == \A c \in Calls : \A l \in call[c].holds : locks[l] = c

Typed ==
    /\ op \in [Decisions -> {"create", "update"}]
    /\ doc \in Document /\ files \in [Decisions -> Contents]
    /\ journal \in Journal \cup {NoJournal} /\ (journal # NoJournal => JournalOK(journal))
    /\ locks \in [Locks -> Calls \cup {"free", "left", "stale"}]
    /\ counts \in [applies : Nat, crashes : Nat, failures : Nat, edits : Nat]
    /\ touched \in SUBSET Decisions /\ abandoned \in SUBSET Decisions
    /\ raced \in BOOLEAN /\ doubled \in BOOLEAN

\* The inductive invariant.
ApplyInv ==
    /\ Typed /\ call \in [Calls -> CallType] /\ \A c \in Calls : CallOK(call[c])
    /\ doubled \/ (Held /\ DiskOK /\ \A c \in Calls : Relies(call[c]))

-----------------------------------------------------------------------------
(* Documents and journals.                                                 *)

\* The least of some numbers is one of them.
LEMMA MinFacts ==
    ASSUME NEW S, S \subseteq Nat, S # {}
    PROVE  Min(S) \in S /\ \A y \in S : Min(S) <= y
<1>1. \E x \in S : \A y \in S : x <= y
    BY LeastNatural
<1> QED
    BY <1>1, Zenon DEF Min

\* A document is resolved as its selections say.
LEMMA ResolvedFacts ==
    ASSUME NEW b \in Document
    PROVE  LET w == Resolved(b, b.sel)
           IN  /\ w \in Document /\ w.sel = b.sel /\ w.res = ResultOf(b.sel) /\ w.status = StatusFor(b.sel)
               /\ w.status \in {"applied", "partially_applied", "needs_revision"}
<1>1. StatusFor(b.sel) \in {"applied", "partially_applied", "needs_revision"}
    BY DEF StatusFor
<1>2. b.sel \in [Decisions -> Options]
    BY DEF Document
<1>3. ResultOf(b.sel) \in [Decisions -> {"pending", "committed", "rejected", "needs_revision"}]
    BY <1>2 DEF ResultOf
<1>4. StatusFor(b.sel) \in {"pending", "applied", "partially_applied", "needs_revision", "apply_failed"}
    BY <1>1
<1>5. PICK w : w = Resolved(b, b.sel)
    OBVIOUS
<1>6. /\ w \in Document /\ w.sel = b.sel /\ w.res = ResultOf(b.sel) /\ w.status = StatusFor(b.sel)
    BY <1>3, <1>4, <1>5, Zenon DEF Resolved, Document
<1> QED
    BY <1>1, <1>5, <1>6

\* ... or marked as failed.
LEMMA FailedFacts ==
    ASSUME NEW b \in Document
    PROVE  /\ Failed(b) \in Document /\ Failed(b).status = "apply_failed"
BY DEF Failed, Document

\* A journal is not the lack of one, and lists decisions.
LEMMA JournalFacts ==
    ASSUME NEW j \in Journal
    PROVE  /\ j # NoJournal /\ j.state # "none"
           /\ Covered(j) = j.created \cup j.updated \cup j.finalized \cup {j.inflight}
           /\ Planned(j) \subseteq Decisions /\ Unpublished(j) \subseteq Nat /\ 0 \notin Decisions
           /\ j.created \subseteq Decisions /\ j.updated \subseteq Decisions
           /\ j.inflight \in 0 .. N /\ j.stamp \in 1 .. MaxApplies /\ j.before \in Document
<1>1. j.state # "none" /\ NoJournal.state = "none"
    BY DEF Journal, NoJournal
<1>2. Decisions \subseteq Nat /\ 0 \notin Decisions
    BY KnowledgeApplyAssumption DEF Decisions
<1>3. /\ j.created \subseteq Decisions /\ j.updated \subseteq Decisions
      /\ j.inflight \in 0 .. N /\ j.stamp \in 1 .. MaxApplies /\ j.before \in Document
    BY DEF Journal
<1>4. Planned(j) \subseteq Decisions /\ Unpublished(j) \subseteq Nat
    BY <1>2 DEF Planned, Yes, Unpublished
<1> QED
    BY <1>1, <1>2, <1>3, <1>4 DEF Covered

\* A journal that asks for cleanup, or says that the document was saved.
LEMMA MarkedJournal ==
    ASSUME NEW j, JournalOK(j), NEW s, s = "cleanup_required" \/ (s = "document_saved" /\ j.state = "finalized")
    PROVE  LET k == [j EXCEPT !.state = s]
           IN  JournalOK(k) /\ k \in Journal /\ k.state = s /\ Covered(k) = Covered(j)
<1>1. PICK k : k = [j EXCEPT !.state = s]
    OBVIOUS
<1>2. s \in {"staged", "finalized", "document_saved", "cleanup_required"} /\ j \in Journal
    BY DEF JournalOK
<1>3. /\ k \in Journal /\ k.state = s /\ k.before = j.before /\ k.created = j.created /\ k.updated = j.updated
      /\ k.inflight = j.inflight /\ k.finalized = j.finalized
    BY <1>1, <1>2, Zenon DEF Journal
<1>4. Planned(k) = Planned(j) /\ Unpublished(k) = Unpublished(j)
    BY <1>3 DEF Planned, Unpublished
<1>5. Covered(k) = Covered(j)
    BY <1>2, <1>3, JournalFacts
<1>6. JournalOK(k)
    BY <1>2, <1>3, <1>4 DEF JournalOK
<1> QED
    BY <1>1, <1>3, <1>5, <1>6

\* A new journal plans what was selected.
LEMMA NewJournalFacts ==
    ASSUME NEW b \in Document, NEW n \in 1 .. MaxApplies
    PROVE  LET j == NewJournal(b, n)
           IN  /\ JournalOK(j) /\ j \in Journal /\ j.state = "staged" /\ j.before = b /\ j.inflight = 0
               /\ j.created = {} /\ j.updated = {}
<1>1. PICK j : j = NewJournal(b, n)
    OBVIOUS
<1>2. 0 \in 0 .. N
    BY KnowledgeApplyAssumption
<1>3. /\ j \in Journal /\ j.state = "staged" /\ j.before = b /\ j.inflight = 0
      /\ j.created = {} /\ j.updated = {} /\ j.finalized = {}
    BY <1>1, <1>2 DEF NewJournal, Journal
<1> QED
    BY <1>1, <1>3 DEF JournalOK

\* The next file of a journal is the first that is not published.
LEMMA InflightFacts ==
    ASSUME NEW j, JournalOK(j), j.state = "staged", Unpublished(j) # {}
    PROVE  LET k == [j EXCEPT !.inflight = Min(Unpublished(j))]
           IN  /\ JournalOK(k) /\ k \in Journal /\ k.state = "staged" /\ k.before = j.before /\ k.inflight # 0
               /\ k.created = j.created /\ k.updated = j.updated /\ k.finalized = j.finalized
<1>1. PICK i : i = Min(Unpublished(j))
    OBVIOUS
<1>2. j \in Journal /\ Unpublished(j) \subseteq Nat /\ Unpublished(j) \subseteq Decisions /\ 0 \notin Decisions
    BY JournalFacts DEF JournalOK, Unpublished
<1>3. i \in Unpublished(j) /\ \A d \in Unpublished(j) : i <= d
    BY <1>1, <1>2, MinFacts
<1>4. i \in 0 .. N /\ i # 0
    BY <1>2, <1>3, KnowledgeApplyAssumption DEF Decisions
<1>5. PICK k : k = [j EXCEPT !.inflight = i]
    OBVIOUS
<1>6. /\ k \in Journal /\ k.state = "staged" /\ k.before = j.before /\ k.inflight = i
      /\ k.created = j.created /\ k.updated = j.updated /\ k.finalized = j.finalized
    BY <1>2, <1>4, <1>5, Zenon DEF Journal
<1>7. Planned(k) = Planned(j) /\ Unpublished(k) = Unpublished(j)
    BY <1>6 DEF Planned, Unpublished
<1>8. JournalOK(k)
    BY <1>3, <1>6, <1>7 DEF JournalOK
<1> QED
    BY <1>1, <1>4, <1>5, <1>6, <1>8

\* The file under way is forgotten.
LEMMA NotInflight ==
    ASSUME NEW j, JournalOK(j)
    PROVE  LET k == [j EXCEPT !.inflight = 0]
           IN  /\ JournalOK(k) /\ k \in Journal /\ k.state = j.state
               /\ k.created = j.created /\ k.updated = j.updated /\ k.finalized = j.finalized
<1>1. PICK k : k = [j EXCEPT !.inflight = 0]
    OBVIOUS
<1>2. j \in Journal /\ 0 \in 0 .. N
    BY KnowledgeApplyAssumption DEF JournalOK
<1>3. /\ k \in Journal /\ k.state = j.state /\ k.before = j.before /\ k.inflight = 0
      /\ k.created = j.created /\ k.updated = j.updated /\ k.finalized = j.finalized
    BY <1>1, <1>2, Zenon DEF Journal
<1>4. Planned(k) = Planned(j) /\ Unpublished(k) = Unpublished(j)
    BY <1>3 DEF Planned, Unpublished
<1> QED
    BY <1>1, <1>3, <1>4 DEF JournalOK

\* The file under way is recorded as published.
LEMMA RecordedFacts ==
    ASSUME NEW j, JournalOK(j), j.state = "staged", j.inflight # 0
    PROVE  LET k == Recorded(j, j.inflight)
           IN  /\ JournalOK(k) /\ k \in Journal /\ k.state = "staged" /\ k.before = j.before /\ k.inflight = 0
               /\ k.finalized = j.finalized /\ j.created \subseteq k.created
               /\ k.created \cup k.updated = j.created \cup j.updated \cup {j.inflight}
               /\ op[j.inflight] = "create" => k.created = j.created \cup {j.inflight} /\ k.updated = j.updated
<1>1. PICK i : i = j.inflight
    OBVIOUS
<1>2. j \in Journal /\ 0 \in 0 .. N /\ i \in Unpublished(j) /\ i \in Planned(j) /\ i \in Decisions
    BY <1>1, JournalFacts, KnowledgeApplyAssumption DEF JournalOK, Unpublished
<1>3. j.created \cup {i} \in SUBSET Decisions /\ j.updated \cup {i} \in SUBSET Decisions
    BY <1>2 DEF Journal
<1>4. PICK k : k = Recorded(j, i)
    OBVIOUS
<1>5. CASE op[i] = "create"
    <2>1. k = [j EXCEPT !.created = j.created \cup {i}, !.inflight = 0]
        BY <1>4, <1>5, Zenon DEF Recorded
    <2>2. /\ k \in Journal /\ k.state = j.state /\ k.before = j.before /\ k.inflight = 0
          /\ k.created = j.created \cup {i} /\ k.updated = j.updated /\ k.finalized = j.finalized
        BY <1>2, <1>3, <2>1, Zenon DEF Journal
    <2>3. Planned(k) = Planned(j)
        BY <2>2 DEF Planned
    <2>4. JournalOK(k)
        BY <1>2, <2>2, <2>3 DEF JournalOK
    <2> QED
        BY <1>1, <1>4, <2>2, <2>4
<1>6. CASE op[i] # "create"
    <2>1. k = [j EXCEPT !.updated = j.updated \cup {i}, !.inflight = 0]
        BY <1>4, <1>6, Zenon DEF Recorded
    <2>2. /\ k \in Journal /\ k.state = j.state /\ k.before = j.before /\ k.inflight = 0
          /\ k.created = j.created /\ k.updated = j.updated \cup {i} /\ k.finalized = j.finalized
        BY <1>2, <1>3, <2>1, Zenon DEF Journal
    <2>3. Planned(k) = Planned(j)
        BY <2>2 DEF Planned
    <2>4. JournalOK(k)
        BY <1>2, <2>2, <2>3 DEF JournalOK
    <2> QED
        BY <1>1, <1>4, <1>6, <2>2, <2>4
<1> QED
    BY <1>5, <1>6

\* A journal with nothing left to publish is finalized.
LEMMA FinalizedFacts ==
    ASSUME NEW j, JournalOK(j), j.inflight = 0, Unpublished(j) = {}
    PROVE  LET k == Finalized(j)
           IN  /\ JournalOK(k) /\ k \in Journal /\ k.state = "finalized" /\ k.before = j.before /\ k.inflight = 0
               /\ k.created = j.created /\ k.updated = j.updated /\ k.finalized = Planned(j)
<1>1. PICK k : k = Finalized(j)
    OBVIOUS
<1>2. j \in Journal /\ Planned(j) \in SUBSET Decisions
    BY JournalFacts DEF JournalOK
<1>3. PICK f : f = Planned(j)
    OBVIOUS
<1>4. k = [j EXCEPT !.state = "finalized", !.finalized = f]
    BY <1>1, <1>3, Zenon DEF Finalized
<1>5. "finalized" \in {"staged", "finalized", "document_saved", "cleanup_required"} /\ f \in SUBSET Decisions
    BY <1>2, <1>3
<1>6. /\ k \in Journal /\ k.state = "finalized" /\ k.before = j.before /\ k.inflight = j.inflight
      /\ k.created = j.created /\ k.updated = j.updated /\ k.finalized = f
    BY <1>2, <1>4, <1>5, Zenon DEF Journal
<1>7. Planned(k) = Planned(j) /\ Unpublished(k) = Unpublished(j)
    BY <1>6 DEF Planned, Unpublished
<1>8. JournalOK(k)
    BY <1>3, <1>6, <1>7 DEF JournalOK
<1> QED
    BY <1>1, <1>3, <1>6, <1>8

-----------------------------------------------------------------------------
(* Calls and what they rely on.                                            *)

\* A call that is idle has its type.
LEMMA IdleOK == CallOK(Idle) /\ Idle.pc = "idle" /\ Idle.holds = {}
<1>1. 0 \in 0 .. MaxApplies
    BY KnowledgeApplyAssumption
<1>2. /\ Idle.pc = "idle" /\ Idle.holds = {} /\ Idle.j = NoJournal /\ Idle.want = "apply"
    BY DEF Idle
<1>3. Idle \in CallType
    BY <1>1 DEF Idle, CallType, CallPcs, Locks
<1> QED
    BY <1>2, <1>3 DEF CallOK, Working, Publishing

\* A call may end anywhere.
LEMMA ReturnOK ==
    ASSUME NEW t, CallOK(t), t.pc # "idle"
    PROVE  LET u == [t EXCEPT !.pc = "return"]
           IN  CallOK(u) /\ u.pc = "return" /\ u.holds = t.holds
<1>1. PICK u : u = [t EXCEPT !.pc = "return"]
    OBVIOUS
<1>2. t \in CallType /\ "return" \in CallPcs
    BY DEF CallOK, CallPcs
<1>3. /\ u \in CallType /\ u.pc = "return" /\ u.holds = t.holds /\ u.want = t.want
      /\ u.stamp = t.stamp /\ u.j = t.j
    BY <1>1, <1>2, Zenon DEF CallType
<1>4. CallOK(u)
    BY <1>3 DEF CallOK, Working, Publishing
<1> QED
    BY <1>1, <1>3, <1>4

\* Unless a lock was taken over, only one call works on the document.
LEMMA WorksAlone ==
    ASSUME ApplyInv, ~doubled, NEW c \in Calls, call[c].pc \in Working, NEW d \in Calls, d # c
    PROVE  call[d].pc \notin Working
<1>1. CallOK(call[c]) /\ CallOK(call[d]) /\ Held
    BY DEF ApplyInv
<1>2. SUFFICES ASSUME call[d].pc \in Working PROVE FALSE
    OBVIOUS
<1>3. "apply" \in call[c].holds /\ "apply" \in call[d].holds
    BY <1>1, <1>2 DEF CallOK, Locks
<1> QED
    BY <1>1, <1>3 DEF Held

\* What is left to show of a step of a call that works on the document.
LEMMA StepWork ==
    ASSUME ApplyInv, NEW c \in Calls, call[c].pc \in Working, NEW u, CallOK(u), u.holds = call[c].holds,
           call' = [call EXCEPT ![c] = u],
           UNCHANGED <<op, locks, touched, raced, doubled>>, UNCHANGED counts \/ Failure,
           doc' \in Document, files' \in [Decisions -> Contents], journal' = NoJournal \/ JournalOK(journal'),
           abandoned' \in SUBSET Decisions, ~doubled => DiskOK' /\ Relies(u)'
    PROVE  ApplyInv'
<1>1. Typed /\ call \in [Calls -> CallType] /\ \A d \in Calls : CallOK(call[d])
    BY DEF ApplyInv
<1>2. counts' \in [applies : Nat, crashes : Nat, failures : Nat, edits : Nat]
    <2>1. CASE UNCHANGED counts
        BY <1>1, <2>1 DEF Typed
    <2>2. CASE Failure
        BY <1>1, <2>2 DEF Typed, Failure
    <2> QED
        BY <2>1, <2>2
<1>3. journal' \in Journal \cup {NoJournal}
    BY DEF JournalOK
<1>4. Typed'
    BY <1>1, <1>2, <1>3 DEF Typed
<1>5. /\ call' \in [Calls -> CallType] /\ call'[c] = u /\ \A d \in Calls \ {c} : call'[d] = call[d]
      /\ \A d \in Calls : CallOK(call'[d])
    <2>1. u \in CallType
        BY DEF CallOK
    <2> QED
        BY <1>1, <2>1
<1>6. ASSUME ~doubled PROVE Held' /\ DiskOK' /\ \A d \in Calls : Relies(call[d])'
    <2>1. Held'
        BY <1>5, <1>6 DEF ApplyInv, Held
    <2>2. ASSUME NEW d \in Calls PROVE Relies(call[d])'
        <3>1. CASE d = c
            BY <1>5, <1>6, <3>1 DEF Relies
        <3>2. CASE d # c
            <4>1. call'[d].pc \notin Working
                BY <1>5, <1>6, <3>2, WorksAlone
            <4> QED
                BY <4>1 DEF Relies, Working, Publishing
        <3> QED
            BY <3>1, <3>2
    <2> QED
        BY <1>6, <2>1, <2>2
<1> QED
    BY <1>4, <1>5, <1>6 DEF ApplyInv

\* A call that works on the document ends.
LEMMA StepReturn ==
    ASSUME ApplyInv, NEW c \in Calls, call[c].pc \in Working, Go(c, "return"),
           UNCHANGED <<op, locks, touched, raced, doubled>>, UNCHANGED counts \/ Failure,
           doc' \in Document, files' \in [Decisions -> Contents], journal' = NoJournal \/ JournalOK(journal'),
           abandoned' \in SUBSET Decisions, ~doubled => DiskOK'
    PROVE  ApplyInv'
<1>1. PICK t : t = call[c]
    OBVIOUS
<1>2. PICK u : u = [t EXCEPT !.pc = "return"]
    OBVIOUS
<1>3. CallOK(t) /\ t.pc # "idle"
    BY <1>1 DEF ApplyInv, Working, Publishing
<1>4. CallOK(u) /\ u.pc = "return" /\ u.holds = t.holds
    BY <1>2, <1>3, ReturnOK
<1>5. Relies(u)'
    BY <1>4 DEF Relies, Publishing
<1>6. call' = [call EXCEPT ![c] = u]
    BY <1>1, <1>2 DEF Go
<1> QED
    BY <1>1, <1>4, <1>5, <1>6, StepWork

\* Nothing that the disk invariant speaks of changes.
LEMMA SameDisk ==
    ASSUME UNCHANGED <<doc, files, journal, touched, abandoned>>
    PROVE  DiskOK => DiskOK'
BY DEF DiskOK, Open, Settled, ByApply

\* What is left to show of a step about the locks.
LEMMA StepLock ==
    ASSUME ApplyInv, NEW c \in Calls, NEW u, CallOK(u), u.pc \notin Working \ {"read"},
           call' = [call EXCEPT ![c] = u], UNCHANGED <<op, disk, touched, raced, abandoned>>,
           counts' \in [applies : Nat, crashes : Nat, failures : Nat, edits : Nat],
           locks' \in [Locks -> Calls \cup {"free", "left", "stale"}],
           doubled' \in BOOLEAN, doubled => doubled', ~doubled' => Held'
    PROVE  ApplyInv'
<1>1. Typed /\ call \in [Calls -> CallType] /\ \A d \in Calls : CallOK(call[d])
    BY DEF ApplyInv
<1>2. UNCHANGED <<op, doc, files, journal, touched, raced, abandoned>>
    BY DEF disk
<1>3. Typed'
    BY <1>1, <1>2 DEF Typed
<1>4. /\ call' \in [Calls -> CallType] /\ call'[c] = u /\ \A d \in Calls \ {c} : call'[d] = call[d]
      /\ \A d \in Calls : CallOK(call'[d])
    <2>1. u \in CallType
        BY DEF CallOK
    <2> QED
        BY <1>1, <2>1
<1>5. ASSUME ~doubled' PROVE Held' /\ DiskOK' /\ \A d \in Calls : Relies(call[d])'
    <2>1. DiskOK'
        BY <1>2, <1>5, SameDisk DEF ApplyInv
    <2>2. ASSUME NEW d \in Calls PROVE Relies(call[d])'
        <3>1. CASE d = c
            BY <1>4, <3>1 DEF Relies, Working, Publishing
        <3>2. CASE d # c
            <4>1. PICK t : t = call[d]
                OBVIOUS
            <4>2. Relies(t) /\ call'[d] = t
                BY <1>4, <1>5, <3>2, <4>1 DEF ApplyInv
            <4>3. ByApply' = ByApply /\ (Settled' <=> Settled)
                BY <1>2, Zenon DEF ByApply, Settled
            <4>4. Relies(t)'
                BY <1>2, <4>2, <4>3 DEF Relies
            <4> QED
                BY <4>2, <4>4 DEF Relies
        <3> QED
            BY <3>1, <3>2
    <2> QED
        BY <1>5, <2>1, <2>2
<1> QED
    BY <1>3, <1>4, <1>5 DEF ApplyInv

-----------------------------------------------------------------------------
(* The locks.                                                              *)

\* A call among the locks, moved elsewhere among them.
LEMMA MoveOK ==
    ASSUME NEW t, CallOK(t), t.pc # "idle", NEW pc \in {"create", "stat", "takeover", "recreate", "return"}
    PROVE  LET u == [t EXCEPT !.pc = pc]
           IN  CallOK(u) /\ u.pc = pc /\ u.holds = t.holds
<1>1. PICK u : u = [t EXCEPT !.pc = pc]
    OBVIOUS
<1>2. t \in CallType /\ pc \in CallPcs
    BY DEF CallOK, CallPcs
<1>3. /\ u \in CallType /\ u.pc = pc /\ u.holds = t.holds /\ u.want = t.want
      /\ u.stamp = t.stamp /\ u.j = t.j
    BY <1>1, <1>2, Zenon DEF CallType
<1>4. CallOK(u)
    BY <1>3 DEF CallOK, Working, Publishing
<1> QED
    BY <1>1, <1>3, <1>4

\* A lock is seen to exist, or to be stale; a stale one, whoever it is of by now,
\* is renamed away.
LEMMA LookInv ==
    ASSUME ApplyInv, NEW c \in Calls, LockExists(c) \/ LockIsStale(c) \/ ReplaceStaleLock(c)
    PROVE  ApplyInv'
<1>1. PICK t : t = call[c]
    OBVIOUS
<1>2. CallOK(t) /\ Typed
    BY <1>1 DEF ApplyInv
<1>3. t.pc \in {"create", "recreate", "stat", "takeover"} /\ t.want \in Locks
    BY <1>1, <1>2 DEF LockExists, LockIsStale, ReplaceStaleLock, At, CallOK, CallType
<1>4. PICK pc \in {"create", "stat", "takeover", "recreate", "return"} : Go(c, pc)
    BY DEF LockExists, LockIsStale, ReplaceStaleLock
<1>5. PICK u : u = [t EXCEPT !.pc = pc]
    OBVIOUS
<1>6. CallOK(u) /\ u.pc = pc /\ u.holds = t.holds
    BY <1>2, <1>3, <1>5, MoveOK
<1>7. call' = [call EXCEPT ![c] = u] /\ u.pc \notin Working
    BY <1>1, <1>4, <1>5, <1>6 DEF Go, Working, Publishing
<1>8. UNCHANGED <<op, disk, counts, touched, raced, abandoned>>
    BY DEF LockExists, LockIsStale, ReplaceStaleLock, history
<1>9. \A d \in Calls : call'[d].holds = call[d].holds
    BY <1>1, <1>6, <1>7 DEF ApplyInv
<1>10. CASE LockExists(c) \/ LockIsStale(c)
    <2>1. UNCHANGED <<locks, doubled>>
        BY <1>10 DEF LockExists, LockIsStale, history
    <2>2. ~doubled' => Held'
        BY <1>9, <2>1 DEF ApplyInv, Held
    <2> QED
        BY <1>2, <1>6, <1>7, <1>8, <2>1, <2>2, StepLock DEF Typed
<1>11. CASE ReplaceStaleLock(c)
    <2>1. locks' = [locks EXCEPT ![t.want] = "free"] /\ doubled' = (doubled \/ locks[t.want] \in Calls)
        BY <1>1, <1>11 DEF ReplaceStaleLock
    <2>2. ASSUME ~doubled' PROVE Held'
        <3>1. ~doubled /\ locks[t.want] \notin Calls
            BY <2>1, <2>2
        <3>2. ASSUME NEW d \in Calls, NEW l \in call[d].holds PROVE locks'[l] = d
            <4>1. locks[l] = d
                BY <3>1 DEF ApplyInv, Held
            <4>2. l # t.want
                BY <3>1, <4>1
            <4>3. l \in Locks
                BY DEF ApplyInv, CallType
            <4> QED
                BY <1>2, <2>1, <4>1, <4>2, <4>3 DEF Typed
        <3> QED
            BY <1>9, <3>2 DEF Held
    <2>3. locks' \in [Locks -> Calls \cup {"free", "left", "stale"}]
        BY <1>2, <2>1 DEF Typed
    <2>4. doubled' \in BOOLEAN /\ (doubled => doubled')
        BY <2>1, Zenon
    <2>5. counts' \in [applies : Nat, crashes : Nat, failures : Nat, edits : Nat]
        BY <1>2, <1>8 DEF Typed
    <2> QED
        BY <1>6, <1>7, <1>8, <2>2, <2>3, <2>4, <2>5, StepLock
<1> QED
    BY <1>10, <1>11

\* A call takes a lock that is free.
LEMMA CreateInv ==
    ASSUME ApplyInv, NEW c \in Calls, CreateLock(c)
    PROVE  ApplyInv'
<1>1. PICK t : t = call[c]
    OBVIOUS
<1>2. CallOK(t) /\ t \in CallType /\ Typed
    BY <1>1 DEF ApplyInv
<1>3. PICK l : l = t.want
    OBVIOUS
<1>4. /\ t.pc \in {"create", "recreate"} /\ locks[l] = "free" /\ locks' = [locks EXCEPT ![l] = c]
      /\ call' = [call EXCEPT ![c].holds = @ \cup {l}, ![c].want = "document",
                              ![c].pc = IF l = "apply" THEN "create" ELSE "read"]
      /\ UNCHANGED <<op, disk, counts, history>>
    BY <1>1, <1>3 DEF CreateLock
<1>5. l \in Locks /\ t.holds \subseteq Locks
    BY <1>2, <1>3 DEF CallType
<1>6. PICK pc : pc = IF l = "apply" THEN "create" ELSE "read"
    OBVIOUS
<1>7. PICK h : h = t.holds \cup {l}
    OBVIOUS
<1>8. PICK u : u = [t EXCEPT !.holds = h, !.want = "document", !.pc = pc]
    OBVIOUS
<1>9. call' = [call EXCEPT ![c] = u]
    BY <1>1, <1>4, <1>6, <1>7, <1>8, Zenon
<1>10. /\ u \in CallType /\ u.pc = pc /\ u.holds = h /\ u.want = "document" /\ u.stamp = t.stamp /\ u.j = t.j
    <2>1. pc \in CallPcs /\ h \in SUBSET Locks /\ "document" \in Locks
        BY <1>5, <1>6, <1>7 DEF CallPcs, Working, Locks
    <2> QED
        BY <1>2, <1>8, <2>1, Zenon DEF CallType
<1>11. "apply" \in h /\ (pc = "read" => h = Locks)
    BY <1>2, <1>3, <1>5, <1>6, <1>7 DEF CallOK, Locks
<1>12. CallOK(u)
    BY <1>2, <1>4, <1>6, <1>10, <1>11 DEF CallOK, Working, Publishing
<1>13. u.pc \notin Working \ {"read"}
    BY <1>6, <1>10 DEF Working, Publishing
<1>14. locks' \in [Locks -> Calls \cup {"free", "left", "stale"}]
    BY <1>2, <1>4 DEF Typed
<1>15. ASSUME ~doubled' PROVE Held'
    <2>1. ~doubled
        BY <1>4, <1>15 DEF history
    <2>2. ASSUME NEW d \in Calls, NEW k \in call'[d].holds PROVE locks'[k] = d
        <3>1. k \in Locks
            <4>1. call'[d] = IF d = c THEN u ELSE call[d]
                BY <1>9 DEF ApplyInv
            <4> QED
                BY <1>10, <4>1 DEF ApplyInv, CallType
        <3>2. CASE k = l
            <4>1. d = c
                <5>1. SUFFICES ASSUME d # c PROVE FALSE
                    OBVIOUS
                <5>2. k \in call[d].holds
                    BY <1>9, <5>1 DEF ApplyInv
                <5>3. locks[l] = d
                    BY <2>1, <3>2, <5>2 DEF ApplyInv, Held
                <5> QED
                    BY <1>4, <5>3, KnowledgeApplyAssumption
            <4> QED
                BY <1>2, <1>4, <1>5, <3>2, <4>1 DEF Typed
        <3>3. CASE k # l
            <4>1. k \in call[d].holds
                BY <1>1, <1>7, <1>9, <1>10, <3>3 DEF ApplyInv
            <4> QED
                BY <1>2, <1>4, <2>1, <3>1, <3>3, <4>1 DEF ApplyInv, Held, Typed
        <3> QED
            BY <3>2, <3>3
    <2> QED
        BY <2>2 DEF Held
<1>16. UNCHANGED <<op, disk, touched, raced, abandoned, doubled, counts>>
    BY <1>4 DEF history
<1>17. /\ counts' \in [applies : Nat, crashes : Nat, failures : Nat, edits : Nat]
       /\ doubled' \in BOOLEAN /\ (doubled => doubled')
    BY <1>2, <1>16 DEF Typed
<1> QED
    BY <1>9, <1>12, <1>13, <1>14, <1>15, <1>16, <1>17, StepLock

\* A command is issued, and ends: its locks are free again.
LEMMA StartInv ==
    ASSUME ApplyInv, NEW c \in Calls, NEW recover \in BOOLEAN, Start(c, recover)
    PROVE  ApplyInv'
<1>1. /\ call[c].pc = "idle" /\ counts.applies < MaxApplies
      /\ counts' = [counts EXCEPT !.applies = @ + 1]
      /\ call' = [call EXCEPT ![c] = [Idle EXCEPT !.pc = "create", !.stamp = counts.applies + 1,
                                                  !.expected = doc, !.recover = recover]]
      /\ UNCHANGED <<op, disk, locks, history>>
    BY DEF Start, At
<1>2. Typed /\ counts \in [applies : Nat, crashes : Nat, failures : Nat, edits : Nat]
    BY DEF ApplyInv, Typed
<1>3. PICK n : n = counts.applies + 1
    OBVIOUS
<1>4. n \in 0 .. MaxApplies /\ n # 0
    BY <1>1, <1>2, <1>3, KnowledgeApplyAssumption
<1>5. PICK b : b = doc
    OBVIOUS
<1>6. PICK u : u = [Idle EXCEPT !.pc = "create", !.stamp = n, !.expected = b, !.recover = recover]
    OBVIOUS
<1>7. call' = [call EXCEPT ![c] = u]
    BY <1>1, <1>3, <1>5, <1>6, Zenon
<1>8. /\ Idle \in CallType /\ b \in Document \cup {NoDoc} /\ "create" \in CallPcs
      /\ Idle.holds = {} /\ Idle.want = "apply" /\ Idle.j = NoJournal
    BY <1>2, <1>5, IdleOK DEF CallOK, CallPcs, Idle, Typed
<1>9. /\ u \in CallType /\ u.pc = "create" /\ u.holds = {} /\ u.want = "apply" /\ u.stamp = n /\ u.j = NoJournal
    BY <1>4, <1>6, <1>8, Zenon DEF CallType
<1>10. CallOK(u) /\ u.pc \notin Working
    BY <1>4, <1>9 DEF CallOK, Working, Publishing
<1>11. counts' \in [applies : Nat, crashes : Nat, failures : Nat, edits : Nat]
    BY <1>1, <1>2
<1>12. UNCHANGED <<locks, touched, raced, abandoned, doubled>>
    BY <1>1 DEF history
<1>13. ~doubled' => Held'
    BY <1>7, <1>9, <1>12 DEF ApplyInv, Held
<1>14. locks' \in [Locks -> Calls \cup {"free", "left", "stale"}] /\ doubled' \in BOOLEAN /\ (doubled => doubled')
    BY <1>2, <1>12 DEF Typed
<1> QED
    BY <1>1, <1>7, <1>10, <1>11, <1>12, <1>13, <1>14, StepLock

\* See StartInv.
LEMMA ReturnInv ==
    ASSUME ApplyInv, NEW c \in Calls, Return(c)
    PROVE  ApplyInv'
<1>1. /\ locks' = [l \in Locks |-> IF l \in call[c].holds THEN "free" ELSE locks[l]]
      /\ call' = [call EXCEPT ![c] = Idle]
      /\ UNCHANGED <<op, disk, counts, history>>
    BY DEF Return
<1>2. Typed /\ CallOK(Idle) /\ Idle.pc = "idle" /\ Idle.holds = {}
    BY IdleOK DEF ApplyInv
<1>3. UNCHANGED <<touched, raced, abandoned, doubled>>
    BY <1>1 DEF history
<1>4. ASSUME ~doubled' PROVE Held'
    <2>1. ASSUME NEW d \in Calls, NEW l \in call'[d].holds PROVE locks'[l] = d
        <3>1. d # c /\ l \in call[d].holds
            BY <1>1, <1>2 DEF ApplyInv
        <3>2. locks[l] = d /\ l \in Locks
            BY <1>3, <1>4, <3>1 DEF ApplyInv, Held, CallType
        <3>3. l \notin call[c].holds
            BY <1>3, <1>4, <3>1, <3>2 DEF ApplyInv, Held
        <3> QED
            BY <1>1, <3>2, <3>3
    <2> QED
        BY <2>1 DEF Held
<1>5. locks' \in [Locks -> Calls \cup {"free", "left", "stale"}] /\ doubled' \in BOOLEAN /\ (doubled => doubled')
    BY <1>1, <1>2, <1>3 DEF Typed
<1>6. counts' \in [applies : Nat, crashes : Nat, failures : Nat, edits : Nat] /\ Idle.pc \notin Working
    BY <1>1, <1>2 DEF Typed, Working, Publishing
<1> QED
    BY <1>1, <1>2, <1>3, <1>4, <1>5, <1>6, StepLock

\* A failed operation ends the call.
LEMMA GiveUpInv ==
    ASSUME ApplyInv, NEW c \in Calls, GiveUp(c)
    PROVE  ApplyInv'
<1>1. /\ Failure /\ Go(c, "return") /\ UNCHANGED <<op, disk, locks, history>>
    BY DEF GiveUp
<1>2. PICK t : t = call[c]
    OBVIOUS
<1>3. CallOK(t) /\ Typed
    BY <1>2 DEF ApplyInv
<1>4. t.pc # "idle"
    BY <1>2 DEF GiveUp, At
<1>5. UNCHANGED <<op, doc, files, journal, locks, touched, raced, abandoned, doubled>>
    BY <1>1 DEF disk, history
<1>6. CASE t.pc \in Working
    <2>1. ~doubled => DiskOK'
        BY <1>5, SameDisk DEF ApplyInv
    <2>2. /\ doc' \in Document /\ files' \in [Decisions -> Contents] /\ (journal' = NoJournal \/ JournalOK(journal'))
          /\ abandoned' \in SUBSET Decisions
        BY <1>3, <1>5 DEF Typed
    <2> QED
        BY <1>1, <1>2, <1>5, <1>6, <2>1, <2>2, StepReturn
<1>7. CASE t.pc \notin Working
    <2>1. PICK u : u = [t EXCEPT !.pc = "return"]
        OBVIOUS
    <2>2. CallOK(u) /\ u.pc = "return" /\ u.holds = t.holds
        BY <1>3, <1>4, <2>1, ReturnOK
    <2>3. call' = [call EXCEPT ![c] = u] /\ u.pc \notin Working
        BY <1>1, <1>2, <2>1, <2>2 DEF Go, Working, Publishing
    <2>4. counts' \in [applies : Nat, crashes : Nat, failures : Nat, edits : Nat]
        BY <1>1, <1>3 DEF Failure, Typed
    <2>5. \A d \in Calls : call'[d].holds = call[d].holds
        BY <1>2, <2>2, <2>3 DEF ApplyInv
    <2>6. ~doubled' => Held'
        BY <1>5, <2>5 DEF ApplyInv, Held
    <2>7. locks' \in [Locks -> Calls \cup {"free", "left", "stale"}] /\ doubled' \in BOOLEAN /\ (doubled => doubled')
        BY <1>3, <1>5 DEF Typed
    <2> QED
        BY <1>1, <1>5, <2>2, <2>3, <2>4, <2>6, <2>7, StepLock
<1> QED
    BY <1>6, <1>7

-----------------------------------------------------------------------------
(* An existing journal.                                                    *)

\* What is known of a call at work.
LEMMA WorkFacts ==
    ASSUME ApplyInv, NEW c \in Calls, call[c].pc \in Working
    PROVE  /\ CallOK(call[c]) /\ call[c] \in CallType /\ op \in [Decisions -> {"create", "update"}]
           /\ doc \in Document /\ files \in [Decisions -> Contents] /\ abandoned \in SUBSET Decisions
           /\ journal = NoJournal \/ JournalOK(journal)
           /\ ~doubled => DiskOK /\ Relies(call[c])
BY DEF ApplyInv, Typed

\* A document that is open, or has a staged journal, is not resolved.
LEMMA StagedIsOpen ==
    ASSUME DiskOK, journal.state = "staged" \/ doc.status \in {"pending", "apply_failed"}
    PROVE  Open /\ journal.state # "document_saved"
<1>1. StatusFor(doc.sel) \in {"applied", "partially_applied", "needs_revision"}
    BY DEF StatusFor
<1> QED
    BY <1>1 DEF DiskOK, Settled

\* The disk stays as it is but for a journal that covers as much.
LEMMA OpenStays ==
    ASSUME Open, UNCHANGED <<doc, files, abandoned>>, Covered(journal) \subseteq Covered(journal'),
           journal'.state # "document_saved"
    PROVE  DiskOK'
BY DEF DiskOK, Open, ByApply

\* The journal asks for cleanup, or could not be written.
LEMMA CleanupFacts ==
    ASSUME journal = NoJournal \/ JournalOK(journal), NEW j, JournalOK(j), NeedsCleanup(j)
    PROVE  /\ UNCHANGED counts \/ Failure
           /\ journal' = NoJournal \/ JournalOK(journal')
           /\ UNCHANGED journal \/ (journal'.state = "cleanup_required" /\ Covered(journal') = Covered(j))
<1>1. PICK k : k = [j EXCEPT !.state = "cleanup_required"]
    OBVIOUS
<1>2. JournalOK(k) /\ k.state = "cleanup_required" /\ Covered(k) = Covered(j)
    BY <1>1, MarkedJournal
<1>3. (journal' = k /\ UNCHANGED counts) \/ (UNCHANGED journal /\ Failure)
    BY <1>1 DEF NeedsCleanup, Works
<1> QED
    BY <1>2, <1>3

\* A call that has read the document.
HasRead(t, pc, b) == [t EXCEPT !.pc = pc, !.before = b]

\* It checks the document, or ends.
LEMMA ReadOK ==
    ASSUME NEW t, CallOK(t), t.pc = "read", NEW b \in Document, NEW pc \in {"check", "return"}
    PROVE  LET u == HasRead(t, pc, b)
           IN  CallOK(u) /\ u.pc = pc /\ u.holds = t.holds /\ u.before = b
<1>1. PICK u : u = HasRead(t, pc, b)
    OBVIOUS
<1>2. t \in CallType /\ pc \in CallPcs /\ b \in Document \cup {NoDoc}
    BY DEF CallOK, CallPcs, Working
<1>3. /\ u \in CallType /\ u.pc = pc /\ u.holds = t.holds /\ u.want = t.want
      /\ u.stamp = t.stamp /\ u.j = t.j /\ u.before = b
    BY <1>1, <1>2, Zenon DEF CallType, HasRead
<1>4. CallOK(u)
    BY <1>3 DEF CallOK, Working, Publishing
<1> QED
    BY <1>1, <1>3, <1>4

\* What is left to show of a step that reads the document and journal and goes on
\* to check the document, or ends.
LEMMA StepRead ==
    ASSUME ApplyInv, NEW c \in Calls, call[c].pc = "read", NEW pc \in {"check", "return"}, Reading(c, pc),
           UNCHANGED <<op, doc, files, locks, touched, raced, doubled>>, UNCHANGED counts \/ Failure,
           journal' = NoJournal \/ JournalOK(journal'), pc = "check" => journal' = NoJournal,
           abandoned' \in SUBSET Decisions, ~doubled => DiskOK'
    PROVE  ApplyInv'
<1>1. call[c].pc \in Working
    BY DEF Working
<1>2. CallOK(call[c]) /\ doc \in Document /\ files \in [Decisions -> Contents]
    BY <1>1, WorkFacts
<1>3. PICK t : t = call[c]
    OBVIOUS
<1>4. PICK b : b = doc
    OBVIOUS
<1>5. PICK u : u = HasRead(t, pc, b)
    OBVIOUS
<1>6. CallOK(u) /\ u.pc = pc /\ u.holds = t.holds /\ u.before = b
    <2>1. CallOK(t) /\ t.pc = "read" /\ b \in Document
        BY <1>2, <1>3, <1>4
    <2> QED
        BY <1>5, <2>1, ReadOK
<1>7. call' = [call EXCEPT ![c] = u]
    BY <1>3, <1>4, <1>5, Zenon DEF Reading, HasRead
<1>8. Relies(u)'
    BY <1>4, <1>6 DEF Relies, Publishing
<1> QED
    BY <1>1, <1>2, <1>3, <1>6, <1>7, <1>8, StepWork

\* No journal, one with nothing to undo, one of a document that was saved, one
\* that another call left: the document is checked.  Otherwise the call ends.
LEMMA ReadInv ==
    ASSUME ApplyInv, NEW c \in Calls,
           ReadNoJournal(c) \/ DropJournal(c) \/ RecoverUnclear(c) \/ CleanupOrphan(c) \/ RefuseRecovery(c)
    PROVE  ApplyInv'
<1>1. call[c].pc = "read" /\ call[c].pc \in Working
    BY DEF ReadNoJournal, DropJournal, RecoverUnclear, CleanupOrphan, RefuseRecovery, Read, At, Working
<1>2. /\ doc \in Document /\ files \in [Decisions -> Contents] /\ abandoned \in SUBSET Decisions
      /\ journal = NoJournal \/ JournalOK(journal)
      /\ ~doubled => DiskOK
    BY <1>1, WorkFacts
<1>3. NoJournal.state = "none" /\ Covered(NoJournal) = {} /\ (journal.state # "none" => JournalOK(journal))
    BY <1>2 DEF NoJournal, Covered
<1>4. UNCHANGED <<op, doc, files, locks, touched, raced, doubled>>
    BY DEF ReadNoJournal, DropJournal, RecoverUnclear, CleanupOrphan, RefuseRecovery, disk, history
<1>5. CASE ReadNoJournal(c)
    <2>1. journal.state = "none" /\ Reading(c, "check") /\ UNCHANGED <<journal, abandoned, counts>>
        BY <1>5 DEF ReadNoJournal, Read, disk, history
    <2>2. journal' = NoJournal
        <3>1. journal \in Journal => journal.state # "none"
            BY JournalFacts
        <3> QED
            BY <1>2, <2>1, <3>1 DEF JournalOK
    <2>3. ~doubled => DiskOK'
        BY <1>2, <1>4, <2>1, SameDisk
    <2> QED
        BY <1>1, <1>2, <1>4, <2>1, <2>2, <2>3, StepRead
<1>6. CASE RefuseRecovery(c)
    <2>1. Reading(c, "return") /\ UNCHANGED <<journal, abandoned, counts>>
        BY <1>6 DEF RefuseRecovery, disk, history
    <2>2. ~doubled => DiskOK'
        BY <1>2, <1>4, <2>1, SameDisk
    <2> QED
        BY <1>1, <1>2, <1>4, <2>1, <2>2, StepRead
<1>7. CASE CleanupOrphan(c)
    <2>1. UNCHANGED <<abandoned, counts>> /\ journal.state = "finalized"
        BY <1>7 DEF CleanupOrphan, Read, history
    <2>2. CASE OrphanMatches(journal) /\ journal' = NoJournal /\ Reading(c, "check")
        <3>1. ASSUME ~doubled PROVE DiskOK'
            <4>1. doc.status \notin {"pending", "apply_failed"}
                BY <2>2 DEF OrphanMatches
            <4>2. Settled
                BY <1>2, <3>1, <4>1 DEF DiskOK, Open
            <4>3. Settled'
                BY <1>4, <2>1, <4>2 DEF Settled, ByApply
            <4> QED
                BY <1>3, <2>2, <4>3 DEF DiskOK
        <3> QED
            BY <1>1, <1>2, <1>4, <2>1, <2>2, <3>1, StepRead
    <2>3. CASE UNCHANGED journal /\ Reading(c, "return")
        <3>1. ~doubled => DiskOK'
            BY <1>2, <1>4, <2>1, <2>3, SameDisk
        <3> QED
            BY <1>1, <1>2, <1>4, <2>1, <2>3, <3>1, StepRead
    <2> QED
        BY <1>7, <2>2, <2>3 DEF CleanupOrphan
<1>8. CASE RecoverUnclear(c)
    <2>1. /\ journal.state = "staged" /\ NeedsCleanup(journal) /\ Reading(c, "return") /\ UNCHANGED abandoned
        BY <1>8 DEF RecoverUnclear, Read, history
    <2>2. PICK j : j = journal
        OBVIOUS
    <2>3. /\ UNCHANGED counts \/ Failure
          /\ journal' = NoJournal \/ JournalOK(journal')
          /\ UNCHANGED journal \/ (journal'.state = "cleanup_required" /\ Covered(journal') = Covered(j))
        BY <1>2, <1>3, <2>1, <2>2, CleanupFacts
    <2>4. ASSUME ~doubled PROVE DiskOK'
        <3>1. Open /\ journal.state # "document_saved"
            BY <1>2, <2>1, <2>4, StagedIsOpen
        <3>2. Covered(journal) \subseteq Covered(journal') /\ journal'.state # "document_saved"
            BY <2>2, <2>3, <3>1
        <3> QED
            BY <1>4, <2>1, <3>1, <3>2, OpenStays
    <2> QED
        BY <1>1, <1>2, <1>4, <2>1, <2>3, <2>4, StepRead
<1>9. CASE DropJournal(c)
    <2>1. /\ journal' = NoJournal /\ Reading(c, "check") /\ UNCHANGED counts
          /\ \/ journal.state = "staged" /\ journal.created = {} /\ journal.inflight = 0
             \/ journal.state = "document_saved"
          /\ abandoned' = IF journal.state = "staged"
                          THEN abandoned \cup {d \in journal.updated : files[d].by = "apply"} ELSE abandoned
        BY <1>4, <1>9 DEF DropJournal, Read, Forget
    <2>2. JournalOK(journal)
        BY <1>3, <2>1
    <2>3. journal.updated \subseteq Decisions
        BY <2>2, JournalFacts DEF JournalOK
    <2>4. ASSUME ~doubled PROVE DiskOK'
        <3>1. CASE journal.state = "staged"
            <4>1. Open /\ journal.finalized = {} /\ journal.created = {} /\ journal.inflight = 0
                BY <1>2, <2>1, <2>2, <2>4, <3>1, StagedIsOpen DEF JournalOK
            <4>2. Covered(journal) = journal.updated \cup {0} /\ 0 \notin Decisions
                BY <2>2, <4>1, JournalFacts DEF JournalOK
            <4>3. ByApply' = ByApply /\ ByApply \subseteq Decisions /\ \A d \in ByApply : files[d].by = "apply"
                BY <1>4 DEF ByApply
            <4>4. ByApply' \ abandoned' = {}
                BY <2>1, <3>1, <4>1, <4>2, <4>3 DEF Open
            <4>5. doc'.status \in {"pending", "apply_failed"}
                BY <1>4, <4>1 DEF Open
            <4> QED
                BY <1>3, <2>1, <4>4, <4>5 DEF DiskOK, Open
        <3>2. CASE journal.state = "document_saved"
            <4>1. Settled /\ UNCHANGED abandoned
                BY <1>2, <2>1, <2>4, <3>2 DEF DiskOK
            <4>2. Settled'
                BY <1>4, <4>1 DEF Settled, ByApply
            <4> QED
                BY <1>3, <2>1, <4>2 DEF DiskOK
        <3> QED
            BY <2>1, <3>1, <3>2
    <2>5. abandoned' \in SUBSET Decisions
        BY <1>2, <2>1, <2>3
    <2> QED
        BY <1>1, <1>2, <1>4, <2>1, <2>4, <2>5, StepRead
<1> QED
    BY <1>5, <1>6, <1>7, <1>8, <1>9

\* The call goes on to undo what a staged journal lists.
LEMMA RecoverStagedInv ==
    ASSUME ApplyInv, NEW c \in Calls, RecoverStaged(c)
    PROVE  ApplyInv'
<1>1. /\ call[c].pc = "read" /\ journal.state = "staged" /\ ~InflightUnclear(journal)
      /\ UNCHANGED <<op, disk, locks, counts, history>> /\ call[c].pc \in Working
    BY DEF RecoverStaged, Read, At, Working
<1>2. /\ CallOK(call[c]) /\ doc \in Document /\ files \in [Decisions -> Contents] /\ abandoned \in SUBSET Decisions
      /\ journal = NoJournal \/ JournalOK(journal)
      /\ ~doubled => DiskOK
    BY <1>1, WorkFacts
<1>3. PICK t : t = call[c]
    OBVIOUS
<1>4. PICK b : b = doc
    OBVIOUS
<1>5. PICK j : j = journal
    OBVIOUS
<1>6. JournalOK(j) /\ j \in Journal /\ j.state = "staged" /\ j.finalized = {}
    BY <1>1, <1>2, <1>5 DEF NoJournal, JournalOK
<1>7. PICK S : S = Undoable(j)
    OBVIOUS
<1>8. S \in SUBSET Decisions
    <2>1. j.inflight # 0 => j.inflight \in Decisions
        BY <1>6, JournalFacts DEF JournalOK, Unpublished
    <2> QED
        BY <1>6, <1>7, <2>1, JournalFacts DEF Undoable
<1>9. PICK u : u = [t EXCEPT !.pc = "undo", !.before = b, !.j = j, !.todo = S, !.then = "check"]
    OBVIOUS
<1>10. call' = [call EXCEPT ![c] = u]
    <2>1. call' = [call EXCEPT ![c].pc = "undo", ![c].before = doc, ![c].j = journal,
                            ![c].todo = Undoable(journal), ![c].then = "check"]
        BY DEF RecoverStaged
    <2> QED
        BY <1>3, <1>4, <1>5, <1>7, <1>9, <2>1, Zenon
<1>11. /\ u \in CallType /\ u.pc = "undo" /\ u.holds = t.holds /\ u.want = t.want /\ u.stamp = t.stamp
       /\ u.before = b /\ u.j = j /\ u.todo = S /\ u.then = "check"
    <2>1. /\ t \in CallType /\ "undo" \in CallPcs /\ b \in Document \cup {NoDoc} /\ j \in Journal \cup {NoJournal}
          /\ "check" \in {"return", "check", "saved"}
        BY <1>2, <1>3, <1>4, <1>6 DEF CallOK, CallPcs, Working
    <2> QED
        BY <1>8, <1>9, <2>1, Zenon DEF CallType
<1>12. CallOK(u)
    BY <1>1, <1>2, <1>3, <1>4, <1>6, <1>11 DEF CallOK, Working, Publishing
<1>13. UNCHANGED <<op, doc, files, journal, locks, counts, touched, raced, abandoned, doubled>>
    BY <1>1 DEF disk, history
<1>14. ASSUME ~doubled PROVE DiskOK' /\ Relies(u)'
    <2>1. Open
        BY <1>1, <1>2, <1>14, StagedIsOpen
    <2>2. ByApply \ abandoned \subseteq S \cup j.updated
        <3> SUFFICES ASSUME NEW d \in ByApply \ abandoned PROVE d \in S \cup j.updated
            OBVIOUS
        <3>1. d \in j.created \cup j.updated \cup {j.inflight} /\ d # 0 /\ files[d].by = "apply" /\ d \in Decisions
            BY <1>5, <1>6, <2>1, JournalFacts DEF Open, ByApply
        <3>2. CASE d = j.inflight
            <4>1. files[d] # NoFile
                BY <3>1 DEF NoFile
            <4>2. PathState(j, d) \in {"match", "mismatch"}
                BY <4>1 DEF PathState
            <4>3. PathState(j, d) = "match"
                BY <1>1, <1>5, <3>1, <3>2, <4>2 DEF InflightUnclear
            <4> QED
                BY <1>7, <3>1, <3>2, <4>3 DEF Undoable
        <3>3. CASE d # j.inflight
            BY <1>7, <3>1, <3>3 DEF Undoable
        <3> QED
            BY <3>2, <3>3
    <2>3. ByApply' \ abandoned' \subseteq S \cup j.updated /\ journal' = j
        BY <1>5, <1>13, <2>2 DEF ByApply
    <2>4. DiskOK'
        BY <1>2, <1>13, <1>14, SameDisk
    <2>5. Relies(u)'
        BY <1>4, <1>6, <1>11, <1>13, <2>3 DEF Relies, Publishing
    <2> QED
        BY <2>4, <2>5
<1> QED
    BY <1>1, <1>2, <1>3, <1>10, <1>11, <1>12, <1>13, <1>14, StepWork

\* The call goes on to save the document that a finalized journal is for.
LEMMA RecoverFinalizedInv ==
    ASSUME ApplyInv, NEW c \in Calls, RecoverFinalized(c)
    PROVE  ApplyInv'
<1>1. /\ call[c].pc = "read" /\ journal.state = "finalized" /\ doc.status = "pending"
      /\ FinalizedMatches(c, journal)
      /\ UNCHANGED <<op, disk, locks, counts, history>> /\ call[c].pc \in Working
    BY DEF RecoverFinalized, Read, At, Working
<1>2. /\ CallOK(call[c]) /\ doc \in Document /\ files \in [Decisions -> Contents] /\ abandoned \in SUBSET Decisions
      /\ journal = NoJournal \/ JournalOK(journal)
      /\ ~doubled => DiskOK
    BY <1>1, WorkFacts
<1>3. PICK t : t = call[c]
    OBVIOUS
<1>4. PICK b : b = doc
    OBVIOUS
<1>5. PICK j : j = journal
    OBVIOUS
<1>6. JournalOK(j) /\ j \in Journal /\ j.state = "finalized" /\ j.finalized = Planned(j) /\ Unpublished(j) = {}
    BY <1>1, <1>2, <1>5 DEF NoJournal, JournalOK
<1>7. /\ b = t.expected /\ j.before = b /\ \A d \in j.finalized : PathState(j, d) = "match"
      /\ b \in Document /\ b.status = "pending" /\ Planned(j) = Yes(b.sel)
    BY <1>1, <1>2, <1>3, <1>4, <1>5 DEF FinalizedMatches, Planned
<1>8. PICK w : w = Resolved(b, b.sel)
    OBVIOUS
<1>9. w \in Document
    BY <1>7, <1>8, ResolvedFacts
<1>10. PICK u : u = [t EXCEPT !.pc = "save", !.before = b, !.j = j, !.write = w, !.then = "saved"]
    OBVIOUS
<1>11. call' = [call EXCEPT ![c] = u]
    <2>1. call' = [call EXCEPT ![c].pc = "save", ![c].before = doc, ![c].j = journal,
                            ![c].write = Resolved(doc, journal.before.sel), ![c].then = "saved"]
        BY DEF RecoverFinalized
    <2> QED
        BY <1>3, <1>4, <1>5, <1>7, <1>8, <1>10, <2>1, Zenon
<1>12. /\ u \in CallType /\ u.pc = "save" /\ u.holds = t.holds /\ u.want = t.want /\ u.stamp = t.stamp
       /\ u.before = b /\ u.j = j /\ u.write = w /\ u.then = "saved" /\ u.expected = t.expected
    <2>1. /\ t \in CallType /\ "save" \in CallPcs /\ b \in Document \cup {NoDoc} /\ j \in Journal \cup {NoJournal}
          /\ "saved" \in {"return", "check", "saved"} /\ w \in Document \cup {NoDoc}
        BY <1>2, <1>3, <1>6, <1>7, <1>9 DEF CallOK, CallPcs, Working
    <2> QED
        BY <1>10, <2>1, Zenon DEF CallType
<1>13. CallOK(u)
    BY <1>1, <1>2, <1>3, <1>6, <1>7, <1>8, <1>12 DEF CallOK, Working, Publishing
<1>14. UNCHANGED <<op, doc, files, journal, locks, counts, touched, raced, abandoned, doubled>>
    BY <1>1 DEF disk, history
<1>15. ASSUME ~doubled PROVE DiskOK' /\ Relies(u)'
    <2>1. Open
        BY <1>1, <1>2, <1>15, StagedIsOpen
    <2>2. Yes(b.sel) \subseteq ByApply
        <3> SUFFICES ASSUME NEW d \in Yes(b.sel) PROVE d \in ByApply
            OBVIOUS
        <3>1. PathState(j, d) = "match" /\ d \in Decisions
            BY <1>6, <1>7 DEF Yes
        <3>2. files[d] = Written(j.stamp)
            BY <3>1 DEF PathState
        <3> QED
            BY <3>1, <3>2 DEF ByApply, Written
    <2>3. ByApply \subseteq Yes(b.sel) \cup abandoned
        <3>1. Covered(j) \subseteq Planned(j) \cup {0} /\ ByApply \subseteq Decisions /\ 0 \notin Decisions
            BY <1>6, JournalFacts DEF JournalOK, ByApply
        <3> QED
            BY <1>5, <1>7, <2>1, <3>1 DEF Open
    <2>4. DiskOK'
        BY <1>2, <1>14, <1>15, SameDisk
    <2>5. Yes(b.sel) \ touched' \subseteq ByApply' /\ ByApply' \subseteq Yes(b.sel) \cup abandoned'
        BY <1>14, <2>2, <2>3 DEF ByApply
    <2>6. doc'.status = "pending" /\ journal'.state = "finalized"
        BY <1>1, <1>14
    <2>7. Relies(u)'
        BY <1>12, <2>5, <2>6 DEF Relies, Publishing
    <2> QED
        BY <2>4, <2>7
<1> QED
    BY <1>1, <1>2, <1>3, <1>11, <1>12, <1>13, <1>14, <1>15, StepWork

\* A finalized journal that does not fit: cleanup, and the document is marked.
LEMMA MismatchInv ==
    ASSUME ApplyInv, NEW c \in Calls, FinalizedMismatch(c)
    PROVE  ApplyInv'
<1>1. /\ call[c].pc = "read" /\ journal.state = "finalized" /\ doc.status = "pending" /\ NeedsCleanup(journal)
      /\ UNCHANGED <<op, doc, files, locks, history>> /\ call[c].pc \in Working
    BY DEF FinalizedMismatch, Read, At, Working
<1>2. /\ CallOK(call[c]) /\ doc \in Document /\ files \in [Decisions -> Contents] /\ abandoned \in SUBSET Decisions
      /\ journal = NoJournal \/ JournalOK(journal)
      /\ ~doubled => DiskOK
    BY <1>1, WorkFacts
<1>3. PICK t : t = call[c]
    OBVIOUS
<1>4. PICK b : b = doc
    OBVIOUS
<1>5. PICK pc : pc = IF b = t.expected THEN "save" ELSE "return"
    OBVIOUS
<1>6. PICK w : w = Failed(b)
    OBVIOUS
<1>7. b \in Document /\ b.status = "pending" /\ w \in Document /\ w.status = "apply_failed"
    BY <1>1, <1>2, <1>4, <1>6, FailedFacts
<1>8. PICK u : u = [t EXCEPT !.before = b, !.write = w, !.then = "return", !.pc = pc]
    OBVIOUS
<1>9. call' = [call EXCEPT ![c] = u]
    <2>1. call' = [call EXCEPT ![c].before = doc, ![c].write = Failed(doc), ![c].then = "return",
                            ![c].pc = IF doc = call[c].expected THEN "save" ELSE "return"]
        BY DEF FinalizedMismatch
    <2>2. pc = IF doc = call[c].expected THEN "save" ELSE "return"
        BY <1>3, <1>4, <1>5
    <2> QED
        BY <1>3, <1>4, <1>6, <1>8, <2>1, <2>2, Zenon
<1>10. /\ u \in CallType /\ u.pc = pc /\ u.holds = t.holds /\ u.want = t.want /\ u.stamp = t.stamp
       /\ u.before = b /\ u.j = t.j /\ u.write = w /\ u.then = "return" /\ u.expected = t.expected
    <2>1. /\ t \in CallType /\ pc \in CallPcs /\ b \in Document \cup {NoDoc}
          /\ "return" \in {"return", "check", "saved"} /\ w \in Document \cup {NoDoc}
        BY <1>2, <1>3, <1>5, <1>7 DEF CallOK, CallPcs, Working
    <2> QED
        BY <1>8, <2>1, Zenon DEF CallType
<1>11. CallOK(u)
    BY <1>1, <1>2, <1>3, <1>5, <1>6, <1>7, <1>10 DEF CallOK, Working, Publishing
<1>12. UNCHANGED <<op, doc, files, locks, touched, raced, abandoned, doubled>>
    BY <1>1 DEF history
<1>13. PICK j : j = journal
    OBVIOUS
<1>14. JournalOK(j)
    BY <1>1, <1>2, <1>13 DEF NoJournal
<1>15. /\ UNCHANGED counts \/ Failure
       /\ journal' = NoJournal \/ JournalOK(journal')
       /\ UNCHANGED journal \/ (journal'.state = "cleanup_required" /\ Covered(journal') = Covered(j))
    BY <1>1, <1>2, <1>13, <1>14, CleanupFacts
<1>16. ASSUME ~doubled PROVE DiskOK' /\ Relies(u)'
    <2>1. Open /\ journal.state # "document_saved"
        BY <1>1, <1>2, <1>16, StagedIsOpen
    <2>2. Covered(journal) \subseteq Covered(journal') /\ journal'.state # "document_saved"
        BY <1>13, <1>15, <2>1
    <2>3. DiskOK'
        BY <1>12, <2>1, <2>2, OpenStays
    <2>4. doc'.status = "pending"
        BY <1>1, <1>12
    <2>5. Relies(u)'
        BY <1>5, <1>7, <1>10, <2>4 DEF Relies, Publishing
    <2> QED
        BY <2>3, <2>5
<1> QED
    BY <1>1, <1>2, <1>3, <1>9, <1>10, <1>11, <1>12, <1>15, <1>16, StepWork

-----------------------------------------------------------------------------
(* Undoing.                                                                *)

\* A call t that goes on at pc.
Moved(t, pc) == [t EXCEPT !.pc = pc]

\* Only its place changes.
LEMMA MovedFacts ==
    ASSUME NEW t \in CallType, NEW pc \in CallPcs
    PROVE  LET u == Moved(t, pc)
           IN  /\ u \in CallType /\ u.pc = pc /\ u.stamp = t.stamp /\ u.want = t.want /\ u.holds = t.holds
               /\ u.expected = t.expected /\ u.before = t.before /\ u.j = t.j /\ u.todo = t.todo
               /\ u.write = t.write /\ u.then = t.then
<1>1. PICK u : u = Moved(t, pc)
    OBVIOUS
<1>2. /\ u \in CallType /\ u.pc = pc /\ u.stamp = t.stamp /\ u.want = t.want /\ u.holds = t.holds
      /\ u.expected = t.expected /\ u.before = t.before /\ u.j = t.j /\ u.todo = t.todo
      /\ u.write = t.write /\ u.then = t.then
    BY <1>1, Zenon DEF Moved, CallType
<1> QED
    BY <1>1, <1>2

\* What is left to show of a step of a call at work that changes only its place in
\* memory.
LEMMA StepGo ==
    ASSUME ApplyInv, NEW c \in Calls, call[c].pc \in Working, NEW pc \in CallPcs, Go(c, pc),
           CallOK(Moved(call[c], pc)), UNCHANGED <<op, locks, touched, raced, doubled>>, UNCHANGED counts \/ Failure,
           doc' \in Document, files' \in [Decisions -> Contents], journal' = NoJournal \/ JournalOK(journal'),
           abandoned' \in SUBSET Decisions,
           ~doubled => /\ DiskOK'
                       /\ \A u : u = Moved(call[c], pc) => Relies(u)'
    PROVE  ApplyInv'
<1>1. PICK t : t = call[c]
    OBVIOUS
<1>2. PICK u : u = Moved(t, pc)
    OBVIOUS
<1>3. t \in CallType
    BY <1>1 DEF ApplyInv
<1>4. CallOK(u) /\ u.holds = t.holds
    BY <1>1, <1>2, <1>3, MovedFacts
<1>5. call' = [call EXCEPT ![c] = u]
    BY <1>1, <1>2 DEF Go, Moved
<1>6. ~doubled => DiskOK' /\ Relies(u)'
    BY <1>1, <1>2
<1> QED
    BY <1>1, <1>4, <1>5, <1>6, StepWork

\* The next file to undo is looked at: it will be removed, is gone, or is not ours.
LEMMA UndoInv ==
    ASSUME ApplyInv, NEW c \in Calls, Undo(c)
    PROVE  ApplyInv'
<1>1. PICK t : t = call[c]
    OBVIOUS
<1>2. PICK d : d = Min(t.todo)
    OBVIOUS
<1>3. PICK j : j = t.j
    OBVIOUS
<1>4. /\ t.pc = "undo" /\ t.todo # {} /\ call[c].pc \in Working
      /\ UNCHANGED <<op, doc, files, locks, touched, raced, abandoned, doubled>>
    BY <1>1 DEF Undo, At, Working, history
<1>5. /\ CallOK(t) /\ t \in CallType /\ doc \in Document /\ files \in [Decisions -> Contents]
      /\ abandoned \in SUBSET Decisions /\ (journal = NoJournal \/ JournalOK(journal))
      /\ ~doubled => DiskOK /\ Relies(t)
    BY <1>1, <1>4, WorkFacts
<1>6. j \in Journal /\ JournalOK(j) /\ t.then # "saved"
    BY <1>3, <1>4, <1>5, JournalFacts DEF CallOK
<1>7. t.todo \subseteq Decisions /\ d \in t.todo /\ d \in Decisions
    <2>1. t.todo \subseteq Decisions /\ Decisions \subseteq Nat
        BY <1>5 DEF CallType, Decisions
    <2> QED
        BY <1>2, <1>4, <2>1, MinFacts
<1>8. CASE PathState(j, d) = "match" /\ Go(c, "remove") /\ UNCHANGED <<journal, counts>>
    <2>1. PICK u : u = Moved(t, "remove")
        OBVIOUS
    <2>2. /\ u \in CallType /\ u.pc = "remove" /\ u.stamp = t.stamp /\ u.want = t.want /\ u.holds = t.holds
          /\ u.before = t.before /\ u.j = t.j /\ u.todo = t.todo /\ u.then = t.then
        BY <1>5, <2>1, MovedFacts DEF CallPcs, Working
    <2>3. CallOK(u)
        BY <1>4, <1>5, <2>2 DEF CallOK, Working, Publishing
    <2>4. files[d] = Written(j.stamp)
        BY <1>8 DEF PathState
    <2>5. ASSUME ~doubled PROVE DiskOK' /\ Relies(u)'
        <3>1. DiskOK'
            BY <1>4, <1>5, <1>8, <2>5, SameDisk
        <3>2. ByApply' = ByApply
            BY <1>4 DEF ByApply
        <3>3. /\ journal.state = "staged" /\ Covered(journal) \subseteq Covered(t.j)
              /\ (t.then = "check" /\ t.before.status = "pending" => doc.status = "pending")
              /\ ByApply \ abandoned \subseteq t.todo \cup t.j.updated
            BY <1>4, <1>5, <2>5 DEF Relies
        <3>4. Relies(u)'
            BY <1>2, <1>3, <1>4, <1>8, <2>2, <2>4, <3>2, <3>3 DEF Relies, Publishing
        <3> QED
            BY <3>1, <3>4
    <2>6. "remove" \in CallPcs
        BY DEF CallPcs, Working
    <2> QED
        BY <1>1, <1>4, <1>5, <1>8, <2>1, <2>3, <2>5, <2>6, StepGo
<1>9. CASE PathState(j, d) = "missing" /\ call' = [call EXCEPT ![c].todo = @ \ {d}] /\ UNCHANGED <<journal, counts>>
    <2>1. PICK S : S = t.todo \ {d}
        OBVIOUS
    <2>2. PICK u : u = [t EXCEPT !.todo = S]
        OBVIOUS
    <2>3. call' = [call EXCEPT ![c] = u]
        BY <1>1, <1>9, <2>1, <2>2
    <2>4. /\ u \in CallType /\ u.pc = "undo" /\ u.stamp = t.stamp /\ u.want = t.want /\ u.holds = t.holds
          /\ u.before = t.before /\ u.j = t.j /\ u.todo = S /\ u.then = t.then
        <3>1. S \in SUBSET Decisions
            BY <1>7, <2>1
        <3> QED
            BY <1>4, <1>5, <2>2, <3>1, Zenon DEF CallType
    <2>5. CallOK(u)
        BY <1>4, <1>5, <2>4 DEF CallOK, Working, Publishing
    <2>6. files[d] = NoFile
        BY <1>9 DEF PathState
    <2>7. ASSUME ~doubled PROVE DiskOK' /\ Relies(u)'
        <3>1. DiskOK'
            BY <1>4, <1>5, <1>9, <2>7, SameDisk
        <3>2. ByApply' = ByApply /\ d \notin ByApply
            BY <1>4, <2>6 DEF ByApply, NoFile
        <3>3. /\ journal.state = "staged" /\ Covered(journal) \subseteq Covered(t.j)
              /\ (t.then = "check" /\ t.before.status = "pending" => doc.status = "pending")
              /\ ByApply \ abandoned \subseteq t.todo \cup t.j.updated
            BY <1>4, <1>5, <2>7 DEF Relies
        <3>4. Relies(u)'
            BY <1>4, <1>9, <2>1, <2>4, <3>2, <3>3 DEF Relies, Publishing
        <3> QED
            BY <3>1, <3>4
    <2> QED
        BY <1>1, <1>4, <1>5, <1>9, <2>3, <2>4, <2>5, <2>7, StepWork
<1>10. CASE NeedsCleanup(j) /\ Go(c, "return")
    <2>1. /\ UNCHANGED counts \/ Failure
          /\ journal' = NoJournal \/ JournalOK(journal')
          /\ UNCHANGED journal \/ (journal'.state = "cleanup_required" /\ Covered(journal') = Covered(j))
        BY <1>5, <1>6, <1>10, CleanupFacts
    <2>2. ASSUME ~doubled PROVE DiskOK'
        <3>1. journal.state = "staged" /\ Covered(journal) \subseteq Covered(j)
            BY <1>3, <1>4, <1>5, <2>2 DEF Relies
        <3>2. Open
            BY <1>5, <2>2, <3>1, StagedIsOpen
        <3>3. Covered(journal) \subseteq Covered(journal') /\ journal'.state # "document_saved"
            BY <2>1, <3>1
        <3> QED
            BY <1>4, <3>2, <3>3, OpenStays
    <2> QED
        BY <1>4, <1>5, <1>10, <2>1, <2>2, StepReturn
<1>11. \/ PathState(j, d) = "match" /\ Go(c, "remove") /\ UNCHANGED <<journal, counts>>
       \/ PathState(j, d) = "missing" /\ call' = [call EXCEPT ![c].todo = @ \ {d}] /\ UNCHANGED <<journal, counts>>
       \/ NeedsCleanup(j) /\ Go(c, "return")
    BY <1>1, <1>2, <1>3 DEF Undo
<1> QED
    BY <1>8, <1>9, <1>10, <1>11

\* It is removed, whatever it is by now, or was gone.
LEMMA RemoveInv ==
    ASSUME ApplyInv, NEW c \in Calls, RemoveFile(c)
    PROVE  ApplyInv'
<1>1. PICK t : t = call[c]
    OBVIOUS
<1>2. PICK d : d = Min(t.todo)
    OBVIOUS
<1>3. PICK j : j = t.j
    OBVIOUS
<1>4. /\ t.pc = "remove" /\ call[c].pc \in Working
      /\ UNCHANGED <<op, doc, locks, touched, raced, abandoned, doubled>>
    BY <1>1 DEF RemoveFile, At, Working, history
<1>5. /\ CallOK(t) /\ t \in CallType /\ doc \in Document /\ files \in [Decisions -> Contents]
      /\ abandoned \in SUBSET Decisions /\ (journal = NoJournal \/ JournalOK(journal))
      /\ ~doubled => DiskOK /\ Relies(t)
    BY <1>1, <1>4, WorkFacts
<1>6. j \in Journal /\ JournalOK(j) /\ t.then # "saved" /\ t.todo # {}
    BY <1>3, <1>4, <1>5, JournalFacts DEF CallOK
<1>7. t.todo \subseteq Decisions /\ d \in t.todo /\ d \in Decisions
    <2>1. t.todo \subseteq Decisions /\ Decisions \subseteq Nat
        BY <1>5 DEF CallType, Decisions
    <2> QED
        BY <1>2, <1>6, <2>1, MinFacts
<1>8. ASSUME ~doubled
      PROVE  /\ journal.state = "staged" /\ Covered(journal) \subseteq Covered(j) /\ Open
             /\ (t.then = "check" /\ t.before.status = "pending" => doc.status = "pending")
             /\ ByApply \ abandoned \subseteq t.todo \cup j.updated
    <2>1. /\ journal.state = "staged" /\ Covered(journal) \subseteq Covered(j)
          /\ (t.then = "check" /\ t.before.status = "pending" => doc.status = "pending")
          /\ ByApply \ abandoned \subseteq t.todo \cup j.updated
        BY <1>3, <1>4, <1>5, <1>8 DEF Relies
    <2> QED
        BY <1>5, <1>8, <2>1, StagedIsOpen
<1>9. CASE /\ files' = [files EXCEPT ![d] = NoFile]
           /\ call' = [call EXCEPT ![c].pc = "undo", ![c].todo = @ \ {d}]
           /\ UNCHANGED <<journal, counts>>
    <2>1. PICK S : S = t.todo \ {d}
        OBVIOUS
    <2>2. PICK u : u = [t EXCEPT !.pc = "undo", !.todo = S]
        OBVIOUS
    <2>3. call' = [call EXCEPT ![c] = u]
        BY <1>1, <1>9, <2>1, <2>2, Zenon
    <2>4. /\ u \in CallType /\ u.pc = "undo" /\ u.stamp = t.stamp /\ u.want = t.want /\ u.holds = t.holds
          /\ u.before = t.before /\ u.j = t.j /\ u.todo = S /\ u.then = t.then
        <3>1. S \in SUBSET Decisions /\ "undo" \in CallPcs
            BY <1>7, <2>1 DEF CallPcs, Working
        <3> QED
            BY <1>5, <2>2, <3>1, Zenon DEF CallType
    <2>5. CallOK(u)
        BY <1>4, <1>5, <2>4 DEF CallOK, Working, Publishing
    <2>6. files' \in [Decisions -> Contents] /\ ByApply' = ByApply \ {d} /\ UNCHANGED <<journal, counts>>
        <3>1. files' = [files EXCEPT ![d] = NoFile] /\ NoFile \in Contents /\ NoFile.by # "apply"
            BY <1>9 DEF Contents, NoFile
        <3>2. files' \in [Decisions -> Contents]
            BY <1>5, <3>1
        <3> QED
            BY <1>5, <1>7, <1>9, <3>1, <3>2 DEF ByApply
    <2>7. ASSUME ~doubled PROVE DiskOK' /\ Relies(u)'
        <3>1. Open' /\ journal'.state = "staged"
            BY <1>4, <1>8, <2>6, <2>7 DEF Open
        <3>2. DiskOK'
            BY <3>1 DEF DiskOK
        <3>3. /\ Covered(journal') \subseteq Covered(j)
              /\ (t.then = "check" /\ t.before.status = "pending" => doc'.status = "pending")
              /\ ByApply' \ abandoned' \subseteq S \cup j.updated
            BY <1>4, <1>8, <2>1, <2>6, <2>7
        <3>4. Relies(u)'
            BY <1>3, <2>4, <3>1, <3>3 DEF Relies, Publishing
        <3> QED
            BY <3>2, <3>4
    <2> QED
        BY <1>1, <1>4, <1>5, <2>3, <2>4, <2>5, <2>6, <2>7, StepWork
<1>10. CASE NeedsCleanup(j) /\ Go(c, "return") /\ UNCHANGED files
    <2>1. /\ UNCHANGED counts \/ Failure
          /\ journal' = NoJournal \/ JournalOK(journal')
          /\ UNCHANGED journal \/ (journal'.state = "cleanup_required" /\ Covered(journal') = Covered(j))
        BY <1>5, <1>6, <1>10, CleanupFacts
    <2>2. ASSUME ~doubled PROVE DiskOK'
        <3>1. Covered(journal) \subseteq Covered(journal') /\ journal'.state # "document_saved"
            BY <1>8, <2>1, <2>2
        <3> QED
            BY <1>4, <1>8, <1>10, <2>2, <3>1, OpenStays
    <2> QED
        BY <1>4, <1>5, <1>10, <2>1, <2>2, StepReturn
<1> QED
    BY <1>1, <1>2, <1>3, <1>9, <1>10 DEF RemoveFile

\* Everything is undone and the journal goes.
LEMMA UndoDoneInv ==
    ASSUME ApplyInv, NEW c \in Calls, UndoDone(c)
    PROVE  ApplyInv'
<1>1. PICK t : t = call[c]
    OBVIOUS
<1>2. PICK j : j = t.j
    OBVIOUS
<1>3. /\ t.pc = "undo" /\ t.todo = {} /\ call[c].pc \in Working /\ journal' = NoJournal /\ Go(c, t.then)
      /\ UNCHANGED <<op, doc, files, locks, counts, touched, raced, doubled>>
      /\ abandoned' = abandoned \cup {d \in j.updated : files'[d].by = "apply"}
    BY <1>1, <1>2 DEF UndoDone, At, Working, Forget
<1>4. /\ CallOK(t) /\ t \in CallType /\ doc \in Document /\ files \in [Decisions -> Contents]
      /\ abandoned \in SUBSET Decisions
      /\ ~doubled => DiskOK /\ Relies(t)
    BY <1>1, <1>3, WorkFacts
<1>5. j \in Journal /\ t.then \in {"return", "check"} /\ (t.then = "check" => t.before \in Document)
    BY <1>2, <1>3, <1>4 DEF CallOK, CallType
<1>6. t.then \in CallPcs
    BY <1>5 DEF CallPcs, Working
<1>7. PICK u : u = Moved(t, t.then)
    OBVIOUS
<1>8. /\ u \in CallType /\ u.pc = t.then /\ u.stamp = t.stamp /\ u.want = t.want /\ u.holds = t.holds
      /\ u.before = t.before /\ u.j = t.j
    BY <1>4, <1>6, <1>7, MovedFacts
<1>9. CallOK(u)
    BY <1>3, <1>4, <1>5, <1>8 DEF CallOK, Working, Publishing
<1>10. abandoned' \in SUBSET Decisions
    BY <1>3, <1>4, <1>5, JournalFacts
<1>11. ASSUME ~doubled PROVE DiskOK' /\ Relies(u)'
    <2>1. /\ journal.state = "staged" /\ (t.then = "check" /\ t.before.status = "pending" => doc.status = "pending")
          /\ ByApply \ abandoned \subseteq j.updated
        BY <1>2, <1>3, <1>4, <1>11 DEF Relies
    <2>2. Open
        BY <1>4, <1>11, <2>1, StagedIsOpen
    <2>3. ByApply' \ abandoned' = {}
        BY <1>3, <2>1 DEF ByApply
    <2>4. DiskOK'
        BY <1>3, <2>2, <2>3 DEF DiskOK, Open, NoJournal
    <2>5. Relies(u)'
        BY <1>3, <1>5, <1>8, <2>1 DEF Relies, Publishing
    <2> QED
        BY <2>4, <2>5
<1> QED
    BY <1>1, <1>3, <1>4, <1>6, <1>7, <1>9, <1>10, <1>11, StepGo

\* A removal fails, and the call ends.
LEMMA UndoFailsInv ==
    ASSUME ApplyInv, NEW c \in Calls, UndoFails(c)
    PROVE  ApplyInv'
<1>1. PICK t : t = call[c]
    OBVIOUS
<1>2. PICK j : j = t.j
    OBVIOUS
<1>3. PICK k : k = [j EXCEPT !.state = "cleanup_required"]
    OBVIOUS
<1>4. /\ t.pc \in {"undo", "remove"} /\ call[c].pc \in Working /\ journal' \in {journal, k} /\ Go(c, "return")
      /\ Failure /\ UNCHANGED <<op, doc, files, locks, touched, raced, abandoned, doubled>>
    BY <1>1, <1>2, <1>3 DEF UndoFails, At, Working, history
<1>5. /\ CallOK(t) /\ t \in CallType /\ doc \in Document /\ files \in [Decisions -> Contents]
      /\ abandoned \in SUBSET Decisions /\ (journal = NoJournal \/ JournalOK(journal))
      /\ ~doubled => DiskOK /\ Relies(t)
    BY <1>1, <1>4, WorkFacts
<1>6. JournalOK(j)
    BY <1>2, <1>4, <1>5, JournalFacts DEF CallOK
<1>7. JournalOK(k) /\ k.state = "cleanup_required" /\ Covered(k) = Covered(j)
    BY <1>3, <1>6, MarkedJournal
<1>8. ASSUME ~doubled PROVE DiskOK'
    <2>1. journal.state = "staged" /\ Covered(journal) \subseteq Covered(j)
        BY <1>2, <1>4, <1>5, <1>8 DEF Relies
    <2>2. Open
        BY <1>5, <1>8, <2>1, StagedIsOpen
    <2>3. Covered(journal) \subseteq Covered(journal') /\ journal'.state # "document_saved"
        BY <1>4, <1>7, <2>1
    <2> QED
        BY <1>4, <2>2, <2>3, OpenStays
<1> QED
    BY <1>4, <1>5, <1>7, <1>8, StepReturn

-----------------------------------------------------------------------------
(* Publishing.                                                             *)

\* The document is refused, has nothing to publish, or gets a journal.
LEMMA CheckInv ==
    ASSUME ApplyInv, NEW c \in Calls, Check(c)
    PROVE  ApplyInv'
<1>1. PICK t : t = call[c]
    OBVIOUS
<1>2. PICK b : b = t.before
    OBVIOUS
<1>3. /\ t.pc = "check" /\ call[c].pc \in Working
      /\ UNCHANGED <<op, doc, files, journal, locks, counts, touched, raced, abandoned, doubled>>
    BY <1>1 DEF Check, At, Working, disk, history
<1>4. /\ CallOK(t) /\ t \in CallType /\ doc \in Document /\ files \in [Decisions -> Contents]
      /\ abandoned \in SUBSET Decisions /\ (journal = NoJournal \/ JournalOK(journal))
      /\ ~doubled => DiskOK /\ Relies(t)
    BY <1>1, <1>3, WorkFacts
<1>5. b \in Document
    BY <1>2, <1>3, <1>4 DEF CallOK
<1>6. ~doubled => DiskOK'
    BY <1>3, <1>4, SameDisk
<1>7. CASE Go(c, "return")
    BY <1>3, <1>4, <1>6, <1>7, StepReturn
<1>8. CASE Acceptable(c) /\ Yes(b.sel) = {} /\ GoSave(c, NoJournal, Resolved(b, b.sel), "return")
    <2>1. PICK w : w = Resolved(b, b.sel)
        OBVIOUS
    <2>2. w \in Document /\ b = t.expected /\ b.status = "pending"
        BY <1>1, <1>2, <1>5, <1>8, <2>1, ResolvedFacts DEF Acceptable
    <2>3. PICK u : u = [t EXCEPT !.pc = "save", !.j = NoJournal, !.write = w, !.then = "return"]
        OBVIOUS
    <2>4. call' = [call EXCEPT ![c] = u]
        BY <1>1, <1>8, <2>1, <2>3, Zenon DEF GoSave
    <2>5. /\ u \in CallType /\ u.pc = "save" /\ u.stamp = t.stamp /\ u.want = t.want /\ u.holds = t.holds
          /\ u.before = b /\ u.expected = t.expected /\ u.j = NoJournal /\ u.write = w /\ u.then = "return"
        <3>1. /\ "save" \in CallPcs /\ NoJournal \in Journal \cup {NoJournal} /\ w \in Document \cup {NoDoc}
              /\ "return" \in {"return", "check", "saved"}
            BY <2>2 DEF CallPcs, Working
        <3> QED
            BY <1>2, <1>4, <2>3, <3>1, Zenon DEF CallType
    <2>6. CallOK(u)
        BY <1>3, <1>4, <1>5, <2>1, <2>2, <2>5 DEF CallOK, Working, Publishing
    <2>7. ASSUME ~doubled PROVE Relies(u)'
        <3>1. journal = NoJournal /\ doc.status = "pending"
            BY <1>2, <1>3, <1>4, <2>2, <2>7 DEF Relies
        <3>2. Open
            BY <1>4, <2>7, <3>1, StagedIsOpen
        <3>3. ByApply' \subseteq abandoned' /\ Yes(b.sel) = {} /\ journal'.state = "none"
            BY <1>3, <1>8, <3>1, <3>2 DEF Open, Covered, ByApply, NoJournal
        <3> QED
            BY <1>3, <2>5, <3>1, <3>3 DEF Relies, Publishing
    <2> QED
        BY <1>1, <1>3, <1>4, <1>6, <2>4, <2>5, <2>6, <2>7, StepWork
<1>9. CASE Acceptable(c) /\ GoWith(c, "journal", NewJournal(b, t.stamp))
    <2>1. PICK j : j = NewJournal(b, t.stamp)
        OBVIOUS
    <2>2. t.stamp \in 1 .. MaxApplies
        BY <1>3, <1>4, KnowledgeApplyAssumption DEF CallOK, CallType
    <2>3. /\ JournalOK(j) /\ j \in Journal /\ j.state = "staged" /\ j.before = b /\ j.inflight = 0
          /\ j.created = {} /\ j.updated = {}
        BY <1>5, <2>1, <2>2, NewJournalFacts
    <2>4. b = t.expected /\ b.status = "pending"
        BY <1>1, <1>2, <1>9 DEF Acceptable
    <2>5. PICK u : u = [t EXCEPT !.pc = "journal", !.j = j]
        OBVIOUS
    <2>6. call' = [call EXCEPT ![c] = u]
        BY <1>1, <1>9, <2>1, <2>5, Zenon DEF GoWith
    <2>7. /\ u \in CallType /\ u.pc = "journal" /\ u.stamp = t.stamp /\ u.want = t.want /\ u.holds = t.holds
          /\ u.before = b /\ u.expected = t.expected /\ u.j = j
        <3>1. /\ "journal" \in CallPcs /\ j \in Journal \cup {NoJournal}
            BY <2>3 DEF CallPcs, Working, Publishing
        <3> QED
            BY <1>2, <1>4, <2>5, <3>1, Zenon DEF CallType
    <2>8. CallOK(u)
        BY <1>3, <1>4, <1>5, <2>3, <2>4, <2>7 DEF CallOK, Working, Publishing
    <2>9. ASSUME ~doubled PROVE Relies(u)'
        <3>1. journal = NoJournal /\ doc.status = "pending"
            BY <1>2, <1>3, <1>4, <2>4, <2>9 DEF Relies
        <3> QED
            BY <1>3, <2>3, <2>7, <3>1 DEF Relies, Publishing
    <2> QED
        BY <1>1, <1>3, <1>4, <1>6, <2>6, <2>7, <2>8, <2>9, StepWork
<1> QED
    BY <1>1, <1>2, <1>7, <1>8, <1>9 DEF Check

\* What is known of a call that publishes.
LEMMA PublishFacts ==
    ASSUME ApplyInv, NEW c \in Calls, call[c].pc \in Publishing
    PROVE  LET t == call[c] IN
           /\ t.pc \in Working /\ CallOK(t) /\ t \in CallType /\ op \in [Decisions -> {"create", "update"}]
           /\ doc \in Document /\ files \in [Decisions -> Contents] /\ abandoned \in SUBSET Decisions
           /\ journal = NoJournal \/ JournalOK(journal)
           /\ JournalOK(t.j) /\ t.j \in Journal /\ t.j.state = "staged" /\ t.j.finalized = {}
           /\ t.j.inflight # 0 => t.j.inflight \in Decisions
           /\ t.before \in Document /\ t.before.status = "pending" /\ t.before = t.expected /\ t.j.before = t.before
           /\ ~doubled => /\ DiskOK /\ Relies(t) /\ Open /\ doc.status = "pending"
                          /\ (t.pc # "journal" => journal = t.j)
                          /\ (t.j.created \cup t.j.updated) \ touched \subseteq ByApply
<1>1. PICK t : t = call[c]
    OBVIOUS
<1>2. call[c].pc \in Working
    BY DEF Working
<1>3. /\ CallOK(t) /\ t \in CallType /\ op \in [Decisions -> {"create", "update"}]
      /\ doc \in Document /\ files \in [Decisions -> Contents] /\ abandoned \in SUBSET Decisions
      /\ journal = NoJournal \/ JournalOK(journal)
      /\ ~doubled => DiskOK /\ Relies(t)
    BY <1>1, <1>2, WorkFacts
<1>4. /\ t.j \in Journal /\ t.j.state = "staged" /\ JournalOK(t.j)
      /\ t.before \in Document /\ t.before.status = "pending" /\ t.before = t.expected /\ t.j.before = t.before
    BY <1>1, <1>3, JournalFacts DEF CallOK
<1>5. t.j.finalized = {} /\ (t.j.inflight # 0 => t.j.inflight \in Decisions)
    BY <1>4, JournalFacts DEF JournalOK, Unpublished
<1>6. ASSUME ~doubled
      PROVE  /\ Open /\ doc.status = "pending" /\ (t.pc # "journal" => journal = t.j)
             /\ (t.j.created \cup t.j.updated) \ touched \subseteq ByApply
    <2>1. /\ doc.status = "pending" /\ (t.pc # "journal" => journal = t.j)
          /\ (t.j.created \cup t.j.updated) \ touched \subseteq ByApply
        BY <1>1, <1>3, <1>6 DEF Relies
    <2> QED
        BY <1>3, <1>6, <2>1, StagedIsOpen
<1> QED
    BY <1>1, <1>2, <1>3, <1>4, <1>5, <1>6

\* The journal is written before anything is published.
LEMMA WriteJournalInv ==
    ASSUME ApplyInv, NEW c \in Calls, WriteJournal(c)
    PROVE  ApplyInv'
<1>1. PICK t : t = call[c]
    OBVIOUS
<1>2. /\ t.pc = "journal" /\ call[c].pc \in Publishing /\ journal' = t.j /\ Go(c, "stage")
      /\ UNCHANGED <<op, doc, files, locks, counts, touched, raced, abandoned, doubled>>
    BY <1>1 DEF WriteJournal, At, Publishing, history
<1>3. /\ t.pc \in Working /\ CallOK(t) /\ t \in CallType /\ doc \in Document /\ files \in [Decisions -> Contents]
      /\ abandoned \in SUBSET Decisions /\ JournalOK(t.j) /\ t.j \in Journal /\ t.j.state = "staged"
      /\ t.before \in Document /\ t.before.status = "pending"
      /\ ~doubled => /\ Relies(t) /\ Open /\ doc.status = "pending"
                     /\ (t.j.created \cup t.j.updated) \ touched \subseteq ByApply
    BY <1>1, <1>2, PublishFacts
<1>4. PICK u : u = Moved(t, "stage")
    OBVIOUS
<1>5. "stage" \in CallPcs
    BY DEF CallPcs, Working, Publishing
<1>6. /\ u \in CallType /\ u.pc = "stage" /\ u.stamp = t.stamp /\ u.want = t.want /\ u.holds = t.holds
      /\ u.before = t.before /\ u.expected = t.expected /\ u.j = t.j
    BY <1>3, <1>4, <1>5, MovedFacts
<1>7. CallOK(u)
    BY <1>2, <1>3, <1>6 DEF CallOK, Working, Publishing
<1>8. ASSUME ~doubled PROVE DiskOK' /\ Relies(u)'
    <2>1. journal = NoJournal
        BY <1>2, <1>3, <1>8 DEF Relies
    <2>2. Covered(journal) \subseteq Covered(journal') /\ journal'.state # "document_saved"
        BY <1>2, <1>3, <2>1 DEF Covered
    <2>3. DiskOK'
        BY <1>2, <1>3, <1>8, <2>2, OpenStays
    <2>4. ByApply' = ByApply
        BY <1>2 DEF ByApply
    <2>5. Relies(u)'
        BY <1>2, <1>3, <1>6, <1>8, <2>4 DEF Relies, Publishing
    <2> QED
        BY <2>3, <2>5
<1> QED
    BY <1>1, <1>2, <1>3, <1>4, <1>5, <1>7, <1>8, StepGo

\* The copies are staged; if not, no file is published and the journal may go.
LEMMA StageInv ==
    ASSUME ApplyInv, NEW c \in Calls, Stage(c)
    PROVE  ApplyInv'
<1>1. PICK t : t = call[c]
    OBVIOUS
<1>2. /\ t.pc = "stage" /\ call[c].pc \in Publishing
      /\ UNCHANGED <<op, doc, files, locks, touched, raced, abandoned, doubled>>
    BY <1>1 DEF Stage, At, Publishing, history
<1>3. /\ t.pc \in Working /\ CallOK(t) /\ t \in CallType /\ doc \in Document /\ files \in [Decisions -> Contents]
      /\ abandoned \in SUBSET Decisions /\ JournalOK(t.j) /\ t.j \in Journal /\ t.j.state = "staged" /\ t.j.finalized = {}
      /\ t.before \in Document /\ t.before.status = "pending"
      /\ journal = NoJournal \/ JournalOK(journal)
      /\ ~doubled => /\ Relies(t) /\ Open /\ DiskOK /\ doc.status = "pending" /\ (t.pc # "journal" => journal = t.j)
                     /\ (t.j.created \cup t.j.updated) \ touched \subseteq ByApply
    BY <1>1, <1>2, PublishFacts
<1>4. CASE UNCHANGED <<counts, journal>> /\ Go(c, "next")
    <2>1. PICK u : u = Moved(t, "next")
        OBVIOUS
    <2>2. "next" \in CallPcs
        BY DEF CallPcs, Working, Publishing
    <2>3. /\ u \in CallType /\ u.pc = "next" /\ u.stamp = t.stamp /\ u.want = t.want /\ u.holds = t.holds
          /\ u.before = t.before /\ u.expected = t.expected /\ u.j = t.j
        BY <1>3, <2>1, <2>2, MovedFacts
    <2>4. CallOK(u)
        BY <1>2, <1>3, <2>3 DEF CallOK, Working, Publishing
    <2>5. ASSUME ~doubled PROVE DiskOK' /\ Relies(u)'
        <3>1. DiskOK'
            BY <1>2, <1>3, <1>4, <2>5, SameDisk
        <3>2. ByApply' = ByApply
            BY <1>2 DEF ByApply
        <3>3. Relies(u)'
            BY <1>2, <1>3, <1>4, <2>3, <2>5, <3>2 DEF Relies, Publishing
        <3> QED
            BY <3>1, <3>3
    <2> QED
        BY <1>1, <1>2, <1>3, <1>4, <2>1, <2>2, <2>4, <2>5, StepGo
<1>5. CASE Failure /\ journal' \in {journal, NoJournal} /\ Go(c, "return")
    <2>1. ASSUME ~doubled PROVE DiskOK'
        <3>1. /\ journal = t.j /\ t.j.created = {} /\ t.j.updated = {} /\ t.j.inflight = 0 /\ Open
              /\ journal.state = "staged"
            BY <1>2, <1>3, <2>1 DEF CallOK
        <3>2. ByApply \ abandoned = {}
            BY <1>3, <3>1, JournalFacts DEF Open, ByApply
        <3>3. ByApply' \ abandoned' = {} /\ doc'.status = "pending" /\ journal'.state # "document_saved"
            BY <1>2, <1>3, <1>5, <2>1, <3>1, <3>2 DEF ByApply, NoJournal
        <3> QED
            BY <3>3 DEF DiskOK, Open
    <2> QED
        BY <1>1, <1>2, <1>3, <1>5, <2>1, StepReturn
<1> QED
    BY <1>4, <1>5 DEF Stage, Works

\* The file to be published next is noted.
LEMMA MarkInflightInv ==
    ASSUME ApplyInv, NEW c \in Calls, MarkInflight(c)
    PROVE  ApplyInv'
<1>1. PICK t : t = call[c]
    OBVIOUS
<1>2. PICK j : j = t.j
    OBVIOUS
<1>3. PICK k : k = [j EXCEPT !.inflight = Min(Unpublished(j))]
    OBVIOUS
<1>4. /\ t.pc = "next" /\ call[c].pc \in Publishing /\ Unpublished(j) # {} /\ journal' = k /\ GoWith(c, "publish", k)
      /\ UNCHANGED <<op, doc, files, locks, counts, touched, raced, abandoned, doubled>>
    BY <1>1, <1>2, <1>3 DEF MarkInflight, At, Publishing, history
<1>5. /\ t.pc \in Working /\ CallOK(t) /\ t \in CallType /\ doc \in Document /\ files \in [Decisions -> Contents]
      /\ abandoned \in SUBSET Decisions /\ JournalOK(j) /\ j \in Journal /\ j.state = "staged" /\ j.finalized = {}
      /\ t.before \in Document /\ t.before.status = "pending" /\ t.before = t.expected /\ j.before = t.before
      /\ ~doubled => /\ Open /\ doc.status = "pending" /\ (t.pc # "journal" => journal = j)
                     /\ (j.created \cup j.updated) \ touched \subseteq ByApply
    BY <1>1, <1>2, <1>4, PublishFacts
<1>6. /\ JournalOK(k) /\ k \in Journal /\ k.state = "staged" /\ k.before = j.before /\ k.inflight # 0
      /\ k.created = j.created /\ k.updated = j.updated /\ k.finalized = j.finalized
    BY <1>3, <1>4, <1>5, InflightFacts
<1>7. PICK u : u = [t EXCEPT !.pc = "publish", !.j = k]
    OBVIOUS
<1>8. call' = [call EXCEPT ![c] = u]
    BY <1>1, <1>4, <1>7, Zenon DEF GoWith
<1>9. /\ u \in CallType /\ u.pc = "publish" /\ u.stamp = t.stamp /\ u.want = t.want /\ u.holds = t.holds
      /\ u.before = t.before /\ u.expected = t.expected /\ u.j = k
    <2>1. /\ "publish" \in CallPcs /\ k \in Journal \cup {NoJournal}
        BY <1>6 DEF CallPcs, Working, Publishing
    <2> QED
        BY <1>5, <1>7, <2>1, Zenon DEF CallType
<1>10. CallOK(u)
    BY <1>4, <1>5, <1>6, <1>9 DEF CallOK, Working, Publishing
<1>11. ASSUME ~doubled PROVE DiskOK' /\ Relies(u)'
    <2>1. j.inflight = 0 /\ journal = j
        BY <1>2, <1>4, <1>5, <1>11 DEF CallOK
    <2>2. ByApply' = ByApply /\ ByApply \subseteq Decisions /\ 0 \notin Decisions
        BY <1>4, <1>5, JournalFacts DEF ByApply
    <2>3. ByApply' \ abandoned' \subseteq Covered(journal')
        BY <1>4, <1>5, <1>6, <1>11, <2>1, <2>2, JournalFacts DEF Open
    <2>4. DiskOK'
        BY <1>4, <1>5, <1>6, <1>11, <2>3 DEF DiskOK, Open
    <2>5. Relies(u)'
        BY <1>4, <1>5, <1>6, <1>9, <1>11, <2>2 DEF Relies, Publishing
    <2> QED
        BY <2>4, <2>5
<1> QED
    BY <1>1, <1>4, <1>5, <1>6, <1>8, <1>9, <1>10, <1>11, StepWork

\* A page is as the proposal saw it.
LEMMA CheckPageInv ==
    ASSUME ApplyInv, NEW c \in Calls, CheckPage(c)
    PROVE  ApplyInv'
<1>1. PICK t : t = call[c]
    OBVIOUS
<1>2. /\ t.pc = "publish" /\ call[c].pc \in Publishing /\ Go(c, "replace") /\ files[t.j.inflight] = OldPage
      /\ UNCHANGED <<op, doc, files, journal, locks, counts, touched, raced, abandoned, doubled>>
    BY <1>1 DEF CheckPage, At, Publishing, history, disk
<1>3. /\ t.pc \in Working /\ CallOK(t) /\ t \in CallType /\ doc \in Document /\ files \in [Decisions -> Contents]
      /\ abandoned \in SUBSET Decisions /\ (journal = NoJournal \/ JournalOK(journal))
      /\ t.before \in Document /\ t.before.status = "pending"
      /\ ~doubled => /\ DiskOK /\ Open /\ doc.status = "pending" /\ (t.pc # "journal" => journal = t.j)
                     /\ (t.j.created \cup t.j.updated) \ touched \subseteq ByApply
    BY <1>1, <1>2, PublishFacts
<1>4. PICK u : u = Moved(t, "replace")
    OBVIOUS
<1>5. "replace" \in CallPcs
    BY DEF CallPcs, Working, Publishing
<1>6. /\ u \in CallType /\ u.pc = "replace" /\ u.stamp = t.stamp /\ u.want = t.want /\ u.holds = t.holds
      /\ u.before = t.before /\ u.expected = t.expected /\ u.j = t.j
    BY <1>3, <1>4, <1>5, MovedFacts
<1>7. CallOK(u)
    BY <1>2, <1>3, <1>6 DEF CallOK, Working, Publishing
<1>8. ASSUME ~doubled PROVE DiskOK' /\ Relies(u)'
    <2>1. DiskOK'
        BY <1>2, <1>3, <1>8, SameDisk
    <2>2. ByApply' = ByApply
        BY <1>2 DEF ByApply
    <2>3. Relies(u)'
        BY <1>2, <1>3, <1>6, <1>8, <2>2 DEF Relies, Publishing
    <2> QED
        BY <2>1, <2>3
<1> QED
    BY <1>1, <1>2, <1>3, <1>4, <1>5, <1>7, <1>8, StepGo

\* A file is published: it is in the journal on disk by then.
LEMMA PublishInv ==
    ASSUME ApplyInv, NEW c \in Calls, PublishNew(c) \/ ReplacePage(c)
    PROVE  ApplyInv'
<1>1. PICK t : t = call[c]
    OBVIOUS
<1>2. PICK d : d = t.j.inflight
    OBVIOUS
<1>3. /\ t.pc \in {"publish", "replace"} /\ call[c].pc \in Publishing /\ Go(c, "record")
      /\ files' = [files EXCEPT ![d] = Written(t.j.stamp)]
      /\ UNCHANGED <<op, doc, journal, locks, counts, touched, raced, abandoned, doubled>>
    BY <1>1, <1>2 DEF PublishNew, ReplacePage, At, Publishing, history
<1>4. /\ t.pc \in Working /\ CallOK(t) /\ t \in CallType /\ doc \in Document /\ files \in [Decisions -> Contents]
      /\ abandoned \in SUBSET Decisions /\ (journal = NoJournal \/ JournalOK(journal))
      /\ t.j \in Journal /\ t.j.state = "staged" /\ (t.j.inflight # 0 => t.j.inflight \in Decisions)
      /\ t.before \in Document /\ t.before.status = "pending"
      /\ ~doubled => /\ Open /\ doc.status = "pending" /\ (t.pc # "journal" => journal = t.j)
                     /\ (t.j.created \cup t.j.updated) \ touched \subseteq ByApply
    BY <1>1, <1>3, PublishFacts
<1>5. d # 0 /\ d \in Decisions
    BY <1>2, <1>3, <1>4 DEF CallOK
<1>6. files' \in [Decisions -> Contents] /\ ByApply' = ByApply \cup {d}
    <2>1. Written(t.j.stamp) \in Contents /\ Written(t.j.stamp).by = "apply"
        BY <1>4, JournalFacts DEF Contents, Written
    <2>2. files' \in [Decisions -> Contents]
        BY <1>3, <1>4, <2>1
    <2> QED
        BY <1>3, <1>4, <1>5, <2>1, <2>2 DEF ByApply
<1>7. PICK u : u = Moved(t, "record")
    OBVIOUS
<1>8. "record" \in CallPcs
    BY DEF CallPcs, Working, Publishing
<1>9. /\ u \in CallType /\ u.pc = "record" /\ u.stamp = t.stamp /\ u.want = t.want /\ u.holds = t.holds
      /\ u.before = t.before /\ u.expected = t.expected /\ u.j = t.j
    BY <1>4, <1>7, <1>8, MovedFacts
<1>10. CallOK(u)
    BY <1>3, <1>4, <1>9 DEF CallOK, Working, Publishing
<1>11. UNCHANGED <<op, doc, journal, locks, counts, touched, raced, abandoned, doubled>>
    BY <1>3
<1>12. ASSUME ~doubled PROVE DiskOK' /\ Relies(u)'
    <2>1. journal = t.j
        BY <1>3, <1>4, <1>12
    <2>2. d \in Covered(journal)
        BY <1>2, <1>4, <2>1, JournalFacts
    <2>3. DiskOK'
        BY <1>4, <1>6, <1>11, <1>12, <2>1, <2>2 DEF DiskOK, Open
    <2>4. Relies(u)'
        BY <1>2, <1>4, <1>6, <1>9, <1>11, <1>12, <2>1 DEF Relies, Publishing
    <2> QED
        BY <2>3, <2>4
<1> QED
    BY <1>1, <1>3, <1>4, <1>6, <1>7, <1>8, <1>10, <1>11, <1>12, StepGo

\* A publication fails.  The files of a journal that goes are abandoned.
LEMMA PublishFailsInv ==
    ASSUME ApplyInv, NEW c \in Calls, PublishFails(c)
    PROVE  ApplyInv'
<1>1. PICK t : t = call[c]
    OBVIOUS
<1>2. PICK j : j = t.j
    OBVIOUS
<1>3. PICK d : d = j.inflight
    OBVIOUS
<1>4. PICK k : k = [j EXCEPT !.inflight = 0]
    OBVIOUS
<1>5. /\ t.pc \in {"publish", "replace", "record"} /\ call[c].pc \in Publishing /\ Go(c, "return")
      /\ UNCHANGED <<op, doc, files, locks, touched, raced, doubled>> /\ (UNCHANGED counts \/ Failure)
      /\ \/ journal' = NoJournal /\ Forget(j.created \cup j.updated \cup {d})
         \/ journal' = k /\ Forget({d})
         \/ journal' = j /\ UNCHANGED abandoned
    BY <1>1, <1>2, <1>3, <1>4 DEF PublishFails, At, Publishing, Works
<1>6. /\ t.pc \in Working /\ CallOK(t) /\ t \in CallType /\ doc \in Document /\ files \in [Decisions -> Contents]
      /\ abandoned \in SUBSET Decisions
      /\ JournalOK(j) /\ j \in Journal /\ j.state = "staged" /\ j.finalized = {} /\ (d # 0 => d \in Decisions)
      /\ ~doubled => /\ Open /\ doc.status = "pending" /\ (t.pc # "journal" => journal = j)
    BY <1>1, <1>2, <1>3, <1>5, PublishFacts
<1>7. d \in Decisions /\ j.created \subseteq Decisions /\ j.updated \subseteq Decisions
    BY <1>2, <1>3, <1>5, <1>6, JournalFacts DEF CallOK
<1>8. /\ JournalOK(k) /\ k \in Journal /\ k.state = j.state
      /\ k.created = j.created /\ k.updated = j.updated /\ k.finalized = j.finalized
    BY <1>4, <1>6, NotInflight
<1>9. abandoned' \in SUBSET Decisions
    BY <1>5, <1>6, <1>7 DEF Forget
<1>10. journal' = NoJournal \/ JournalOK(journal')
    BY <1>5, <1>6, <1>8
<1>11. ASSUME ~doubled PROVE DiskOK'
    <2>1. /\ doc'.status = "pending" /\ Covered(j) = j.created \cup j.updated \cup {d}
          /\ ByApply \ abandoned \subseteq Covered(j)
        BY <1>3, <1>5, <1>6, <1>11, JournalFacts DEF Open
    <2>2. ByApply' = ByApply /\ \A x \in ByApply : files'[x].by = "apply"
        BY <1>5 DEF ByApply
    <2>3. CASE journal' = NoJournal /\ Forget(j.created \cup j.updated \cup {d})
        <3>1. ByApply' \ abandoned' = {}
            BY <2>1, <2>2, <2>3 DEF Forget
        <3> QED
            BY <2>1, <2>3, <3>1 DEF DiskOK, Open, NoJournal
    <2>4. CASE journal' = k /\ Forget({d})
        <3>1. ByApply' \ abandoned' \subseteq Covered(k) /\ k.state = "staged"
            BY <1>6, <1>8, <2>1, <2>2, <2>4, JournalFacts DEF Forget
        <3> QED
            BY <2>1, <2>4, <3>1 DEF DiskOK, Open
    <2>5. CASE journal' = j /\ UNCHANGED abandoned
        BY <1>6, <2>1, <2>2, <2>5 DEF DiskOK, Open
    <2> QED
        BY <1>5, <2>3, <2>4, <2>5
<1> QED
    BY <1>1, <1>5, <1>6, <1>9, <1>10, <1>11, StepReturn

\* The published file is recorded.
LEMMA RecordInv ==
    ASSUME ApplyInv, NEW c \in Calls, RecordPublished(c)
    PROVE  ApplyInv'
<1>1. PICK t : t = call[c]
    OBVIOUS
<1>2. PICK j : j = t.j
    OBVIOUS
<1>3. PICK k : k = Recorded(j, j.inflight)
    OBVIOUS
<1>4. /\ t.pc = "record" /\ call[c].pc \in Publishing /\ journal' = k /\ GoWith(c, "next", k)
      /\ UNCHANGED <<op, doc, files, locks, counts, touched, raced, abandoned, doubled>>
    BY <1>1, <1>2, <1>3 DEF RecordPublished, At, Publishing, history
<1>5. /\ t.pc \in Working /\ CallOK(t) /\ t \in CallType /\ doc \in Document /\ files \in [Decisions -> Contents]
      /\ abandoned \in SUBSET Decisions /\ JournalOK(j) /\ j \in Journal /\ j.state = "staged" /\ j.finalized = {}
      /\ t.before \in Document /\ t.before.status = "pending" /\ t.before = t.expected /\ j.before = t.before
      /\ ~doubled => /\ Open /\ Relies(t) /\ doc.status = "pending" /\ (t.pc # "journal" => journal = j)
                     /\ (j.created \cup j.updated) \ touched \subseteq ByApply
    BY <1>1, <1>2, <1>4, PublishFacts
<1>6. j.inflight # 0
    BY <1>2, <1>4, <1>5 DEF CallOK
<1>7. /\ JournalOK(k) /\ k \in Journal /\ k.state = "staged" /\ k.before = j.before /\ k.inflight = 0
      /\ k.finalized = j.finalized
      /\ k.created \cup k.updated = j.created \cup j.updated \cup {j.inflight}
    BY <1>3, <1>5, <1>6, RecordedFacts
<1>8. PICK u : u = [t EXCEPT !.pc = "next", !.j = k]
    OBVIOUS
<1>9. call' = [call EXCEPT ![c] = u]
    BY <1>1, <1>4, <1>8, Zenon DEF GoWith
<1>10. /\ u \in CallType /\ u.pc = "next" /\ u.stamp = t.stamp /\ u.want = t.want /\ u.holds = t.holds
       /\ u.before = t.before /\ u.expected = t.expected /\ u.j = k
    <2>1. /\ "next" \in CallPcs /\ k \in Journal \cup {NoJournal}
        BY <1>7 DEF CallPcs, Working, Publishing
    <2> QED
        BY <1>5, <1>8, <2>1, Zenon DEF CallType
<1>11. CallOK(u)
    BY <1>4, <1>5, <1>7, <1>10 DEF CallOK, Working, Publishing
<1>12. ASSUME ~doubled PROVE DiskOK' /\ Relies(u)'
    <2>1. journal = j /\ j.inflight \in ByApply \cup touched
        BY <1>2, <1>4, <1>5, <1>12 DEF Relies
    <2>2. ByApply' = ByApply
        BY <1>4 DEF ByApply
    <2>3. ByApply' \ abandoned' \subseteq Covered(journal')
        BY <1>4, <1>5, <1>7, <1>12, <2>1, <2>2, JournalFacts DEF Open
    <2>4. DiskOK'
        BY <1>4, <1>5, <1>7, <1>12, <2>3 DEF DiskOK, Open
    <2>5. (k.created \cup k.updated) \ touched' \subseteq ByApply'
        BY <1>4, <1>5, <1>7, <1>12, <2>1, <2>2
    <2>6. Relies(u)'
        BY <1>4, <1>5, <1>10, <1>12, <2>5 DEF Relies, Publishing
    <2> QED
        BY <2>4, <2>6
<1> QED
    BY <1>1, <1>4, <1>5, <1>7, <1>9, <1>10, <1>11, <1>12, StepWork

\* Everything planned is published: the journal is finalized.
LEMMA FinalizeInv ==
    ASSUME ApplyInv, NEW c \in Calls, Finalize(c)
    PROVE  ApplyInv'
<1>1. PICK t : t = call[c]
    OBVIOUS
<1>2. PICK j : j = t.j
    OBVIOUS
<1>3. PICK k : k = Finalized(j)
    OBVIOUS
<1>4. PICK b : b = t.before
    OBVIOUS
<1>5. PICK w : w = Resolved(b, b.sel)
    OBVIOUS
<1>6. /\ t.pc = "next" /\ call[c].pc \in Publishing /\ Unpublished(j) = {} /\ journal' = k
      /\ GoSave(c, k, w, "saved")
      /\ UNCHANGED <<op, doc, files, locks, counts, touched, raced, abandoned, doubled>>
    BY <1>1, <1>2, <1>3, <1>4, <1>5 DEF Finalize, At, Publishing, history
<1>7. /\ t.pc \in Working /\ CallOK(t) /\ t \in CallType /\ doc \in Document /\ files \in [Decisions -> Contents]
      /\ abandoned \in SUBSET Decisions /\ JournalOK(j) /\ j \in Journal /\ j.finalized = {}
      /\ b \in Document /\ b.status = "pending" /\ b = t.expected /\ j.before = b
      /\ ~doubled => /\ Open /\ Relies(t) /\ doc.status = "pending" /\ (t.pc # "journal" => journal = j)
                     /\ (j.created \cup j.updated) \ touched \subseteq ByApply
    BY <1>1, <1>2, <1>4, <1>6, PublishFacts
<1>8. j.inflight = 0
    BY <1>2, <1>6, <1>7 DEF CallOK
<1>9. /\ JournalOK(k) /\ k \in Journal /\ k.state = "finalized" /\ k.inflight = 0
      /\ k.created = j.created /\ k.updated = j.updated /\ k.finalized = Planned(j)
    BY <1>3, <1>6, <1>7, <1>8, FinalizedFacts
<1>10. w \in Document
    BY <1>5, <1>7, ResolvedFacts
<1>11. PICK u : u = [t EXCEPT !.pc = "save", !.j = k, !.write = w, !.then = "saved"]
    OBVIOUS
<1>12. call' = [call EXCEPT ![c] = u]
    BY <1>1, <1>6, <1>11, Zenon DEF GoSave
<1>13. /\ u \in CallType /\ u.pc = "save" /\ u.stamp = t.stamp /\ u.want = t.want /\ u.holds = t.holds
       /\ u.before = b /\ u.expected = t.expected /\ u.j = k /\ u.write = w /\ u.then = "saved"
    <2>1. /\ "save" \in CallPcs /\ k \in Journal \cup {NoJournal} /\ w \in Document \cup {NoDoc}
          /\ "saved" \in {"return", "check", "saved"}
        BY <1>9, <1>10 DEF CallPcs, Working
    <2> QED
        BY <1>4, <1>7, <1>11, <2>1, Zenon DEF CallType
<1>14. CallOK(u)
    BY <1>5, <1>6, <1>7, <1>9, <1>13 DEF CallOK, Working, Publishing
<1>15. ASSUME ~doubled PROVE DiskOK' /\ Relies(u)'
    <2>1. journal = j /\ ByApply' = ByApply
        BY <1>6, <1>7, <1>15 DEF ByApply
    <2>2. Planned(j) = j.created \cup j.updated /\ Planned(j) = Yes(b.sel) /\ Covered(j) = Planned(j) \cup {0}
          /\ ByApply \subseteq Decisions /\ 0 \notin Decisions
        BY <1>6, <1>7, <1>8, JournalFacts DEF Planned, Unpublished, JournalOK, ByApply
    <2>3. ByApply \subseteq Yes(b.sel) \cup abandoned /\ Yes(b.sel) \ touched \subseteq ByApply
        BY <1>7, <1>15, <2>1, <2>2 DEF Open
    <2>4. ByApply' \ abandoned' \subseteq Covered(journal')
        BY <1>6, <1>9, <2>1, <2>2, <2>3, JournalFacts
    <2>5. DiskOK'
        BY <1>6, <1>7, <1>9, <1>15, <2>4 DEF DiskOK, Open
    <2>6. Relies(u)'
        BY <1>6, <1>7, <1>9, <1>13, <1>15, <2>1, <2>3 DEF Relies, Publishing
    <2> QED
        BY <2>5, <2>6
<1> QED
    BY <1>1, <1>6, <1>7, <1>9, <1>12, <1>13, <1>14, <1>15, StepWork

\* The journal cannot follow what was published.
LEMMA UpdateFailsInv ==
    ASSUME ApplyInv, NEW c \in Calls, UpdateFails(c)
    PROVE  ApplyInv'
<1>1. PICK t : t = call[c]
    OBVIOUS
<1>2. PICK j : j = t.j
    OBVIOUS
<1>3. PICK k : k = IF t.pc = "record" THEN Recorded(j, j.inflight) ELSE Finalized(j)
    OBVIOUS
<1>4. PICK m : m = [k EXCEPT !.state = "cleanup_required"]
    OBVIOUS
<1>5. /\ t.pc = "record" \/ (t.pc = "next" /\ Unpublished(j) = {})
      /\ call[c].pc \in Publishing /\ Failure
      /\ \/ GoUndo(c, k, k.created, "return") /\ UNCHANGED journal
         \/ Go(c, "return") /\ journal' \in {journal, m}
      /\ UNCHANGED <<op, doc, files, locks, touched, raced, abandoned, doubled>>
    BY <1>1, <1>2, <1>3, <1>4 DEF UpdateFails, At, Publishing, history
<1>6. /\ t.pc \in Working /\ CallOK(t) /\ t \in CallType /\ doc \in Document /\ files \in [Decisions -> Contents]
      /\ abandoned \in SUBSET Decisions /\ (journal = NoJournal \/ JournalOK(journal))
      /\ JournalOK(j) /\ j \in Journal /\ j.state = "staged" /\ j.finalized = {}
      /\ ~doubled => /\ DiskOK /\ Open /\ doc.status = "pending" /\ (t.pc # "journal" => journal = j)
    BY <1>1, <1>2, <1>5, PublishFacts
<1>7. /\ JournalOK(k) /\ k \in Journal
      /\ j.created \cup j.updated \cup {j.inflight} \subseteq k.created \cup k.updated \cup {0} /\ k.inflight = 0
    <2>1. CASE t.pc = "record"
        <3>1. k = Recorded(j, j.inflight) /\ j.inflight # 0
            BY <1>2, <1>3, <1>6, <2>1 DEF CallOK
        <3> QED
            BY <1>6, <3>1, RecordedFacts
    <2>2. CASE t.pc = "next" /\ Unpublished(j) = {}
        <3>1. k = Finalized(j) /\ j.inflight = 0
            BY <1>2, <1>3, <1>6, <2>2 DEF CallOK
        <3> QED
            BY <1>6, <2>2, <3>1, FinalizedFacts
    <2> QED
        BY <1>5, <2>1, <2>2
<1>8. Covered(j) \subseteq k.created \cup k.updated \cup {0} /\ Covered(j) \subseteq Covered(k)
    BY <1>6, <1>7, JournalFacts
<1>9. JournalOK(m) /\ m.state = "cleanup_required" /\ Covered(m) = Covered(k)
    BY <1>4, <1>7, MarkedJournal
<1>10. CASE Go(c, "return") /\ journal' \in {journal, m}
    <2>1. ASSUME ~doubled PROVE DiskOK'
        <3>1. Covered(journal) \subseteq Covered(journal') /\ journal'.state # "document_saved" /\ Open
            BY <1>5, <1>6, <1>8, <1>9, <1>10, <2>1
        <3> QED
            BY <1>5, <3>1, OpenStays
    <2> QED
        BY <1>1, <1>5, <1>6, <1>9, <1>10, <2>1, StepReturn
<1>11. CASE GoUndo(c, k, k.created, "return") /\ UNCHANGED journal
    <2>1. PICK S : S = k.created
        OBVIOUS
    <2>2. PICK u : u = [t EXCEPT !.pc = "undo", !.j = k, !.todo = S, !.then = "return"]
        OBVIOUS
    <2>3. call' = [call EXCEPT ![c] = u]
        BY <1>1, <1>11, <2>1, <2>2, Zenon DEF GoUndo
    <2>4. /\ u \in CallType /\ u.pc = "undo" /\ u.stamp = t.stamp /\ u.want = t.want /\ u.holds = t.holds
          /\ u.j = k /\ u.todo = S /\ u.then = "return"
        <3>1. /\ "undo" \in CallPcs /\ k \in Journal \cup {NoJournal} /\ S \in SUBSET Decisions
              /\ "return" \in {"return", "check", "saved"}
            BY <1>7, <2>1, JournalFacts DEF CallPcs, Working
        <3> QED
            BY <1>6, <2>2, <3>1, Zenon DEF CallType
    <2>5. CallOK(u)
        BY <1>5, <1>6, <1>7, <2>4 DEF CallOK, Working, Publishing
    <2>6. ASSUME ~doubled PROVE DiskOK' /\ Relies(u)'
        <3>1. DiskOK'
            BY <1>5, <1>6, <1>11, <2>6, SameDisk
        <3>2. journal' = j /\ ByApply' = ByApply /\ ByApply \subseteq Decisions /\ 0 \notin Decisions
            BY <1>5, <1>6, <1>11, <2>6, JournalFacts DEF ByApply
        <3>3. ByApply' \ abandoned' \subseteq S \cup k.updated
            BY <1>5, <1>6, <1>8, <2>1, <2>6, <3>2 DEF Open
        <3>4. Relies(u)'
            BY <1>6, <1>8, <2>4, <3>2, <3>3 DEF Relies, Publishing
        <3> QED
            BY <3>1, <3>4
    <2> QED
        BY <1>1, <1>5, <1>6, <1>11, <2>3, <2>4, <2>5, <2>6, StepWork
<1> QED
    BY <1>5, <1>10, <1>11

-----------------------------------------------------------------------------
(* Saving the document.                                                    *)

\* The document is compared with what was read.
LEMMA CheckDocumentInv ==
    ASSUME ApplyInv, NEW c \in Calls, CheckDocument(c)
    PROVE  ApplyInv'
<1>1. PICK t : t = call[c]
    OBVIOUS
<1>2. /\ t.pc = "save" /\ call[c].pc \in Working
      /\ (Go(c, "rename") /\ doc = t.before) \/ Go(c, "return")
      /\ UNCHANGED <<op, doc, files, journal, locks, counts, touched, raced, abandoned, doubled>>
    BY <1>1 DEF CheckDocument, At, Working, history, disk
<1>3. /\ CallOK(t) /\ t \in CallType /\ doc \in Document /\ files \in [Decisions -> Contents]
      /\ abandoned \in SUBSET Decisions /\ (journal = NoJournal \/ JournalOK(journal))
      /\ ~doubled => DiskOK /\ Relies(t)
    BY <1>1, <1>2, WorkFacts
<1>4. ~doubled => DiskOK'
    BY <1>2, <1>3, SameDisk
<1>5. CASE Go(c, "return")
    BY <1>2, <1>3, <1>4, <1>5, StepReturn
<1>6. CASE Go(c, "rename") /\ doc = t.before
    <2>1. PICK u : u = Moved(t, "rename")
        OBVIOUS
    <2>2. "rename" \in CallPcs
        BY DEF CallPcs, Working
    <2>3. /\ u \in CallType /\ u.pc = "rename" /\ u.stamp = t.stamp /\ u.want = t.want /\ u.holds = t.holds
          /\ u.before = t.before /\ u.expected = t.expected /\ u.j = t.j /\ u.write = t.write /\ u.then = t.then
        BY <1>3, <2>1, <2>2, MovedFacts
    <2>4. CallOK(u)
        BY <1>2, <1>3, <2>3 DEF CallOK, Working, Publishing
    <2>5. ASSUME ~doubled PROVE Relies(u)'
        <3>1. /\ doc.status = "pending"
              /\ t.write.status # "apply_failed" =>
                    /\ journal.state # "staged"
                    /\ Yes(t.before.sel) \ touched \subseteq ByApply /\ ByApply \subseteq Yes(t.before.sel) \cup abandoned
            BY <1>2, <1>3, <2>5 DEF Relies
        <3>2. ByApply' = ByApply
            BY <1>2 DEF ByApply
        <3> QED
            BY <1>2, <1>6, <2>3, <3>1, <3>2 DEF Relies, Publishing
    <2> QED
        BY <1>1, <1>2, <1>3, <1>4, <1>6, <2>1, <2>2, <2>4, <2>5, StepGo
<1> QED
    BY <1>2, <1>5, <1>6

\* The document is replaced: it says what was published, or that nothing was.
LEMMA RenameInv ==
    ASSUME ApplyInv, NEW c \in Calls, RenameDocument(c)
    PROVE  ApplyInv'
<1>1. PICK t : t = call[c]
    OBVIOUS
<1>2. PICK b : b = t.before
    OBVIOUS
<1>3. /\ t.pc = "rename" /\ call[c].pc \in Working
      /\ \/ doc' = t.write /\ UNCHANGED counts /\ Go(c, t.then)
         \/ doc' \in {doc, t.write} /\ Failure /\ Go(c, "return")
      /\ UNCHANGED <<op, files, journal, locks, touched, raced, abandoned, doubled>>
    BY <1>1 DEF RenameDocument, At, Working, Works, history
<1>4. /\ CallOK(t) /\ t \in CallType /\ doc \in Document /\ files \in [Decisions -> Contents]
      /\ abandoned \in SUBSET Decisions /\ (journal = NoJournal \/ JournalOK(journal))
      /\ ~doubled => DiskOK /\ Relies(t)
    BY <1>1, <1>3, WorkFacts
<1>5. /\ b \in Document /\ t.write \in {Resolved(b, b.sel), Failed(b)} /\ t.then \in {"return", "saved"}
      /\ t.then = "saved" => t.write = Resolved(b, b.sel) /\ t.j \in Journal /\ t.j.state = "finalized"
    BY <1>2, <1>3, <1>4 DEF CallOK, CallType
<1>6. PICK w : w = Resolved(b, b.sel)
    OBVIOUS
<1>7. /\ w \in Document /\ w.sel = b.sel /\ w.res = ResultOf(b.sel) /\ w.status = StatusFor(b.sel)
      /\ w.status \in {"applied", "partially_applied", "needs_revision"}
    BY <1>5, <1>6, ResolvedFacts
<1>8. Failed(b) \in Document /\ Failed(b).status = "apply_failed"
    BY <1>5, FailedFacts
<1>9. ByApply' = ByApply
    BY <1>3 DEF ByApply
<1>10. ASSUME ~doubled, doc' = w, t.write = w PROVE Settled' /\ DiskOK'
    <2>1. /\ journal.state # "staged" /\ Yes(b.sel) \ touched \subseteq ByApply
          /\ ByApply \subseteq Yes(b.sel) \cup abandoned
        BY <1>2, <1>3, <1>4, <1>7, <1>10 DEF Relies
    <2>2. Settled'
        BY <1>3, <1>7, <1>9, <1>10, <2>1 DEF Settled
    <2> QED
        BY <1>3, <2>1, <2>2 DEF DiskOK
<1>11. ASSUME ~doubled, doc' \in {doc, Failed(b)} PROVE DiskOK'
    <2>1. doc.status = "pending" /\ DiskOK
        BY <1>3, <1>4, <1>11 DEF Relies
    <2>2. Open /\ journal.state # "document_saved"
        BY <2>1, StagedIsOpen
    <2> QED
        BY <1>3, <1>8, <1>9, <1>11, <2>1, <2>2 DEF DiskOK, Open
<1>12. doc' \in {doc, w, Failed(b)} /\ (doc' = w => t.write = w \/ doc' = doc \/ doc' = Failed(b)) /\ doc' \in Document
    BY <1>3, <1>4, <1>5, <1>6, <1>7, <1>8
<1>13. ~doubled => DiskOK'
    BY <1>10, <1>11, <1>12
<1>14. CASE Go(c, "return") /\ (UNCHANGED counts \/ Failure)
    BY <1>3, <1>4, <1>12, <1>13, <1>14, StepReturn
<1>15. CASE doc' = t.write /\ UNCHANGED counts /\ Go(c, t.then) /\ t.then = "saved"
    <2>1. PICK u : u = Moved(t, "saved")
        OBVIOUS
    <2>2. "saved" \in CallPcs
        BY DEF CallPcs, Working
    <2>3. /\ u \in CallType /\ u.pc = "saved" /\ u.stamp = t.stamp /\ u.want = t.want /\ u.holds = t.holds /\ u.j = t.j
        BY <1>4, <2>1, <2>2, MovedFacts
    <2>4. CallOK(u)
        BY <1>3, <1>4, <1>5, <1>15, <2>3 DEF CallOK, Working, Publishing
    <2>5. ASSUME ~doubled PROVE Relies(u)'
        <3>1. Settled'
            BY <1>5, <1>6, <1>10, <1>15, <2>5
        <3> QED
            BY <2>3, <3>1 DEF Relies, Publishing
    <2> QED
        BY <1>1, <1>3, <1>4, <1>12, <1>13, <1>15, <2>1, <2>2, <2>4, <2>5, StepGo
<1> QED
    BY <1>3, <1>5, <1>14, <1>15

\* The journal of the saved document is marked and goes.
LEMMA SavedInv ==
    ASSUME ApplyInv, NEW c \in Calls, MarkSaved(c) \/ RemoveJournal(c)
    PROVE  ApplyInv'
<1>1. PICK t : t = call[c]
    OBVIOUS
<1>2. PICK k : k = [t.j EXCEPT !.state = "document_saved"]
    OBVIOUS
<1>3. /\ t.pc \in {"saved", "drop"} /\ call[c].pc \in Working
      /\ \/ t.pc = "saved" /\ journal' = k /\ UNCHANGED counts /\ Go(c, "drop")
         \/ journal' \in {journal, NoJournal} /\ (UNCHANGED counts \/ Failure) /\ Go(c, "return")
      /\ UNCHANGED <<op, doc, files, locks, touched, raced, abandoned, doubled>>
    BY <1>1, <1>2 DEF MarkSaved, RemoveJournal, At, Working, Works, history
<1>4. /\ CallOK(t) /\ t \in CallType /\ doc \in Document /\ files \in [Decisions -> Contents]
      /\ abandoned \in SUBSET Decisions /\ (journal = NoJournal \/ JournalOK(journal))
      /\ ~doubled => DiskOK /\ Relies(t)
    BY <1>1, <1>3, WorkFacts
<1>5. ASSUME ~doubled PROVE Settled'
    <2>1. Settled
        BY <1>3, <1>4, <1>5 DEF Relies
    <2> QED
        BY <1>3, <2>1 DEF Settled, ByApply
<1>6. CASE t.pc = "saved" /\ journal' = k /\ UNCHANGED counts /\ Go(c, "drop")
    <2>1. t.j \in Journal /\ JournalOK(t.j) /\ t.j.state = "finalized"
        BY <1>4, <1>6, JournalFacts DEF CallOK
    <2>2. JournalOK(k) /\ k.state = "document_saved"
        BY <1>2, <2>1, MarkedJournal
    <2>3. PICK u : u = Moved(t, "drop")
        OBVIOUS
    <2>4. "drop" \in CallPcs
        BY DEF CallPcs, Working
    <2>5. /\ u \in CallType /\ u.pc = "drop" /\ u.stamp = t.stamp /\ u.want = t.want /\ u.holds = t.holds /\ u.j = t.j
        BY <1>4, <2>3, <2>4, MovedFacts
    <2>6. CallOK(u)
        BY <1>3, <1>4, <2>5 DEF CallOK, Working, Publishing
    <2>7. ASSUME ~doubled PROVE DiskOK' /\ Relies(u)'
        BY <1>5, <1>6, <2>2, <2>5, <2>7 DEF DiskOK, Relies, Publishing
    <2> QED
        BY <1>1, <1>3, <1>4, <1>6, <2>2, <2>3, <2>4, <2>6, <2>7, StepGo
<1>7. CASE journal' \in {journal, NoJournal} /\ (UNCHANGED counts \/ Failure) /\ Go(c, "return")
    <2>1. ASSUME ~doubled PROVE DiskOK'
        <3>1. CASE journal' = journal
            BY <1>3, <1>4, <2>1, <3>1, SameDisk
        <3>2. CASE journal' = NoJournal
            BY <1>5, <2>1, <3>2 DEF DiskOK, NoJournal
        <3> QED
            BY <1>7, <3>1, <3>2
    <2> QED
        BY <1>1, <1>3, <1>4, <1>7, <2>1, StepReturn
<1> QED
    BY <1>3, <1>6, <1>7

-----------------------------------------------------------------------------
(* The user, crashes, time.                                                *)

\* The user changes the document.
LEMMA EditInv ==
    ASSUME ApplyInv, NEW sel \in Selections, EditSelections(sel)
    PROVE  ApplyInv'
<1>1. /\ Edit /\ doc.status = "pending" /\ doc' = [doc EXCEPT !.sel = sel]
      /\ raced' = (raced \/ (\E c \in Calls : At(c, "rename")))
      /\ UNCHANGED <<op, files, journal, locks, call, touched, abandoned, doubled>>
    BY DEF EditSelections
<1>2. Typed /\ call \in [Calls -> CallType] /\ \A c \in Calls : CallOK(call[c])
    BY DEF ApplyInv
<1>3. doc' \in Document /\ doc'.status = "pending"
    BY <1>1, <1>2, DocumentsAssumption DEF Typed, Document
<1>4. counts' \in [applies : Nat, crashes : Nat, failures : Nat, edits : Nat]
    BY <1>1, <1>2 DEF Typed, Edit
<1>5. raced' \in BOOLEAN /\ (raced => raced') /\ ((\E c \in Calls : At(c, "rename")) => raced')
    BY <1>1, Zenon
<1>6. UNCHANGED <<op, files, journal, locks, call, touched, abandoned, doubled>>
    BY <1>1
<1>7. Typed'
    BY <1>2, <1>3, <1>4, <1>5, <1>6 DEF Typed
<1>8. ASSUME ~doubled PROVE Held' /\ DiskOK' /\ \A c \in Calls : Relies(call[c])'
    <2>1. Held /\ DiskOK /\ \A c \in Calls : Relies(call[c])
        BY <1>8 DEF ApplyInv
    <2>2. Open /\ journal.state # "document_saved"
        BY <1>1, <2>1, StagedIsOpen
    <2>3. Held'
        BY <1>6, <2>1 DEF Held
    <2>4. DiskOK'
        BY <1>3, <1>6, <2>2 DEF DiskOK, Open, ByApply
    <2>5. ~Settled
        <3>1. StatusFor(doc.sel) # "pending"
            BY DEF StatusFor
        <3> QED
            BY <1>1, <3>1 DEF Settled
    <2>6. ASSUME NEW c \in Calls PROVE Relies(call[c])'
        <3>1. Relies(call[c]) /\ call'[c] = call[c] /\ ByApply' = ByApply /\ (call[c].pc = "rename" => raced')
            BY <1>5, <1>6, <2>1 DEF ByApply, At
        <3> QED
            BY <1>3, <1>5, <1>6, <2>5, <3>1 DEF Relies, Publishing
    <2> QED
        BY <2>3, <2>4, <2>6
<1> QED
    BY <1>2, <1>6, <1>7, <1>8 DEF ApplyInv

\* The user changes a target.
LEMMA TouchInv ==
    ASSUME ApplyInv, NEW d \in Decisions, NEW content \in {NoFile, UserFile}, TouchTarget(d, content)
    PROVE  ApplyInv'
<1>1. /\ Edit /\ files' = [files EXCEPT ![d] = content]
      /\ touched' = touched \cup {d} /\ abandoned' = abandoned \ {d}
      /\ raced' = (raced \/ (\E c \in Calls :
                    \/ At(c, "replace") /\ call[c].j.inflight = d
                    \/ At(c, "remove") /\ Min(call[c].todo) = d))
      /\ UNCHANGED <<op, doc, journal, locks, call, doubled>>
    BY DEF TouchTarget
<1>2. Typed /\ call \in [Calls -> CallType] /\ \A c \in Calls : CallOK(call[c])
    BY DEF ApplyInv
<1>3. counts' \in [applies : Nat, crashes : Nat, failures : Nat, edits : Nat]
    BY <1>1, <1>2 DEF Typed, Edit
<1>4. raced' \in BOOLEAN /\ (raced => raced') /\ ((\E c \in Calls :
                    \/ At(c, "replace") /\ call[c].j.inflight = d
                    \/ At(c, "remove") /\ Min(call[c].todo) = d) => raced')
    BY <1>1, Zenon
<1>5. /\ UNCHANGED <<op, doc, journal, locks, call, doubled>>
      /\ touched' = touched \cup {d} /\ abandoned' = abandoned \ {d}
    BY <1>1
<1>6. /\ files' \in [Decisions -> Contents] /\ ByApply' = ByApply \ {d} /\ \A x \in Decisions \ {d} : files'[x] = files[x]
    <2>1. content \in Contents /\ content.by # "apply"
        BY DEF Contents, NoFile, UserFile
    <2>2. files \in [Decisions -> Contents] /\ files' = [files EXCEPT ![d] = content]
        BY <1>1, <1>2 DEF Typed
    <2>3. files' \in [Decisions -> Contents] /\ files'[d] = content /\ \A x \in Decisions \ {d} : files'[x] = files[x]
        BY <2>1, <2>2
    <2> QED
        BY <2>1, <2>3 DEF ByApply
<1>7. Typed'
    BY <1>2, <1>3, <1>4, <1>5, <1>6 DEF Typed
<1>8. ASSUME ~doubled PROVE Held' /\ DiskOK' /\ \A c \in Calls : Relies(call[c])'
    <2>1. Held /\ DiskOK /\ \A c \in Calls : Relies(call[c])
        BY <1>8 DEF ApplyInv
    <2>2. Held'
        BY <1>5, <2>1 DEF Held
    <2>3. (Open => Open') /\ (Settled => Settled')
        BY <1>5, <1>6 DEF Open, Settled
    <2>4. DiskOK'
        BY <1>5, <2>1, <2>3 DEF DiskOK
    <2>5. ASSUME NEW c \in Calls PROVE Relies(call[c])'
        <3>1. PICK t : t = call[c]
            OBVIOUS
        <3>2. /\ Relies(t) /\ call'[c] = t /\ CallOK(t) /\ t \in CallType
              /\ (t.pc = "replace" /\ t.j.inflight = d) \/ (t.pc = "remove" /\ Min(t.todo) = d) => raced'
            BY <1>2, <1>4, <1>5, <2>1, <3>1 DEF At
        <3>3. t.pc = "replace" => raced' \/ files'[t.j.inflight] = OldPage
            <4>1. t.pc = "replace" => t.j.inflight \in Decisions
                BY <3>2, JournalFacts DEF CallOK, JournalOK, Unpublished, Publishing
            <4> QED
                BY <1>4, <1>6, <3>2, <4>1 DEF Relies
        <3>4. t.pc = "remove" => raced' \/ files'[Min(t.todo)] = Written(t.j.stamp)
            <4>1. t.pc = "remove" => Min(t.todo) \in Decisions
                <5>1. t.pc = "remove" => t.todo # {} /\ t.todo \subseteq Decisions /\ t.todo \subseteq Nat
                    BY <3>2 DEF CallOK, CallType, Decisions
                <5> QED
                    BY <5>1, MinFacts
            <4> QED
                BY <1>4, <1>6, <3>2, <4>1 DEF Relies
        <3>5. Relies(t)'
            BY <1>4, <1>5, <1>6, <2>3, <3>2, <3>3, <3>4 DEF Relies
        <3> QED
            BY <3>2, <3>5 DEF Relies
    <2> QED
        BY <2>2, <2>4, <2>5
<1> QED
    BY <1>2, <1>5, <1>7, <1>8 DEF ApplyInv

\* The app dies.
LEMMA CrashInv ==
    ASSUME ApplyInv, Crash
    PROVE  ApplyInv'
<1>1. /\ counts' = [counts EXCEPT !.crashes = @ + 1] /\ call' = [c \in Calls |-> Idle]
      /\ locks' = [l \in Locks |-> IF locks[l] \in Calls THEN "left" ELSE locks[l]]
      /\ UNCHANGED <<op, doc, files, journal, touched, raced, abandoned, doubled>>
    BY DEF Crash, disk, history
<1>2. Typed
    BY DEF ApplyInv
<1>3. counts' \in [applies : Nat, crashes : Nat, failures : Nat, edits : Nat]
    BY <1>1, <1>2 DEF Typed
<1>4. UNCHANGED <<op, doc, files, journal, touched, raced, abandoned, doubled>>
    BY <1>1
<1>5. locks' \in [Locks -> Calls \cup {"free", "left", "stale"}]
    BY <1>1, <1>2 DEF Typed
<1>6. Typed'
    BY <1>2, <1>3, <1>4, <1>5 DEF Typed
<1>7. /\ call' \in [Calls -> CallType] /\ \A c \in Calls : call'[c] = Idle
      /\ Idle.holds = {} /\ Idle.pc = "idle" /\ CallOK(Idle)
    BY <1>1, IdleOK DEF CallOK
<1>8. ASSUME ~doubled PROVE Held' /\ DiskOK' /\ \A c \in Calls : Relies(call[c])'
    <2>1. DiskOK'
        BY <1>4, <1>8, SameDisk DEF ApplyInv
    <2>2. Held'
        BY <1>7 DEF Held
    <2>3. ASSUME NEW c \in Calls PROVE Relies(call[c])'
        <3>1. call'[c].pc = "idle"
            BY <1>7
        <3> QED
            BY <3>1 DEF Relies, Publishing
    <2> QED
        BY <2>1, <2>2, <2>3
<1> QED
    BY <1>4, <1>6, <1>7, <1>8 DEF ApplyInv

\* Locks that a crash left grow old; nothing changes too.
LEMMA AgeInv ==
    ASSUME ApplyInv, LocksAge \/ UNCHANGED vars
    PROVE  ApplyInv'
<1>1. UNCHANGED <<op, doc, files, journal, call, counts, touched, raced, abandoned, doubled>>
    BY DEF LocksAge, vars, disk, history
<1>2. Typed /\ call \in [Calls -> CallType] /\ \A c \in Calls : CallOK(call[c])
    BY DEF ApplyInv
<1>3. locks' \in [Locks -> Calls \cup {"free", "left", "stale"}] /\ \A l \in Locks : locks[l] # "left" => locks'[l] = locks[l]
    <2>1. CASE LocksAge
        BY <1>2, <2>1 DEF LocksAge, Typed
    <2>2. CASE UNCHANGED vars
        BY <1>2, <2>2 DEF vars, Typed
    <2> QED
        BY <2>1, <2>2
<1>4. Typed'
    BY <1>1, <1>2, <1>3 DEF Typed
<1>5. ASSUME ~doubled PROVE Held' /\ DiskOK' /\ \A c \in Calls : Relies(call[c])'
    <2>1. DiskOK'
        BY <1>1, <1>5, SameDisk DEF ApplyInv
    <2>2. ASSUME NEW c \in Calls, NEW l \in call'[c].holds PROVE locks'[l] = c
        <3>1. l \in Locks /\ locks[l] = c
            BY <1>1, <1>2, <1>5 DEF ApplyInv, Held, CallType
        <3> QED
            BY <1>3, <3>1, KnowledgeApplyAssumption
    <2>3. \A c \in Calls : Relies(call[c])'
        BY <1>1, <1>5 DEF ApplyInv, Relies, Settled, ByApply
    <2> QED
        BY <2>1, <2>2, <2>3 DEF Held
<1> QED
    BY <1>1, <1>2, <1>4, <1>5 DEF ApplyInv

\* The invariant holds at first.
LEMMA InitInv == Init => ApplyInv
<1> SUFFICES ASSUME Init PROVE ApplyInv
    OBVIOUS
<1>1. op \in [Decisions -> {"create", "update"}]
    BY DocumentsAssumption DEF Init
<1>2. doc \in Document /\ doc.status = "pending"
    BY DocumentsAssumption DEF Init, Document
<1>3. files \in [Decisions -> Contents] /\ ByApply = {}
    BY DEF Init, Contents, ByApply, NoFile, OldPage
<1>4. /\ journal = NoJournal /\ locks \in [Locks -> Calls \cup {"free", "left", "stale"}]
      /\ call = [c \in Calls |-> Idle] /\ touched \in SUBSET Decisions /\ abandoned \in SUBSET Decisions
      /\ raced \in BOOLEAN /\ doubled \in BOOLEAN
    BY DEF Init
<1>5. counts \in [applies : Nat, crashes : Nat, failures : Nat, edits : Nat]
    BY DEF Init
<1>6. Typed
    BY <1>1, <1>2, <1>3, <1>4, <1>5 DEF Typed
<1>7. /\ call \in [Calls -> CallType] /\ \A c \in Calls : call[c] = Idle
      /\ Idle.holds = {} /\ Idle.pc = "idle" /\ CallOK(Idle)
    BY <1>4, IdleOK DEF CallOK
<1>8. DiskOK
    BY <1>2, <1>3, <1>4 DEF DiskOK, Open, NoJournal
<1>9. Held /\ \A c \in Calls : Relies(call[c])
    BY <1>7 DEF Held, Relies, Publishing
<1> QED
    BY <1>6, <1>7, <1>8, <1>9 DEF ApplyInv

\* Every step keeps it.
LEMMA NextInv == ApplyInv /\ [Next]_vars => ApplyInv'
<1> SUFFICES ASSUME ApplyInv, [Next]_vars PROVE ApplyInv'
    OBVIOUS
<1>1. ASSUME NEW c \in Calls, LockStep(c) PROVE ApplyInv'
    BY <1>1, StartInv, CreateInv, LookInv, ReturnInv, GiveUpInv DEF LockStep
<1>2. ASSUME NEW c \in Calls, JournalStep(c) PROVE ApplyInv'
    BY <1>2, ReadInv, RecoverStagedInv, RecoverFinalizedInv, MismatchInv, UndoInv, RemoveInv, UndoDoneInv,
       UndoFailsInv DEF JournalStep
<1>3. ASSUME NEW c \in Calls, ApplyStep(c) PROVE ApplyInv'
    BY <1>3, CheckInv, WriteJournalInv, StageInv, MarkInflightInv, PublishInv, CheckPageInv, PublishFailsInv,
       RecordInv, FinalizeInv, UpdateFailsInv, CheckDocumentInv, RenameInv, SavedInv DEF ApplyStep
<1>4. CASE UserStep
    BY <1>4, EditInv, TouchInv DEF UserStep
<1>5. CASE Crash
    BY <1>5, CrashInv
<1>6. CASE LocksAge \/ UNCHANGED vars
    BY <1>6, AgeInv
<1> QED
    BY <1>1, <1>2, <1>3, <1>4, <1>5, <1>6 DEF Next

-----------------------------------------------------------------------------
(* What applying promises.                                                 *)

\* Calls, locks, journal, document and files agree at every instant, whatever
\* crashes, fails or is changed by the user.
THEOREM ApplyInvariant == Spec => []ApplyInv
BY InitInv, NextInv, PTL DEF Spec

\* Everything keeps its type, and every journal is in order.
THEOREM ApplyTypeOK == Spec => []TypeOK
<1>1. ApplyInv => TypeOK
    <2> SUFFICES ASSUME ApplyInv PROVE TypeOK
        OBVIOUS
    <2>1. doc \in Document /\ files \in [Decisions -> Contents] /\ (journal # NoJournal => JournalOK(journal))
        BY DEF ApplyInv, Typed
    <2>2. \A c \in Calls : call[c].j # NoJournal => JournalOK(call[c].j)
        BY DEF ApplyInv, CallOK
    <2>3. ASSUME NEW c \in Calls, NEW j \in {journal, call[c].j} \ {NoJournal} PROVE JournalOK(j)
        BY <2>1, <2>2
    <2> QED
        BY <2>1, <2>3 DEF TypeOK, JournalOK, Contents
<1> QED
    BY <1>1, ApplyInvariant, PTL

\* Unless a lock in use is taken over, at most one command works on the document.
THEOREM OneApply == Spec => []OneApplyAtATime
<1>1. ApplyInv => OneApplyAtATime
    <2> SUFFICES ASSUME ApplyInv, ~doubled PROVE Cardinality({c \in Calls : InUse(c)}) <= 1
        BY DEF OneApplyAtATime
    <2>1. PICK S : S = {c \in Calls : InUse(c)}
        OBVIOUS
    <2>2. \A c, d \in S : c = d
        <3> SUFFICES ASSUME NEW c \in S, NEW d \in S PROVE c = d
            OBVIOUS
        <3>1. c \in Calls /\ d \in Calls /\ "apply" \in call[c].holds /\ "apply" \in call[d].holds
            BY <2>1 DEF InUse, Locks
        <3> QED
            BY <3>1 DEF ApplyInv, Held
    <2>3. CASE S = {}
        BY <2>1, <2>3, FS_EmptySet
    <2>4. CASE S # {}
        <3>1. PICK c : S = {c}
            BY <2>2, <2>4
        <3>2. Cardinality(S) = 1
            BY <3>1, FS_Singleton
        <3> QED
            BY <2>1, <3>2
    <2> QED
        BY <2>3, <2>4
<1> QED
    BY <1>1, ApplyInvariant, PTL

\* A published file is in the journal on disk until the document says so, and what
\* a resolved document says is so.
THEOREM AccountedFiles == Spec => []PublishedIsAccounted
<1>1. ApplyInv => PublishedIsAccounted
    BY DEF ApplyInv, PublishedIsAccounted, DiskOK, Open, Settled
<1> QED
    BY <1>1, ApplyInvariant, PTL

\* A step of a call replaces what the call has checked.
LEMMA StepReplaces ==
    ASSUME ApplyInv, Next, ~raced, ~doubled, counts'.edits = counts.edits
    PROVE  /\ doc' = doc \/ (\E c \in Calls : doc = call[c].expected)
           /\ \A d \in Decisions : files[d] = UserFile => files'[d] = files[d]
<1>1. \A c \in Calls : CallOK(call[c]) /\ Relies(call[c])
    BY DEF ApplyInv
<1>2. files \in [Decisions -> Contents] /\ counts.edits \in Nat
    BY DEF ApplyInv, Typed
<1>3. CASE UNCHANGED <<doc, files>>
    BY <1>3
<1>4. ASSUME NEW c \in Calls, RenameDocument(c) PROVE UNCHANGED files /\ doc = call[c].expected
    <2>1. UNCHANGED files /\ call[c].pc = "rename"
        BY <1>4 DEF RenameDocument, At
    <2>2. call[c].before = call[c].expected /\ doc = call[c].before
        BY <1>1, <2>1 DEF CallOK, Relies
    <2> QED
        BY <2>1, <2>2
<1>5. ASSUME NEW c \in Calls, NEW d, NEW content, UNCHANGED doc, files' = [files EXCEPT ![d] = content], files[d] # UserFile
      PROVE  UNCHANGED doc /\ \A e \in Decisions : files[e] = UserFile => files'[e] = files[e]
    BY <1>2, <1>5
<1>6. ASSUME NEW c \in Calls, RemoveFile(c)
      PROVE  UNCHANGED doc /\ \A d \in Decisions : files[d] = UserFile => files'[d] = files[d]
    <2>1. PICK d : d = Min(call[c].todo)
        OBVIOUS
    <2>2. UNCHANGED doc /\ call[c].pc = "remove" /\ (UNCHANGED files \/ files' = [files EXCEPT ![d] = NoFile])
        BY <1>6, <2>1 DEF RemoveFile, At
    <2>3. files[d] = Written(call[c].j.stamp)
        BY <1>1, <2>1, <2>2 DEF Relies
    <2>4. files[d] # UserFile
        BY <2>3 DEF Written, UserFile
    <2> QED
        BY <1>5, <2>2, <2>4
<1>7. ASSUME NEW c \in Calls, PublishNew(c) \/ ReplacePage(c)
      PROVE  UNCHANGED doc /\ \A d \in Decisions : files[d] = UserFile => files'[d] = files[d]
    <2>1. PICK d : d = call[c].j.inflight
        OBVIOUS
    <2>2. /\ UNCHANGED doc /\ files' = [files EXCEPT ![d] = Written(call[c].j.stamp)]
          /\ call[c].pc = "replace" \/ files[d] = NoFile
        BY <1>7, <2>1 DEF PublishNew, ReplacePage, At
    <2>3. files[d] \in {OldPage, NoFile}
        BY <1>1, <2>1, <2>2 DEF Relies
    <2>4. files[d] # UserFile
        BY <2>3 DEF OldPage, NoFile, UserFile
    <2> QED
        BY <1>5, <2>2, <2>4
<1>8. ~UserStep
    <2>1. ~Edit
        BY <1>2 DEF Edit, ApplyInv, Typed
    <2> QED
        BY <2>1 DEF UserStep, EditSelections, TouchTarget
<1>9. ASSUME NEW c \in Calls, LockStep(c) PROVE UNCHANGED <<doc, files>>
    BY <1>9 DEF LockStep, Start, CreateLock, LockExists, LockIsStale, ReplaceStaleLock, Return, GiveUp, disk
<1>10. ASSUME NEW c \in Calls, JournalStep(c) PROVE UNCHANGED <<doc, files>> \/ RemoveFile(c)
    BY <1>10 DEF JournalStep, ReadNoJournal, DropJournal, RecoverStaged, RecoverUnclear, CleanupOrphan, RefuseRecovery,
        RecoverFinalized, FinalizedMismatch, Undo, UndoDone, UndoFails, disk
<1>11. ASSUME NEW c \in Calls, ApplyStep(c)
       PROVE  UNCHANGED <<doc, files>> \/ RenameDocument(c) \/ PublishNew(c) \/ ReplacePage(c)
    BY <1>11 DEF ApplyStep, Check, WriteJournal, Stage, MarkInflight, CheckPage, PublishFails, RecordPublished, Finalize,
        UpdateFails, CheckDocument, MarkSaved, RemoveJournal, disk
<1>12. Crash \/ LocksAge => UNCHANGED <<doc, files>>
    BY DEF Crash, LocksAge, disk
<1> QED
    BY <1>3, <1>4, <1>6, <1>7, <1>8, <1>9, <1>10, <1>11, <1>12 DEF Next

\* Outside the windows between a check and the write it guards, the app replaces
\* the document only as the user saw it, and no file that somebody else wrote.
THEOREM SeenIsReplaced == Spec => OnlySeenIsReplaced
<1>1. ApplyInv /\ [Next]_vars =>
        [ ~raced /\ ~doubled /\ counts'.edits = counts.edits =>
            /\ doc' = doc \/ (\E c \in Calls : doc = call[c].expected)
            /\ \A d \in Decisions : files[d] = UserFile => files'[d] = files[d] ]_vars
    BY StepReplaces
<1> QED
    BY <1>1, ApplyInvariant, PTL DEF Spec, OnlySeenIsReplaced

-----------------------------------------------------------------------------
(* Crashes alone.                                                          *)

\* New files alone, no failure and no change by the user so far: whatever went wrong
\* was a crash.
OnlyCrashes ==
    ~doubled /\ (\A d \in Decisions : op[d] = "create") /\ counts.failures = 0 /\ counts.edits = 0

\* A journal that can be undone or finished: it is of the document as it is, files are
\* its own or not there, and once they are all published they are all there.
Repairable(j) ==
    /\ j.updated = {} /\ j.state # "cleanup_required"
    /\ j.before.sel = doc.sel /\ (doc.status = "pending" => j.before = doc)
    /\ \A d \in Decisions : files[d] \in {NoFile, Written(j.stamp)}
    /\ j.state # "staged" => \A d \in Planned(j) : files[d] = Written(j.stamp)

RepairableDisk ==
    /\ ~raced /\ touched = {} /\ abandoned = {}
    /\ doc.status # "apply_failed"
    /\ \A d \in Decisions : files[d] # NoFile => files[d].by = "apply"
    /\ journal # NoJournal => Repairable(journal)

\* What CrashesAreRepaired says of a call that returns.
Repaired(t) ==
    t.recover /\ Decided(doc.sel) /\ t.expected.status = "pending"
        => doc.status = StatusFor(doc.sel) /\ journal = NoJournal

\* A call t that holds both locks gets through.
GetsThrough(t) ==
    /\ t.pc # "replace"
    /\ t.pc \in Publishing \cup {"check", "undo", "remove", "save", "rename"} => t.before = doc
    /\ t.pc = "publish" => files[t.j.inflight] = NoFile
    /\ t.pc \in {"undo", "remove"} => t.j = journal /\ t.then = "check"
    /\ t.pc \in {"save", "rename"} =>
        /\ t.write.status # "apply_failed"
        /\ t.then = "return" => journal = NoJournal
        /\ t.then = "saved" => journal = t.j
    /\ t.pc = "saved" => journal = t.j
    /\ t.pc = "return" => Repaired(t)

CrashCall(t) ==
    /\ t.pc # "idle" /\ doc.status = "pending" => t.expected = doc
    /\ t.pc \in {"create", "stat", "takeover", "recreate"} => "document" \notin t.holds
    /\ t.holds = Locks => GetsThrough(t)

\* The invariant, on top of ApplyInv.
RepairInv == OnlyCrashes => RepairableDisk /\ \A c \in Calls : CrashCall(call[c])

\* A step after which nothing has failed is no failure and no change by the user, and
\* nothing had failed before it.
LEMMA NoFault ==
    ASSUME ApplyInv, OnlyCrashes'
    PROVE  ~Failure /\ ~Edit
<1>1. counts \in [applies : Nat, crashes : Nat, failures : Nat, edits : Nat]
    BY DEF ApplyInv, Typed
<1>2. counts'.failures = 0 /\ counts'.edits = 0
    BY DEF OnlyCrashes
<1>3. ASSUME Failure PROVE FALSE
    <2>1. counts'.failures = counts.failures + 1 /\ counts.failures \in Nat
        BY <1>1, <1>3 DEF Failure
    <2> QED
        BY <1>2, <2>1
<1>4. ASSUME Edit PROVE FALSE
    <2>1. counts'.edits = counts.edits + 1 /\ counts.edits \in Nat
        BY <1>1, <1>4 DEF Edit
    <2> QED
        BY <1>2, <2>1
<1> QED
    BY <1>3, <1>4

\* What is known of a call at work.
LEMMA RepairFacts ==
    ASSUME ApplyInv, OnlyCrashes, RepairInv, NEW c \in Calls, call[c].pc \in Working
    PROVE  /\ CallOK(call[c]) /\ call[c] \in CallType /\ Relies(call[c]) /\ GetsThrough(call[c])
           /\ doc.status = "pending" => call[c].expected = doc
           /\ doc \in Document /\ files \in [Decisions -> Contents]
           /\ journal = NoJournal \/ JournalOK(journal)
           /\ DiskOK /\ RepairableDisk
           /\ (\A d \in Decisions : op[d] = "create") /\ ~doubled
<1>1. ~doubled /\ (\A d \in Decisions : op[d] = "create")
    BY DEF OnlyCrashes
<1>2. /\ CallOK(call[c]) /\ call[c] \in CallType /\ Relies(call[c])
      /\ doc \in Document /\ files \in [Decisions -> Contents]
      /\ journal = NoJournal \/ JournalOK(journal)
      /\ DiskOK
    BY <1>1, WorkFacts
<1>3. CrashCall(call[c]) /\ RepairableDisk
    BY DEF RepairInv
<1>4. call[c].holds = Locks /\ call[c].pc # "idle"
    BY <1>2 DEF CallOK, Working, Publishing
<1> QED
    BY <1>1, <1>2, <1>3, <1>4 DEF CrashCall

\* What is left to show of a step of a call at work.
LEMMA RepairStep ==
    ASSUME ApplyInv, OnlyCrashes, RepairInv, NEW c \in Calls, call[c].pc \in Working,
           NEW u, call' = [call EXCEPT ![c] = u], u.expected = call[c].expected,
           u.pc \notin {"create", "stat", "takeover", "recreate"},
           doc'.status = "pending" => doc' = doc, RepairableDisk', GetsThrough(u)'
    PROVE  RepairInv'
<1>1. call'[c] = u /\ \A d \in Calls \ {c} : call'[d] = call[d]
    BY DEF ApplyInv
<1>2. \A d \in Calls : CrashCall(call[d])
    BY DEF RepairInv
<1>3. call[c].holds = Locks /\ call[c].pc # "idle"
    BY DEF ApplyInv, CallOK, Working, Publishing
<1>4. ASSUME NEW d \in Calls PROVE CrashCall(call[d])'
    <2>1. CASE d = c
        BY <1>1, <1>2, <1>3, <2>1 DEF CrashCall, GetsThrough, Repaired
    <2>2. CASE d # c
        <3>1. Held
            BY DEF ApplyInv, OnlyCrashes
        <3>2. call'[d] = call[d] /\ CrashCall(call[d])
            BY <1>1, <1>2, <2>2
        <3>3. call[d].holds # Locks
            <4>1. "apply" \in Locks
                BY DEF Locks
            <4> QED
                BY <1>3, <2>2, <3>1, <4>1 DEF Held
        <3> QED
            BY <3>2, <3>3 DEF CrashCall
    <2> QED
        BY <2>1, <2>2
<1> QED
    BY <1>4 DEF RepairInv

\* The disk stays repairable as it is.
LEMMA SameRepairable ==
    ASSUME RepairableDisk, UNCHANGED <<doc, files, journal, raced, touched, abandoned>>
    PROVE  RepairableDisk'
BY DEF RepairableDisk, Repairable

\* ... and without its journal.
LEMMA RepairableWithout ==
    ASSUME RepairableDisk, UNCHANGED <<doc, files, raced, touched, abandoned>>, journal' = NoJournal
    PROVE  RepairableDisk'
BY DEF RepairableDisk

\* A step of a call at work that changes its place only.
LEMMA RepairGo ==
    ASSUME ApplyInv, OnlyCrashes, RepairInv, NEW c \in Calls, call[c].pc \in Working,
           NEW pc \in CallPcs, Go(c, pc), pc \notin {"create", "stat", "takeover", "recreate"},
           doc'.status = "pending" => doc' = doc, RepairableDisk',
           \A u : u = Moved(call[c], pc) => GetsThrough(u)'
    PROVE  RepairInv'
<1>1. PICK t : t = call[c]
    OBVIOUS
<1>2. PICK u : u = Moved(t, pc)
    OBVIOUS
<1>3. t \in CallType
    BY <1>1 DEF ApplyInv
<1>4. u.expected = t.expected /\ u.pc = pc
    BY <1>2, <1>3, MovedFacts
<1>5. call' = [call EXCEPT ![c] = u]
    BY <1>1, <1>2 DEF Go, Moved
<1>6. GetsThrough(u)'
    BY <1>1, <1>2
<1> QED
    BY <1>1, <1>4, <1>5, <1>6, RepairStep

\* The state of a file that is the journal's or not there.
LEMMA PathStates ==
    ASSUME NEW j, NEW d
    PROVE  /\ files[d] = NoFile => PathState(j, d) = "missing"
           /\ files[d] = Written(j.stamp) => PathState(j, d) = "match" /\ files[d] # NoFile
BY DEF PathState, NoFile, Written

\* While the document is pending, files are there only if the journal covers them.
LEMMA PendingFiles ==
    ASSUME DiskOK, RepairableDisk, doc.status = "pending", NEW d \in Decisions, d \notin Covered(journal)
    PROVE  files[d] = NoFile
<1>1. Open
    BY StagedIsOpen
<1>2. d \notin ByApply
    BY <1>1 DEF Open, RepairableDisk
<1> QED
    BY <1>2 DEF RepairableDisk, ByApply

-----------------------------------------------------------------------------
(* Crashes alone: the locks.                                               *)

\* What is left to show of a step about the locks.
LEMMA RepairLock ==
    ASSUME ApplyInv, OnlyCrashes, RepairInv, NEW c \in Calls, NEW u, call' = [call EXCEPT ![c] = u],
           UNCHANGED <<disk, touched, raced, abandoned>>, CrashCall(u)
    PROVE  RepairInv'
<1>1. call'[c] = u /\ \A d \in Calls \ {c} : call'[d] = call[d]
    BY DEF ApplyInv
<1>2. RepairableDisk /\ \A d \in Calls : CrashCall(call[d])
    BY DEF RepairInv
<1>3. UNCHANGED <<doc, files, journal, raced, touched, abandoned>>
    BY DEF disk
<1>4. RepairableDisk'
    BY <1>2, <1>3, SameRepairable
<1>5. ASSUME NEW t, CrashCall(t) PROVE CrashCall(t)'
    BY <1>3, <1>5 DEF CrashCall, GetsThrough, Repaired
<1>6. ASSUME NEW d \in Calls PROVE CrashCall(call[d])'
    <2>1. PICK t : t = call'[d]
        OBVIOUS
    <2>2. CrashCall(t)
        BY <1>1, <1>2, <2>1
    <2>3. CrashCall(t)'
        BY <1>5, <2>2
    <2> QED
        BY <2>1, <2>3 DEF CrashCall, GetsThrough, Repaired
<1> QED
    BY <1>4, <1>6 DEF RepairInv

\* Taking, waiting for and giving back locks.
LEMMA RepairLocks ==
    ASSUME ApplyInv, OnlyCrashes, OnlyCrashes', RepairInv, NEW c \in Calls, LockStep(c)
    PROVE  RepairInv'
<1>1. PICK t : t = call[c]
    OBVIOUS
<1>2. t \in CallType /\ CrashCall(t)
    BY <1>1 DEF ApplyInv, RepairInv
<1>3. "document" \in Locks /\ Locks # {}
    BY DEF Locks
<1>4. ASSUME NEW pc \in {"stat", "return", "takeover", "recreate"}, Go(c, pc), UNCHANGED <<disk, touched, raced, abandoned>>,
             t.pc \in {"create", "stat", "takeover", "recreate"}
      PROVE  RepairInv'
    <2>1. PICK u : u = Moved(t, pc)
        OBVIOUS
    <2>2. u.pc = pc /\ u.holds = t.holds /\ u.expected = t.expected
        BY <1>2, <2>1, MovedFacts DEF CallPcs
    <2>3. call' = [call EXCEPT ![c] = u]
        BY <1>1, <1>4, <2>1 DEF Go, Moved
    <2>4. "document" \notin t.holds /\ t.pc # "idle"
        BY <1>2, <1>4 DEF CrashCall
    <2>5. CrashCall(u)
        BY <1>2, <1>3, <2>2, <2>4 DEF CrashCall
    <2> QED
        BY <1>4, <2>3, <2>5, RepairLock
<1>5. ASSUME NEW recover \in BOOLEAN, Start(c, recover) PROVE RepairInv'
    <2>1. PICK n, b : n = counts.applies + 1 /\ b = doc
        OBVIOUS
    <2>2. PICK u : u = [Idle EXCEPT !.pc = "create", !.stamp = n, !.expected = b, !.recover = recover]
        OBVIOUS
    <2>3. u.holds = {} /\ u.expected = b /\ u.pc = "create"
        BY <2>2 DEF Idle
    <2>4. call' = [call EXCEPT ![c] = u] /\ UNCHANGED <<disk, touched, raced, abandoned>>
        BY <1>5, <2>1, <2>2, Zenon DEF Start, history
    <2>5. CrashCall(u)
        BY <1>3, <2>1, <2>3 DEF CrashCall
    <2> QED
        BY <2>4, <2>5, RepairLock
<1>6. ASSUME CreateLock(c) PROVE RepairInv'
    <2>1. PICK l, h, pc : l = t.want /\ h = t.holds \cup {l} /\ pc = IF l = "apply" THEN "create" ELSE "read"
        OBVIOUS
    <2>2. PICK u : u = [t EXCEPT !.holds = h, !.want = "document", !.pc = pc]
        OBVIOUS
    <2>3. l \in Locks /\ h \in SUBSET Locks /\ pc \in CallPcs /\ "document" \in Locks
        BY <1>2, <2>1 DEF CallType, Locks, CallPcs, Working
    <2>4. u.pc = pc /\ u.holds = h /\ u.expected = t.expected
        BY <1>2, <2>2, <2>3, Zenon DEF CallType
    <2>5. call' = [call EXCEPT ![c] = u] /\ UNCHANGED <<disk, touched, raced, abandoned>>
        BY <1>1, <1>6, <2>1, <2>2, Zenon DEF CreateLock, history
    <2>6. "document" \notin t.holds /\ t.pc # "idle"
        BY <1>1, <1>2, <1>6 DEF CrashCall, CreateLock
    <2>7. CASE l = "apply"
        <3>1. u.pc = "create" /\ "document" \notin h
            BY <2>1, <2>4, <2>6, <2>7
        <3>2. CrashCall(u)
            BY <1>2, <1>3, <2>4, <2>6, <3>1 DEF CrashCall
        <3> QED
            BY <2>5, <3>2, RepairLock
    <2>8. CASE l # "apply"
        <3>1. u.pc = "read"
            BY <2>1, <2>4, <2>8
        <3>2. GetsThrough(u)
            BY <3>1 DEF GetsThrough, Publishing
        <3>3. CrashCall(u)
            BY <1>2, <2>4, <2>6, <3>1, <3>2 DEF CrashCall
        <3> QED
            BY <2>5, <3>3, RepairLock
    <2> QED
        BY <2>7, <2>8
<1>7. ASSUME LockExists(c) PROVE RepairInv'
    BY <1>1, <1>4, <1>7 DEF LockExists, history
<1>8. ASSUME LockIsStale(c) PROVE RepairInv'
    BY <1>1, <1>4, <1>8 DEF LockIsStale, At, history
<1>9. ASSUME ReplaceStaleLock(c) PROVE RepairInv'
    BY <1>1, <1>4, <1>9 DEF ReplaceStaleLock, At
<1>10. ASSUME Return(c) PROVE RepairInv'
    <2>1. PICK u : u = Idle
        OBVIOUS
    <2>2. u.pc = "idle" /\ u.holds = {}
        BY <2>1, IdleOK
    <2>3. CrashCall(u)
        BY <1>3, <2>2 DEF CrashCall
    <2>4. call' = [call EXCEPT ![c] = u] /\ UNCHANGED <<disk, touched, raced, abandoned>>
        BY <1>10, <2>1 DEF Return, history
    <2> QED
        BY <2>3, <2>4, RepairLock
<1>11. ~GiveUp(c)
    BY NoFault DEF GiveUp
<1> QED
    BY <1>5, <1>6, <1>7, <1>8, <1>9, <1>10, <1>11 DEF LockStep

-----------------------------------------------------------------------------
(* Crashes alone: an existing journal.                                     *)

\* A call that reads the document and goes on to check it, or ends.
LEMMA RepairRead ==
    ASSUME ApplyInv, OnlyCrashes, RepairInv, NEW c \in Calls, At(c, "read"), NEW pc \in {"check", "return"},
           Reading(c, pc), UNCHANGED doc, RepairableDisk', pc = "return" => ~call[c].recover
    PROVE  RepairInv'
<1>1. PICK t, b : t = call[c] /\ b = doc
    OBVIOUS
<1>2. PICK u : u = HasRead(t, pc, b)
    OBVIOUS
<1>3. call[c].pc \in Working
    BY DEF At, Working
<1>4. t \in CallType /\ b \in Document
    BY <1>1, <1>3, RepairFacts
<1>5. u.pc = pc /\ u.before = b /\ u.expected = t.expected /\ u.recover = t.recover
    <2>1. pc \in CallPcs /\ b \in Document \cup {NoDoc}
        BY <1>4 DEF CallPcs, Working
    <2> QED
        BY <1>2, <1>4, <2>1, Zenon DEF CallType, HasRead
<1>6. call' = [call EXCEPT ![c] = u]
    BY <1>1, <1>2, Zenon DEF Reading, HasRead
<1>7. GetsThrough(u)'
    BY <1>1, <1>5 DEF GetsThrough, Publishing, Repaired
<1> QED
    BY <1>1, <1>3, <1>5, <1>6, <1>7, RepairStep

\* No journal, one with nothing to undo, or one of a document that was saved.
LEMMA RepairDrop ==
    ASSUME ApplyInv, OnlyCrashes, RepairInv, NEW c \in Calls, ReadNoJournal(c) \/ DropJournal(c)
    PROVE  RepairInv'
<1>1. At(c, "read") /\ Reading(c, "check") /\ UNCHANGED <<doc, files, raced, touched>>
    BY DEF ReadNoJournal, DropJournal, Read, disk, history
<1>2. RepairableDisk /\ NoJournal.state = "none"
    BY DEF RepairInv, NoJournal
<1>3. CASE ReadNoJournal(c)
    <2>1. UNCHANGED <<doc, files, journal, raced, touched, abandoned>>
        BY <1>3 DEF ReadNoJournal, disk, history
    <2>2. RepairableDisk'
        BY <1>2, <2>1, SameRepairable
    <2> QED
        BY <1>1, <2>2, RepairRead
<1>4. CASE DropJournal(c)
    <2>1. journal' = NoJournal
        BY <1>4 DEF DropJournal
    <2>2. abandoned' = abandoned
        <3>1. CASE journal.state = "staged"
            <4>1. Repairable(journal)
                BY <1>2, <3>1 DEF RepairableDisk
            <4>2. journal.updated = {}
                BY <4>1 DEF Repairable
            <4>3. Forget(journal.updated)
                BY <1>4, <3>1 DEF DropJournal
            <4> QED
                BY <4>2, <4>3 DEF Forget
        <3>2. CASE journal.state # "staged"
            BY <1>4, <3>2 DEF DropJournal
        <3> QED
            BY <3>1, <3>2
    <2>3. RepairableDisk'
        BY <1>1, <1>2, <2>1, <2>2, RepairableWithout
    <2> QED
        BY <1>1, <2>3, RepairRead
<1> QED
    BY <1>3, <1>4

\* A staged journal is undone: the file under way is the journal's or not there.
LEMMA RepairStaged ==
    ASSUME ApplyInv, OnlyCrashes, RepairInv, NEW c \in Calls, RecoverStaged(c) \/ RecoverUnclear(c)
    PROVE  RepairInv'
<1>1. At(c, "read") /\ journal.state = "staged" /\ call[c].pc \in Working
    BY DEF RecoverStaged, RecoverUnclear, Read, At, Working
<1>2. /\ call[c] \in CallType /\ doc \in Document /\ RepairableDisk
      /\ (journal = NoJournal \/ JournalOK(journal)) /\ (\A d \in Decisions : op[d] = "create")
    BY <1>1, RepairFacts
<1>3. JournalOK(journal) /\ journal \in Journal /\ Repairable(journal)
    <2>1. NoJournal.state = "none"
        BY DEF NoJournal
    <2> QED
        BY <1>1, <1>2, <2>1 DEF RepairableDisk, JournalOK
<1>4. ~InflightUnclear(journal)
    <2>1. SUFFICES ASSUME journal.inflight # 0
                   PROVE  PathState(journal, journal.inflight) # "mismatch" /\ op[journal.inflight] = "create"
        BY DEF InflightUnclear
    <2>2. PICK d : d = journal.inflight
        OBVIOUS
    <2>3. d \in Decisions
        BY <1>3, <2>1, <2>2, JournalFacts DEF JournalOK, Unpublished
    <2>4. PathState(journal, d) \in {"missing", "match"}
        BY <1>3, <2>3, PathStates DEF Repairable
    <2> QED
        BY <1>2, <2>2, <2>3, <2>4
<1>5. RecoverStaged(c)
    BY <1>4 DEF RecoverUnclear
<1>6. PICK t, b, j, S : t = call[c] /\ b = doc /\ j = journal /\ S = Undoable(journal)
    OBVIOUS
<1>7. PICK u : u = [t EXCEPT !.pc = "undo", !.before = b, !.j = j, !.todo = S, !.then = "check"]
    OBVIOUS
<1>8. call' = [call EXCEPT ![c] = u] /\ UNCHANGED <<doc, files, journal, raced, touched, abandoned>>
    BY <1>5, <1>6, <1>7, Zenon DEF RecoverStaged, disk, history
<1>9. u.pc = "undo" /\ u.before = b /\ u.j = j /\ u.then = "check" /\ u.expected = t.expected
    <2>1. S \subseteq Decisions
        <3>1. journal.created \subseteq Decisions /\ (journal.inflight # 0 => journal.inflight \in Decisions)
            BY <1>3, JournalFacts DEF JournalOK, Unpublished
        <3> QED
            BY <1>6, <3>1 DEF Undoable
    <2>2. /\ "undo" \in CallPcs /\ b \in Document \cup {NoDoc} /\ j \in Journal \cup {NoJournal}
          /\ S \in SUBSET Decisions /\ "check" \in {"return", "check", "saved"}
        BY <1>2, <1>3, <1>6, <2>1 DEF CallPcs, Working
    <2>3. t \in CallType
        BY <1>2, <1>6
    <2> QED
        BY <1>7, <2>2, <2>3, Zenon DEF CallType
<1>10. RepairableDisk'
    BY <1>2, <1>8, SameRepairable
<1>11. GetsThrough(u)'
    BY <1>6, <1>8, <1>9 DEF GetsThrough, Publishing
<1> QED
    BY <1>1, <1>6, <1>8, <1>9, <1>10, <1>11, RepairStep

\* The files of a finalized journal are all there.
LEMMA FinalFiles ==
    ASSUME ApplyInv, OnlyCrashes, RepairInv, journal.state \in {"finalized", "document_saved"}
    PROVE  /\ JournalOK(journal) /\ journal \in Journal /\ Repairable(journal)
           /\ journal.finalized = Planned(journal) /\ journal.finalized = Yes(doc.sel)
           /\ \A d \in journal.finalized : PathState(journal, d) = "match"
<1>1. JournalOK(journal) /\ journal \in Journal /\ Repairable(journal)
    <2>1. NoJournal.state = "none"
        BY DEF NoJournal
    <2> QED
        BY <2>1 DEF ApplyInv, Typed, RepairInv, RepairableDisk
<1>2. journal.finalized = Planned(journal) /\ journal.before.sel = doc.sel
    BY <1>1 DEF JournalOK, Repairable
<1>3. \A d \in Planned(journal) : files[d] = Written(journal.stamp)
    BY <1>1 DEF Repairable
<1>4. \A d \in Planned(journal) : PathState(journal, d) = "match"
    BY <1>3, PathStates
<1> QED
    BY <1>1, <1>2, <1>4 DEF Planned

\* The journal of a resolved document goes.
LEMMA RepairOrphan ==
    ASSUME ApplyInv, OnlyCrashes, RepairInv, NEW c \in Calls, CleanupOrphan(c)
    PROVE  RepairInv'
<1>1. /\ At(c, "read") /\ journal.state = "finalized" /\ doc.status # "pending" /\ call[c].pc \in Working
      /\ UNCHANGED <<doc, files, raced, touched, abandoned>>
    BY DEF CleanupOrphan, Read, At, Working, history
<1>2. DiskOK /\ RepairableDisk /\ doc \in Document
    BY <1>1, RepairFacts
<1>3. doc.status \in {"applied", "partially_applied", "needs_revision"}
    BY <1>1, <1>2 DEF Document, RepairableDisk
<1>4. doc.res = ResultOf(doc.sel)
    BY <1>2, <1>3 DEF DiskOK, Open, Settled
<1>5. /\ \A d \in journal.finalized : PathState(journal, d) = "match"
      /\ journal.before.sel = doc.sel
    BY <1>1, FinalFiles DEF Repairable
<1>6. OrphanMatches(journal)
    BY <1>3, <1>4, <1>5 DEF OrphanMatches
<1>7. journal' = NoJournal /\ Reading(c, "check")
    BY <1>6 DEF CleanupOrphan
<1>8. RepairableDisk'
    BY <1>1, <1>2, <1>7, RepairableWithout
<1> QED
    BY <1>1, <1>7, <1>8, RepairRead

\* A finalized journal of a pending document is refused only if recovery was not
\* asked for.
LEMMA RepairRefused ==
    ASSUME ApplyInv, OnlyCrashes, RepairInv, NEW c \in Calls, RefuseRecovery(c)
    PROVE  RepairInv'
<1>1. At(c, "read") /\ Reading(c, "return") /\ UNCHANGED <<doc, files, journal, raced, touched, abandoned>>
    BY DEF RefuseRecovery, Read, disk, history
<1>2. journal.state # "cleanup_required"
    <2>1. NoJournal.state = "none"
        BY DEF NoJournal
    <2> QED
        BY <2>1 DEF RepairInv, RepairableDisk, Repairable
<1>3. ~call[c].recover
    BY <1>2 DEF RefuseRecovery, Read
<1>4. RepairableDisk'
    BY <1>1, SameRepairable DEF RepairInv
<1> QED
    BY <1>1, <1>3, <1>4, RepairRead

\* Otherwise the document is written: it is the one the journal is of.
LEMMA RepairFinalized ==
    ASSUME ApplyInv, OnlyCrashes, RepairInv, NEW c \in Calls, RecoverFinalized(c) \/ FinalizedMismatch(c)
    PROVE  RepairInv'
<1>1. At(c, "read") /\ journal.state = "finalized" /\ doc.status = "pending" /\ call[c].pc \in Working
    BY DEF RecoverFinalized, FinalizedMismatch, Read, At, Working
<1>2. call[c] \in CallType /\ doc \in Document /\ RepairableDisk /\ call[c].expected = doc
    BY <1>1, RepairFacts
<1>3. /\ journal \in Journal /\ Repairable(journal) /\ journal.finalized = Yes(doc.sel)
      /\ \A d \in journal.finalized : PathState(journal, d) = "match"
    BY <1>1, FinalFiles
<1>4. journal.before = doc
    BY <1>1, <1>3 DEF Repairable
<1>5. FinalizedMatches(c, journal)
    BY <1>2, <1>3, <1>4 DEF FinalizedMatches
<1>6. RecoverFinalized(c)
    BY <1>5 DEF FinalizedMismatch
<1>7. PICK t, b, j, w : t = call[c] /\ b = doc /\ j = journal /\ w = Resolved(doc, journal.before.sel)
    OBVIOUS
<1>8. w \in Document /\ w.status # "apply_failed"
    <2>1. w = Resolved(b, b.sel) /\ b \in Document
        BY <1>2, <1>4, <1>7
    <2>2. w \in Document /\ w.status \in {"applied", "partially_applied", "needs_revision"}
        BY <2>1, ResolvedFacts
    <2> QED
        BY <2>2
<1>9. PICK u : u = [t EXCEPT !.pc = "save", !.before = b, !.j = j, !.write = w, !.then = "saved"]
    OBVIOUS
<1>10. call' = [call EXCEPT ![c] = u] /\ UNCHANGED <<doc, files, journal, raced, touched, abandoned>>
    BY <1>6, <1>7, <1>9, Zenon DEF RecoverFinalized, disk, history
<1>11. u.pc = "save" /\ u.before = b /\ u.j = j /\ u.write = w /\ u.then = "saved" /\ u.expected = t.expected
    <2>1. /\ "save" \in CallPcs /\ b \in Document \cup {NoDoc} /\ j \in Journal \cup {NoJournal}
          /\ w \in Document \cup {NoDoc} /\ "saved" \in {"return", "check", "saved"} /\ t \in CallType
        BY <1>2, <1>3, <1>7, <1>8 DEF CallPcs, Working
    <2> QED
        BY <1>9, <2>1, Zenon DEF CallType
<1>12. RepairableDisk'
    BY <1>2, <1>10, SameRepairable
<1>13. GetsThrough(u)'
    BY <1>7, <1>8, <1>10, <1>11 DEF GetsThrough, Publishing
<1> QED
    BY <1>1, <1>7, <1>10, <1>11, <1>12, <1>13, RepairStep

-----------------------------------------------------------------------------
(* Crashes alone: undoing and publishing.                                  *)

\* What is known of a call that undoes.
LEMMA UndoFacts ==
    ASSUME ApplyInv, OnlyCrashes, RepairInv, NEW c \in Calls, call[c].pc \in {"undo", "remove"}
    PROVE  LET t == call[c] IN
           /\ t.pc \in Working /\ t \in CallType /\ t.before = doc /\ t.then = "check" /\ t.j = journal
           /\ Repairable(journal) /\ journal.state = "staged" /\ RepairableDisk
           /\ t.todo \subseteq Decisions /\ (t.todo # {} => Min(t.todo) \in t.todo)
           /\ t.pc = "remove" => t.todo # {} /\ files[Min(t.todo)] # NoFile
<1>1. PICK t : t = call[c]
    OBVIOUS
<1>2. t.pc \in Working /\ t.pc \in {"undo", "remove"}
    BY <1>1 DEF Working
<1>3. CallOK(t) /\ t \in CallType /\ Relies(t) /\ GetsThrough(t) /\ RepairableDisk
    BY <1>1, <1>2, RepairFacts
<1>4. t.before = doc /\ t.then = "check" /\ t.j = journal
    BY <1>2, <1>3 DEF GetsThrough
<1>5. journal.state = "staged" /\ Repairable(journal)
    <2>1. NoJournal.state = "none"
        BY DEF NoJournal
    <2> QED
        BY <1>2, <1>3, <2>1 DEF Relies, RepairableDisk
<1>6. t.todo \subseteq Decisions /\ Decisions \subseteq Nat
    BY <1>3 DEF CallType, Decisions
<1>7. t.todo # {} => Min(t.todo) \in t.todo
    BY <1>6, MinFacts
<1>8. ASSUME t.pc = "remove" PROVE t.todo # {} /\ files[Min(t.todo)] # NoFile
    <2>1. files[Min(t.todo)] = Written(t.j.stamp) /\ t.todo # {}
        BY <1>3, <1>8 DEF Relies, RepairableDisk, CallOK
    <2> QED
        BY <2>1, PathStates
<1> QED
    BY <1>1, <1>2, <1>3, <1>4, <1>5, <1>6, <1>7, <1>8

\* A file that is the journal's, or gone.
LEMMA RepairUndo ==
    ASSUME ApplyInv, OnlyCrashes, RepairInv, NEW c \in Calls, Undo(c)
    PROVE  RepairInv'
<1>1. PICK t, d : t = call[c] /\ d = Min(t.todo)
    OBVIOUS
<1>2. t.pc = "undo" /\ t.todo # {} /\ UNCHANGED <<doc, files, raced, touched, abandoned>>
    BY <1>1 DEF Undo, At, history
<1>3. /\ t.pc \in Working /\ t \in CallType /\ t.before = doc /\ t.then = "check" /\ t.j = journal
      /\ Repairable(journal) /\ RepairableDisk /\ t.todo \subseteq Decisions /\ d \in t.todo
    BY <1>1, <1>2, UndoFacts
<1>4. PathState(t.j, d) \in {"missing", "match"}
    BY <1>3, PathStates DEF Repairable
<1>5. \/ Go(c, "remove") /\ UNCHANGED journal
      \/ call' = [call EXCEPT ![c].todo = @ \ {d}] /\ UNCHANGED journal
    BY <1>1, <1>4 DEF Undo
<1>6. RepairableDisk'
    BY <1>2, <1>3, <1>5, SameRepairable
<1>7. CASE Go(c, "remove") /\ UNCHANGED journal
    <2>1. ASSUME NEW u, u = Moved(call[c], "remove") PROVE GetsThrough(u)'
        <3>1. u.pc = "remove" /\ u.before = t.before /\ u.j = t.j /\ u.then = t.then
            BY <1>1, <1>3, <2>1, MovedFacts DEF CallPcs, Working
        <3> QED
            BY <1>2, <1>3, <1>7, <3>1 DEF GetsThrough, Publishing
    <2>2. "remove" \in CallPcs
        BY DEF CallPcs, Working
    <2> QED
        BY <1>1, <1>2, <1>3, <1>6, <1>7, <2>1, <2>2, RepairGo
<1>8. CASE call' = [call EXCEPT ![c].todo = @ \ {d}] /\ UNCHANGED journal
    <2>1. PICK S : S = t.todo \ {d}
        OBVIOUS
    <2>2. PICK u : u = [t EXCEPT !.todo = S]
        OBVIOUS
    <2>3. call' = [call EXCEPT ![c] = u]
        BY <1>1, <1>8, <2>1, <2>2
    <2>4. u.pc = "undo" /\ u.before = t.before /\ u.j = t.j /\ u.then = t.then /\ u.expected = t.expected
        BY <1>2, <1>3, <2>2, Zenon DEF CallType
    <2>5. GetsThrough(u)'
        BY <1>2, <1>3, <1>8, <2>4 DEF GetsThrough, Publishing
    <2> QED
        BY <1>1, <1>2, <1>3, <1>6, <2>3, <2>4, <2>5, RepairStep
<1> QED
    BY <1>5, <1>7, <1>8

\* It is there to be removed.
LEMMA RepairRemove ==
    ASSUME ApplyInv, OnlyCrashes, RepairInv, NEW c \in Calls, RemoveFile(c)
    PROVE  RepairInv'
<1>1. PICK t, d : t = call[c] /\ d = Min(t.todo)
    OBVIOUS
<1>2. t.pc = "remove" /\ UNCHANGED <<doc, raced, touched, abandoned>>
    BY <1>1 DEF RemoveFile, At, history
<1>3. /\ t.pc \in Working /\ t \in CallType /\ t.before = doc /\ t.then = "check" /\ t.j = journal
      /\ Repairable(journal) /\ journal.state = "staged" /\ RepairableDisk
      /\ t.todo \subseteq Decisions /\ d \in t.todo /\ files[d] # NoFile
    BY <1>1, <1>2, UndoFacts
<1>4. /\ files' = [files EXCEPT ![d] = NoFile] /\ UNCHANGED journal
      /\ call' = [call EXCEPT ![c].pc = "undo", ![c].todo = @ \ {d}]
    BY <1>1, <1>3 DEF RemoveFile
<1>5. PICK S : S = t.todo \ {d}
    OBVIOUS
<1>6. PICK u : u = [t EXCEPT !.pc = "undo", !.todo = S]
    OBVIOUS
<1>7. call' = [call EXCEPT ![c] = u]
    BY <1>1, <1>4, <1>5, <1>6, Zenon
<1>8. u.pc = "undo" /\ u.before = t.before /\ u.j = t.j /\ u.then = t.then /\ u.expected = t.expected
    <2>1. "undo" \in CallPcs /\ S \in SUBSET Decisions
        BY <1>3, <1>5 DEF CallPcs, Working
    <2> QED
        BY <1>3, <1>6, <2>1, Zenon DEF CallType
<1>9. RepairableDisk'
    <2>1. \A e \in Decisions : files'[e] = files[e] \/ files'[e] = NoFile
        BY <1>4 DEF ApplyInv, Typed
    <2>2. Repairable(journal)'
        BY <1>2, <1>3, <1>4, <2>1 DEF Repairable
    <2> QED
        BY <1>2, <1>3, <2>1, <2>2 DEF RepairableDisk
<1>10. GetsThrough(u)'
    BY <1>2, <1>3, <1>4, <1>8 DEF GetsThrough, Publishing
<1> QED
    BY <1>1, <1>2, <1>3, <1>7, <1>8, <1>9, <1>10, RepairStep

\* The journal goes after its files.
LEMMA RepairUndoDone ==
    ASSUME ApplyInv, OnlyCrashes, RepairInv, NEW c \in Calls, UndoDone(c)
    PROVE  RepairInv'
<1>1. PICK t : t = call[c]
    OBVIOUS
<1>2. /\ t.pc = "undo" /\ UNCHANGED <<doc, files, raced, touched>> /\ journal' = NoJournal
      /\ Forget(t.j.updated) /\ Go(c, t.then)
    BY <1>1 DEF UndoDone, At
<1>3. /\ t.pc \in Working /\ t \in CallType /\ t.before = doc /\ t.then = "check" /\ t.j = journal
      /\ Repairable(journal) /\ RepairableDisk
    BY <1>1, <1>2, UndoFacts
<1>4. abandoned' = abandoned
    BY <1>2, <1>3 DEF Forget, Repairable
<1>5. RepairableDisk'
    BY <1>2, <1>3, <1>4, RepairableWithout
<1>6. ASSUME NEW u, u = Moved(call[c], "check") PROVE GetsThrough(u)'
    <2>1. u.pc = "check" /\ u.before = t.before
        BY <1>1, <1>3, <1>6, MovedFacts DEF CallPcs, Working
    <2> QED
        BY <1>2, <1>3, <2>1 DEF GetsThrough, Publishing
<1>7. "check" \in CallPcs
    BY DEF CallPcs, Working
<1> QED
    BY <1>1, <1>2, <1>3, <1>5, <1>6, <1>7, RepairGo

\* A pending document is acceptable: it is the one the user saw, and no file is there.
\* One that is resolved stays so.
LEMMA RepairCheck ==
    ASSUME ApplyInv, OnlyCrashes, RepairInv, NEW c \in Calls, Check(c)
    PROVE  RepairInv'
<1>1. PICK t, b : t = call[c] /\ b = t.before
    OBVIOUS
<1>2. t.pc = "check" /\ t.pc \in Working /\ UNCHANGED <<doc, files, journal, raced, touched, abandoned>>
    BY <1>1 DEF Check, At, Working, disk, history
<1>3. /\ CallOK(t) /\ t \in CallType /\ Relies(t) /\ GetsThrough(t) /\ doc \in Document
      /\ doc.status = "pending" => t.expected = doc
      /\ DiskOK /\ RepairableDisk /\ (\A d \in Decisions : op[d] = "create")
    BY <1>1, <1>2, RepairFacts
<1>4. b = doc /\ journal = NoJournal
    BY <1>1, <1>2, <1>3 DEF GetsThrough, Relies
<1>5. RepairableDisk'
    BY <1>2, <1>3, SameRepairable
<1>6. CASE ~Acceptable(c) /\ Go(c, "return")
    <2>1. ASSUME Decided(doc.sel) PROVE doc.status = StatusFor(doc.sel)
        <3>1. CASE doc.status = "pending"
            <4>1. \A d \in Decisions : files[d] = NoFile
                <5>1. Covered(journal) = {}
                    BY <1>4 DEF Covered
                <5> QED
                    BY <1>3, <3>1, <5>1, PendingFiles
            <4>2. Yes(b.sel) \subseteq Decisions
                BY DEF Yes
            <4>3. Integrity(b.sel) /\ PagesUnchanged(b.sel)
                BY <1>3, <4>1, <4>2 DEF Integrity, PagesUnchanged
            <4>4. Acceptable(c)
                BY <1>1, <1>3, <1>4, <2>1, <3>1, <4>3 DEF Acceptable
            <4> QED
                BY <1>6, <4>4
        <3>2. CASE doc.status # "pending"
            BY <1>3, <3>2 DEF DiskOK, Open, Settled, RepairableDisk
        <3> QED
            BY <3>1, <3>2
    <2>2. ASSUME NEW u, u = Moved(call[c], "return") PROVE GetsThrough(u)'
        <3>1. u.pc = "return"
            BY <1>1, <1>3, <2>2, MovedFacts DEF CallPcs
        <3>2. Repaired(u)'
            BY <1>2, <1>4, <2>1 DEF Repaired
        <3> QED
            BY <3>1, <3>2 DEF GetsThrough, Publishing
    <2>3. "return" \in CallPcs
        BY DEF CallPcs
    <2> QED
        BY <1>1, <1>2, <1>5, <1>6, <2>2, <2>3, RepairGo
<1>7. CASE GoSave(c, NoJournal, Resolved(b, b.sel), "return")
    <2>1. PICK w : w = Resolved(b, b.sel)
        OBVIOUS
    <2>2. w \in Document /\ w.status # "apply_failed"
        <3>1. w \in Document /\ w.status \in {"applied", "partially_applied", "needs_revision"}
            BY <1>3, <1>4, <2>1, ResolvedFacts
        <3> QED
            BY <3>1
    <2>3. PICK u : u = [t EXCEPT !.pc = "save", !.j = NoJournal, !.write = w, !.then = "return"]
        OBVIOUS
    <2>4. call' = [call EXCEPT ![c] = u]
        BY <1>1, <1>7, <2>1, <2>3, Zenon DEF GoSave
    <2>5. u.pc = "save" /\ u.before = b /\ u.expected = t.expected /\ u.write = w /\ u.then = "return"
        <3>1. /\ "save" \in CallPcs /\ NoJournal \in Journal \cup {NoJournal} /\ w \in Document \cup {NoDoc}
              /\ "return" \in {"return", "check", "saved"}
            BY <2>2 DEF CallPcs, Working
        <3> QED
            BY <1>1, <1>3, <2>3, <3>1, Zenon DEF CallType
    <2>6. GetsThrough(u)'
        BY <1>2, <1>4, <2>2, <2>5 DEF GetsThrough, Publishing
    <2> QED
        BY <1>1, <1>2, <1>5, <2>4, <2>5, <2>6, RepairStep
<1>8. CASE GoWith(c, "journal", NewJournal(b, t.stamp))
    <2>1. PICK j : j = NewJournal(b, t.stamp)
        OBVIOUS
    <2>2. j \in Journal
        <3>1. t.stamp \in 1 .. MaxApplies /\ b \in Document
            BY <1>2, <1>3, <1>4, KnowledgeApplyAssumption DEF CallOK, CallType
        <3> QED
            BY <2>1, <3>1, NewJournalFacts
    <2>3. PICK u : u = [t EXCEPT !.pc = "journal", !.j = j]
        OBVIOUS
    <2>4. call' = [call EXCEPT ![c] = u]
        BY <1>1, <1>8, <2>1, <2>3, Zenon DEF GoWith
    <2>5. u.pc = "journal" /\ u.before = b /\ u.expected = t.expected
        <3>1. /\ "journal" \in CallPcs /\ j \in Journal \cup {NoJournal}
            BY <2>2 DEF CallPcs, Working, Publishing
        <3> QED
            BY <1>1, <1>3, <2>3, <3>1, Zenon DEF CallType
    <2>6. GetsThrough(u)'
        BY <1>2, <1>4, <2>5 DEF GetsThrough
    <2> QED
        BY <1>1, <1>2, <1>5, <2>4, <2>5, <2>6, RepairStep
<1> QED
    BY <1>1, <1>6, <1>7, <1>8 DEF Check

\* What is known of a call that publishes.
LEMMA PublishesFacts ==
    ASSUME ApplyInv, OnlyCrashes, RepairInv, NEW c \in Calls, call[c].pc \in Publishing
    PROVE  LET t == call[c] IN
           /\ t.pc \in Working /\ t \in CallType /\ CallOK(t) /\ Relies(t) /\ GetsThrough(t)
           /\ t.before = doc /\ t.j.before = doc /\ doc \in Document /\ doc.status = "pending"
           /\ JournalOK(t.j) /\ t.j \in Journal /\ t.j.state = "staged" /\ t.j.updated = {} /\ t.j.finalized = {}
           /\ t.pc # "journal" => journal = t.j /\ Repairable(journal)
           /\ t.j.inflight # 0 => t.j.inflight \in Decisions
           /\ t.j.created \subseteq ByApply
           /\ DiskOK /\ RepairableDisk /\ (\A d \in Decisions : op[d] = "create")
<1>1. PICK t : t = call[c]
    OBVIOUS
<1>2. ~doubled
    BY DEF OnlyCrashes
<1>3. /\ t.pc \in Working /\ CallOK(t) /\ t \in CallType /\ JournalOK(t.j) /\ t.j \in Journal
      /\ t.j.state = "staged" /\ t.j.finalized = {} /\ t.j.before = t.before
      /\ t.j.inflight # 0 => t.j.inflight \in Decisions
      /\ doc.status = "pending" /\ (t.pc # "journal" => journal = t.j)
      /\ (t.j.created \cup t.j.updated) \ touched \subseteq ByApply
    BY <1>1, <1>2, PublishFacts
<1>4. /\ Relies(t) /\ GetsThrough(t) /\ doc \in Document
      /\ DiskOK /\ RepairableDisk /\ (\A d \in Decisions : op[d] = "create")
    BY <1>1, <1>3, RepairFacts
<1>5. t.before = doc
    BY <1>1, <1>4 DEF GetsThrough
<1>6. t.pc # "journal" => Repairable(journal)
    <2>1. NoJournal.state = "none"
        BY DEF NoJournal
    <2> QED
        BY <1>3, <1>4, <2>1 DEF RepairableDisk
<1>7. t.j.updated = {}
    BY <1>1, <1>3, <1>6 DEF CallOK, Repairable
<1>8. touched = {}
    BY <1>4 DEF RepairableDisk
<1> QED
    BY <1>1, <1>3, <1>4, <1>5, <1>6, <1>7, <1>8

\* A call that goes on publishing with a journal j.
LEMMA RepairGoWith ==
    ASSUME ApplyInv, OnlyCrashes, RepairInv, NEW c \in Calls, call[c].pc \in Publishing,
           NEW pc \in {"next", "publish"}, NEW j \in Journal, GoWith(c, pc, j), UNCHANGED doc, RepairableDisk',
           pc = "publish" => files'[j.inflight] = NoFile
    PROVE  RepairInv'
<1>1. PICK t : t = call[c]
    OBVIOUS
<1>2. t.pc \in Working /\ t \in CallType /\ t.before = doc
    BY <1>1, PublishesFacts
<1>3. PICK u : u = [t EXCEPT !.pc = pc, !.j = j]
    OBVIOUS
<1>4. call' = [call EXCEPT ![c] = u]
    BY <1>1, <1>3, Zenon DEF GoWith
<1>5. u.pc = pc /\ u.j = j /\ u.before = t.before /\ u.expected = t.expected
    <2>1. pc \in CallPcs /\ j \in Journal \cup {NoJournal}
        BY DEF CallPcs, Working, Publishing
    <2> QED
        BY <1>2, <1>3, <2>1, Zenon DEF CallType
<1>6. GetsThrough(u)'
    BY <1>2, <1>5 DEF GetsThrough
<1> QED
    BY <1>1, <1>2, <1>4, <1>5, <1>6, RepairStep

\* The journal is written and the files are staged; a file that is published next is
\* not there.
LEMMA RepairStage ==
    ASSUME ApplyInv, OnlyCrashes, OnlyCrashes', RepairInv, NEW c \in Calls,
           WriteJournal(c) \/ Stage(c) \/ MarkInflight(c)
    PROVE  RepairInv'
<1>1. PICK t : t = call[c]
    OBVIOUS
<1>2. /\ t.pc \in {"journal", "stage", "next"} /\ t.pc \in Publishing
      /\ UNCHANGED <<doc, files, raced, touched, abandoned>>
    BY <1>1 DEF WriteJournal, Stage, MarkInflight, At, Publishing, history
<1>3. /\ t.pc \in Working /\ t \in CallType /\ CallOK(t) /\ Relies(t)
      /\ t.before = doc /\ t.j.before = doc /\ doc \in Document /\ doc.status = "pending"
      /\ JournalOK(t.j) /\ t.j \in Journal /\ t.j.state = "staged" /\ t.j.updated = {} /\ t.j.finalized = {}
      /\ t.pc # "journal" => journal = t.j /\ Repairable(journal)
      /\ DiskOK /\ RepairableDisk
    BY <1>1, <1>2, PublishesFacts
<1>4. ASSUME NEW pc \in {"stage", "next"}, Go(c, pc), RepairableDisk' PROVE RepairInv'
    <2>1. ASSUME NEW u, u = Moved(call[c], pc) PROVE GetsThrough(u)'
        <3>1. u.pc = pc /\ u.before = t.before
            BY <1>1, <1>3, <2>1, MovedFacts DEF CallPcs, Working, Publishing
        <3> QED
            BY <1>2, <1>3, <3>1 DEF GetsThrough
    <2>2. pc \in CallPcs
        BY DEF CallPcs, Working, Publishing
    <2> QED
        BY <1>1, <1>2, <1>3, <1>4, <2>1, <2>2, RepairGo
<1>5. CASE WriteJournal(c)
    <2>1. journal' = t.j /\ Go(c, "stage") /\ t.pc = "journal"
        BY <1>1, <1>5 DEF WriteJournal, At
    <2>2. journal = NoJournal
        BY <1>3, <2>1 DEF Relies
    <2>3. \A d \in Decisions : files[d] = NoFile
        <3>1. Covered(journal) = {}
            BY <2>2 DEF Covered
        <3> QED
            BY <1>3, <3>1, PendingFiles
    <2>4. RepairableDisk'
        BY <1>2, <1>3, <2>1, <2>3 DEF RepairableDisk, Repairable
    <2> QED
        BY <1>4, <2>1, <2>4
<1>6. CASE Stage(c)
    <2>1. UNCHANGED journal /\ Go(c, "next")
        BY <1>6, NoFault DEF Stage
    <2>2. RepairableDisk'
        BY <1>2, <1>3, <2>1, SameRepairable
    <2> QED
        BY <1>4, <2>1, <2>2
<1>7. CASE MarkInflight(c)
    <2>1. PICK i : i = Min(Unpublished(t.j))
        OBVIOUS
    <2>2. PICK k : k = [t.j EXCEPT !.inflight = i]
        OBVIOUS
    <2>3. journal' = k /\ GoWith(c, "publish", k) /\ t.pc = "next" /\ Unpublished(t.j) # {}
        BY <1>1, <1>7, <2>1, <2>2 DEF MarkInflight, At
    <2>4. i \in Unpublished(t.j) /\ i \in Decisions /\ i \in 0 .. N /\ i # 0
        <3>1. Unpublished(t.j) \subseteq Nat /\ Unpublished(t.j) \subseteq Decisions
            BY <1>3, JournalFacts DEF Unpublished
        <3>2. i \in Unpublished(t.j)
            BY <2>1, <2>3, <3>1, MinFacts
        <3> QED
            BY <3>1, <3>2, KnowledgeApplyAssumption DEF Decisions
    <2>5. /\ k \in Journal /\ k.state = t.j.state /\ k.before = t.j.before /\ k.stamp = t.j.stamp
          /\ k.updated = t.j.updated /\ k.inflight = i
        BY <1>3, <2>2, <2>4, Zenon DEF Journal
    <2>6. files[i] = NoFile
        <3>1. t.j.inflight = 0 /\ journal = t.j
            BY <1>3, <2>3 DEF CallOK
        <3>2. i \notin Covered(journal)
            BY <1>3, <2>4, <3>1, JournalFacts DEF Unpublished
        <3> QED
            BY <1>3, <2>4, <3>2, PendingFiles
    <2>7. RepairableDisk'
        <3>1. Repairable(journal) /\ journal = t.j
            BY <1>3, <2>3
        <3> QED
            BY <1>2, <1>3, <2>3, <2>5, <3>1 DEF RepairableDisk, Repairable
    <2> QED
        BY <1>1, <1>2, <2>3, <2>5, <2>6, <2>7, RepairGoWith
<1> QED
    BY <1>5, <1>6, <1>7

\* It is published, and stays until it is recorded.
LEMMA RepairPublish ==
    ASSUME ApplyInv, OnlyCrashes, OnlyCrashes', RepairInv, NEW c \in Calls,
           \/ PublishNew(c) \/ CheckPage(c) \/ ReplacePage(c) \/ PublishFails(c) \/ RecordPublished(c)
    PROVE  RepairInv'
<1>1. PICK t, d : t = call[c] /\ d = t.j.inflight
    OBVIOUS
<1>2. t.pc \in {"publish", "replace", "record"} /\ t.pc \in Publishing /\ UNCHANGED <<doc, raced, touched>>
    BY <1>1 DEF PublishNew, CheckPage, ReplacePage, PublishFails, RecordPublished, At, Publishing, disk, history
<1>3. /\ t.pc \in Working /\ t \in CallType /\ CallOK(t) /\ Relies(t) /\ GetsThrough(t)
      /\ t.before = doc /\ t.j.before = doc /\ doc \in Document /\ doc.status = "pending"
      /\ JournalOK(t.j) /\ t.j \in Journal /\ t.j.state = "staged" /\ t.j.updated = {}
      /\ journal = t.j /\ Repairable(journal)
      /\ d # 0 => d \in Decisions
      /\ RepairableDisk /\ (\A e \in Decisions : op[e] = "create")
    BY <1>1, <1>2, PublishesFacts
<1>4. d \in Decisions /\ op[d] = "create" /\ t.pc # "replace"
    BY <1>1, <1>2, <1>3 DEF CallOK, GetsThrough
<1>5. t.pc = "publish" => files[d] = NoFile
    BY <1>1, <1>3 DEF GetsThrough
<1>6. t.pc = "record" => files[d] = Written(t.j.stamp)
    <2>1. ASSUME t.pc = "record" PROVE d \in ByApply
        BY <1>1, <1>3, <2>1 DEF Relies, RepairableDisk
    <2>2. d \in ByApply => files[d] # NoFile
        BY DEF ByApply, NoFile
    <2> QED
        BY <1>3, <1>4, <2>1, <2>2 DEF Repairable
<1>7. ~CheckPage(c) /\ ~ReplacePage(c)
    BY <1>1, <1>4 DEF CheckPage, ReplacePage, At
<1>8. ~PublishFails(c)
    BY <1>1, <1>4, <1>5, <1>6, NoFault DEF PublishFails, At
<1>9. CASE PublishNew(c)
    <2>1. /\ files' = [files EXCEPT ![d] = Written(t.j.stamp)] /\ Go(c, "record")
          /\ UNCHANGED <<journal, abandoned>>
        BY <1>1, <1>9 DEF PublishNew, history
    <2>2. \A e \in Decisions : files'[e] = files[e] \/ files'[e] = Written(t.j.stamp)
        BY <2>1 DEF ApplyInv, Typed
    <2>3. Repairable(journal)'
        BY <1>2, <1>3, <2>1, <2>2 DEF Repairable
    <2>4. Written(t.j.stamp).by = "apply"
        BY DEF Written
    <2>5. RepairableDisk'
        BY <1>2, <1>3, <2>1, <2>2, <2>3, <2>4 DEF RepairableDisk
    <2>6. ASSUME NEW u, u = Moved(call[c], "record") PROVE GetsThrough(u)'
        <3>1. u.pc = "record" /\ u.before = t.before
            BY <1>1, <1>3, <2>6, MovedFacts DEF CallPcs, Working, Publishing
        <3> QED
            BY <1>2, <1>3, <3>1 DEF GetsThrough
    <2>7. "record" \in CallPcs
        BY DEF CallPcs, Working, Publishing
    <2> QED
        BY <1>1, <1>2, <1>3, <2>1, <2>5, <2>6, <2>7, RepairGo
<1>10. CASE RecordPublished(c)
    <2>1. PICK S : S = t.j.created \cup {d}
        OBVIOUS
    <2>2. PICK k : k = [t.j EXCEPT !.created = S, !.inflight = 0]
        OBVIOUS
    <2>3. k = Recorded(t.j, d)
        BY <1>4, <2>1, <2>2, Zenon DEF Recorded
    <2>4. journal' = k /\ GoWith(c, "next", k) /\ UNCHANGED <<files, abandoned>>
        BY <1>1, <1>10, <2>3 DEF RecordPublished, history
    <2>5. /\ k \in Journal /\ k.state = t.j.state /\ k.before = t.j.before /\ k.stamp = t.j.stamp
          /\ k.updated = t.j.updated
        <3>1. S \in SUBSET Decisions /\ 0 \in 0 .. N
            BY <1>3, <1>4, <2>1, KnowledgeApplyAssumption DEF Journal
        <3> QED
            BY <1>3, <2>2, <3>1, Zenon DEF Journal
    <2>6. RepairableDisk'
        BY <1>2, <1>3, <2>4, <2>5 DEF RepairableDisk, Repairable
    <2> QED
        BY <1>1, <1>2, <2>4, <2>5, <2>6, RepairGoWith
<1> QED
    BY <1>7, <1>8, <1>9, <1>10

\* The journal is finalized when all its files are there.
LEMMA RepairFinalize ==
    ASSUME ApplyInv, OnlyCrashes, RepairInv, NEW c \in Calls, Finalize(c)
    PROVE  RepairInv'
<1>1. PICK t, b : t = call[c] /\ b = t.before
    OBVIOUS
<1>2. /\ t.pc = "next" /\ t.pc \in Publishing /\ Unpublished(t.j) = {}
      /\ UNCHANGED <<doc, files, raced, touched, abandoned>>
    BY <1>1 DEF Finalize, At, Publishing, history
<1>3. /\ t.pc \in Working /\ t \in CallType
      /\ b = doc /\ t.j.before = doc /\ doc \in Document
      /\ t.j \in Journal /\ t.j.updated = {} /\ Repairable(t.j) /\ t.j.created \subseteq ByApply
      /\ RepairableDisk
    BY <1>1, <1>2, PublishesFacts
<1>4. PICK f : f = Planned(t.j)
    OBVIOUS
<1>5. PICK k : k = [t.j EXCEPT !.state = "finalized", !.finalized = f]
    OBVIOUS
<1>6. PICK w : w = Resolved(b, b.sel)
    OBVIOUS
<1>7. journal' = k /\ GoSave(c, k, w, "saved")
    BY <1>1, <1>4, <1>5, <1>6, Zenon DEF Finalize, Finalized
<1>8. /\ k \in Journal /\ k.state = "finalized" /\ k.before = t.j.before /\ k.stamp = t.j.stamp
      /\ k.updated = t.j.updated
    <2>1. f \in SUBSET Decisions /\ "finalized" \in {"staged", "finalized", "document_saved", "cleanup_required"}
        BY <1>3, <1>4, JournalFacts
    <2> QED
        BY <1>3, <1>5, <2>1, Zenon DEF Journal
<1>9. \A d \in Planned(k) : files[d] = Written(k.stamp)
    <2>1. Planned(k) \subseteq t.j.created /\ Planned(k) \subseteq Decisions
        BY <1>2, <1>3, <1>8, JournalFacts DEF Planned, Unpublished
    <2>2. \A d \in ByApply : files[d] # NoFile
        BY DEF ByApply, NoFile
    <2> QED
        BY <1>3, <1>8, <2>1, <2>2 DEF Repairable
<1>10. RepairableDisk'
    BY <1>2, <1>3, <1>7, <1>8, <1>9 DEF RepairableDisk, Repairable, Planned
<1>11. w \in Document /\ w.status # "apply_failed"
    <2>1. w \in Document /\ w.status \in {"applied", "partially_applied", "needs_revision"}
        BY <1>3, <1>6, ResolvedFacts
    <2> QED
        BY <2>1
<1>12. PICK u : u = [t EXCEPT !.pc = "save", !.j = k, !.write = w, !.then = "saved"]
    OBVIOUS
<1>13. call' = [call EXCEPT ![c] = u]
    BY <1>1, <1>7, <1>12, Zenon DEF GoSave
<1>14. u.pc = "save" /\ u.before = b /\ u.j = k /\ u.write = w /\ u.then = "saved" /\ u.expected = t.expected
    <2>1. /\ "save" \in CallPcs /\ k \in Journal \cup {NoJournal} /\ w \in Document \cup {NoDoc}
          /\ "saved" \in {"return", "check", "saved"}
        BY <1>8, <1>11 DEF CallPcs, Working
    <2> QED
        BY <1>1, <1>3, <1>12, <2>1, Zenon DEF CallType
<1>15. GetsThrough(u)'
    BY <1>2, <1>3, <1>7, <1>11, <1>14 DEF GetsThrough, Publishing
<1> QED
    BY <1>1, <1>2, <1>3, <1>10, <1>13, <1>14, <1>15, RepairStep

\* The document is the one that was read; it is replaced, and the journal goes.
LEMMA RepairSave ==
    ASSUME ApplyInv, OnlyCrashes, OnlyCrashes', RepairInv, NEW c \in Calls,
           CheckDocument(c) \/ RenameDocument(c) \/ MarkSaved(c) \/ RemoveJournal(c)
    PROVE  RepairInv'
<1>1. PICK t : t = call[c]
    OBVIOUS
<1>2. /\ t.pc \in {"save", "rename", "saved", "drop"} /\ t.pc \in Working
      /\ UNCHANGED <<files, raced, touched, abandoned>>
    BY <1>1 DEF CheckDocument, RenameDocument, MarkSaved, RemoveJournal, At, Working, disk, history
<1>3. /\ t \in CallType /\ CallOK(t) /\ Relies(t) /\ GetsThrough(t) /\ doc \in Document
      /\ DiskOK /\ RepairableDisk
    BY <1>1, <1>2, RepairFacts
<1>4. {"return", "rename", "saved", "drop"} \subseteq CallPcs
    BY DEF CallPcs, Working
<1>5. CASE CheckDocument(c)
    <2>1. t.pc = "save" /\ t.before = doc
        BY <1>1, <1>3, <1>5 DEF CheckDocument, At, GetsThrough
    <2>2. Go(c, "rename") /\ UNCHANGED <<doc, journal>>
        BY <1>1, <1>5, <2>1 DEF CheckDocument, disk
    <2>3. RepairableDisk'
        BY <1>2, <1>3, <2>2, SameRepairable
    <2>4. ASSUME NEW u, u = Moved(call[c], "rename") PROVE GetsThrough(u)'
        <3>1. u.pc = "rename" /\ u.before = t.before /\ u.write = t.write /\ u.then = t.then /\ u.j = t.j
            BY <1>1, <1>3, <1>4, <2>4, MovedFacts
        <3> QED
            BY <1>3, <2>1, <2>2, <3>1 DEF GetsThrough, Publishing
    <2> QED
        BY <1>1, <1>2, <1>4, <2>2, <2>3, <2>4, RepairGo
<1>6. CASE RenameDocument(c)
    <2>1. t.pc = "rename" /\ t.before = doc /\ t.write.status # "apply_failed"
        BY <1>1, <1>3, <1>6 DEF RenameDocument, At, GetsThrough
    <2>2. doc' = t.write /\ Go(c, t.then) /\ UNCHANGED journal
        BY <1>1, <1>6, NoFault DEF RenameDocument
    <2>3. t.write = Resolved(t.before, t.before.sel)
        <3>1. t.write \in {Resolved(t.before, t.before.sel), Failed(t.before)}
            BY <1>3, <2>1 DEF CallOK
        <3>2. PICK b : b = t.before
            OBVIOUS
        <3>3. Failed(b).status = "apply_failed"
            BY <1>3, <2>1, <3>2, FailedFacts
        <3> QED
            BY <2>1, <3>1, <3>2, <3>3
    <2>4. /\ doc'.sel = doc.sel /\ doc'.status = StatusFor(doc'.sel)
          /\ doc'.status \in {"applied", "partially_applied", "needs_revision"}
        <3>1. PICK b, w : b = doc /\ w = Resolved(b, b.sel)
            OBVIOUS
        <3>2. w.sel = b.sel /\ w.status = StatusFor(b.sel) /\ w.status \in {"applied", "partially_applied", "needs_revision"}
            BY <1>3, <3>1, ResolvedFacts
        <3> QED
            BY <2>1, <2>2, <2>3, <3>1, <3>2
    <2>5. t.then \in {"return", "saved"} /\ (t.then = "return" => journal = NoJournal) /\ (t.then = "saved" => journal = t.j)
        BY <1>3, <2>1 DEF CallOK, CallType, GetsThrough
    <2>6. RepairableDisk'
        BY <1>2, <1>3, <2>2, <2>4 DEF RepairableDisk, Repairable
    <2>7. ASSUME NEW u, u = Moved(call[c], t.then) PROVE GetsThrough(u)'
        <3>1. u.pc = t.then /\ u.j = t.j
            <4>1. PICK pc \in CallPcs : pc = t.then
                BY <1>4, <2>5
            <4>2. u = Moved(t, pc)
                BY <1>1, <2>7, <4>1
            <4> QED
                BY <1>3, <4>1, <4>2, MovedFacts
        <3>2. t.then = "return" => Repaired(u)'
            BY <2>2, <2>4, <2>5 DEF Repaired
        <3> QED
            BY <2>2, <2>5, <3>1, <3>2 DEF GetsThrough, Publishing
    <2>8. t.then \in CallPcs /\ doc'.status # "pending"
        BY <1>4, <2>4, <2>5
    <2> QED
        BY <1>1, <1>2, <2>2, <2>5, <2>6, <2>7, <2>8, RepairGo
<1>7. CASE MarkSaved(c)
    <2>1. t.pc = "saved" /\ t.j = journal /\ t.j \in Journal /\ t.j.state = "finalized"
        BY <1>1, <1>3, <1>7 DEF MarkSaved, At, GetsThrough, CallOK
    <2>2. PICK k : k = [t.j EXCEPT !.state = "document_saved"]
        OBVIOUS
    <2>3. journal' = k /\ Go(c, "drop") /\ UNCHANGED doc
        BY <1>1, <1>7, <2>2, NoFault DEF MarkSaved
    <2>4. /\ k.state = "document_saved" /\ k.before = t.j.before /\ k.stamp = t.j.stamp /\ k.updated = t.j.updated
        BY <2>1, <2>2 DEF Journal
    <2>5. Repairable(journal)
        <3>1. NoJournal.state = "none"
            BY DEF NoJournal
        <3> QED
            BY <1>3, <2>1, <3>1 DEF RepairableDisk
    <2>6. RepairableDisk'
        BY <1>2, <1>3, <2>1, <2>3, <2>4, <2>5 DEF RepairableDisk, Repairable, Planned
    <2>7. ASSUME NEW u, u = Moved(call[c], "drop") PROVE GetsThrough(u)'
        <3>1. u.pc = "drop"
            BY <1>1, <1>3, <1>4, <2>7, MovedFacts
        <3> QED
            BY <3>1 DEF GetsThrough, Publishing
    <2> QED
        BY <1>1, <1>2, <1>4, <2>3, <2>6, <2>7, RepairGo
<1>8. CASE RemoveJournal(c)
    <2>1. t.pc = "drop" /\ journal' = NoJournal /\ Go(c, "return") /\ UNCHANGED doc
        BY <1>1, <1>8, NoFault DEF RemoveJournal, At
    <2>2. doc.status = StatusFor(doc.sel)
        BY <1>3, <2>1 DEF Relies, Settled
    <2>3. RepairableDisk'
        BY <1>2, <1>3, <2>1, RepairableWithout
    <2>4. ASSUME NEW u, u = Moved(call[c], "return") PROVE GetsThrough(u)'
        <3>1. u.pc = "return"
            BY <1>1, <1>3, <1>4, <2>4, MovedFacts
        <3>2. Repaired(u)'
            BY <2>1, <2>2 DEF Repaired
        <3> QED
            BY <3>1, <3>2 DEF GetsThrough, Publishing
    <2> QED
        BY <1>1, <1>2, <1>4, <2>1, <2>3, <2>4, RepairGo
<1> QED
    BY <1>5, <1>6, <1>7, <1>8

\* A crash ends every call and leaves the disk as it is.
LEMMA RepairCrash ==
    ASSUME OnlyCrashes, RepairInv, Crash
    PROVE  RepairInv'
<1>1. UNCHANGED <<doc, files, journal, raced, touched, abandoned>> /\ call' = [c \in Calls |-> Idle]
    BY DEF Crash, disk, history
<1>2. RepairableDisk'
    BY <1>1, SameRepairable DEF RepairInv
<1>3. Locks # {}
    BY DEF Locks
<1>4. ASSUME NEW c \in Calls PROVE CrashCall(call[c])'
    <2>1. call'[c].pc = "idle" /\ call'[c].holds = {}
        BY <1>1, IdleOK
    <2> QED
        BY <1>3, <2>1 DEF CrashCall
<1> QED
    BY <1>2, <1>4 DEF RepairInv

\* Locks get old.
LEMMA RepairAge ==
    ASSUME OnlyCrashes, RepairInv, UNCHANGED <<doc, files, journal, call, raced, touched, abandoned>>
    PROVE  RepairInv'
<1>1. RepairableDisk'
    BY SameRepairable DEF RepairInv
<1>2. ASSUME NEW c \in Calls PROVE CrashCall(call[c])'
    <2>1. CrashCall(call[c])
        BY DEF RepairInv
    <2> QED
        BY <2>1 DEF CrashCall, GetsThrough, Repaired
<1> QED
    BY <1>1, <1>2 DEF RepairInv

\* What may happen to the operations, the history of the locks and the counts.
Counted ==
    /\ op' = op /\ (doubled => doubled')
    /\ \/ UNCHANGED counts \/ Failure \/ Edit
       \/ counts' = [counts EXCEPT !.applies = @ + 1] \/ counts' = [counts EXCEPT !.crashes = @ + 1]

\* Nothing else does.
LEMMA AllCounted ==
    ASSUME [Next]_vars
    PROVE  Counted
<1>1. ASSUME NEW c \in Calls, LockStep(c) PROVE Counted
    <2>1. ASSUME NEW recover \in BOOLEAN, Start(c, recover) PROVE Counted
        BY <2>1 DEF Start, Counted, history
    <2>2. CASE CreateLock(c) \/ LockExists(c) \/ LockIsStale(c) \/ Return(c) \/ GiveUp(c)
        BY <2>2 DEF CreateLock, LockExists, LockIsStale, Return, GiveUp, Counted, history
    <2>3. CASE ReplaceStaleLock(c)
        <3>1. doubled' = (doubled \/ locks[call[c].want] \in Calls)
            BY <2>3 DEF ReplaceStaleLock
        <3>2. doubled => doubled'
            BY <3>1, Zenon
        <3>3. op' = op /\ UNCHANGED counts
            BY <2>3 DEF ReplaceStaleLock
        <3> QED
            BY <3>2, <3>3 DEF Counted
    <2> QED
        BY <1>1, <2>1, <2>2, <2>3 DEF LockStep
<1>2. ASSUME NEW c \in Calls, JournalStep(c) PROVE Counted
    <2>1. \A j : NeedsCleanup(j) => UNCHANGED counts \/ Failure
        BY DEF NeedsCleanup, Works
    <2>2. CASE ReadNoJournal(c) \/ DropJournal(c) \/ RecoverStaged(c) \/ RecoverUnclear(c)
        BY <2>1, <2>2 DEF ReadNoJournal, DropJournal, RecoverStaged, RecoverUnclear, Counted, history
    <2>3. CASE CleanupOrphan(c) \/ RefuseRecovery(c) \/ RecoverFinalized(c) \/ FinalizedMismatch(c)
        BY <2>1, <2>3 DEF CleanupOrphan, RefuseRecovery, RecoverFinalized, FinalizedMismatch, Counted, history
    <2>4. CASE Undo(c) \/ RemoveFile(c) \/ UndoDone(c) \/ UndoFails(c)
        BY <2>1, <2>4 DEF Undo, RemoveFile, UndoDone, UndoFails, Counted, history
    <2> QED
        BY <1>2, <2>2, <2>3, <2>4 DEF JournalStep
<1>3. ASSUME NEW c \in Calls, ApplyStep(c) PROVE Counted
    <2>1. CASE Check(c) \/ WriteJournal(c) \/ Stage(c) \/ MarkInflight(c)
        BY <2>1 DEF Check, WriteJournal, Stage, MarkInflight, Counted, Works, history
    <2>2. CASE PublishNew(c) \/ CheckPage(c) \/ ReplacePage(c) \/ RecordPublished(c) \/ Finalize(c)
        BY <2>2 DEF PublishNew, CheckPage, ReplacePage, RecordPublished, Finalize, Counted, history
    <2>3. CASE PublishFails(c)
        <3>1. op' = op /\ doubled' = doubled /\ (UNCHANGED counts \/ Failure)
            BY <2>3 DEF PublishFails, Works
        <3> QED
            BY <3>1 DEF Counted
    <2>4. CASE UpdateFails(c)
        <3>1. op' = op /\ doubled' = doubled /\ Failure
            BY <2>4 DEF UpdateFails, history
        <3> QED
            BY <3>1 DEF Counted
    <2>5. CASE CheckDocument(c) \/ RenameDocument(c) \/ MarkSaved(c) \/ RemoveJournal(c)
        BY <2>5 DEF CheckDocument, RenameDocument, MarkSaved, RemoveJournal, Counted, Works, history
    <2> QED
        BY <1>3, <2>1, <2>2, <2>3, <2>4, <2>5 DEF ApplyStep
<1>4. CASE UserStep
    BY <1>4 DEF UserStep, EditSelections, TouchTarget, Counted
<1>5. CASE Crash \/ LocksAge
    BY <1>5 DEF Crash, LocksAge, Counted, history
<1>6. CASE UNCHANGED vars
    BY <1>6 DEF vars, Counted, history
<1> QED
    BY <1>1, <1>2, <1>3, <1>4, <1>5, <1>6 DEF Next

\* Every step keeps what crashes leave repairable.
LEMMA RepairNext == ApplyInv /\ RepairInv /\ [Next]_vars => RepairInv'
<1> SUFFICES ASSUME ApplyInv, RepairInv, [Next]_vars, OnlyCrashes' PROVE RepairInv'
    BY DEF RepairInv
<1>1. ~Failure /\ ~Edit
    BY NoFault
<1>2. OnlyCrashes
    <2>1. counts \in [applies : Nat, crashes : Nat, failures : Nat, edits : Nat]
        BY DEF ApplyInv, Typed
    <2>2. counts'.failures = counts.failures /\ counts'.edits = counts.edits /\ op' = op /\ (doubled => doubled')
        BY <1>1, <2>1, AllCounted DEF Counted
    <2> QED
        BY <2>2 DEF OnlyCrashes
<1>3. ASSUME NEW c \in Calls, LockStep(c) PROVE RepairInv'
    BY <1>2, <1>3, RepairLocks
<1>4. ASSUME NEW c \in Calls, JournalStep(c) PROVE RepairInv'
    <2>1. ~UndoFails(c)
        BY <1>1 DEF UndoFails
    <2> QED
        BY <1>2, <1>4, <2>1, RepairDrop, RepairStaged, RepairOrphan, RepairRefused, RepairFinalized, RepairUndo,
           RepairRemove, RepairUndoDone DEF JournalStep
<1>5. ASSUME NEW c \in Calls, ApplyStep(c) PROVE RepairInv'
    <2>1. ~UpdateFails(c)
        BY <1>1 DEF UpdateFails
    <2> QED
        BY <1>2, <1>5, <2>1, RepairCheck, RepairStage, RepairPublish, RepairFinalize, RepairSave DEF ApplyStep
<1>6. ~UserStep
    BY <1>1 DEF UserStep, EditSelections, TouchTarget
<1>7. CASE Crash
    BY <1>2, <1>7, RepairCrash
<1>8. CASE LocksAge
    BY <1>2, <1>8, RepairAge DEF LocksAge, disk, history
<1>9. CASE UNCHANGED vars
    BY <1>2, <1>9, RepairAge DEF vars, disk, history
<1> QED
    BY <1>3, <1>4, <1>5, <1>6, <1>7, <1>8, <1>9 DEF Next

\* At first there is nothing to repair.
LEMMA RepairInit == Init => RepairInv
<1> SUFFICES ASSUME Init, OnlyCrashes PROVE RepairableDisk /\ \A c \in Calls : CrashCall(call[c])
    BY DEF RepairInv
<1>1. doc.status = "pending"
    BY DEF Init
<1>2. \A d \in Decisions : files[d] = NoFile
    BY DEF Init, OnlyCrashes
<1>3. RepairableDisk
    BY <1>1, <1>2 DEF Init, RepairableDisk
<1>4. ASSUME NEW c \in Calls PROVE CrashCall(call[c])
    <2>1. call[c] = Idle
        BY DEF Init
    <2>2. call[c].pc = "idle" /\ call[c].holds = {} /\ Locks # {}
        BY <2>1, IdleOK DEF Locks
    <2> QED
        BY <2>2 DEF CrashCall
<1> QED
    BY <1>3, <1>4

\* With new files, crashes alone never need the user, however many they are and
\* wherever they come: the next apply that gets both locks and may recover leaves
\* the document resolved and no journal.
THEOREM RepairedCrashes == Spec => []CrashesAreRepaired
<1>1. ApplyInv /\ RepairInv => CrashesAreRepaired
    <2> SUFFICES ASSUME ApplyInv, RepairInv, ~doubled, ~\E d \in Decisions : op[d] = "update",
                        ~(counts.failures + counts.edits > 0),
                        NEW c \in Calls, At(c, "return"), InUse(c), call[c].recover, Decided(doc.sel),
                        call[c].expected.status = "pending"
                 PROVE  doc.status = StatusFor(doc.sel) /\ journal = NoJournal
        BY DEF CrashesAreRepaired
    <2>1. counts.failures \in Nat /\ counts.edits \in Nat
        BY DEF ApplyInv, Typed
    <2>2. counts.failures = 0 /\ counts.edits = 0
        BY <2>1
    <2>3. \A d \in Decisions : op[d] = "create"
        BY DEF ApplyInv, Typed
    <2>4. OnlyCrashes
        BY <2>2, <2>3 DEF OnlyCrashes
    <2>5. GetsThrough(call[c])
        BY <2>4 DEF RepairInv, CrashCall, InUse
    <2> QED
        BY <2>5 DEF GetsThrough, Repaired, At
<1>2. Spec => []RepairInv
    BY ApplyInvariant, RepairInit, RepairNext, PTL DEF Spec
<1> QED
    BY <1>1, <1>2, ApplyInvariant, PTL
=============================================================================
