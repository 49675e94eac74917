-------------------------- MODULE VaultIndexProofs --------------------------
(***************************************************************************)
(* Proofs about VaultIndex, for any set of paths and any number of         *)
(* commands, outside changes and failures.                                 *)
(***************************************************************************)
EXTENDS VaultIndex, DataFacts, FiniteSetTheorems, TLAPS

Runtimes ==
    [jobs : Seq(Jobs), pending : SUBSET Paths, incremental : BOOLEAN,
     rebuild : [queued : BOOLEAN, running : BOOLEAN, rerun : BOOLEAN]]

\* A rebuild names no path, a removal one.
JobOK(j) ==
    /\ j.kind = "rebuild" => j = FullRebuild
    /\ j.kind = "remove" => j.old = j.path

\* The queue part of the inductive invariant, of a state s of the runtime.
QueueOK(s) ==
    /\ s \in Runtimes
    /\ \A p \in s.pending : \E k \in DOMAIN s.jobs : s.jobs[k] = Job("index", p, p)
    /\ \A k \in DOMAIN s.jobs : JobOK(s.jobs[k])
    /\ s.rebuild.queued <=> \E k \in DOMAIN s.jobs : s.jobs[k] = FullRebuild
    /\ \A j, k \in DOMAIN s.jobs : s.jobs[j] = FullRebuild /\ s.jobs[k] = FullRebuild => j = k
    /\ s.rebuild.running => ~s.rebuild.queued
    /\ s.rebuild.rerun => s.rebuild.running

\* Entries of the ledger have ids of commands in I, each at most once.
Entries == [id : Ops, kind : {"write", "delete", "rename"}, path : Paths, old : Paths]
LedgerOK(l, I) ==
    /\ l \in Seq(Entries)
    /\ \A k \in DOMAIN l : l[k].id \in I
    /\ \A j, k \in DOMAIN l : l[j].id = l[k].id => j = k

Begun == {i \in Ops : op[i].pc # "unused"}
Spent == {i \in Ops : op[i].pc \in {"applied", "done"}}

\* A version is handed out for an outside change or a command that was applied.
VersionsCounted == used.version <= 1 + used.outside + Cardinality(Spent)

\* The writer holds a rebuild only as such, and is in one when the flag says so.
WriterOK ==
    /\ writer.pc = "commit" => writer.job.kind # "rebuild"
    /\ rt.rebuild.running <=> writer.pc \in {"collect", "rebuild"}
    /\ JobOK(writer.job) /\ writer.todo \subseteq writer.files

\* A file that leaves is reported by one side: the app or another.
EventsOK ==
    /\ \A k \in DOMAIN events : events[k].kind = "from" /\ None \in events[k].by => events[k].by = {None}
    /\ \A k \in DOMAIN moved : moved[k].kind = "from" /\ (None \in moved[k].by => moved[k].by = {None})

\* The parts of TypeOK that are not of the queue or the ledger.
FilesTyped == /\ disk \in [Paths -> 0..MaxVersion] /\ index \in [Paths -> 0..MaxVersion]
              /\ missed \in SUBSET Paths /\ last \in [Paths -> {"none", "read", "remove"}]
WriterTyped == writer \in [pc : {"idle", "commit", "collect", "rebuild"}, job : Jobs,
                           files : SUBSET Paths, todo : SUBSET Paths, docs : [Paths -> 0..MaxVersion]]
EventsTyped == /\ platform \in {"linux", "macos", "windows"} /\ watching \in BOOLEAN
               /\ events \in Seq(Events) /\ moved \in Seq(Events) /\ Len(moved) <= 1
OpsTyped == op \in [Ops -> [pc : {"unused", "recorded", "applied", "done"},
                            kind : {"write", "delete", "rename"}, path : Paths, old : Paths]]
UsedTyped == used \in [outside : 0..MaxOutside, extras : 0..MaxExtras, version : 1..MaxVersion]

\* The inductive invariant of the machinery.
IndexInv ==
    /\ FilesTyped /\ WriterTyped /\ EventsTyped /\ OpsTyped /\ UsedTyped
    /\ VersionsCounted /\ LedgerOK(ledger, Begun) /\ QueueOK(rt) /\ WriterOK /\ EventsOK

\* The change that x announces shows the index p when it is acted on, with the
\* vault as in d: what moves a file to p only while p is there.
Shows(d, x, p) ==
    \/ x.kind \in {"index", "remove", "write", "create", "modify", "delete", "from"} /\ x.path = p
    \/ x.kind \in {"rename", "to"} /\ x.path = p /\ d[p] # 0
    \/ x.kind = "rename" /\ x.old = p
    \/ x.kind = "rebuild"

\* The same of the queue in runtime s, and of an event that is not the app's own.
QueueShows(d, s, p) == s.rebuild.rerun \/ \E k \in DOMAIN s.jobs : Shows(d, s.jobs[k], p)
EventShows(d, e, p) == None \in e.by /\ Shows(d, e, p)

\* A change of p that the index has not seen yet is on its way: as a job, an
\* event, a command whose notice is due, or a rebuild to be run again.
Covered(p) ==
    \/ QueueShows(disk, rt, p)
    \/ \E k \in DOMAIN events : EventShows(disk, events[k], p)
    \/ \E k \in DOMAIN moved : EventShows(disk, moved[k], p)
    \/ \E i \in Ops : op[i].pc = "applied" /\ Shows(disk, op[i], p)

\* The index agrees with the vault on p.
Agrees(p) == index[p] = disk[p] \/ (index[p] = 0 /\ last[p] = "remove")

\* The index will agree on p once the transaction under way is committed.
CommitAgrees(p) ==
    \/ p # writer.job.path /\ Agrees(p)
    \/ p = writer.job.path /\ writer.job.kind = "index" /\ writer.docs[p] = disk[p]
    \/ p = writer.job.path /\ writer.job.kind = "remove"
    \/ p = writer.job.path /\ writer.job.kind = "rename" /\ writer.docs[p] # 0 /\ writer.docs[p] = disk[p]
    \/ p = writer.job.path /\ writer.job.kind = "rename" /\ writer.docs[p] = 0 /\ Agrees(p)
    \/ p = writer.job.old /\ writer.job.kind = "rename" /\ (p # writer.job.path \/ writer.docs[p] = 0)

\* It will agree on p once the rebuild under way is finished.
RebuildAgrees(p) ==
    \/ p \notin writer.files /\ disk[p] = 0
    \/ p \in writer.todo /\ (disk[p] # 0 \/ Agrees(p))
    \/ p \in writer.files \ writer.todo /\ writer.docs[p] # 0 /\ writer.docs[p] = disk[p]
    \/ p \in writer.files \ writer.todo /\ writer.docs[p] = 0 /\ Agrees(p)

\* The index will agree on p once the writer has finished the job under way.
WillAgree(p) ==
    /\ writer.pc = "idle" => Agrees(p)
    /\ writer.pc = "commit" => CommitAgrees(p)
    /\ writer.pc = "rebuild" => RebuildAgrees(p)

IndexFollows == \A p \in Paths \ missed : Covered(p) \/ WillAgree(p)

\* The path that stands for none.
LEMMA AnyPathIsPath == AnyPath \in Paths
BY VaultIndexAssumption DEF AnyPath

\* The rebuild job is one as it should be.
LEMMA FullRebuildOK == FullRebuild \in Jobs /\ JobOK(FullRebuild)
BY AnyPathIsPath DEF FullRebuild, Job, Jobs, JobOK

\* Appending a job other than a rebuild, and with it any pending paths that have jobs.
LEMMA AppendedJob ==
    ASSUME NEW s, QueueOK(s), NEW j \in Jobs, j.kind # "rebuild", JobOK(j), NEW P \in SUBSET Paths,
           \A p \in P : p \in s.pending \/ j = Job("index", p, p)
    PROVE  /\ QueueOK([s EXCEPT !.pending = P, !.jobs = Append(@, j)])
           /\ [s EXCEPT !.pending = P, !.jobs = Append(@, j)].rebuild = s.rebuild
<1> DEFINE t == [s EXCEPT !.pending = P, !.jobs = Append(@, j)]
<1>1. s \in Runtimes
    BY DEF QueueOK
<1>a. Append(s.jobs, j) \in Seq(Jobs)
    BY <1>1 DEF Runtimes
<1>2. /\ t \in Runtimes /\ t.pending = P /\ t.rebuild = s.rebuild
      /\ t.jobs = Append(s.jobs, j)
    BY <1>1, <1>a, Zenon DEF Runtimes
<1>3. /\ s.jobs \in Seq(Jobs) /\ t.jobs \in Seq(Jobs) /\ Len(t.jobs) = Len(s.jobs) + 1
      /\ \A k \in 1..Len(s.jobs) : t.jobs[k] = s.jobs[k]
      /\ t.jobs[Len(s.jobs) + 1] = j
      /\ DOMAIN s.jobs = 1..Len(s.jobs) /\ DOMAIN t.jobs = 1..(Len(s.jobs) + 1)
      /\ Len(s.jobs) \in Nat
    BY <1>1, <1>2 DEF Runtimes
<1>4. j # FullRebuild
    BY DEF FullRebuild, Job
<1> HIDE DEF t
<1>5. \A p \in t.pending : \E k \in DOMAIN t.jobs : t.jobs[k] = Job("index", p, p)
    BY <1>2, <1>3 DEF QueueOK
<1>6. ASSUME NEW k \in DOMAIN t.jobs PROVE JobOK(t.jobs[k])
    <2>1. \A i \in DOMAIN s.jobs : JobOK(s.jobs[i])
        BY DEF QueueOK
    <2>2. CASE k = Len(s.jobs) + 1
        BY <1>3, <2>2
    <2>3. CASE k # Len(s.jobs) + 1
        <3>1. k \in DOMAIN s.jobs /\ t.jobs[k] = s.jobs[k]
            BY <1>3, <2>3
        <3> QED
            BY <2>1, <3>1
    <2> QED
        BY <2>2, <2>3
<1>7. /\ t.rebuild.queued <=> \E k \in DOMAIN t.jobs : t.jobs[k] = FullRebuild
      /\ \A i, k \in DOMAIN t.jobs : t.jobs[i] = FullRebuild /\ t.jobs[k] = FullRebuild => i = k
    BY <1>2, <1>3, <1>4 DEF QueueOK
<1> QED
    BY <1>2, <1>5, <1>6, <1>7 DEF QueueOK, t

\* Appending the one rebuild to a queue without, and the new flags.
LEMMA AppendedRebuild ==
    ASSUME NEW s, QueueOK(s), ~s.rebuild.queued,
           NEW t \in Runtimes, t.jobs = Append(s.jobs, FullRebuild), t.pending = s.pending,
           t.rebuild.queued, ~t.rebuild.running, ~t.rebuild.rerun
    PROVE  QueueOK(t)
<1>1. s \in Runtimes /\ FullRebuild \in Jobs
    BY AnyPathIsPath DEF QueueOK, FullRebuild, Job, Jobs
<1>2. /\ s.jobs \in Seq(Jobs) /\ Len(t.jobs) = Len(s.jobs) + 1
      /\ \A k \in 1..Len(s.jobs) : t.jobs[k] = s.jobs[k]
      /\ t.jobs[Len(s.jobs) + 1] = FullRebuild
      /\ DOMAIN s.jobs = 1..Len(s.jobs) /\ DOMAIN t.jobs = 1..(Len(s.jobs) + 1)
      /\ Len(s.jobs) \in Nat
    BY <1>1 DEF Runtimes
<1>3. \A p \in t.pending : \E k \in DOMAIN t.jobs : t.jobs[k] = Job("index", p, p)
    BY <1>2 DEF QueueOK
<1>4. \A k \in DOMAIN t.jobs : JobOK(t.jobs[k])
    BY <1>2, FullRebuildOK DEF QueueOK
<1>5. \A k \in DOMAIN s.jobs : s.jobs[k] # FullRebuild
    BY DEF QueueOK
<1>6. /\ t.rebuild.queued <=> \E k \in DOMAIN t.jobs : t.jobs[k] = FullRebuild
      /\ \A i, k \in DOMAIN t.jobs : t.jobs[i] = FullRebuild /\ t.jobs[k] = FullRebuild => i = k
    BY <1>2, <1>5
<1> QED
    BY <1>3, <1>4, <1>6 DEF QueueOK

\* queue_rebuild keeps the queue as noted, and whether a rebuild runs.
LEMMA QueueRebuildOK ==
    ASSUME NEW s, QueueOK(s)
    PROVE  QueueOK(QueueRebuild(s)) /\ QueueRebuild(s).rebuild.running = s.rebuild.running
<1>1. s \in Runtimes
    BY DEF QueueOK
<1>2. CASE s.rebuild.running
    <2> DEFINE t == [s EXCEPT !.rebuild.rerun = TRUE]
    <2>1. /\ t \in Runtimes /\ t.jobs = s.jobs /\ t.pending = s.pending
          /\ t.rebuild.queued = s.rebuild.queued /\ t.rebuild.running = s.rebuild.running
        BY <1>1 DEF Runtimes
    <2>2. QueueRebuild(s) = t
        BY <1>2 DEF QueueRebuild
    <2> HIDE DEF t
    <2> QED
        BY <1>2, <2>1, <2>2 DEF QueueOK
<1>3. CASE ~s.rebuild.running /\ s.rebuild.queued
    BY <1>3 DEF QueueRebuild
<1>4. CASE ~s.rebuild.running /\ ~s.rebuild.queued
    <2> DEFINE t == [s EXCEPT !.rebuild.queued = TRUE, !.jobs = Append(@, FullRebuild)]
    <2>1. FullRebuild \in Jobs /\ Append(s.jobs, FullRebuild) \in Seq(Jobs)
        BY <1>1, AnyPathIsPath DEF FullRebuild, Job, Jobs, Runtimes
    <2>2. /\ t \in Runtimes /\ t.jobs = Append(s.jobs, FullRebuild) /\ t.pending = s.pending
          /\ t.rebuild.queued /\ t.rebuild.running = s.rebuild.running
          /\ t.rebuild.rerun = s.rebuild.rerun
        BY <1>1, <2>1, Zenon DEF Runtimes
    <2>3. QueueRebuild(s) = t
        BY <1>4, Zenon DEF QueueRebuild
    <2> HIDE DEF t
    <2> QED
        BY <1>4, <2>2, <2>3, AppendedRebuild DEF QueueOK
<1> QED
    BY <1>2, <1>3, <1>4

\* The notices keep the queue as noted.
LEMMA NotifyOK ==
    ASSUME NEW s, QueueOK(s), NEW p \in Paths, NEW q \in Paths
    PROVE  /\ QueueOK(NotifyWritten(s, p))
           /\ NotifyWritten(s, p).rebuild.running = s.rebuild.running
           /\ QueueOK(NotifyRemoved(s, p))
           /\ NotifyRemoved(s, p).rebuild.running = s.rebuild.running
           /\ QueueOK(NotifyRenamed(s, q, p))
           /\ NotifyRenamed(s, q, p).rebuild.running = s.rebuild.running
<1>1. s \in Runtimes /\ s.pending \in SUBSET Paths
    BY DEF QueueOK, Runtimes
<1>2. /\ Job("index", p, p) \in Jobs /\ Job("remove", p, p) \in Jobs /\ Job("rename", p, q) \in Jobs
      /\ Job("index", p, p).kind # "rebuild" /\ Job("remove", p, p).kind # "rebuild"
      /\ Job("rename", p, q).kind # "rebuild"
      /\ JobOK(Job("index", p, p)) /\ JobOK(Job("remove", p, p)) /\ JobOK(Job("rename", p, q))
    BY DEF Job, Jobs, JobOK
<1>3. /\ QueueOK(EnqueueIndexJob(s, p))
      /\ EnqueueIndexJob(s, p).rebuild.running = s.rebuild.running
    <2> DEFINE t == [s EXCEPT !.pending = @ \cup {p}, !.jobs = Append(@, Job("index", p, p))]
    <2>1. QueueOK(t) /\ t.rebuild = s.rebuild
        BY <1>1, <1>2, AppendedJob, Zenon
    <2>2. EnqueueIndexJob(s, p) = t \/ EnqueueIndexJob(s, p) = s
        BY Zenon DEF EnqueueIndexJob
    <2> HIDE DEF t
    <2> QED
        BY <2>1, <2>2
<1>4. /\ QueueOK(NotifyWritten(s, p))
      /\ NotifyWritten(s, p).rebuild.running = s.rebuild.running
    BY <1>3, QueueRebuildOK DEF NotifyWritten
<1>5. /\ QueueOK(NotifyRemoved(s, p))
      /\ NotifyRemoved(s, p).rebuild.running = s.rebuild.running
    <2> DEFINE t == [s EXCEPT !.pending = @ \ {p}, !.jobs = Append(@, Job("remove", p, p))]
    <2>1. QueueOK(t) /\ t.rebuild = s.rebuild
        BY <1>1, <1>2, AppendedJob, Zenon
    <2>2. NotifyRemoved(s, p) = t \/ NotifyRemoved(s, p) = QueueRebuild(s)
        BY Zenon DEF NotifyRemoved
    <2> HIDE DEF t
    <2> QED
        BY <2>1, <2>2, QueueRebuildOK
<1>6. /\ QueueOK(NotifyRenamed(s, q, p))
      /\ NotifyRenamed(s, q, p).rebuild.running = s.rebuild.running
    <2> DEFINE t == [s EXCEPT !.pending = @ \ {q, p}, !.jobs = Append(@, Job("rename", p, q))]
    <2>1. QueueOK(t) /\ t.rebuild = s.rebuild
        BY <1>1, <1>2, AppendedJob, Zenon
    <2>2. NotifyRenamed(s, q, p) = t \/ NotifyRenamed(s, q, p) = QueueRebuild(s)
        BY Zenon DEF NotifyRenamed
    <2> HIDE DEF t
    <2> QED
        BY <2>1, <2>2, QueueRebuildOK
<1> QED
    BY <1>4, <1>5, <1>6

\* Taking the first job keeps the queue as noted but for the flag of a rebuild.
LEMMA TakenOK ==
    ASSUME NEW s, QueueOK(s), s.jobs # <<>>
    PROVE  /\ Head(s.jobs) \in Jobs /\ JobOK(Head(s.jobs)) /\ Taken(s) \in Runtimes /\ Taken(s).rebuild = s.rebuild
           /\ Head(s.jobs).kind # "rebuild" => QueueOK(Taken(s))
           /\ Head(s.jobs).kind = "rebuild" =>
                /\ s.rebuild.queued /\ ~s.rebuild.running
                /\ \A k \in DOMAIN Taken(s).jobs : Taken(s).jobs[k] # FullRebuild
                /\ \A p \in Taken(s).pending :
                        \E k \in DOMAIN Taken(s).jobs : Taken(s).jobs[k] = Job("index", p, p)
                /\ \A k \in DOMAIN Taken(s).jobs : JobOK(Taken(s).jobs[k])
<1> DEFINE P == IF Head(s.jobs).kind = "index" THEN s.pending \ {Head(s.jobs).path} ELSE s.pending
           t == [s EXCEPT !.jobs = Tail(@), !.pending = P]
<1>1. s \in Runtimes /\ s.jobs \in Seq(Jobs) /\ s.pending \in SUBSET Paths
    BY DEF QueueOK, Runtimes
<1>2. /\ Len(s.jobs) \in Nat \ {0} /\ Head(s.jobs) \in Jobs /\ Head(s.jobs) = s.jobs[1]
      /\ Tail(s.jobs) \in Seq(Jobs) /\ DOMAIN s.jobs = 1..Len(s.jobs)
      /\ DOMAIN Tail(s.jobs) = 1..(Len(s.jobs) - 1)
      /\ \A k \in 1..(Len(s.jobs) - 1) : Tail(s.jobs)[k] = s.jobs[k + 1]
    BY <1>1
<1>3. P \in SUBSET Paths /\ P \subseteq s.pending
    BY <1>1, Zenon
<1>4. Taken(s) = t
    BY Zenon DEF Taken
<1>5. t \in Runtimes /\ t.rebuild = s.rebuild /\ t.jobs = Tail(s.jobs) /\ t.pending = P
    BY <1>1, <1>2, <1>3, Zenon DEF Runtimes
<1>6. \A p \in P : s.jobs[1] # Job("index", p, p)
    BY <1>1, <1>2 DEF Job
<1> HIDE DEF t, P
<1>7. \A p \in t.pending : \E k \in DOMAIN t.jobs : t.jobs[k] = Job("index", p, p)
    <2> SUFFICES ASSUME NEW p \in P PROVE \E k \in DOMAIN t.jobs : t.jobs[k] = Job("index", p, p)
        BY <1>5
    <2>1. PICK k \in DOMAIN s.jobs : s.jobs[k] = Job("index", p, p)
        BY <1>3 DEF QueueOK
    <2>2. k # 1
        BY <2>1, <1>6
    <2>3. k - 1 \in DOMAIN t.jobs /\ t.jobs[k - 1] = s.jobs[k]
        BY <2>2, <1>2, <1>5
    <2> QED
        BY <2>1, <2>3
<1>8. \A k \in DOMAIN t.jobs : JobOK(t.jobs[k])
    BY <1>2, <1>5 DEF QueueOK
<1>9. ASSUME Head(s.jobs).kind = "rebuild"
      PROVE  /\ s.rebuild.queued /\ ~s.rebuild.running
             /\ \A k \in DOMAIN t.jobs : t.jobs[k] # FullRebuild
    <2>1. 1 \in DOMAIN s.jobs /\ s.jobs[1] = FullRebuild
        BY <1>2, <1>9 DEF QueueOK, JobOK
    <2>2. s.rebuild.queued /\ ~s.rebuild.running
        BY <2>1 DEF QueueOK
    <2>3. ASSUME NEW k \in DOMAIN t.jobs, t.jobs[k] = FullRebuild PROVE FALSE
        <3>1. k + 1 \in DOMAIN s.jobs /\ s.jobs[k + 1] = FullRebuild /\ k + 1 # 1
            BY <2>3, <1>2, <1>5
        <3> QED
            BY <2>1, <3>1 DEF QueueOK
    <2> QED
        BY <2>2, <2>3
<1>10. ASSUME Head(s.jobs).kind # "rebuild" PROVE QueueOK(t)
    <2>1. s.jobs[1] # FullRebuild
        BY <1>2, <1>10 DEF FullRebuild, Job
    <2>2. t.rebuild.queued => \E k \in DOMAIN t.jobs : t.jobs[k] = FullRebuild
        <3> SUFFICES ASSUME s.rebuild.queued PROVE \E k \in DOMAIN t.jobs : t.jobs[k] = FullRebuild
            BY <1>5
        <3>1. PICK k \in DOMAIN s.jobs : s.jobs[k] = FullRebuild
            BY DEF QueueOK
        <3>a. k - 1 \in 1..(Len(s.jobs) - 1) /\ (k - 1) + 1 = k
            <4>1. k # 1
                BY <2>1, <3>1
            <4> QED
                BY <1>2, <4>1
        <3>2. k - 1 \in DOMAIN t.jobs /\ t.jobs[k - 1] = s.jobs[k]
            BY <1>2, <1>5, <3>a, Zenon
        <3> QED
            BY <3>1, <3>2
    <2>a. \A k \in DOMAIN t.jobs : k + 1 \in DOMAIN s.jobs /\ t.jobs[k] = s.jobs[k + 1]
        BY <1>2, <1>5
    <2>b. (\E k \in DOMAIN t.jobs : t.jobs[k] = FullRebuild) => t.rebuild.queued
        BY <2>a, <1>5 DEF QueueOK
    <2>c. ASSUME NEW i \in DOMAIN t.jobs, NEW k \in DOMAIN t.jobs,
                 t.jobs[i] = FullRebuild, t.jobs[k] = FullRebuild
          PROVE  i = k
        <3>1. i + 1 = k + 1
            BY <2>a, <2>c DEF QueueOK
        <3> QED
            BY <3>1, <1>2, <1>5
    <2>3. /\ (\E k \in DOMAIN t.jobs : t.jobs[k] = FullRebuild) => t.rebuild.queued
          /\ \A i, k \in DOMAIN t.jobs : t.jobs[i] = FullRebuild /\ t.jobs[k] = FullRebuild => i = k
        BY <2>b, <2>c
    <2> QED
        BY <1>5, <1>7, <1>8, <2>2, <2>3 DEF QueueOK
<1>11. JobOK(Head(s.jobs))
    BY <1>2 DEF QueueOK
<1> QED
    BY <1>2, <1>4, <1>5, <1>7, <1>8, <1>9, <1>10, <1>11
-----------------------------------------------------------------------------
(* The ledger and the events.                                              *)

\* Entries expire from the front.
LEMMA ExpiredLedger ==
    ASSUME NEW l, NEW I, LedgerOK(l, I), NEW n \in 0..Len(l)
    PROVE  LedgerOK(SubSeq(l, n + 1, Len(l)), I)
<1> DEFINE m == SubSeq(l, n + 1, Len(l))
<1>1. l \in Seq(Entries) /\ Len(l) \in Nat /\ DOMAIN l = 1..Len(l)
    BY DEF LedgerOK
<1>2. /\ m \in Seq(Entries) /\ DOMAIN m = 1..(Len(l) - n)
      /\ \A k \in 1..(Len(l) - n) : k + n \in DOMAIN l /\ m[k] = l[k + n]
    BY <1>1, SuffixOfSeq
<1> HIDE DEF m
<1>3. \A j, k \in DOMAIN m : m[j].id = m[k].id => j = k
    <2> SUFFICES ASSUME NEW j \in DOMAIN m, NEW k \in DOMAIN m, m[j].id = m[k].id PROVE j = k
        OBVIOUS
    <2>1. j + n = k + n
        BY <1>2 DEF LedgerOK
    <2> QED
        BY <1>1, <1>2, <2>1
<1> QED
    BY <1>2, <1>3 DEF LedgerOK, m

\* An entry is taken out.
LEMMA ShortenedLedger ==
    ASSUME NEW l, NEW I, LedgerOK(l, I), NEW n \in 1..Len(l)
    PROVE  /\ LedgerOK(RemoveAt(l, n), I)
           /\ \A k \in DOMAIN RemoveAt(l, n) : RemoveAt(l, n)[k].id # l[n].id
<1> DEFINE m == RemoveAt(l, n)
           at(k) == IF k < n THEN k ELSE k + 1
<1>1. l \in Seq(Entries) /\ Len(l) \in Nat /\ DOMAIN l = 1..Len(l)
    BY DEF LedgerOK
<1>2. /\ m \in Seq(Entries) /\ DOMAIN m = 1..(Len(l) - 1)
      /\ \A k \in 1..(Len(l) - 1) : m[k] = IF k < n THEN l[k] ELSE l[k + 1]
    <2>1. PICK r : r = RemoveAt(l, n)
        OBVIOUS
    <2>2. /\ r \in Seq(Entries) /\ Len(r) = Len(l) - 1
          /\ \A k \in 1..(Len(l) - 1) : r[k] = IF k < n THEN l[k] ELSE l[k + 1]
        BY <1>1, <2>1, RemoveAtFacts, Zenon
    <2>3. DOMAIN r = 1..(Len(l) - 1)
        BY <2>2
    <2> QED
        BY <2>1, <2>2, <2>3, Zenon
<1>3. /\ \A k \in DOMAIN m : at(k) \in DOMAIN l /\ at(k) # n /\ m[k] = l[at(k)]
      /\ \A j, k \in DOMAIN m : at(j) = at(k) => j = k
    BY <1>1, <1>2
<1> HIDE DEF m, at
<1>4. \A j, k \in DOMAIN m : m[j].id = m[k].id => j = k
    BY <1>3 DEF LedgerOK
<1>5. \A k \in DOMAIN m : m[k].id \in I /\ m[k].id # l[n].id
    BY <1>1, <1>3 DEF LedgerOK
<1> QED
    BY <1>2, <1>4, <1>5 DEF LedgerOK, m

\* Events as the operating system reports them for a change by B.
Raw(es, B) == es \in Seq(Events) /\ \A k \in DOMAIN es : es[k].by = B

\* One of them.
LEMMA RawOne ==
    ASSUME NEW B, NEW a \in Events, a.by = B
    PROVE  Raw(<<a>>, B) /\ 1 \in DOMAIN <<a>> /\ <<a>>[1] = a
BY DEF Raw

\* Two of them.
LEMMA RawTwo ==
    ASSUME NEW B, NEW a \in Events, NEW b \in Events, a.by = B, b.by = B
    PROVE  /\ Raw(<<a, b>>, B) /\ 1 \in DOMAIN <<a, b>> /\ 2 \in DOMAIN <<a, b>>
           /\ <<a, b>>[1] = a /\ <<a, b>>[2] = b
BY DEF Raw

\* A change of a file is reported for the paths it touches.
LEMMA EventsOfChange ==
    ASSUME platform \in {"linux", "macos", "windows"}, NEW p \in Paths, NEW q \in Paths,
           NEW B \in SUBSET (Ops \cup {None})
    PROVE  /\ \A es \in EventsOfWrite(p, B) :
                /\ Raw(es, B)
                /\ \E k \in DOMAIN es : es[k].kind \in {"create", "modify"} /\ es[k].path = p
           /\ \A es \in EventsOfRemoval(p, B) :
                /\ Raw(es, B)
                /\ \E k \in DOMAIN es : es[k].kind \in {"delete", "modify", "from"} /\ es[k].path = p
           /\ \A es \in EventsOfRename(p, q, B) :
                /\ Raw(es, B)
                /\ \E k \in DOMAIN es : es[k].kind \in {"modify", "from"} /\ es[k].path = p
                /\ \E k \in DOMAIN es : es[k].kind \in {"modify", "to"} /\ es[k].path = q
<1>1. \A kind \in Kinds : \A a, b \in Paths : Event(kind, a, b, B) \in Events
    BY DEF Event, Events
<1>2. \A kind \in Kinds : \A a, b \in Paths :
        /\ Event(kind, a, b, B).by = B /\ Event(kind, a, b, B).kind = kind
        /\ Event(kind, a, b, B).path = a
    BY DEF Event
<1>3. ASSUME NEW es \in EventsOfWrite(p, B)
      PROVE  /\ Raw(es, B)
             /\ \E k \in DOMAIN es : es[k].kind \in {"create", "modify"} /\ es[k].path = p
    <2>1. PICK kind \in {"create", "modify"} :
            LET first == Event(kind, p, p, B)
            IN  es = <<first>> \/ es = <<first, Event("modify", p, p, B)>>
        BY <1>3 DEF EventsOfWrite
    <2> DEFINE first == Event(kind, p, p, B)
               second == Event("modify", p, p, B)
    <2>2. first \in Events /\ second \in Events /\ first.by = B /\ second.by = B
        BY <1>1, <1>2 DEF Kinds
    <2>3. first.kind \in {"create", "modify"} /\ first.path = p
        BY <1>2 DEF Kinds
    <2> HIDE DEF first, second
    <2>4. Raw(es, B) /\ 1 \in DOMAIN es /\ es[1] = first
        <3>1. es = <<first>> \/ es = <<first, second>>
            BY <2>1 DEF first, second
        <3>2. CASE es = <<first>>
            BY <3>2, <2>2, RawOne, Zenon
        <3>3. CASE es = <<first, second>>
            BY <3>3, <2>2, RawTwo, Zenon
        <3> QED
            BY <3>1, <3>2, <3>3
    <2> QED
        BY <2>3, <2>4
<1>4. ASSUME NEW es \in EventsOfRemoval(p, B)
      PROVE  /\ Raw(es, B)
             /\ \E k \in DOMAIN es : es[k].kind \in {"delete", "modify", "from"} /\ es[k].path = p
    <2>1. PICK kind \in {"delete", "modify", "from"} : es = <<Event(kind, p, p, B)>>
        BY <1>4 DEF EventsOfRemoval
    <2> DEFINE e == Event(kind, p, p, B)
    <2>2. e \in Events /\ e.by = B /\ e.kind \in {"delete", "modify", "from"} /\ e.path = p
        BY <1>1, <1>2 DEF Kinds
    <2> HIDE DEF e
    <2>3. Raw(es, B) /\ 1 \in DOMAIN es /\ es[1] = e
        BY <2>1, <2>2, RawOne, Zenon DEF e
    <2> QED
        BY <2>2, <2>3
<1>5. ASSUME NEW es \in EventsOfRename(p, q, B)
      PROVE  /\ Raw(es, B)
             /\ \E k \in DOMAIN es : es[k].kind \in {"modify", "from"} /\ es[k].path = p
             /\ \E k \in DOMAIN es : es[k].kind \in {"modify", "to"} /\ es[k].path = q
    <2> DEFINE from == Event("from", p, p, B)
               to == Event("to", q, q, B)
               whole == Event("rename", q, p, B)
               one == Event("modify", p, p, B)
               other == Event("modify", q, q, B)
    <2>1. es = <<from, to>> \/ es = Append(<<from, to>>, whole) \/ es = <<one, other>>
        BY <1>5 DEF EventsOfRename
    <2>2. /\ from \in Events /\ to \in Events /\ whole \in Events /\ one \in Events /\ other \in Events
          /\ from.by = B /\ to.by = B /\ whole.by = B /\ one.by = B /\ other.by = B
          /\ from.kind = "from" /\ from.path = p /\ to.kind = "to" /\ to.path = q
          /\ one.kind = "modify" /\ one.path = p /\ other.kind = "modify" /\ other.path = q
        BY DEF Event, Events, Kinds
    <2> HIDE DEF from, to, whole, one, other
    <2>3. CASE es = <<from, to>> \/ es = Append(<<from, to>>, whole)
        <3>1. Raw(es, B) /\ 1 \in DOMAIN es /\ 2 \in DOMAIN es /\ es[1] = from /\ es[2] = to
            <4>1. CASE es = <<from, to>>
                BY <4>1, <2>2, RawTwo, Zenon
            <4>2. CASE es = Append(<<from, to>>, whole)
                BY <4>2, <2>2 DEF Raw
            <4> QED
                BY <2>3, <4>1, <4>2
        <3> QED
            BY <2>2, <3>1
    <2>4. CASE es = <<one, other>>
        <3>1. Raw(es, B) /\ 1 \in DOMAIN es /\ 2 \in DOMAIN es /\ es[1] = one /\ es[2] = other
            BY <2>2, <2>4, RawTwo, Zenon
        <3> QED
            BY <2>2, <3>1
    <2> QED
        BY <2>1, <2>3, <2>4
<1> QED
    BY <1>3, <1>4, <1>5

\* What is emitted is queued behind the events that wait.
LEMMA EmittedEvents ==
    ASSUME events \in Seq(Events), NEW B, NEW options,
           \A es \in options : Raw(es, B), Emitted(options)
    PROVE  /\ events' \in Seq(Events)
           /\ \A k \in DOMAIN events : k \in DOMAIN events' /\ events'[k] = events[k]
           /\ \A k \in DOMAIN events' : events'[k].by = B \/ (k \in DOMAIN events /\ events'[k] = events[k])
           /\ watching => \E es \in options : \A k \in DOMAIN es :
                              \E j \in DOMAIN events' : events'[j] = es[k]
<1>1. CASE ~watching
    BY <1>1 DEF Emitted
<1>2. CASE watching
    <2>1. PICK es \in options : events' = events \o es
        BY <1>2 DEF Emitted
    <2>2. es \in Seq(Events) /\ \A k \in DOMAIN es : es[k].by = B
        BY DEF Raw
    <2>3. /\ events' \in Seq(Events) /\ DOMAIN events = 1..Len(events) /\ DOMAIN es = 1..Len(es)
          /\ Len(events) \in Nat /\ Len(es) \in Nat
          /\ DOMAIN events' = 1..(Len(events) + Len(es))
          /\ \A k \in 1..(Len(events) + Len(es)) :
                events'[k] = IF k <= Len(events) THEN events[k] ELSE es[k - Len(events)]
        BY <2>1, <2>2
    <2>4. \A k \in DOMAIN es : k + Len(events) \in DOMAIN events' /\ events'[k + Len(events)] = es[k]
        BY <2>3
    <2>5. \A k \in DOMAIN events : k \in DOMAIN events' /\ events'[k] = events[k]
        BY <2>3
    <2>6. ASSUME NEW k \in DOMAIN events'
          PROVE  events'[k].by = B \/ (k \in DOMAIN events /\ events'[k] = events[k])
        <3>1. CASE k <= Len(events)
            BY <2>3, <3>1
        <3>2. CASE ~(k <= Len(events))
            <4>1. k - Len(events) \in DOMAIN es /\ events'[k] = es[k - Len(events)]
                BY <2>3, <3>2
            <4> QED
                BY <4>1, <2>2
        <3> QED
            BY <3>1, <3>2
    <2> QED
        BY <2>3, <2>4, <2>5, <2>6
<1> QED
    BY <1>1, <1>2

-----------------------------------------------------------------------------
(* The inductive invariant of the machinery.                               *)

\* Commands that may have been given a version are at most MaxOps.
LEMMA SpentBound ==
    ASSUME NEW T \in SUBSET Ops
    PROVE  /\ IsFiniteSet(T) /\ Cardinality(T) \in Nat /\ Cardinality(T) <= MaxOps
           /\ \A i \in Ops \ T : /\ Cardinality(T \cup {i}) = Cardinality(T) + 1
                                 /\ Cardinality(T) + 1 <= MaxOps
<1> USE VaultIndexAssumption
<1>1. IsFiniteSet(Ops) /\ Cardinality(Ops) = MaxOps
    BY FS_Interval DEF Ops
<1>2. \A U \in SUBSET Ops : IsFiniteSet(U) /\ Cardinality(U) \in Nat /\ Cardinality(U) <= MaxOps
    BY <1>1, FS_Subset, FS_CardinalityType
<1>3. ASSUME NEW i \in Ops \ T PROVE Cardinality(T \cup {i}) = Cardinality(T) + 1
    BY <1>2, FS_AddElement
<1>4. ASSUME NEW i \in Ops \ T PROVE Cardinality(T) + 1 <= MaxOps
    BY <1>2, <1>3
<1> QED
    BY <1>2, <1>3, <1>4

\* The vault has just been opened.
LEMMA InitIndex == Init => IndexInv
<1> USE VaultIndexAssumption, AnyPathIsPath, FullRebuildOK
<1> SUFFICES ASSUME Init PROVE IndexInv
    OBVIOUS
<1>1. PICK reset \in BOOLEAN, reindex \in BOOLEAN :
        /\ index = [p \in Paths |-> IF reset THEN 0 ELSE disk[p]]
        /\ rt = [jobs |-> IF reindex THEN <<FullRebuild>> ELSE <<>>, pending |-> {}, incremental |-> TRUE,
                 rebuild |-> [queued |-> reindex, running |-> FALSE, rerun |-> FALSE]]
    BY DEF Init
<1>2. MaxVersion \in Nat /\ 1 <= MaxVersion
    BY DEF MaxVersion
<1>3. disk \in [Paths -> 0..MaxVersion] /\ index \in [Paths -> 0..MaxVersion]
    BY <1>1, <1>2 DEF Init
<1>4. QueueOK(rt)
    <2>1. rt \in Runtimes
        BY <1>1 DEF Runtimes
    <2>2. rt.pending = {} /\ rt.rebuild.queued = reindex /\ ~rt.rebuild.running /\ ~rt.rebuild.rerun
          /\ rt.jobs = IF reindex THEN <<FullRebuild>> ELSE <<>>
        BY <1>1
    <2> QED
        BY <2>1, <2>2 DEF QueueOK
<1>5. writer = Idle /\ Idle.pc = "idle" /\ Idle.job = FullRebuild /\ Idle.todo = {} /\ Idle.files = {}
    BY DEF Init, Idle
<1>6. writer \in [pc : {"idle", "commit", "collect", "rebuild"}, job : Jobs,
                  files : SUBSET Paths, todo : SUBSET Paths, docs : [Paths -> 0..MaxVersion]]
    BY <1>2 DEF Init, Idle
<1>7. WriterOK
    BY <1>1, <1>5 DEF WriterOK
<1>8. op \in [Ops -> [pc : {"unused", "recorded", "applied", "done"},
                      kind : {"write", "delete", "rename"}, path : Paths, old : Paths]]
    BY DEF Init, NoOp
<1>9. VersionsCounted
    <2>1. Cardinality(Spent) \in Nat
        BY SpentBound DEF Spent
    <2> QED
        BY <2>1 DEF VersionsCounted, Init
<1>10. LedgerOK(ledger, Begun) /\ EventsOK
    BY DEF Init, LedgerOK, EventsOK
<1>11. used \in [outside : 0..MaxOutside, extras : 0..MaxExtras, version : 1..MaxVersion]
    BY <1>2 DEF Init
<1>12. EventsTyped
    <2>1. platform \in {"linux", "macos", "windows"} /\ watching \in BOOLEAN
        BY Zenon DEF Init
    <2>2. events = <<>> /\ moved = <<>>
        BY DEF Init
    <2>3. events \in Seq(Events) /\ moved \in Seq(Events) /\ Len(moved) <= 1
        BY <2>2
    <2> QED
        BY <2>1, <2>3 DEF EventsTyped
<1>13. missed \in SUBSET Paths /\ last \in [Paths -> {"none", "read", "remove"}]
    BY Zenon DEF Init
<1> QED
    BY <1>3, <1>4, <1>6, <1>7, <1>8, <1>9, <1>10, <1>11, <1>12, <1>13
    DEF IndexInv, FilesTyped, WriterTyped, OpsTyped, UsedTyped

\* It contains the types.
LEMMA IndexTypes ==
    ASSUME IndexInv
    PROVE  TypeOK /\ MaxVersion \in Nat
<1>1. MaxVersion \in Nat
    BY VaultIndexAssumption DEF MaxVersion
<1>2. QueueOK(rt) => rt \in [jobs : Seq(Jobs), pending : SUBSET Paths, incremental : BOOLEAN,
               rebuild : [queued : BOOLEAN, running : BOOLEAN, rerun : BOOLEAN]]
    BY DEF QueueOK, Runtimes
<1>3. LedgerOK(ledger, Begun) =>
        ledger \in Seq([id : Ops, kind : {"write", "delete", "rename"}, path : Paths, old : Paths])
    BY DEF LedgerOK, Entries
<1> QED
    BY <1>1, <1>2, <1>3, Zenon
    DEF IndexInv, TypeOK, FilesTyped, WriterTyped, EventsTyped, OpsTyped, UsedTyped

\* A change by others.
LEMMA OutsideIndex ==
    ASSUME IndexInv, NEW kind \in {"write", "delete", "rename"}, NEW p \in Paths, NEW q \in Paths,
           Outside([kind |-> kind, path |-> p, old |-> q])
    PROVE  IndexInv'
<1> USE VaultIndexAssumption
<1>1. /\ FilesTyped /\ WriterTyped /\ EventsTyped /\ OpsTyped /\ UsedTyped /\ MaxVersion \in Nat
      /\ VersionsCounted /\ LedgerOK(ledger, Begun) /\ QueueOK(rt) /\ WriterOK /\ EventsOK
    BY IndexTypes DEF IndexInv
<1>2. /\ used.outside < MaxOutside
      /\ missed' = IF watching THEN missed ELSE missed \cup {p, q}
      /\ used' = [used EXCEPT !.outside = @ + 1, !.version = IF kind = "write" THEN used.version + 1 ELSE @]
      /\ \/ /\ kind = "write" /\ disk' = [disk EXCEPT ![p] = used.version + 1] /\ Emitted(EventsOfWrite(p, {None}))
         \/ /\ kind = "delete" /\ disk' = [disk EXCEPT ![p] = 0] /\ Emitted(EventsOfRemoval(p, {None}))
         \/ /\ kind = "rename" /\ disk' = [disk EXCEPT ![p] = disk[q], ![q] = 0]
            /\ Emitted(EventsOfRename(q, p, {None}))
      /\ UNCHANGED <<index, rt, writer, ledger, platform, watching, moved, op, last>>
    BY DEF Outside, Fresh
<1>3. Cardinality(Spent) \in Nat /\ Cardinality(Spent) <= MaxOps
    BY SpentBound DEF Spent
<1>4. /\ used.outside \in Nat /\ used.version \in Nat /\ used.extras \in 0..MaxExtras
      /\ used.version <= 1 + used.outside + Cardinality(Spent) /\ used.version >= 1
    BY <1>1 DEF UsedTyped, VersionsCounted
<1>5. used.version + 1 <= MaxVersion
    BY <1>2, <1>3, <1>4 DEF MaxVersion
<1>6. UsedTyped' /\ used'.outside = used.outside + 1 /\ used'.version <= used.version + 1
    <2> DEFINE o == used.outside + 1
               v == IF kind = "write" THEN used.version + 1 ELSE used.version
    <2>1. o \in 0..MaxOutside /\ v \in 1..MaxVersion /\ v <= used.version + 1
        BY <1>1, <1>2, <1>4, <1>5 DEF UsedTyped
    <2>2. used' = [used EXCEPT !.outside = o, !.version = v]
        BY <1>2, Zenon
    <2> HIDE DEF o, v
    <2>3. UsedTyped' /\ used'.outside = o /\ used'.version = v
        BY <1>1, <2>1, <2>2, Zenon DEF UsedTyped
    <2> QED
        BY <2>1, <2>3 DEF o
<1>7. VersionsCounted'
    <2>1. Spent' = Spent
        BY <1>2 DEF Spent
    <2>2. used'.version \in Nat
        BY <1>6 DEF UsedTyped
    <2> QED
        BY <1>3, <1>4, <1>6, <2>1, <2>2 DEF VersionsCounted
<1>8. FilesTyped'
    <2>1. disk' \in [Paths -> 0..MaxVersion]
        BY <1>1, <1>2, <1>4, <1>5 DEF FilesTyped
    <2>2. missed' \in SUBSET Paths
        BY <1>1, <1>2 DEF FilesTyped
    <2> QED
        BY <1>1, <1>2, <2>1, <2>2 DEF FilesTyped
<1>9. PICK options : Emitted(options) /\ \A es \in options : Raw(es, {None})
    <2>1. platform \in {"linux", "macos", "windows"} /\ {None} \in SUBSET (Ops \cup {None})
        BY <1>1 DEF EventsTyped
    <2>2. /\ \A es \in EventsOfWrite(p, {None}) : Raw(es, {None})
          /\ \A es \in EventsOfRemoval(p, {None}) : Raw(es, {None})
          /\ \A es \in EventsOfRename(q, p, {None}) : Raw(es, {None})
        BY <2>1, EventsOfChange
    <2> QED
        BY <1>2, <2>2
<1>10. /\ events' \in Seq(Events)
       /\ \A k \in DOMAIN events' : events'[k].by = {None} \/ (k \in DOMAIN events /\ events'[k] = events[k])
    BY <1>1, <1>9, EmittedEvents DEF EventsTyped
<1>11. EventsTyped' /\ EventsOK'
    BY <1>1, <1>2, <1>10 DEF EventsTyped, EventsOK
<1>12. WriterTyped' /\ OpsTyped' /\ WriterOK'
    BY <1>1, <1>2 DEF WriterTyped, OpsTyped, WriterOK, JobOK, FullRebuild, Job, AnyPath
<1>13. LedgerOK(ledger, Begun)' /\ QueueOK(rt)'
    <2>1. Begun' = Begun
        BY <1>2 DEF Begun
    <2> QED
        BY <1>1, <1>2, <2>1 DEF LedgerOK, QueueOK
<1> QED
    BY <1>6, <1>7, <1>8, <1>11, <1>12, <1>13 DEF IndexInv

\* One more of the extras.
LEMMA ExtraUsed ==
    ASSUME UsedTyped, Extra
    PROVE  UsedTyped' /\ used'.version = used.version /\ used'.outside = used.outside
<1> USE VaultIndexAssumption
<1>1. used.extras + 1 \in 0..MaxExtras
    BY DEF UsedTyped, Extra
<1>2. used' = [used EXCEPT !.extras = used.extras + 1]
    BY DEF Extra
<1> QED
    BY <1>1, <1>2 DEF UsedTyped

\* A command is recorded: its id is new to the ledger.
LEMMA RecordIndex ==
    ASSUME IndexInv, NEW i \in Ops, NEW kind \in {"write", "delete", "rename"},
           NEW p \in Paths, NEW q \in Paths, Record(i, kind, p, q)
    PROVE  IndexInv'
<1> DEFINE absent == kind = "delete" /\ disk[p] = 0
           entry == [id |-> i, kind |-> kind, path |-> p, old |-> q]
           o == [pc |-> IF absent THEN "applied" ELSE "recorded", kind |-> kind, path |-> p, old |-> q]
<1>1. /\ FilesTyped /\ WriterTyped /\ EventsTyped /\ OpsTyped /\ UsedTyped /\ MaxVersion \in Nat
      /\ VersionsCounted /\ LedgerOK(ledger, Begun) /\ QueueOK(rt) /\ WriterOK /\ EventsOK
    BY IndexTypes DEF IndexInv
<1>2. /\ op[i].pc = "unused" /\ op' = [op EXCEPT ![i] = o]
      /\ ledger' = ledger \/ ledger' = Append(ledger, entry)
      /\ UNCHANGED <<disk, index, rt, writer, platform, watching, events, moved, used, missed, last>>
    BY DEF Record
<1>3. o \in [pc : {"unused", "recorded", "applied", "done"},
             kind : {"write", "delete", "rename"}, path : Paths, old : Paths]
    OBVIOUS
<1>4. o.pc # "unused"
    OBVIOUS
<1> HIDE DEF o
<1>5. OpsTyped' /\ Begun' = Begun \cup {i} /\ i \notin Begun /\ Spent \subseteq Spent'
    BY <1>1, <1>2, <1>3, <1>4 DEF OpsTyped, Begun, Spent
<1>6. VersionsCounted'
    <2>1. Spent' \in SUBSET Ops
        BY DEF Spent
    <2>2. IsFiniteSet(Spent') /\ Cardinality(Spent') \in Nat /\ Cardinality(Spent) \in Nat
        BY <2>1, SpentBound DEF Spent
    <2>3. Cardinality(Spent) <= Cardinality(Spent')
        BY <2>2, <1>5, FS_Subset
    <2> QED
        BY <1>1, <1>2, <2>2, <2>3 DEF VersionsCounted, UsedTyped
<1>7. LedgerOK(ledger', Begun')
    <2>1. CASE ledger' = ledger
        BY <2>1, <1>1, <1>5 DEF LedgerOK
    <2>2. CASE ledger' = Append(ledger, entry)
        <3>1. entry \in Entries /\ entry.id = i
            BY DEF Entries
        <3> HIDE DEF entry
        <3>2. /\ ledger \in Seq(Entries) /\ ledger' \in Seq(Entries) /\ Len(ledger) \in Nat
              /\ DOMAIN ledger = 1..Len(ledger) /\ DOMAIN ledger' = 1..(Len(ledger) + 1)
              /\ \A k \in 1..Len(ledger) : ledger'[k] = ledger[k]
              /\ ledger'[Len(ledger) + 1] = entry
            BY <2>2, <3>1, <1>1 DEF LedgerOK
        <3>3. \A k \in DOMAIN ledger : ledger[k].id # i /\ ledger[k].id \in Begun
            BY <1>1, <1>5 DEF LedgerOK
        <3>4. \A k \in DOMAIN ledger' : ledger'[k].id \in Begun'
            BY <3>1, <3>2, <3>3, <1>5
        <3>5. \A j, k \in DOMAIN ledger' : ledger'[j].id = ledger'[k].id => j = k
            BY <3>1, <3>2, <3>3, <1>1 DEF LedgerOK
        <3> QED
            BY <3>2, <3>4, <3>5 DEF LedgerOK
    <2> QED
        BY <1>2, <2>1, <2>2
<1>8. FilesTyped' /\ WriterTyped' /\ EventsTyped' /\ UsedTyped' /\ EventsOK'
    BY <1>1, <1>2 DEF FilesTyped, WriterTyped, EventsTyped, UsedTyped, EventsOK
<1>9. QueueOK(rt)' /\ WriterOK'
    BY <1>1, <1>2 DEF WriterOK, QueueOK, JobOK
<1> QED
    BY <1>5, <1>6, <1>7, <1>8, <1>9 DEF IndexInv, LedgerOK

\* A command changes its file; the version it takes is counted.
LEMMA ApplyIndex ==
    ASSUME IndexInv, NEW i \in Ops, ApplyOp(i)
    PROVE  IndexInv'
<1> USE VaultIndexAssumption
<1> DEFINE o == op[i]
           v == IF o.kind = "write" THEN used.version + 1 ELSE used.version
<1>1. /\ FilesTyped /\ WriterTyped /\ EventsTyped /\ OpsTyped /\ UsedTyped /\ MaxVersion \in Nat
      /\ VersionsCounted /\ LedgerOK(ledger, Begun) /\ QueueOK(rt) /\ WriterOK /\ EventsOK
    BY IndexTypes DEF IndexInv
<1>2. /\ o.pc = "recorded" /\ op' = [op EXCEPT ![i].pc = "applied"]
      /\ used' = [used EXCEPT !.version = v]
      /\ \/ disk' = [disk EXCEPT ![o.path] = used.version + 1] /\ v = used.version + 1
            /\ Emitted(EventsOfWrite(o.path, {i}))
         \/ disk' = [disk EXCEPT ![o.path] = 0] /\ Emitted(EventsOfRemoval(o.path, {i}))
         \/ disk' = [disk EXCEPT ![o.path] = disk[o.old], ![o.old] = 0]
            /\ Emitted(EventsOfRename(o.old, o.path, {i}))
      /\ UNCHANGED <<index, rt, writer, ledger, platform, watching, moved, missed, last>>
    BY DEF ApplyOp, Fresh
<1>3. o.path \in Paths /\ o.old \in Paths /\ i \notin Spent /\ i \in Begun
    BY <1>1, <1>2 DEF OpsTyped, Spent, Begun
<1>4. OpsTyped' /\ Begun' = Begun /\ Spent' = Spent \cup {i}
    BY <1>1, <1>2 DEF OpsTyped, Begun, Spent
<1>5. /\ Cardinality(Spent) \in Nat /\ Cardinality(Spent) + 1 <= MaxOps
      /\ Cardinality(Spent \cup {i}) = Cardinality(Spent) + 1
    <2>1. Spent \in SUBSET Ops
        BY DEF Spent
    <2> QED
        BY <1>3, <2>1, SpentBound
<1>6. /\ used.outside \in 0..MaxOutside /\ used.version \in Nat /\ used.version >= 1
      /\ used.version <= 1 + used.outside + Cardinality(Spent)
    BY <1>1 DEF UsedTyped, VersionsCounted
<1>7. used.version + 1 \in 1..MaxVersion /\ v \in 1..MaxVersion /\ v <= used.version + 1
    BY <1>1, <1>5, <1>6 DEF MaxVersion, UsedTyped
<1>8. UsedTyped' /\ used'.version = v /\ used'.outside = used.outside
    <2> HIDE DEF v
    <2> QED
        BY <1>1, <1>2, <1>7 DEF UsedTyped
<1>9. VersionsCounted'
    BY <1>4, <1>5, <1>6, <1>7, <1>8 DEF VersionsCounted
<1>10. FilesTyped'
    <2> HIDE DEF v, o
    <2>1. disk' \in [Paths -> 0..MaxVersion]
        BY <1>1, <1>2, <1>3, <1>7 DEF FilesTyped
    <2> QED
        BY <1>1, <1>2, <2>1 DEF FilesTyped
<1>11. PICK options : Emitted(options) /\ \A es \in options : Raw(es, {i})
    <2>1. platform \in {"linux", "macos", "windows"} /\ {i} \in SUBSET (Ops \cup {None})
        BY <1>1 DEF EventsTyped
    <2>2. /\ \A es \in EventsOfWrite(o.path, {i}) : Raw(es, {i})
          /\ \A es \in EventsOfRemoval(o.path, {i}) : Raw(es, {i})
          /\ \A es \in EventsOfRename(o.old, o.path, {i}) : Raw(es, {i})
        BY <1>3, <2>1, EventsOfChange
    <2> QED
        BY <1>2, <2>2
<1>12. /\ events' \in Seq(Events)
       /\ \A k \in DOMAIN events' : events'[k].by = {i} \/ (k \in DOMAIN events /\ events'[k] = events[k])
    BY <1>1, <1>11, EmittedEvents DEF EventsTyped
<1>13. i # None
    BY DEF Ops, None
<1>14. EventsTyped' /\ EventsOK'
    BY <1>1, <1>2, <1>12, <1>13 DEF EventsTyped, EventsOK
<1>15. WriterTyped' /\ WriterOK' /\ LedgerOK(ledger, Begun)' /\ QueueOK(rt)'
    BY <1>1, <1>2, <1>4 DEF WriterTyped, WriterOK, LedgerOK, QueueOK, JobOK
<1> QED
    BY <1>4, <1>8, <1>9, <1>10, <1>14, <1>15 DEF IndexInv

\* A command fails and its entry is cancelled.
LEMMA FailOpIndex ==
    ASSUME IndexInv, NEW i \in Ops, FailOp(i)
    PROVE  IndexInv'
<1>1. /\ FilesTyped /\ WriterTyped /\ EventsTyped /\ OpsTyped /\ UsedTyped /\ MaxVersion \in Nat
      /\ VersionsCounted /\ LedgerOK(ledger, Begun) /\ QueueOK(rt) /\ WriterOK /\ EventsOK
    BY IndexTypes DEF IndexInv
<1>2. /\ op[i].pc = "recorded" /\ op' = [op EXCEPT ![i].pc = "done"]
      /\ Extra \/ UNCHANGED used
      /\ ledger' = RemoveFirstMatch(ledger, LAMBDA e : e.id = i)
      /\ UNCHANGED <<disk, index, rt, writer, platform, watching, events, moved, missed, last>>
    BY DEF FailOp
<1>3. OpsTyped' /\ Begun' = Begun /\ Spent \subseteq Spent'
    BY <1>1, <1>2 DEF OpsTyped, Begun, Spent
<1>4. UsedTyped' /\ used'.version = used.version /\ used'.outside = used.outside
    BY <1>1, <1>2, ExtraUsed DEF UsedTyped
<1>5. VersionsCounted'
    <2>1. Spent' \in SUBSET Ops
        BY DEF Spent
    <2>2. IsFiniteSet(Spent') /\ Cardinality(Spent') \in Nat /\ Cardinality(Spent) \in Nat
        BY <2>1, SpentBound DEF Spent
    <2>3. Cardinality(Spent) <= Cardinality(Spent')
        BY <2>2, <1>3, FS_Subset
    <2> QED
        BY <1>1, <1>4, <2>2, <2>3 DEF VersionsCounted, UsedTyped
<1>6. LedgerOK(ledger', Begun')
    <2> DEFINE I == {k \in 1..Len(ledger) : ledger[k].id = i}
    <2>1. CASE I = {}
        <3>1. ledger' = ledger
            BY <1>2, <2>1 DEF RemoveFirstMatch
        <3> QED
            BY <3>1, <1>1, <1>3 DEF LedgerOK
    <2>2. CASE I # {}
        <3>1. Min(I) \in I
            <4>2. I \subseteq Nat
                BY <1>1 DEF LedgerOK
            <4> HIDE DEF I
            <4>1. \E x \in I : \A y \in I : x <= y
                BY <2>2, <4>2, LeastNatural
            <4> QED
                BY <4>1 DEF Min
        <3>2. ledger' = RemoveAt(ledger, Min(I))
            BY <1>2, <2>2, Zenon DEF RemoveFirstMatch, SelectInSeq
        <3> QED
            BY <3>1, <3>2, <1>1, <1>3, ShortenedLedger
    <2> QED
        BY <2>1, <2>2
<1>7. FilesTyped' /\ WriterTyped' /\ EventsTyped' /\ EventsOK'
    BY <1>1, <1>2 DEF FilesTyped, WriterTyped, EventsTyped, EventsOK
<1>8. QueueOK(rt)' /\ WriterOK'
    BY <1>1, <1>2 DEF WriterOK, QueueOK, JobOK
<1> QED
    BY <1>3, <1>4, <1>5, <1>6, <1>7, <1>8 DEF IndexInv, LedgerOK

\* What the search runtime becomes leaves the rest of the invariant alone.
LEMMA RuntimeIndex ==
    ASSUME IndexInv, QueueOK(rt'), rt'.rebuild.running = rt.rebuild.running,
           UsedTyped', used'.version = used.version, used'.outside = used.outside,
           UNCHANGED <<disk, index, writer, ledger, platform, watching, events, moved, op, missed, last>>
    PROVE  IndexInv'
<1>1. Spent' = Spent /\ Begun' = Begun
    BY DEF Spent, Begun
<1>2. FilesTyped' /\ WriterTyped' /\ EventsTyped' /\ EventsOK' /\ OpsTyped' /\ LedgerOK(ledger, Begun)'
    BY <1>1 DEF IndexInv, FilesTyped, WriterTyped, EventsTyped, EventsOK, OpsTyped, LedgerOK
<1>3. QueueOK(rt)' /\ WriterOK' /\ VersionsCounted'
    BY <1>1 DEF IndexInv, WriterOK, QueueOK, JobOK, VersionsCounted
<1> QED
    BY <1>2, <1>3 DEF IndexInv

\* The notice of a command.
LEMMA NotifyOpIndex ==
    ASSUME IndexInv, NEW i \in Ops, NotifyOp(i)
    PROVE  IndexInv'
<1>1. /\ FilesTyped /\ WriterTyped /\ EventsTyped /\ OpsTyped /\ UsedTyped /\ MaxVersion \in Nat
      /\ VersionsCounted /\ LedgerOK(ledger, Begun) /\ QueueOK(rt) /\ WriterOK /\ EventsOK
    BY IndexTypes DEF IndexInv
<1>2. /\ op[i].pc = "applied" /\ op' = [op EXCEPT ![i].pc = "done"]
      /\ UNCHANGED <<disk, index, writer, ledger, platform, watching, events, moved, used, missed, last>>
    BY DEF NotifyOp
<1>3. op[i].path \in Paths /\ op[i].old \in Paths /\ op[i].kind \in {"write", "delete", "rename"}
    BY <1>1 DEF OpsTyped
<1>4. QueueOK(rt') /\ rt'.rebuild.running = rt.rebuild.running
    <2>1. \/ rt' = NotifyWritten(rt, op[i].path)
          \/ rt' = NotifyRemoved(rt, op[i].path)
          \/ rt' = NotifyRenamed(rt, op[i].old, op[i].path)
        BY <1>3 DEF NotifyOp
    <2>2. /\ QueueOK(NotifyWritten(rt, op[i].path))
          /\ NotifyWritten(rt, op[i].path).rebuild.running = rt.rebuild.running
          /\ QueueOK(NotifyRemoved(rt, op[i].path))
          /\ NotifyRemoved(rt, op[i].path).rebuild.running = rt.rebuild.running
          /\ QueueOK(NotifyRenamed(rt, op[i].old, op[i].path))
          /\ NotifyRenamed(rt, op[i].old, op[i].path).rebuild.running = rt.rebuild.running
        BY <1>1, <1>3, NotifyOK, Zenon
    <2> QED
        BY <2>1, <2>2
<1>5. OpsTyped' /\ Begun' = Begun /\ Spent' = Spent
    BY <1>1, <1>2 DEF OpsTyped, Begun, Spent
<1>6. FilesTyped' /\ WriterTyped' /\ EventsTyped' /\ EventsOK' /\ UsedTyped' /\ LedgerOK(ledger, Begun)'
    BY <1>1, <1>2, <1>5 DEF FilesTyped, WriterTyped, EventsTyped, EventsOK, UsedTyped, LedgerOK
<1>7. QueueOK(rt)' /\ WriterOK' /\ VersionsCounted'
    BY <1>1, <1>2, <1>4, <1>5 DEF WriterOK, QueueOK, JobOK, VersionsCounted
<1> QED
    BY <1>5, <1>6, <1>7 DEF IndexInv

\* The watcher is started.
LEMMA StartIndex ==
    ASSUME IndexInv, StartWatching
    PROVE  IndexInv'
<1>1. /\ watching' = TRUE
      /\ UNCHANGED <<disk, index, rt, writer, ledger, platform, events, moved, op, used, missed, last>>
    BY DEF StartWatching
<1>2. Spent' = Spent /\ Begun' = Begun
    BY <1>1 DEF Spent, Begun
<1>3. FilesTyped' /\ WriterTyped' /\ EventsOK' /\ OpsTyped' /\ UsedTyped' /\ LedgerOK(ledger, Begun)'
    BY <1>1, <1>2 DEF IndexInv, FilesTyped, WriterTyped, EventsOK, OpsTyped, UsedTyped, LedgerOK
<1>4. EventsTyped'
    BY <1>1, Zenon DEF IndexInv, EventsTyped
<1>5. QueueOK(rt)' /\ WriterOK' /\ VersionsCounted'
    BY <1>1, <1>2 DEF IndexInv, WriterOK, QueueOK, JobOK, VersionsCounted
<1> QED
    BY <1>3, <1>4, <1>5 DEF IndexInv

\* An event is matched with the ledger or handed to the search runtime.
LEMMA ObserveFacts ==
    ASSUME IndexInv, NEW ev \in Events, ev.kind \in {"create", "modify", "delete", "rename"}, Observe(ev)
    PROVE  /\ LedgerOK(ledger', Begun) /\ QueueOK(rt') /\ rt'.rebuild.running = rt.rebuild.running
           /\ UsedTyped' /\ used'.version = used.version /\ used'.outside = used.outside
           /\ missed' \in SUBSET Paths
<1>1. /\ FilesTyped /\ UsedTyped /\ LedgerOK(ledger, Begun) /\ QueueOK(rt)
      /\ ev.path \in Paths /\ ev.old \in Paths
    BY DEF IndexInv, Events
<1>2. PICK n \in 0..Len(ledger) :
        LET live == SubSeq(ledger, n + 1, Len(ledger))
            hits == {k \in 1..Len(live) : Matches(live[k], ev)}
        IN  IF hits # {}
            THEN LET k == CHOOSE k \in hits : \A j \in hits : k <= j
                 IN  /\ ledger' = RemoveAt(live, k)
                     /\ missed' = IF ev.by = {live[k].id} THEN missed ELSE missed \cup {ev.path, ev.old}
                     /\ UNCHANGED <<rt, used>>
            ELSE /\ ledger' = live
                 /\ \/ rt' = HandleSearchEvent(rt, ev) /\ UNCHANGED used
                    \/ ev.kind \in {"create", "modify"} /\ Extra /\ rt' = QueueRebuild(rt)
                 /\ UNCHANGED missed
    BY DEF Observe
<1> DEFINE live == SubSeq(ledger, n + 1, Len(ledger))
           hits == {k \in 1..Len(live) : Matches(live[k], ev)}
<1>3. LedgerOK(live, Begun)
    BY <1>1, ExpiredLedger
<1>4. CASE hits # {}
    <2> DEFINE k == CHOOSE k \in hits : \A j \in hits : k <= j
    <2>1. /\ ledger' = RemoveAt(live, k)
          /\ missed' = IF ev.by = {live[k].id} THEN missed ELSE missed \cup {ev.path, ev.old}
          /\ UNCHANGED <<rt, used>>
        BY <1>2, <1>4
    <2>2. \E x \in hits : \A y \in hits : x <= y
        <3>1. hits \subseteq Nat
            BY <1>3 DEF LedgerOK
        <3> HIDE DEF hits
        <3> QED
            BY <1>4, <3>1, LeastNatural
    <2>3. k \in hits
        <3> HIDE DEF hits
        <3> QED
            BY <2>2
    <2>4. k \in 1..Len(live)
        BY <2>3
    <2> HIDE DEF k, live, hits
    <2>5. LedgerOK(ledger', Begun)
        BY <1>3, <2>1, <2>4, ShortenedLedger
    <2>6. missed' \in SUBSET Paths
        BY <1>1, <2>1 DEF FilesTyped
    <2> QED
        BY <1>1, <2>1, <2>5, <2>6 DEF UsedTyped
<1>5. CASE hits = {}
    <2>1. /\ ledger' = live /\ UNCHANGED missed
          /\ \/ rt' = HandleSearchEvent(rt, ev) /\ UNCHANGED used
             \/ Extra /\ rt' = QueueRebuild(rt)
        BY <1>2, <1>5
    <2> HIDE DEF live, hits
    <2>2. UsedTyped' /\ used'.version = used.version /\ used'.outside = used.outside
        BY <1>1, <2>1, ExtraUsed DEF UsedTyped
    <2>3. \/ rt' = NotifyWritten(rt, ev.path)
          \/ rt' = NotifyRemoved(rt, ev.path)
          \/ rt' = NotifyRenamed(rt, ev.old, ev.path)
          \/ rt' = QueueRebuild(rt)
        BY <2>1 DEF HandleSearchEvent
    <2>5. /\ QueueOK(NotifyWritten(rt, ev.path))
          /\ NotifyWritten(rt, ev.path).rebuild.running = rt.rebuild.running
          /\ QueueOK(NotifyRemoved(rt, ev.path))
          /\ NotifyRemoved(rt, ev.path).rebuild.running = rt.rebuild.running
          /\ QueueOK(NotifyRenamed(rt, ev.old, ev.path))
          /\ NotifyRenamed(rt, ev.old, ev.path).rebuild.running = rt.rebuild.running
        BY <1>1, NotifyOK, Zenon
    <2>6. QueueOK(QueueRebuild(rt)) /\ QueueRebuild(rt).rebuild.running = rt.rebuild.running
        BY <1>1, QueueRebuildOK, Zenon
    <2>4. QueueOK(rt') /\ rt'.rebuild.running = rt.rebuild.running
        BY <2>3, <2>5, <2>6
    <2> QED
        BY <1>1, <1>3, <2>1, <2>2, <2>4 DEF FilesTyped
<1> QED
    BY <1>4, <1>5

\* What is left to show when the watcher has observed an event.
LEMMA ObservedIndex ==
    ASSUME IndexInv, LedgerOK(ledger', Begun), QueueOK(rt'), rt'.rebuild.running = rt.rebuild.running,
           UsedTyped', used'.version = used.version, used'.outside = used.outside,
           missed' \in SUBSET Paths, events' \in Seq(Events), moved' \in Seq(Events), Len(moved') <= 1,
           EventsOK', UNCHANGED <<disk, index, writer, platform, watching, op, last>>
    PROVE  IndexInv'
<1>1. Spent' = Spent /\ Begun' = Begun
    BY DEF Spent, Begun
<1>2. FilesTyped' /\ WriterTyped' /\ EventsTyped' /\ OpsTyped'
    BY DEF IndexInv, FilesTyped, WriterTyped, EventsTyped, OpsTyped
<1>3. LedgerOK(ledger, Begun)'
    BY <1>1 DEF LedgerOK
<1>4. QueueOK(rt)' /\ WriterOK' /\ VersionsCounted'
    BY <1>1 DEF IndexInv, WriterOK, QueueOK, JobOK, VersionsCounted
<1> QED
    BY <1>2, <1>3, <1>4 DEF IndexInv

\* No second half came in time.
LEMMA TimeoutIndex ==
    ASSUME IndexInv, MovedTimeout
    PROVE  IndexInv'
<1> DEFINE ev == [moved[1] EXCEPT !.kind = "delete"]
<1>1. /\ moved # <<>> /\ moved' = <<>> /\ Observe(ev)
      /\ UNCHANGED <<disk, index, writer, platform, watching, events, op, last>>
    BY DEF MovedTimeout
<1>2. events \in Seq(Events) /\ moved \in Seq(Events) /\ EventsOK
    BY DEF IndexInv, EventsTyped
<1>3. moved[1] \in Events
    BY <1>1, <1>2
<1>4. ev \in Events /\ ev.kind \in {"create", "modify", "delete", "rename"}
    BY <1>3 DEF Events, Kinds
<1> HIDE DEF ev
<1>5. /\ LedgerOK(ledger', Begun) /\ QueueOK(rt') /\ rt'.rebuild.running = rt.rebuild.running
      /\ UsedTyped' /\ used'.version = used.version /\ used'.outside = used.outside
      /\ missed' \in SUBSET Paths
    BY <1>1, <1>4, ObserveFacts
<1>6. events' \in Seq(Events) /\ moved' \in Seq(Events) /\ Len(moved') <= 1 /\ EventsOK'
    BY <1>1, <1>2 DEF EventsOK
<1> QED
    BY <1>1, <1>5, <1>6, ObservedIndex

\* The event the watcher makes of one it has received, if any.
Received(ev) ==
    IF ev.kind = "to"
    THEN IF moved = <<>> THEN [ev EXCEPT !.kind = "create"]
         ELSE Event("rename", ev.path, moved[1].path, ev.by \cup moved[1].by)
    ELSE ev

\* It is one that can be observed.
LEMMA ReceivedEvent ==
    ASSUME NEW ev \in Events, ev.kind # "from", moved \in Seq(Events)
    PROVE  Received(ev) \in Events /\ Received(ev).kind \in {"create", "modify", "delete", "rename"}
<1>1. CASE ev.kind # "to"
    BY <1>1 DEF Received, Events, Kinds
<1>2. CASE ev.kind = "to" /\ moved = <<>>
    BY <1>2 DEF Received, Events, Kinds
<1>3. CASE ev.kind = "to" /\ moved # <<>>
    <2>1. moved[1] \in Events
        BY <1>3
    <2>2. /\ ev.path \in Paths /\ moved[1].path \in Paths
          /\ ev.by \in SUBSET (Ops \cup {None}) /\ moved[1].by \in SUBSET (Ops \cup {None})
        BY <2>1 DEF Events
    <2>3. ev.by \cup moved[1].by \in SUBSET (Ops \cup {None})
        BY <2>2
    <2>4. Received(ev) = Event("rename", ev.path, moved[1].path, ev.by \cup moved[1].by)
        BY <1>3 DEF Received
    <2> QED
        BY <2>2, <2>3, <2>4 DEF Event, Events, Kinds
<1> QED
    BY <1>1, <1>2, <1>3

\* What the watcher does with the first event.
LEMMA WatchSteps ==
    ASSUME IndexInv, WatchEvent
    PROVE  /\ Head(events) \in Events /\ events # <<>> /\ events' = Tail(events)
           /\ UNCHANGED <<disk, index, writer, platform, watching, op, last>>
           /\ \/ /\ Head(events).kind = "from" /\ moved' = <<Head(events)>>
                 /\ missed' = missed \cup {moved[k].path : k \in {k \in DOMAIN moved : moved[k].by = {None}}}
                 /\ UNCHANGED <<ledger, rt, used>>
              \/ /\ Head(events).kind # "from" /\ Observe(Received(Head(events)))
                 /\ moved' = IF Head(events).kind = "to" THEN <<>> ELSE moved
<1>1. events \in Seq(Events) /\ events # <<>>
    BY DEF IndexInv, EventsTyped, WatchEvent
<1>2. Head(events) \in Events
    BY <1>1
<1> DEFINE ev == Head(events)
<1>3. /\ events' = Tail(events)
      /\ UNCHANGED <<disk, index, writer, platform, watching, op, last>>
    BY DEF WatchEvent
<1>4. \/ /\ ev.kind \in {"create", "modify", "delete", "rename"} /\ Observe(ev) /\ UNCHANGED moved
      \/ /\ ev.kind = "from" /\ moved' = <<ev>>
         /\ missed' = missed \cup {moved[k].path : k \in {k \in DOMAIN moved : moved[k].by = {None}}}
         /\ UNCHANGED <<ledger, rt, used>>
      \/ /\ ev.kind = "to" /\ moved' = <<>>
         /\ Observe(IF moved = <<>> THEN [ev EXCEPT !.kind = "create"]
                    ELSE Event("rename", ev.path, moved[1].path, ev.by \cup moved[1].by))
    BY DEF WatchEvent, Held
<1> HIDE DEF ev
<1>5. ev.kind \in {"create", "modify", "delete", "rename"} => Received(ev) = ev
    BY DEF Received
<1>6. ev.kind = "to" => Received(ev) = IF moved = <<>> THEN [ev EXCEPT !.kind = "create"]
                    ELSE Event("rename", ev.path, moved[1].path, ev.by \cup moved[1].by)
    BY Zenon DEF Received
<1>7. \/ /\ ev.kind = "from" /\ moved' = <<ev>>
         /\ missed' = missed \cup {moved[k].path : k \in {k \in DOMAIN moved : moved[k].by = {None}}}
         /\ UNCHANGED <<ledger, rt, used>>
      \/ /\ ev.kind # "from" /\ Observe(Received(ev))
         /\ moved' = IF ev.kind = "to" THEN <<>> ELSE moved
    BY <1>4, <1>5, <1>6, Zenon
<1> QED
    BY <1>1, <1>2, <1>3, <1>7 DEF ev

\* The watcher takes an event.
LEMMA WatchIndex ==
    ASSUME IndexInv, WatchEvent
    PROVE  IndexInv'
<1> DEFINE ev == Head(events)
<1>1. /\ FilesTyped /\ EventsTyped /\ UsedTyped /\ LedgerOK(ledger, Begun) /\ QueueOK(rt) /\ EventsOK
      /\ events \in Seq(Events) /\ moved \in Seq(Events) /\ Len(moved) <= 1
    BY DEF IndexInv, EventsTyped
<1>2. ev \in Events /\ events # <<>> /\ events' = Tail(events)
    BY WatchSteps
<1>3. /\ events' \in Seq(Events) /\ ev = events[1]
      /\ \A k \in DOMAIN events' : k + 1 \in DOMAIN events /\ events'[k] = events[k + 1]
      /\ 1 \in DOMAIN events
    BY <1>1, <1>2
<1>4. UNCHANGED <<disk, index, writer, platform, watching, op, last>>
    BY WatchSteps
<1> HIDE DEF ev
<1>5. CASE /\ ev.kind = "from" /\ moved' = <<ev>>
           /\ missed' = missed \cup {moved[k].path : k \in {k \in DOMAIN moved : moved[k].by = {None}}}
           /\ UNCHANGED <<ledger, rt, used>>
    <2>1. moved' \in Seq(Events) /\ Len(moved') <= 1 /\ DOMAIN moved' = {1} /\ moved'[1] = ev
        BY <1>2, <1>5
    <2>2. EventsOK'
        BY <1>1, <1>3, <1>5, <2>1 DEF EventsOK
    <2>3. {moved[k].path : k \in {k \in DOMAIN moved : moved[k].by = {None}}} \in SUBSET Paths
        <3>1. \A k \in DOMAIN moved : moved[k] \in Events
            BY <1>1
        <3>2. \A k \in DOMAIN moved : moved[k].path \in Paths
            BY <3>1 DEF Events
        <3> QED
            BY <3>2
    <2>4. missed' \in SUBSET Paths
        BY <1>1, <1>5, <2>3, Zenon DEF FilesTyped
    <2> QED
        BY <1>1, <1>3, <1>4, <1>5, <2>1, <2>2, <2>4, ObservedIndex DEF UsedTyped
<1>6. CASE /\ ev.kind # "from" /\ Observe(Received(ev))
           /\ moved' = IF ev.kind = "to" THEN <<>> ELSE moved
    <2>1. Received(ev) \in Events /\ Received(ev).kind \in {"create", "modify", "delete", "rename"}
        BY <1>1, <1>2, <1>6, ReceivedEvent
    <2>2. /\ LedgerOK(ledger', Begun) /\ QueueOK(rt') /\ rt'.rebuild.running = rt.rebuild.running
          /\ UsedTyped' /\ used'.version = used.version /\ used'.outside = used.outside
          /\ missed' \in SUBSET Paths
        BY <1>6, <2>1, ObserveFacts
    <2>3. moved' \in Seq(Events) /\ Len(moved') <= 1 /\ EventsOK'
        BY <1>1, <1>3, <1>6 DEF EventsOK
    <2> QED
        BY <1>3, <1>4, <2>2, <2>3, ObservedIndex
<1> QED
    BY <1>5, <1>6, WatchSteps DEF ev

\* Requests of the panel and the editor.
LEMMA RequestIndex ==
    ASSUME IndexInv, RequestRebuild \/ SetConfig \/ \E p \in Paths : Load(p)
    PROVE  IndexInv'
<1>1. QueueOK(rt) /\ UsedTyped /\ rt \in Runtimes
    BY DEF IndexInv, QueueOK
<1>2. ASSUME NEW s, Request(s), QueueOK(s), s.rebuild.running = rt.rebuild.running PROVE IndexInv'
    <2>1. UsedTyped' /\ used'.version = used.version /\ used'.outside = used.outside
        BY <1>1, <1>2, ExtraUsed DEF Request
    <2>2. /\ rt' = s
          /\ UNCHANGED <<disk, index, writer, ledger, platform, watching, events, moved, op, missed, last>>
        BY <1>2 DEF Request
    <2> QED
        BY <1>2, <2>1, <2>2, RuntimeIndex
<1>3. CASE RequestRebuild
    BY <1>1, <1>2, <1>3, QueueRebuildOK DEF RequestRebuild
<1>4. CASE SetConfig
    <2>1. PICK s : s = [rt EXCEPT !.incremental = ~@]
        OBVIOUS
    <2>2. /\ s \in Runtimes /\ s.jobs = rt.jobs /\ s.pending = rt.pending /\ s.rebuild = rt.rebuild
        BY <1>1, <2>1, Zenon DEF Runtimes
    <2>3. QueueOK(s)
        BY <1>1, <2>2 DEF QueueOK
    <2> QED
        BY <1>2, <1>4, <2>1, <2>2, <2>3 DEF SetConfig
<1>5. ASSUME NEW p \in Paths, Load(p) PROVE IndexInv'
    <2> DEFINE j == Job("index", p, p)
    <2>1. PICK s : s = [rt EXCEPT !.jobs = Append(@, j)]
        OBVIOUS
    <2>2. j \in Jobs /\ j.kind # "rebuild" /\ JobOK(j) /\ rt.pending \in SUBSET Paths
        BY <1>1 DEF Job, Jobs, JobOK, Runtimes
    <2> HIDE DEF j
    <2>3. Append(rt.jobs, j) \in Seq(Jobs)
        BY <1>1, <2>2 DEF Runtimes
    <2>4. PICK t : t = [rt EXCEPT !.pending = rt.pending, !.jobs = Append(@, j)]
        OBVIOUS
    <2>5. QueueOK(t) /\ t.rebuild = rt.rebuild
        BY <1>1, <2>2, <2>4, AppendedJob
    <2>6. /\ s \in Runtimes /\ s.jobs = Append(rt.jobs, j) /\ s.pending = rt.pending
          /\ s.rebuild = rt.rebuild
        BY <1>1, <2>1, <2>3, Zenon DEF Runtimes
    <2>7. t.jobs = Append(rt.jobs, j) /\ t.pending = rt.pending
        BY <1>1, <2>2, <2>3, <2>4, Zenon DEF Runtimes
    <2>8. QueueOK(s) /\ s.rebuild.running = rt.rebuild.running
        BY <2>5, <2>6, <2>7 DEF QueueOK
    <2> QED
        BY <1>2, <1>5, <2>1, <2>8 DEF Load, j
<1> QED
    BY <1>3, <1>4, <1>5

\* The writer takes a job.
LEMMA TakeIndex ==
    ASSUME IndexInv, TakeJob
    PROVE  IndexInv'
<1> DEFINE job == Head(rt.jobs)
           s == Taken(rt)
<1>1. /\ FilesTyped /\ WriterTyped /\ EventsTyped /\ OpsTyped /\ UsedTyped /\ MaxVersion \in Nat
      /\ VersionsCounted /\ LedgerOK(ledger, Begun) /\ QueueOK(rt) /\ WriterOK /\ EventsOK
    BY IndexTypes DEF IndexInv
<1>2. /\ writer.pc = "idle" /\ rt.jobs # <<>>
      /\ UNCHANGED <<disk, index, ledger, platform, watching, events, moved, op, used>>
    BY DEF TakeJob
<1>3. /\ job \in Jobs /\ JobOK(job) /\ s \in Runtimes /\ s.rebuild = rt.rebuild
      /\ job.kind # "rebuild" => QueueOK(s)
      /\ job.kind = "rebuild" =>
            /\ rt.rebuild.queued /\ ~rt.rebuild.running
            /\ \A k \in DOMAIN s.jobs : s.jobs[k] # FullRebuild
            /\ \A p \in s.pending : \E k \in DOMAIN s.jobs : s.jobs[k] = Job("index", p, p)
            /\ \A k \in DOMAIN s.jobs : JobOK(s.jobs[k])
    BY <1>1, <1>2, TakenOK
<1>4. \/ /\ job.kind = "rebuild"
         /\ rt' = [s EXCEPT !.rebuild.queued = FALSE, !.rebuild.running = TRUE]
         /\ writer' = [Idle EXCEPT !.pc = "collect"]
         /\ UNCHANGED <<missed, last>>
      \/ /\ job.kind \in {"index", "rename"} /\ rt' = s
         /\ writer' = [Idle EXCEPT !.pc = "commit", !.job = job, !.docs[job.path] = disk[job.path]]
         /\ SeenBy(job.path, job.kind = "index")
      \/ /\ job.kind = "remove" /\ rt' = s
         /\ writer' = [Idle EXCEPT !.pc = "commit", !.job = job]
         /\ UNCHANGED <<missed, last>>
    BY DEF TakeJob
<1>5. job.path \in Paths /\ job.kind \in {"rebuild", "index", "remove", "rename"}
    BY <1>3 DEF Jobs
<1> HIDE DEF job, s
<1>6. Idle \in [pc : {"idle", "commit", "collect", "rebuild"}, job : Jobs,
                files : SUBSET Paths, todo : SUBSET Paths, docs : [Paths -> 0..MaxVersion]]
    BY <1>1, FullRebuildOK DEF Idle
<1>7. Idle.job = FullRebuild /\ Idle.files = {} /\ Idle.todo = {}
    BY DEF Idle
<1>8. disk[job.path] \in 0..MaxVersion
    BY <1>1, <1>5 DEF FilesTyped
<1>9. FilesTyped'
    BY <1>1, <1>2, <1>4, <1>5 DEF FilesTyped, SeenBy
<1>10. /\ WriterTyped' /\ QueueOK(rt') /\ writer'.todo \subseteq writer'.files /\ JobOK(writer'.job)
       /\ writer'.pc = "commit" => writer'.job.kind # "rebuild"
       /\ rt'.rebuild.running <=> writer'.pc \in {"collect", "rebuild"}
    <2>1. CASE job.kind = "rebuild"
        <3>1. /\ rt' = [s EXCEPT !.rebuild.queued = FALSE, !.rebuild.running = TRUE]
              /\ writer' = [Idle EXCEPT !.pc = "collect"]
            BY <1>4, <2>1
        <3>2. /\ WriterTyped' /\ writer'.pc = "collect" /\ writer'.job = FullRebuild
              /\ writer'.files = {} /\ writer'.todo = {}
            BY <1>6, <1>7, <3>1 DEF WriterTyped
        <3>3. /\ rt' \in Runtimes /\ rt'.jobs = s.jobs /\ rt'.pending = s.pending
              /\ ~rt'.rebuild.queued /\ rt'.rebuild.running
            BY <1>3, <3>1, Zenon DEF Runtimes
        <3>4. QueueOK(rt')
            BY <1>3, <2>1, <3>3 DEF QueueOK
        <3> QED
            BY <3>2, <3>3, <3>4, FullRebuildOK
    <2>2. CASE job.kind \in {"index", "rename"}
        <3>1. /\ rt' = s
              /\ writer' = [Idle EXCEPT !.pc = "commit", !.job = job, !.docs[job.path] = disk[job.path]]
            BY <1>4, <2>2
        <3>2. /\ WriterTyped' /\ writer'.pc = "commit" /\ writer'.job = job
              /\ writer'.files = {} /\ writer'.todo = {}
            BY <1>3, <1>5, <1>6, <1>7, <1>8, <3>1, Zenon DEF WriterTyped
        <3> QED
            BY <1>1, <1>2, <1>3, <2>2, <3>1, <3>2 DEF WriterOK
    <2>3. CASE job.kind = "remove"
        <3>1. rt' = s /\ writer' = [Idle EXCEPT !.pc = "commit", !.job = job]
            BY <1>4, <2>3
        <3>2. /\ WriterTyped' /\ writer'.pc = "commit" /\ writer'.job = job
              /\ writer'.files = {} /\ writer'.todo = {}
            BY <1>3, <1>6, <1>7, <3>1, Zenon DEF WriterTyped
        <3> QED
            BY <1>1, <1>2, <1>3, <2>3, <3>1, <3>2 DEF WriterOK
    <2> QED
        BY <1>5, <2>1, <2>2, <2>3
<1>11. Spent' = Spent /\ Begun' = Begun
    BY <1>2 DEF Spent, Begun
<1>12. EventsTyped' /\ EventsOK' /\ OpsTyped' /\ UsedTyped' /\ LedgerOK(ledger, Begun)'
    BY <1>1, <1>2, <1>11 DEF EventsTyped, EventsOK, OpsTyped, UsedTyped, LedgerOK
<1>13. VersionsCounted' /\ WriterOK' /\ QueueOK(rt)'
    BY <1>1, <1>2, <1>10, <1>11 DEF VersionsCounted, WriterOK, QueueOK, JobOK
<1> QED
    BY <1>9, <1>10, <1>12, <1>13 DEF IndexInv

\* The other steps of the writer change the index, the rebuild under way and its flags.
LEMMA WriterIndex ==
    ASSUME IndexInv, QueueOK(rt'), WriterTyped', WriterOK', FilesTyped',
           UsedTyped', used'.version = used.version, used'.outside = used.outside,
           UNCHANGED <<ledger, platform, watching, events, moved, op>>
    PROVE  IndexInv'
<1>1. Spent' = Spent /\ Begun' = Begun
    BY DEF Spent, Begun
<1>2. EventsTyped' /\ EventsOK' /\ OpsTyped' /\ LedgerOK(ledger, Begun)'
    BY <1>1 DEF IndexInv, EventsTyped, EventsOK, OpsTyped, LedgerOK
<1>3. VersionsCounted' /\ QueueOK(rt)'
    BY <1>1 DEF IndexInv, QueueOK, JobOK, VersionsCounted
<1> QED
    BY <1>2, <1>3 DEF IndexInv

\* A job is committed or fails; a rebuild lists the files, reads them and ends.
LEMMA JobIndex ==
    ASSUME IndexInv,
           CommitJob \/ FailJob \/ CollectFiles \/ (\E p \in Paths : RebuildRead(p))
           \/ FinishRebuild \/ FailRebuild
    PROVE  IndexInv'
<1>1. /\ FilesTyped /\ WriterTyped /\ EventsTyped /\ OpsTyped /\ UsedTyped /\ MaxVersion \in Nat
      /\ VersionsCounted /\ LedgerOK(ledger, Begun) /\ QueueOK(rt) /\ WriterOK /\ EventsOK
    BY IndexTypes DEF IndexInv
<1>2. /\ rt \in Runtimes /\ writer.job \in Jobs /\ writer.job.path \in Paths /\ writer.job.old \in Paths
      /\ writer.docs \in [Paths -> 0..MaxVersion] /\ writer.docs[writer.job.path] \in 0..MaxVersion
      /\ writer.job.kind \in {"rebuild", "index", "remove", "rename"}
    BY <1>1 DEF QueueOK, WriterTyped, Jobs
<1>3. /\ Idle \in [pc : {"idle", "commit", "collect", "rebuild"}, job : Jobs,
                   files : SUBSET Paths, todo : SUBSET Paths, docs : [Paths -> 0..MaxVersion]]
      /\ Idle.job = FullRebuild /\ Idle.files = {} /\ Idle.todo = {} /\ Idle.pc = "idle"
    BY <1>1, FullRebuildOK DEF Idle
<1>4. ASSUME writer' = Idle PROVE /\ WriterTyped' /\ (~rt'.rebuild.running => WriterOK')
    BY <1>3, <1>4, FullRebuildOK DEF WriterTyped, WriterOK, JobOK
<1>5. CASE CommitJob
    <2>1. /\ writer.pc = "commit" /\ writer' = Idle /\ writer.job.kind \in {"index", "remove", "rename"}
          /\ ~rt.rebuild.running
          /\ UNCHANGED <<disk, rt, ledger, platform, watching, events, moved, op, used, missed>>
        BY <1>1, <1>2, <1>5 DEF CommitJob, WriterOK
    <2>2. index' \in [Paths -> 0..MaxVersion] /\ last' \in [Paths -> {"none", "read", "remove"}]
        <3> DEFINE j == writer.job
                   d == writer.docs[writer.job.path]
        <3>1. /\ j.path \in Paths /\ j.old \in Paths /\ d \in 0..MaxVersion /\ 0 \in 0..MaxVersion
              /\ index \in [Paths -> 0..MaxVersion]
              /\ last \in [Paths -> {"none", "read", "remove"}]
            BY <1>1, <1>2 DEF FilesTyped
        <3>2. /\ \/ index' = [index EXCEPT ![j.path] = d]
                 \/ index' = [index EXCEPT ![j.path] = 0]
                 \/ index' = [index EXCEPT ![j.old] = 0, ![j.path] = IF d # 0 THEN d ELSE @]
              /\ last' = last \/ last' = [last EXCEPT ![j.old] = "remove"]
            BY <1>5, <2>1 DEF CommitJob
        <3> HIDE DEF j, d
        <3> QED
            BY <3>1, <3>2
    <2>3. FilesTyped' /\ UsedTyped' /\ QueueOK(rt') /\ WriterTyped' /\ WriterOK'
        BY <1>1, <1>4, <2>1, <2>2 DEF FilesTyped, UsedTyped
    <2> QED
        BY <2>1, <2>3, WriterIndex
<1>6. CASE FailJob
    <2>1. /\ writer.pc = "commit" /\ writer' = Idle /\ Extra /\ ~rt.rebuild.running
          /\ missed' = missed \cup {writer.job.path, writer.job.old}
          /\ UNCHANGED <<disk, index, rt, ledger, platform, watching, events, moved, op, last>>
        BY <1>1, <1>6 DEF FailJob, WriterOK
    <2>2. FilesTyped' /\ QueueOK(rt') /\ WriterTyped' /\ WriterOK'
        BY <1>1, <1>2, <1>4, <2>1 DEF FilesTyped
    <2> QED
        BY <1>1, <2>1, <2>2, ExtraUsed, WriterIndex
<1>7. CASE CollectFiles
    <2> DEFINE files == {p \in Paths : disk[p] # 0}
    <2>1. /\ writer.pc = "collect" /\ rt.rebuild.running
          /\ writer' = [writer EXCEPT !.pc = "rebuild", !.files = files, !.todo = files]
          /\ missed' = missed \cap files
          /\ last' = [p \in Paths |-> IF p \in files THEN last[p] ELSE "read"]
          /\ UNCHANGED <<disk, index, rt, ledger, platform, watching, events, moved, op, used>>
        BY <1>1, <1>7 DEF CollectFiles, WriterOK
    <2>2. files \in SUBSET Paths
        OBVIOUS
    <2> HIDE DEF files
    <2>3. /\ WriterTyped' /\ writer'.pc = "rebuild" /\ writer'.job = writer.job
          /\ writer'.files = files /\ writer'.todo = files
        BY <1>1, <2>1, <2>2, Zenon DEF WriterTyped
    <2>4. WriterOK'
        BY <1>1, <2>1, <2>3 DEF WriterOK, JobOK
    <2>5. FilesTyped' /\ UsedTyped' /\ QueueOK(rt')
        BY <1>1, <2>1, <2>2 DEF FilesTyped, UsedTyped
    <2> QED
        BY <2>1, <2>3, <2>4, <2>5, WriterIndex
<1>8. ASSUME NEW p \in Paths, RebuildRead(p) PROVE IndexInv'
    <2>1. /\ writer.pc = "rebuild" /\ rt.rebuild.running
          /\ writer' = [writer EXCEPT !.todo = @ \ {p}, !.docs[p] = disk[p]]
          /\ SeenBy(p, FALSE)
          /\ UNCHANGED <<disk, index, rt, ledger, platform, watching, events, moved, op, used>>
        BY <1>1, <1>8 DEF RebuildRead, WriterOK
    <2>2. disk[p] \in 0..MaxVersion /\ writer.todo \ {p} \in SUBSET Paths
        BY <1>1 DEF FilesTyped, WriterTyped
    <2>3. /\ WriterTyped' /\ writer'.pc = "rebuild" /\ writer'.job = writer.job
          /\ writer'.files = writer.files /\ writer'.todo = writer.todo \ {p}
        BY <1>1, <2>1, <2>2, Zenon DEF WriterTyped
    <2>4. WriterOK'
        BY <1>1, <2>1, <2>3 DEF WriterOK, JobOK
    <2>5. FilesTyped' /\ UsedTyped' /\ QueueOK(rt')
        BY <1>1, <2>1 DEF FilesTyped, UsedTyped, SeenBy
    <2> QED
        BY <2>1, <2>3, <2>4, <2>5, WriterIndex
<1>9. CASE FinishRebuild
    <2>1. /\ writer.pc = "rebuild" /\ rt.rebuild.running /\ ~rt.rebuild.queued /\ writer' = Idle
          /\ index' = [p \in Paths |-> IF p \notin writer.files THEN 0
                                       ELSE IF writer.docs[p] # 0 THEN writer.docs[p] ELSE index[p]]
          /\ rt' = IF rt.rebuild.rerun
                   THEN [rt EXCEPT !.rebuild = [queued |-> TRUE, running |-> FALSE, rerun |-> FALSE],
                                   !.jobs = Append(@, FullRebuild)]
                   ELSE [rt EXCEPT !.rebuild.running = FALSE]
          /\ UNCHANGED <<disk, ledger, platform, watching, events, moved, op, used, missed, last>>
        BY <1>1, <1>9 DEF FinishRebuild, WriterOK, QueueOK
    <2>2. QueueOK(rt') /\ ~rt'.rebuild.running
        <3>1. CASE rt.rebuild.rerun
            <4> DEFINE flags == [queued |-> TRUE, running |-> FALSE, rerun |-> FALSE]
            <4>1. /\ flags \in [queued : BOOLEAN, running : BOOLEAN, rerun : BOOLEAN]
                  /\ flags.queued /\ ~flags.running /\ ~flags.rerun
                OBVIOUS
            <4>2. Append(rt.jobs, FullRebuild) \in Seq(Jobs)
                BY <1>2, FullRebuildOK DEF Runtimes
            <4>3. rt' = [rt EXCEPT !.rebuild = flags, !.jobs = Append(@, FullRebuild)]
                BY <2>1, <3>1, Zenon
            <4> HIDE DEF flags
            <4>4. /\ rt' \in Runtimes /\ rt'.rebuild = flags /\ rt'.pending = rt.pending
                  /\ rt'.jobs = Append(rt.jobs, FullRebuild)
                BY <1>2, <4>1, <4>2, <4>3, Zenon DEF Runtimes
            <4> QED
                BY <1>1, <2>1, <4>1, <4>4, AppendedRebuild
        <3>2. CASE ~rt.rebuild.rerun
            <4>1. rt' = [rt EXCEPT !.rebuild.running = FALSE]
                BY <2>1, <3>2
            <4>2. /\ rt' \in Runtimes /\ rt'.jobs = rt.jobs /\ rt'.pending = rt.pending
                  /\ rt'.rebuild.queued = rt.rebuild.queued /\ ~rt'.rebuild.running
                  /\ rt'.rebuild.rerun = rt.rebuild.rerun
                BY <1>2, <4>1, Zenon DEF Runtimes
            <4> QED
                BY <1>1, <3>2, <4>2 DEF QueueOK
        <3> QED
            BY <3>1, <3>2
    <2>3. index' \in [Paths -> 0..MaxVersion]
        BY <1>1, <1>2, <2>1 DEF FilesTyped
    <2>4. FilesTyped' /\ UsedTyped' /\ WriterTyped' /\ WriterOK'
        BY <1>1, <1>4, <2>1, <2>2, <2>3 DEF FilesTyped, UsedTyped
    <2> QED
        BY <2>1, <2>2, <2>4, WriterIndex
<1>10. CASE FailRebuild
    <2> DEFINE flags == [queued |-> FALSE, running |-> FALSE, rerun |-> FALSE]
    <2>1. /\ rt.rebuild.running /\ ~rt.rebuild.queued /\ writer' = Idle /\ Extra
          /\ rt' = [rt EXCEPT !.rebuild = flags] /\ missed' = Paths
          /\ UNCHANGED <<disk, index, ledger, platform, watching, events, moved, op, last>>
        BY <1>1, <1>10 DEF FailRebuild, WriterOK, QueueOK
    <2>2. /\ flags \in [queued : BOOLEAN, running : BOOLEAN, rerun : BOOLEAN]
          /\ ~flags.queued /\ ~flags.running /\ ~flags.rerun
        OBVIOUS
    <2> HIDE DEF flags
    <2>3. /\ rt' \in Runtimes /\ rt'.rebuild = flags /\ rt'.pending = rt.pending /\ rt'.jobs = rt.jobs
        BY <1>2, <2>1, <2>2, Zenon DEF Runtimes
    <2>4. QueueOK(rt')
        BY <1>1, <2>1, <2>2, <2>3 DEF QueueOK
    <2>5. FilesTyped' /\ WriterTyped' /\ WriterOK'
        BY <1>1, <1>4, <2>1, <2>2, <2>3 DEF FilesTyped
    <2> QED
        BY <1>1, <2>1, <2>4, <2>5, ExtraUsed, WriterIndex
<1> QED
    BY <1>5, <1>6, <1>7, <1>8, <1>9, <1>10

\* Every step keeps the machinery in order.
LEMMA NextIndex ==
    ASSUME IndexInv, [Next]_vars
    PROVE  IndexInv'
<1>1. CASE UNCHANGED vars
    <2>1. Spent' = Spent /\ Begun' = Begun
        BY <1>1 DEF Spent, Begun, vars
    <2>2. FilesTyped' /\ WriterTyped' /\ EventsTyped' /\ OpsTyped' /\ UsedTyped' /\ EventsOK'
        BY <1>1 DEF vars, IndexInv, FilesTyped, WriterTyped, EventsTyped, OpsTyped, UsedTyped, EventsOK
    <2>3. VersionsCounted' /\ LedgerOK(ledger, Begun)' /\ QueueOK(rt)' /\ WriterOK'
        BY <1>1, <2>1 DEF vars, IndexInv, VersionsCounted, LedgerOK, QueueOK, WriterOK, JobOK
    <2> QED
        BY <2>2, <2>3 DEF IndexInv
<1>2. CASE Next
    BY <1>2, TakeIndex, JobIndex, StartIndex, TimeoutIndex, WatchIndex, ApplyIndex, FailOpIndex,
       NotifyOpIndex, RecordIndex, OutsideIndex, RequestIndex
    DEF Next, Writer, Watcher, Command
<1> QED
    BY <1>1, <1>2

\* Commands, the watcher, the queue and the writer keep to the invariant.
THEOREM IndexInvariant == Spec => []IndexInv
BY InitIndex, NextIndex, PTL DEF Spec

\* The types of VaultIndex, for any vault and any number of commands.
THEOREM IndexTypeOK == Spec => []TypeOK
<1>1. IndexInv => TypeOK
    BY IndexTypes
<1> QED
    BY <1>1, IndexInvariant, PTL

\* What the search runtime notes of its queue, and drops notices for, is so:
\* a pending path has its index job, the flags count the rebuilds (QueueIsAsNoted).
THEOREM QueueAsNoted == Spec => []QueueIsAsNoted
<1>1. ASSUME IndexInv PROVE QueueIsAsNoted
    <2> DEFINE R == {k \in DOMAIN rt.jobs : rt.jobs[k] = FullRebuild}
    <2>1. QueueOK(rt) /\ WriterOK
        BY <1>1 DEF IndexInv
    <2>2. CASE rt.rebuild.queued
        <3>1. PICK k \in DOMAIN rt.jobs : rt.jobs[k] = FullRebuild
            BY <2>1, <2>2 DEF QueueOK
        <3>2. R = {k}
            BY <2>1, <3>1 DEF QueueOK
        <3> QED
            BY <2>1, <2>2, <3>2, FS_Singleton
            DEF QueueOK, WriterOK, QueueIsAsNoted, PendingHaveJobs, RebuildFlagsExact
    <2>3. CASE ~rt.rebuild.queued
        <3>1. R = {}
            BY <2>1, <2>3 DEF QueueOK
        <3> QED
            BY <2>1, <2>3, <3>1, FS_EmptySet
            DEF QueueOK, WriterOK, QueueIsAsNoted, PendingHaveJobs, RebuildFlagsExact
    <2> QED
        BY <2>2, <2>3
<1> QED
    BY <1>1, IndexInvariant, PTL

-----------------------------------------------------------------------------
(* The index follows the vault.                                            *)

\* A job that is appended is shown, and nothing that was is lost.
LEMMA AppendShows ==
    ASSUME NEW d, NEW s \in Runtimes, NEW t \in Runtimes, NEW j \in Jobs,
           t.jobs = Append(s.jobs, j), s.rebuild.rerun => t.rebuild.rerun, NEW r
    PROVE  /\ QueueShows(d, s, r) => QueueShows(d, t, r)
           /\ Shows(d, j, r) => QueueShows(d, t, r)
<1>1. /\ s.jobs \in Seq(Jobs) /\ Len(s.jobs) \in Nat /\ DOMAIN s.jobs = 1..Len(s.jobs)
      /\ DOMAIN t.jobs = 1..(Len(s.jobs) + 1) /\ t.jobs[Len(s.jobs) + 1] = j
      /\ \A k \in 1..Len(s.jobs) : t.jobs[k] = s.jobs[k]
    BY DEF Runtimes
<1>2. QueueShows(d, s, r) => QueueShows(d, t, r)
    BY <1>1 DEF QueueShows
<1>3. Len(s.jobs) + 1 \in DOMAIN t.jobs
    BY <1>1
<1>4. Shows(d, j, r) => QueueShows(d, t, r)
    BY <1>1, <1>3 DEF QueueShows
<1> QED
    BY <1>2, <1>4

\* A rebuild that is asked for will show the index everything.
LEMMA RebuildShows ==
    ASSUME NEW d, NEW s, QueueOK(s), NEW r
    PROVE  QueueShows(d, QueueRebuild(s), r)
<1>1. s \in Runtimes
    BY DEF QueueOK
<1>2. CASE s.rebuild.running
    <2>1. QueueRebuild(s) = [s EXCEPT !.rebuild.rerun = TRUE]
        BY <1>2 DEF QueueRebuild
    <2>2. QueueRebuild(s).rebuild.rerun
        BY <1>1, <2>1, Zenon DEF Runtimes
    <2> QED
        BY <2>2 DEF QueueShows
<1>3. CASE ~s.rebuild.running /\ s.rebuild.queued
    <2>1. PICK k \in DOMAIN s.jobs : s.jobs[k] = FullRebuild
        BY <1>3 DEF QueueOK
    <2>2. Shows(d, s.jobs[k], r)
        BY <2>1 DEF Shows, FullRebuild, Job
    <2> QED
        BY <1>3, <2>2 DEF QueueRebuild, QueueShows
<1>4. CASE ~s.rebuild.running /\ ~s.rebuild.queued
    <2>1. PICK t : t = [s EXCEPT !.rebuild.queued = TRUE, !.jobs = Append(@, FullRebuild)]
        OBVIOUS
    <2>2. Append(s.jobs, FullRebuild) \in Seq(Jobs)
        BY <1>1, FullRebuildOK DEF Runtimes
    <2>3. t \in Runtimes /\ t.jobs = Append(s.jobs, FullRebuild) /\ t.rebuild.rerun = s.rebuild.rerun
        BY <1>1, <2>1, <2>2, Zenon DEF Runtimes
    <2>4. QueueRebuild(s) = t
        BY <1>4, <2>1, Zenon DEF QueueRebuild
    <2>5. Shows(d, FullRebuild, r)
        BY DEF Shows, FullRebuild, Job
    <2> QED
        BY <1>1, <2>3, <2>4, <2>5, AppendShows, FullRebuildOK
<1> QED
    BY <1>2, <1>3, <1>4

\* The notices show what they are about, and nothing that was on its way is lost.
LEMMA NotifyShows ==
    ASSUME NEW d, NEW s, QueueOK(s), NEW p \in Paths, NEW q \in Paths, NEW r
    PROVE  /\ QueueShows(d, s, r) \/ r = p => QueueShows(d, NotifyWritten(s, p), r)
           /\ QueueShows(d, s, r) \/ r = p => QueueShows(d, NotifyRemoved(s, p), r)
           /\ QueueShows(d, s, r) \/ r = q \/ (r = p /\ d[p] # 0) => QueueShows(d, NotifyRenamed(s, q, p), r)
<1>1. s \in Runtimes /\ s.pending \in SUBSET Paths
    BY DEF QueueOK, Runtimes
<1>2. /\ Job("index", p, p) \in Jobs /\ Job("remove", p, p) \in Jobs /\ Job("rename", p, q) \in Jobs
      /\ Shows(d, Job("index", p, p), p) /\ Shows(d, Job("remove", p, p), p)
      /\ Shows(d, Job("rename", p, q), q) /\ (d[p] # 0 => Shows(d, Job("rename", p, q), p))
    BY DEF Job, Jobs, Shows
<1>3. ASSUME NEW j \in Jobs, NEW P \in SUBSET Paths,
             NEW t, t = [s EXCEPT !.pending = P, !.jobs = Append(@, j)]
      PROVE  QueueShows(d, s, r) \/ Shows(d, j, r) => QueueShows(d, t, r)
    <2>1. Append(s.jobs, j) \in Seq(Jobs)
        BY <1>1 DEF Runtimes
    <2>2. t \in Runtimes /\ t.jobs = Append(s.jobs, j) /\ t.rebuild = s.rebuild
        BY <1>1, <1>3, <2>1, Zenon DEF Runtimes
    <2> QED
        BY <1>1, <2>2, AppendShows
<1>4. QueueShows(d, s, r) \/ r = p => QueueShows(d, EnqueueIndexJob(s, p), r)
    <2>1. CASE s.rebuild.queued /\ ~s.rebuild.running
        <3>1. PICK k \in DOMAIN s.jobs : s.jobs[k] = FullRebuild
            BY <2>1 DEF QueueOK
        <3>2. Shows(d, s.jobs[k], r)
            BY <3>1 DEF Shows, FullRebuild, Job
        <3> QED
            BY <2>1, <3>2 DEF EnqueueIndexJob, QueueShows
    <2>2. CASE p \in s.pending
        <3>1. PICK k \in DOMAIN s.jobs : s.jobs[k] = Job("index", p, p)
            BY <2>2 DEF QueueOK
        <3>2. r = p => Shows(d, s.jobs[k], r)
            BY <3>1 DEF Shows, Job
        <3> QED
            BY <2>2, <3>2 DEF EnqueueIndexJob, QueueShows
    <2>3. CASE ~(s.rebuild.queued /\ ~s.rebuild.running) /\ p \notin s.pending
        <3>1. PICK t : t = [s EXCEPT !.pending = s.pending \cup {p}, !.jobs = Append(@, Job("index", p, p))]
            OBVIOUS
        <3>2. EnqueueIndexJob(s, p) = t
            BY <2>3, <3>1, Zenon DEF EnqueueIndexJob
        <3> QED
            BY <1>1, <1>2, <1>3, <3>1, <3>2
    <2> QED
        BY <2>1, <2>2, <2>3
<1>5. QueueShows(d, s, r) \/ r = p => QueueShows(d, NotifyWritten(s, p), r)
    BY <1>4, RebuildShows DEF NotifyWritten
<1>6. QueueShows(d, s, r) \/ r = p => QueueShows(d, NotifyRemoved(s, p), r)
    <2>1. PICK t : t = [s EXCEPT !.pending = s.pending \ {p}, !.jobs = Append(@, Job("remove", p, p))]
        OBVIOUS
    <2>2. NotifyRemoved(s, p) = t \/ NotifyRemoved(s, p) = QueueRebuild(s)
        BY <2>1, Zenon DEF NotifyRemoved
    <2>3. s.pending \ {p} \in SUBSET Paths
        BY <1>1
    <2>4. QueueShows(d, s, r) \/ Shows(d, Job("remove", p, p), r) => QueueShows(d, t, r)
        BY <1>2, <1>3, <2>1, <2>3, Zenon
    <2>5. QueueShows(d, QueueRebuild(s), r)
        BY RebuildShows
    <2> QED
        BY <1>2, <2>2, <2>4, <2>5
<1>7. QueueShows(d, s, r) \/ r = q \/ (r = p /\ d[p] # 0) => QueueShows(d, NotifyRenamed(s, q, p), r)
    <2>1. PICK t : t = [s EXCEPT !.pending = s.pending \ {q, p}, !.jobs = Append(@, Job("rename", p, q))]
        OBVIOUS
    <2>2. NotifyRenamed(s, q, p) = t \/ NotifyRenamed(s, q, p) = QueueRebuild(s)
        BY <2>1, Zenon DEF NotifyRenamed
    <2>3. s.pending \ {q, p} \in SUBSET Paths
        BY <1>1
    <2>4. QueueShows(d, s, r) \/ Shows(d, Job("rename", p, q), r) => QueueShows(d, t, r)
        BY <1>2, <1>3, <2>1, <2>3, Zenon
    <2>5. QueueShows(d, QueueRebuild(s), r)
        BY RebuildShows
    <2> QED
        BY <1>2, <2>2, <2>4, <2>5
<1> QED
    BY <1>5, <1>6, <1>7

\* Nothing changes for a path that a change of the files leaves alone.
LEMMA UntouchedFollows ==
    ASSUME IndexFollows, NEW r \in Paths, r \notin missed, disk'[r] = disk[r],
           UNCHANGED <<index, rt, writer, moved, last>>,
           \A k \in DOMAIN events : k \in DOMAIN events' /\ events'[k] = events[k],
           \A i \in Ops : op[i].pc = "applied" => op'[i] = op[i]
    PROVE  (Covered(r) \/ WillAgree(r))'
<1>1. Covered(r) \/ WillAgree(r)
    BY DEF IndexFollows
<1>2. WillAgree(r) => WillAgree(r)'
    BY DEF WillAgree, CommitAgrees, RebuildAgrees, Agrees
<1>3. \A x : Shows(disk, x, r) => Shows(disk', x, r)
    BY DEF Shows
<1>4. Covered(r) => Covered(r)'
    BY <1>3 DEF Covered, QueueShows, EventShows
<1> QED
    BY <1>1, <1>2, <1>4

\* Others change files: the watcher, once started, is told.
LEMMA OutsideFollows ==
    ASSUME IndexInv, IndexFollows, NEW kind \in {"write", "delete", "rename"}, NEW p \in Paths, NEW q \in Paths,
           Outside([kind |-> kind, path |-> p, old |-> q])
    PROVE  IndexFollows'
<1>1. /\ missed' = IF watching THEN missed ELSE missed \cup {p, q}
      /\ \/ /\ kind = "write" /\ q = p /\ disk' = [disk EXCEPT ![p] = used.version + 1]
            /\ Emitted(EventsOfWrite(p, {None}))
         \/ /\ kind = "delete" /\ q = p /\ disk' = [disk EXCEPT ![p] = 0]
            /\ Emitted(EventsOfRemoval(p, {None}))
         \/ /\ kind = "rename" /\ q # p /\ disk[q] # 0 /\ disk' = [disk EXCEPT ![p] = disk[q], ![q] = 0]
            /\ Emitted(EventsOfRename(q, p, {None}))
      /\ UNCHANGED <<index, rt, writer, ledger, platform, watching, moved, op, last>>
    BY DEF Outside, Fresh
<1>2. disk \in [Paths -> 0..MaxVersion] /\ events \in Seq(Events) /\ platform \in {"linux", "macos", "windows"}
    BY DEF IndexInv, FilesTyped, EventsTyped
<1>3. {None} \in SUBSET (Ops \cup {None})
    OBVIOUS
<1>4. /\ \A es \in EventsOfWrite(p, {None}) :
            /\ Raw(es, {None})
            /\ \E k \in DOMAIN es : es[k].kind \in {"create", "modify"} /\ es[k].path = p
      /\ \A es \in EventsOfRemoval(p, {None}) :
            /\ Raw(es, {None})
            /\ \E k \in DOMAIN es : es[k].kind \in {"delete", "modify", "from"} /\ es[k].path = p
      /\ \A es \in EventsOfRename(q, p, {None}) :
            /\ Raw(es, {None})
            /\ \E k \in DOMAIN es : es[k].kind \in {"modify", "from"} /\ es[k].path = q
            /\ \E k \in DOMAIN es : es[k].kind \in {"modify", "to"} /\ es[k].path = p
    BY <1>2, <1>3, EventsOfChange
<1>5. PICK options : /\ Emitted(options) /\ \A es \in options : Raw(es, {None})
                     /\ options \in {EventsOfWrite(p, {None}), EventsOfRemoval(p, {None}), EventsOfRename(q, p, {None})}
    BY <1>1, <1>4
<1>6. \A k \in DOMAIN events : k \in DOMAIN events' /\ events'[k] = events[k]
    BY <1>2, <1>5, EmittedEvents
<1>7. ASSUME NEW r \in Paths, r \notin missed', r \notin {p, q}
      PROVE  (Covered(r) \/ WillAgree(r))'
    <2>1. disk'[r] = disk[r] /\ r \notin missed
        BY <1>1, <1>2, <1>7
    <2> QED
        BY <1>1, <1>6, <2>1, UntouchedFollows
<1>9. ASSUME NEW r \in {p, q}, r \notin missed' PROVE Covered(r)'
    <2>1. watching
        BY <1>1, <1>9
    <2>2. CASE kind = "write"
        <3>1. \E k \in DOMAIN events' : /\ events'[k].kind \in {"create", "modify"} /\ events'[k].path = p
                                        /\ None \in events'[k].by
            <4>1. PICK reports : reports = EventsOfWrite(p, {None})
                OBVIOUS
            <4>2. Emitted(reports) /\ \A es \in reports : Raw(es, {None})
                BY <1>1, <1>4, <2>2, <4>1
            <4>3. PICK es \in reports : \A k \in DOMAIN es : \E j \in DOMAIN events' : events'[j] = es[k]
                BY <1>2, <2>1, <4>2, EmittedEvents
            <4>4. \A k \in DOMAIN es : None \in es[k].by
                BY <4>2 DEF Raw
            <4>5. PICK k \in DOMAIN es : es[k].kind \in {"create", "modify"} /\ es[k].path = p
                BY <1>4, <4>1
            <4>6. PICK j \in DOMAIN events' : events'[j] = es[k]
                BY <4>3
            <4> QED
                BY <4>4, <4>5, <4>6
        <3> QED
            BY <1>1, <2>2, <3>1 DEF Covered, EventShows, Shows
    <2>3. CASE kind = "delete"
        <3>1. \E k \in DOMAIN events' : /\ events'[k].kind \in {"delete", "modify", "from"} /\ events'[k].path = p
                                        /\ None \in events'[k].by
            <4>1. PICK reports : reports = EventsOfRemoval(p, {None})
                OBVIOUS
            <4>2. Emitted(reports) /\ \A es \in reports : Raw(es, {None})
                BY <1>1, <1>4, <2>3, <4>1
            <4>3. PICK es \in reports : \A k \in DOMAIN es : \E j \in DOMAIN events' : events'[j] = es[k]
                BY <1>2, <2>1, <4>2, EmittedEvents
            <4>4. \A k \in DOMAIN es : None \in es[k].by
                BY <4>2 DEF Raw
            <4>5. PICK k \in DOMAIN es : es[k].kind \in {"delete", "modify", "from"} /\ es[k].path = p
                BY <1>4, <4>1
            <4>6. PICK j \in DOMAIN events' : events'[j] = es[k]
                BY <4>3
            <4> QED
                BY <4>4, <4>5, <4>6
        <3> QED
            BY <1>1, <2>3, <3>1 DEF Covered, EventShows, Shows
    <2>4. CASE kind = "rename"
        <3>1. \E k \in DOMAIN events' : /\ events'[k].kind \in {"modify", "from"} /\ events'[k].path = q
                                        /\ None \in events'[k].by
            <4>1. PICK reports : reports = EventsOfRename(q, p, {None})
                OBVIOUS
            <4>2. Emitted(reports) /\ \A es \in reports : Raw(es, {None})
                BY <1>1, <1>4, <2>4, <4>1
            <4>3. PICK es \in reports : \A k \in DOMAIN es : \E j \in DOMAIN events' : events'[j] = es[k]
                BY <1>2, <2>1, <4>2, EmittedEvents
            <4>4. \A k \in DOMAIN es : None \in es[k].by
                BY <4>2 DEF Raw
            <4>5. PICK k \in DOMAIN es : es[k].kind \in {"modify", "from"} /\ es[k].path = q
                BY <1>4, <4>1
            <4>6. PICK j \in DOMAIN events' : events'[j] = es[k]
                BY <4>3
            <4> QED
                BY <4>4, <4>5, <4>6
        <3>2. \E k \in DOMAIN events' : /\ events'[k].kind \in {"modify", "to"} /\ events'[k].path = p
                                        /\ None \in events'[k].by
            <4>1. PICK reports : reports = EventsOfRename(q, p, {None})
                OBVIOUS
            <4>2. Emitted(reports) /\ \A es \in reports : Raw(es, {None})
                BY <1>1, <1>4, <2>4, <4>1
            <4>3. PICK es \in reports : \A k \in DOMAIN es : \E j \in DOMAIN events' : events'[j] = es[k]
                BY <1>2, <2>1, <4>2, EmittedEvents
            <4>4. \A k \in DOMAIN es : None \in es[k].by
                BY <4>2 DEF Raw
            <4>5. PICK k \in DOMAIN es : es[k].kind \in {"modify", "to"} /\ es[k].path = p
                BY <1>4, <4>1
            <4>6. PICK j \in DOMAIN events' : events'[j] = es[k]
                BY <4>3
            <4> QED
                BY <4>4, <4>5, <4>6
        <3>3. disk'[p] # 0
            BY <1>1, <1>2, <2>4
        <3>4. CASE r = q
            BY <3>1, <3>4 DEF Covered, EventShows, Shows
        <3>5. CASE r = p
            BY <3>2, <3>3, <3>5 DEF Covered, EventShows, Shows
        <3> QED
            BY <1>9, <3>4, <3>5
    <2> QED
        BY <2>2, <2>3, <2>4
<1> QED
    BY <1>7, <1>9 DEF IndexFollows

\* A command changes its file: its notice is due.
LEMMA ApplyFollows ==
    ASSUME IndexInv, IndexFollows, NEW i \in Ops, ApplyOp(i)
    PROVE  IndexFollows'
<1> DEFINE o == op[i]
<1>1. /\ o.pc = "recorded" /\ op' = [op EXCEPT ![i].pc = "applied"]
      /\ \/ o.kind = "write" /\ disk' = [disk EXCEPT ![o.path] = used.version + 1]
            /\ Emitted(EventsOfWrite(o.path, {i}))
         \/ o.kind = "delete" /\ disk' = [disk EXCEPT ![o.path] = 0] /\ Emitted(EventsOfRemoval(o.path, {i}))
         \/ o.kind = "rename" /\ disk[o.old] # 0 /\ disk' = [disk EXCEPT ![o.path] = disk[o.old], ![o.old] = 0]
            /\ Emitted(EventsOfRename(o.old, o.path, {i}))
      /\ UNCHANGED <<index, rt, writer, ledger, platform, watching, moved, missed, last>>
    BY DEF ApplyOp, Fresh
<1>2. /\ disk \in [Paths -> 0..MaxVersion] /\ events \in Seq(Events) /\ platform \in {"linux", "macos", "windows"}
      /\ OpsTyped /\ o.path \in Paths /\ o.old \in Paths
    BY DEF IndexInv, FilesTyped, EventsTyped, OpsTyped
<1>3. {i} \in SUBSET (Ops \cup {None})
    OBVIOUS
<1>4. /\ op'[i].pc = "applied" /\ op'[i].kind = o.kind /\ op'[i].path = o.path /\ op'[i].old = o.old
      /\ \A j \in Ops : op[j].pc = "applied" => op'[j] = op[j]
    BY <1>1, <1>2 DEF OpsTyped
<1> HIDE DEF o
<1>5. PICK options : Emitted(options) /\ \A es \in options : Raw(es, {i})
    <2>1. /\ \A es \in EventsOfWrite(o.path, {i}) : Raw(es, {i})
          /\ \A es \in EventsOfRemoval(o.path, {i}) : Raw(es, {i})
          /\ \A es \in EventsOfRename(o.old, o.path, {i}) : Raw(es, {i})
        BY <1>2, <1>3, EventsOfChange
    <2> QED
        BY <1>1, <2>1
<1>6. \A k \in DOMAIN events : k \in DOMAIN events' /\ events'[k] = events[k]
    BY <1>2, <1>5, EmittedEvents
<1>7. ASSUME NEW r \in Paths, r \notin missed', disk'[r] = disk[r]
      PROVE  (Covered(r) \/ WillAgree(r))'
    BY <1>1, <1>4, <1>6, <1>7, UntouchedFollows
<1>8. ASSUME NEW r \in Paths, disk'[r] # disk[r] PROVE Covered(r)'
    <2>1. Shows(disk', op'[i], r)
        <3>1. CASE o.kind \in {"write", "delete"}
            <4>1. r = o.path
                BY <1>1, <1>2, <1>8, <3>1
            <4> QED
                BY <1>4, <3>1, <4>1 DEF Shows
        <3>2. CASE o.kind = "rename"
            <4>1. r = o.old \/ (r = o.path /\ disk'[r] # 0)
                BY <1>1, <1>2, <1>8, <3>2
            <4> QED
                BY <1>4, <3>2, <4>1 DEF Shows
        <3> QED
            BY <1>1, <3>1, <3>2
    <2> QED
        BY <1>4, <2>1 DEF Covered
<1> QED
    BY <1>7, <1>8 DEF IndexFollows

\* Steps of a command that change no file, and the start of the watcher.
LEMMA CommandFollows ==
    ASSUME IndexInv, IndexFollows, NEW i \in Ops,
           \/ \E kind \in {"write", "delete", "rename"}, p, q \in Paths : Record(i, kind, p, q)
           \/ FailOp(i)
    PROVE  IndexFollows'
<1>1. /\ UNCHANGED <<disk, index, rt, writer, events, moved, missed, last>>
      /\ op[i].pc # "applied" /\ \A j \in Ops \ {i} : op'[j] = op[j]
    BY DEF IndexInv, OpsTyped, Record, FailOp
<1>2. \A r \in Paths \ missed' : (Covered(r) \/ WillAgree(r))'
    BY <1>1, UntouchedFollows
<1> QED
    BY <1>2 DEF IndexFollows

\* The notice of a command takes its place.
LEMMA NotifyFollows ==
    ASSUME IndexInv, IndexFollows, NEW i \in Ops, NotifyOp(i)
    PROVE  IndexFollows'
<1> DEFINE o == op[i]
<1>1. /\ QueueOK(rt) /\ OpsTyped /\ o.path \in Paths /\ o.old \in Paths
      /\ o.kind \in {"write", "delete", "rename"}
    BY DEF IndexInv, OpsTyped
<1>2. /\ \A j \in Ops \ {i} : op'[j] = op[j]
      /\ UNCHANGED <<disk, index, writer, events, moved, missed, last>>
      /\ o.kind = "write" => rt' = NotifyWritten(rt, o.path)
      /\ o.kind = "delete" => rt' = NotifyRemoved(rt, o.path)
      /\ o.kind = "rename" => rt' = NotifyRenamed(rt, o.old, o.path)
    BY <1>1 DEF NotifyOp, OpsTyped
<1> HIDE DEF o
<1>3. SUFFICES ASSUME NEW r \in Paths \ missed PROVE (Covered(r) \/ WillAgree(r))'
    BY <1>2 DEF IndexFollows
<1>4. WillAgree(r) => WillAgree(r)'
    BY <1>2 DEF WillAgree, CommitAgrees, RebuildAgrees, Agrees
<1>5. /\ QueueShows(disk, rt, r) \/ r = o.path => QueueShows(disk, NotifyWritten(rt, o.path), r)
      /\ QueueShows(disk, rt, r) \/ r = o.path => QueueShows(disk, NotifyRemoved(rt, o.path), r)
      /\ QueueShows(disk, rt, r) \/ r = o.old \/ (r = o.path /\ disk[o.path] # 0)
            => QueueShows(disk, NotifyRenamed(rt, o.old, o.path), r)
    BY <1>1, NotifyShows
<1>6. QueueShows(disk, rt, r) \/ Shows(disk, o, r) => QueueShows(disk, rt', r)
    BY <1>1, <1>2, <1>5 DEF Shows
<1>7. Covered(r) => Covered(r)'
    BY <1>2, <1>6 DEF Covered, o
<1> QED
    BY <1>3, <1>4, <1>7 DEF IndexFollows

\* An event that is observed shows the index what it is about, or is taken for
\* a change of the app and so counts as missed.
LEMMA ObserveShows ==
    ASSUME IndexInv, NEW ev \in Events, ev.kind \in {"create", "modify", "delete", "rename"}, Observe(ev),
           NEW r \in Paths
    PROVE  /\ QueueShows(disk, rt, r) => QueueShows(disk, rt', r)
           /\ r \in missed => r \in missed'
           /\ EventShows(disk, ev, r) => r \in missed' \/ QueueShows(disk, rt', r)
<1>1. /\ LedgerOK(ledger, Begun) /\ QueueOK(rt) /\ ev.path \in Paths /\ ev.old \in Paths
    BY DEF IndexInv, Events
<1>2. PICK n \in 0..Len(ledger) :
        LET live == SubSeq(ledger, n + 1, Len(ledger))
            hits == {k \in 1..Len(live) : Matches(live[k], ev)}
        IN  IF hits # {}
            THEN LET k == CHOOSE k \in hits : \A j \in hits : k <= j
                 IN  /\ ledger' = RemoveAt(live, k)
                     /\ missed' = IF ev.by = {live[k].id} THEN missed ELSE missed \cup {ev.path, ev.old}
                     /\ UNCHANGED <<rt, used>>
            ELSE /\ ledger' = live
                 /\ \/ rt' = HandleSearchEvent(rt, ev) /\ UNCHANGED used
                    \/ ev.kind \in {"create", "modify"} /\ Extra /\ rt' = QueueRebuild(rt)
                 /\ UNCHANGED missed
    BY DEF Observe
<1> DEFINE live == SubSeq(ledger, n + 1, Len(ledger))
           hits == {k \in 1..Len(live) : Matches(live[k], ev)}
<1>3. LedgerOK(live, Begun)
    BY <1>1, ExpiredLedger
<1>4. CASE hits # {}
    <2> DEFINE k == CHOOSE k \in hits : \A j \in hits : k <= j
    <2>1. /\ missed' = IF ev.by = {live[k].id} THEN missed ELSE missed \cup {ev.path, ev.old}
          /\ UNCHANGED rt
        BY <1>2, <1>4
    <2>2. \E x \in hits : \A y \in hits : x <= y
        <3>1. hits \subseteq Nat
            BY <1>3 DEF LedgerOK
        <3> HIDE DEF hits
        <3> QED
            BY <1>4, <3>1, LeastNatural
    <2>3. k \in hits
        <3> HIDE DEF hits
        <3> QED
            BY <2>2
    <2>4. k \in 1..Len(live)
        BY <2>3
    <2> HIDE DEF k, live, hits
    <2>5. live[k].id \in Ops
        <3>1. live[k] \in Entries
            BY <1>3, <2>4 DEF LedgerOK
        <3> QED
            BY <3>1 DEF Entries
    <2>6. None \in ev.by => ev.by # {live[k].id}
        BY <2>5, VaultIndexAssumption DEF Ops, None
    <2>7. Shows(disk, ev, r) => r \in {ev.path, ev.old}
        BY DEF Shows
    <2> QED
        BY <2>1, <2>6, <2>7 DEF EventShows
<1>5. CASE hits = {}
    <2>1. /\ UNCHANGED missed
          /\ rt' = HandleSearchEvent(rt, ev) \/ rt' = QueueRebuild(rt)
        BY <1>2, <1>5
    <2> HIDE DEF live, hits
    <2>2. QueueShows(disk, QueueRebuild(rt), r)
        <3>1. PICK d : d = disk
            OBVIOUS
        <3>2. PICK s : s = rt
            OBVIOUS
        <3> QED
            BY <1>1, <3>1, <3>2, RebuildShows
    <2>3. /\ QueueShows(disk, rt, r) \/ r = ev.path => QueueShows(disk, NotifyWritten(rt, ev.path), r)
          /\ QueueShows(disk, rt, r) \/ r = ev.path => QueueShows(disk, NotifyRemoved(rt, ev.path), r)
          /\ QueueShows(disk, rt, r) \/ r = ev.old \/ (r = ev.path /\ disk[ev.path] # 0)
                => QueueShows(disk, NotifyRenamed(rt, ev.old, ev.path), r)
        BY <1>1, NotifyShows
    <2>4. QueueShows(disk, rt, r) \/ Shows(disk, ev, r) => QueueShows(disk, HandleSearchEvent(rt, ev), r)
        <3>1. CASE ev.kind \in {"create", "modify"}
            BY <2>3, <3>1 DEF HandleSearchEvent, Shows
        <3>2. CASE ev.kind = "delete"
            BY <2>3, <3>2 DEF HandleSearchEvent, Shows
        <3>3. CASE ev.kind = "rename"
            BY <2>3, <3>3 DEF HandleSearchEvent, Shows
        <3> QED
            BY <3>1, <3>2, <3>3
    <2> QED
        BY <2>1, <2>2, <2>4 DEF EventShows
<1> QED
    BY <1>4, <1>5

\* What is left to show when the runtime, the watcher's queue and what it holds
\* have changed: nothing that was on its way is lost, but what counts as missed.
LEMMA WatchedFollows ==
    ASSUME IndexFollows, UNCHANGED <<disk, index, writer, op, last>>,
           \A r \in Paths : /\ r \in missed => r \in missed'
                            /\ QueueShows(disk, rt, r) => QueueShows(disk, rt', r)
                            /\ (\E k \in DOMAIN events : EventShows(disk, events[k], r)) =>
                                    r \in missed' \/ Covered(r)'
                            /\ (\E k \in DOMAIN moved : EventShows(disk, moved[k], r)) =>
                                    r \in missed' \/ Covered(r)'
    PROVE  IndexFollows'
<1>1. SUFFICES ASSUME NEW r \in Paths \ missed' PROVE (Covered(r) \/ WillAgree(r))'
    BY DEF IndexFollows
<1>2. r \in Paths /\ r \notin missed
    OBVIOUS
<1>3. WillAgree(r) => WillAgree(r)'
    BY DEF WillAgree, CommitAgrees, RebuildAgrees, Agrees
<1>4. QueueShows(disk, rt, r) => Covered(r)'
    BY <1>2 DEF Covered
<1>5. (\E i \in Ops : op[i].pc = "applied" /\ Shows(disk, op[i], r)) => Covered(r)'
    BY DEF Covered
<1>6. Covered(r) => Covered(r)'
    BY <1>1, <1>2, <1>4, <1>5 DEF Covered
<1> QED
    BY <1>2, <1>3, <1>6 DEF IndexFollows

\* The watcher starts; no second half came in time; the watcher takes an event.
LEMMA WatcherFollows ==
    ASSUME IndexInv, IndexFollows, StartWatching \/ MovedTimeout \/ WatchEvent
    PROVE  IndexFollows'
<1>1. /\ events \in Seq(Events) /\ moved \in Seq(Events) /\ Len(moved) <= 1 /\ EventsOK
    BY DEF IndexInv, EventsTyped
<1>2. CASE StartWatching
    <2>1. UNCHANGED <<disk, index, rt, writer, events, moved, op, missed, last>>
        BY <1>2 DEF StartWatching
    <2>2. \A r \in Paths \ missed' : (Covered(r) \/ WillAgree(r))'
        BY <2>1, UntouchedFollows
    <2> QED
        BY <2>2 DEF IndexFollows
<1>3. CASE MovedTimeout
    <2> DEFINE ev == [moved[1] EXCEPT !.kind = "delete"]
    <2>1. /\ moved # <<>> /\ moved' = <<>> /\ Observe(ev)
          /\ UNCHANGED <<disk, index, writer, platform, watching, events, op, last>>
        BY <1>3 DEF MovedTimeout
    <2>2. moved[1] \in Events /\ DOMAIN moved = {1}
        <3>1. Len(moved) \in Nat /\ Len(moved) # 0 /\ DOMAIN moved = 1..Len(moved) /\ moved[1] \in Events
            BY <1>1, <2>1
        <3>2. Len(moved) = 1
            BY <1>1, <3>1
        <3> QED
            BY <3>1, <3>2
    <2>3. /\ ev \in Events /\ ev.kind = "delete" /\ ev.path = moved[1].path /\ ev.by = moved[1].by
          /\ moved[1].kind = "from"
        BY <1>1, <2>2 DEF Events, Kinds, EventsOK
    <2> HIDE DEF ev
    <2>4. ASSUME NEW r \in Paths
          PROVE  /\ r \in missed => r \in missed'
                 /\ QueueShows(disk, rt, r) => QueueShows(disk, rt', r)
                 /\ EventShows(disk, ev, r) => r \in missed' \/ QueueShows(disk, rt', r)
        BY <2>1, <2>3, ObserveShows
    <2>5. ASSUME NEW r \in Paths
          PROVE  /\ (\E k \in DOMAIN events : EventShows(disk, events[k], r)) => Covered(r)'
                 /\ (\E k \in DOMAIN moved : EventShows(disk, moved[k], r)) => r \in missed' \/ Covered(r)'
        <3>1. EventShows(disk, moved[1], r) => EventShows(disk, ev, r)
            BY <2>3 DEF EventShows, Shows
        <3>2. QueueShows(disk, rt', r) => Covered(r)'
            BY <2>1 DEF Covered
        <3>3. (\E k \in DOMAIN events : EventShows(disk, events[k], r)) => Covered(r)'
            BY <2>1 DEF Covered
        <3> QED
            BY <2>2, <2>4, <3>1, <3>2, <3>3
    <2> QED
        BY <2>1, <2>4, <2>5, WatchedFollows
<1>4. CASE WatchEvent
    <2> DEFINE ev == Head(events)
    <2>1. ev \in Events /\ events # <<>> /\ events' = Tail(events)
        BY <1>4, WatchSteps
    <2>2. /\ ev = events[1] /\ DOMAIN events = 1..Len(events) /\ Len(events) \in Nat
          /\ DOMAIN events' = 1..(Len(events) - 1)
          /\ \A k \in 1..(Len(events) - 1) : events'[k] = events[k + 1]
        BY <1>1, <2>1
    <2>3. UNCHANGED <<disk, index, writer, platform, watching, op, last>>
        BY <1>4, WatchSteps
    <2>4. \/ /\ ev.kind = "from" /\ moved' = <<ev>>
             /\ missed' = missed \cup {moved[k].path : k \in {k \in DOMAIN moved : moved[k].by = {None}}}
             /\ UNCHANGED <<ledger, rt, used>>
          \/ /\ ev.kind # "from" /\ Observe(Received(ev))
             /\ moved' = IF ev.kind = "to" THEN <<>> ELSE moved
        BY <1>4, WatchSteps
    <2> HIDE DEF ev
    <2>5. ASSUME NEW r \in Paths, NEW k \in DOMAIN events, k # 1, EventShows(disk, events[k], r)
          PROVE  Covered(r)'
        <3>1. k - 1 \in DOMAIN events' /\ events'[k - 1] = events[k]
            BY <2>2, <2>5
        <3> QED
            BY <2>3, <2>5, <3>1 DEF Covered
    <2>6. CASE /\ ev.kind = "from" /\ moved' = <<ev>>
               /\ missed' = missed \cup {moved[k].path : k \in {k \in DOMAIN moved : moved[k].by = {None}}}
               /\ UNCHANGED <<ledger, rt, used>>
        <3>1. DOMAIN moved' = {1} /\ moved'[1] = ev
            BY <2>6
        <3>2. ASSUME NEW r \in Paths, EventShows(disk, ev, r) PROVE Covered(r)'
            BY <2>3, <3>1, <3>2 DEF Covered
        <3>3. ASSUME NEW r \in Paths, NEW k \in DOMAIN moved, EventShows(disk, moved[k], r)
              PROVE  r \in missed'
            <4>1. moved[k].path = r /\ moved[k].by = {None}
                BY <1>1, <3>3 DEF EventsOK, EventShows, Shows
            <4> QED
                BY <2>6, <4>1
        <3>4. ASSUME NEW r \in Paths
              PROVE  /\ r \in missed => r \in missed'
                     /\ QueueShows(disk, rt, r) => QueueShows(disk, rt', r)
                     /\ (\E k \in DOMAIN events : EventShows(disk, events[k], r)) => Covered(r)'
                     /\ (\E k \in DOMAIN moved : EventShows(disk, moved[k], r)) => r \in missed'
            BY <2>2, <2>5, <2>6, <3>2, <3>3
        <3> QED
            BY <2>3, <3>4, WatchedFollows
    <2>7. CASE /\ ev.kind # "from" /\ Observe(Received(ev))
               /\ moved' = IF ev.kind = "to" THEN <<>> ELSE moved
        <3>1. PICK x : x = Received(ev)
            OBVIOUS
        <3>2. x \in Events /\ x.kind \in {"create", "modify", "delete", "rename"} /\ Observe(x)
            BY <1>1, <2>1, <2>7, <3>1, ReceivedEvent
        <3>3. ASSUME NEW r \in Paths
              PROVE  /\ r \in missed => r \in missed'
                     /\ QueueShows(disk, rt, r) => QueueShows(disk, rt', r)
                     /\ EventShows(disk, x, r) => r \in missed' \/ QueueShows(disk, rt', r)
            BY <3>2, ObserveShows
        <3>4. ASSUME NEW r \in Paths PROVE EventShows(disk, ev, r) => EventShows(disk, x, r)
            <4>1. CASE ev.kind # "to"
                BY <3>1, <4>1 DEF Received
            <4>2. CASE ev.kind = "to" /\ moved = <<>>
                <5>1. x.kind = "create" /\ x.path = ev.path /\ x.by = ev.by
                    BY <2>1, <3>1, <4>2 DEF Received, Events
                <5> QED
                    BY <4>2, <5>1 DEF EventShows, Shows
            <4>3. CASE ev.kind = "to" /\ moved # <<>>
                <5>1. x.kind = "rename" /\ x.path = ev.path /\ x.by = ev.by \cup moved[1].by
                    BY <3>1, <4>3 DEF Received, Event
                <5> QED
                    BY <4>3, <5>1 DEF EventShows, Shows
            <4> QED
                BY <4>1, <4>2, <4>3
        <3>5. ASSUME NEW r \in Paths, NEW k \in DOMAIN moved, EventShows(disk, moved[k], r)
              PROVE  EventShows(disk, x, r) \/ Covered(r)'
            <4>1. CASE ev.kind # "to"
                BY <2>3, <2>7, <3>5, <4>1 DEF Covered
            <4>2. CASE ev.kind = "to"
                <5>1. moved # <<>> /\ k = 1
                    BY <1>1, <3>5
                <5>2. x.kind = "rename" /\ x.old = moved[1].path /\ x.by = ev.by \cup moved[1].by
                    BY <3>1, <4>2, <5>1 DEF Received, Event
                <5>3. moved[1].path = r /\ None \in moved[1].by
                    BY <1>1, <3>5, <5>1 DEF EventsOK, EventShows, Shows
                <5> QED
                    BY <5>2, <5>3 DEF EventShows, Shows
            <4> QED
                BY <4>1, <4>2
        <3>6. ASSUME NEW r \in Paths PROVE QueueShows(disk, rt', r) => Covered(r)'
            BY <2>3 DEF Covered
        <3>7. ASSUME NEW r \in Paths
              PROVE  /\ (\E k \in DOMAIN events : EventShows(disk, events[k], r)) => r \in missed' \/ Covered(r)'
                     /\ (\E k \in DOMAIN moved : EventShows(disk, moved[k], r)) => r \in missed' \/ Covered(r)'
            BY <2>2, <2>5, <3>3, <3>4, <3>5, <3>6
        <3> QED
            BY <2>3, <3>3, <3>7, WatchedFollows
    <2> QED
        BY <2>4, <2>6, <2>7
<1> QED
    BY <1>2, <1>3, <1>4

\* Requests of the panel and the editor add to what is on its way.
LEMMA RequestFollows ==
    ASSUME IndexInv, IndexFollows, RequestRebuild \/ SetConfig \/ \E p \in Paths : Load(p)
    PROVE  IndexFollows'
<1>1. QueueOK(rt) /\ rt \in Runtimes
    BY DEF IndexInv, QueueOK
<1>2. UNCHANGED <<disk, index, writer, events, moved, op, missed, last>>
    BY DEF RequestRebuild, SetConfig, Load, Request
<1>3. ASSUME NEW r \in Paths PROVE QueueShows(disk, rt, r) => QueueShows(disk, rt', r)
    <2>1. CASE RequestRebuild
        <3>1. PICK d : d = disk
            OBVIOUS
        <3>2. QueueShows(d, QueueRebuild(rt), r)
            BY <1>1, RebuildShows
        <3> QED
            BY <2>1, <3>1, <3>2 DEF RequestRebuild, Request
    <2>2. CASE SetConfig
        <3>1. rt' = [rt EXCEPT !.incremental = ~@]
            BY <2>2 DEF SetConfig, Request
        <3>2. rt'.jobs = rt.jobs /\ rt'.rebuild = rt.rebuild
            BY <1>1, <3>1, Zenon DEF Runtimes
        <3> QED
            BY <3>2 DEF QueueShows
    <2>3. ASSUME NEW p \in Paths, Load(p) PROVE QueueShows(disk, rt, r) => QueueShows(disk, rt', r)
        <3>1. PICK j : j = Job("index", p, p)
            OBVIOUS
        <3>2. j \in Jobs
            BY <3>1 DEF Job, Jobs
        <3>3. rt' = [rt EXCEPT !.jobs = Append(@, j)]
            BY <2>3, <3>1 DEF Load, Request
        <3>4. Append(rt.jobs, j) \in Seq(Jobs)
            BY <1>1, <3>2 DEF Runtimes
        <3>5. rt' \in Runtimes /\ rt'.jobs = Append(rt.jobs, j) /\ rt'.rebuild = rt.rebuild
            BY <1>1, <3>3, <3>4, Zenon DEF Runtimes
        <3>6. PICK d : d = disk
            OBVIOUS
        <3>7. PICK s \in Runtimes : s = rt
            BY <1>1
        <3>8. PICK t \in Runtimes : t = rt'
            BY <3>5
        <3>9. QueueShows(d, s, r) => QueueShows(d, t, r)
            BY <3>2, <3>5, <3>7, <3>8, AppendShows
        <3> QED
            BY <3>6, <3>7, <3>8, <3>9
    <2> QED
        BY <2>1, <2>2, <2>3
<1>4. ASSUME NEW r \in Paths
      PROVE  /\ (\E k \in DOMAIN events : EventShows(disk, events[k], r)) => Covered(r)'
             /\ (\E k \in DOMAIN moved : EventShows(disk, moved[k], r)) => Covered(r)'
    BY <1>2 DEF Covered
<1> QED
    BY <1>2, <1>3, <1>4, WatchedFollows

\* What the first job shows leaves the queue with it, nothing else does.
LEMMA TakenShows ==
    ASSUME NEW d, NEW s, QueueOK(s), s.jobs # <<>>, NEW r, ~Shows(d, Head(s.jobs), r)
    PROVE  QueueShows(d, s, r) => QueueShows(d, Taken(s), r)
<1> DEFINE P == IF Head(s.jobs).kind = "index" THEN s.pending \ {Head(s.jobs).path} ELSE s.pending
<1>1. s \in Runtimes /\ s.jobs \in Seq(Jobs) /\ s.pending \in SUBSET Paths
    BY DEF QueueOK, Runtimes
<1>2. /\ Len(s.jobs) \in Nat \ {0} /\ Head(s.jobs) = s.jobs[1]
      /\ Tail(s.jobs) \in Seq(Jobs) /\ DOMAIN s.jobs = 1..Len(s.jobs)
      /\ DOMAIN Tail(s.jobs) = 1..(Len(s.jobs) - 1)
      /\ \A k \in 1..(Len(s.jobs) - 1) : Tail(s.jobs)[k] = s.jobs[k + 1]
    BY <1>1
<1>3. PICK t : t = [s EXCEPT !.jobs = Tail(@), !.pending = P]
    OBVIOUS
<1>4. Taken(s) = t
    BY <1>3, Zenon DEF Taken
<1>5. P \in SUBSET Paths
    BY <1>1, Zenon
<1> HIDE DEF P
<1>6. t.rebuild = s.rebuild /\ t.jobs = Tail(s.jobs)
    BY <1>1, <1>2, <1>3, <1>5, Zenon DEF Runtimes
<1>7. ASSUME NEW k \in DOMAIN s.jobs, Shows(d, s.jobs[k], r)
      PROVE  \E j \in DOMAIN t.jobs : Shows(d, t.jobs[j], r)
    <2>1. k # 1
        BY <1>2, <1>7
    <2>2. k - 1 \in DOMAIN t.jobs /\ t.jobs[k - 1] = s.jobs[k]
        BY <1>2, <1>6, <2>1
    <2> QED
        BY <1>7, <2>2
<1> QED
    BY <1>4, <1>6, <1>7 DEF QueueShows

\* The writer takes a job: what the job was to show, the index will agree on.
LEMMA TakeFollows ==
    ASSUME IndexInv, IndexFollows, TakeJob
    PROVE  IndexFollows'
<1>0. PICK job : job = Head(rt.jobs)
    OBVIOUS
<1>1. QueueOK(rt) /\ FilesTyped /\ writer.pc = "idle" /\ rt.jobs # <<>>
    BY DEF IndexInv, TakeJob
<1>2. job \in Jobs /\ job.path \in Paths /\ job.old \in Paths
    BY <1>0, <1>1, TakenOK DEF Jobs
<1>3. JobOK(job)
    BY <1>0, <1>1, TakenOK
<1>4. \/ /\ job.kind = "rebuild" /\ writer' = [Idle EXCEPT !.pc = "collect"]
         /\ UNCHANGED <<missed, last>>
      \/ /\ job.kind \in {"index", "rename"} /\ rt' = Taken(rt)
         /\ writer' = [Idle EXCEPT !.pc = "commit", !.job = job, !.docs[job.path] = disk[job.path]]
         /\ SeenBy(job.path, job.kind = "index")
      \/ /\ job.kind = "remove" /\ rt' = Taken(rt)
         /\ writer' = [Idle EXCEPT !.pc = "commit", !.job = job]
         /\ UNCHANGED <<missed, last>>
    BY <1>0 DEF TakeJob
<1>5. UNCHANGED <<disk, index, events, moved, op>>
    BY DEF TakeJob
<1>6. ASSUME NEW r PROVE ~Shows(disk, job, r) /\ QueueShows(disk, rt, r) => QueueShows(disk, Taken(rt), r)
    <2>1. PICK d : d = disk
        OBVIOUS
    <2>2. ~Shows(d, job, r) => (QueueShows(d, rt, r) => QueueShows(d, Taken(rt), r))
        BY <1>0, <1>1, TakenShows
    <2> QED
        BY <2>1, <2>2
<1>7. MaxVersion \in Nat /\ Idle \in [pc : {"idle", "commit", "collect", "rebuild"}, job : Jobs,
                files : SUBSET Paths, todo : SUBSET Paths, docs : [Paths -> 0..MaxVersion]]
    BY IndexTypes, FullRebuildOK DEF Idle
<1>8. disk[job.path] \in 0..MaxVersion
    BY <1>1, <1>2 DEF FilesTyped
<1>9. CASE job.kind = "rebuild"
    <2>1. writer'.pc = "collect"
        BY <1>4, <1>9 DEF Idle
    <2> QED
        BY <2>1 DEF IndexFollows, WillAgree
<1>10. ASSUME job.kind # "rebuild", NEW r \in Paths \ missed, Covered(r), ~Shows(disk, job, r)
       PROVE  Covered(r)'
    <2>1. rt' = Taken(rt)
        BY <1>4, <1>10
    <2>2. QueueShows(disk, rt, r) => QueueShows(disk', rt', r)
        BY <1>5, <1>6, <1>10, <2>1
    <2> QED
        BY <1>5, <1>10, <2>2 DEF Covered
<1>11. ASSUME NEW r \in Paths \ missed PROVE Covered(r) \/ Agrees(r)
    BY <1>1 DEF IndexFollows, WillAgree
<1>12. CASE job.kind = "index"
    <2>1. /\ missed' = missed \ {job.path} /\ last' = [last EXCEPT ![job.path] = "read"]
          /\ writer' = [Idle EXCEPT !.pc = "commit", !.job = job, !.docs[job.path] = disk[job.path]]
        BY <1>4, <1>12 DEF SeenBy
    <2>2. writer'.pc = "commit" /\ writer'.job = job /\ writer'.docs[job.path] = disk[job.path]
        BY <1>2, <1>7, <1>8, <2>1, Zenon
    <2>3. WillAgree(job.path)'
        BY <1>5, <1>12, <2>2 DEF WillAgree, CommitAgrees
    <2>4. ASSUME NEW r \in Paths \ missed', r # job.path PROVE (Covered(r) \/ WillAgree(r))'
        <3>1. r \notin missed /\ last'[r] = last[r]
            BY <1>1, <2>1, <2>4 DEF FilesTyped
        <3>2. ~Shows(disk, job, r)
            BY <1>12, <2>4 DEF Shows
        <3>3. CASE Covered(r)
            BY <1>10, <1>12, <3>1, <3>2, <3>3
        <3>4. CASE Agrees(r)
            BY <1>5, <2>2, <2>4, <3>1, <3>4 DEF WillAgree, CommitAgrees, Agrees
        <3> QED
            BY <1>11, <3>1, <3>3, <3>4
    <2> QED
        BY <2>3, <2>4 DEF IndexFollows
<1>13. CASE job.kind = "rename"
    <2>1. /\ \/ disk[job.path] = 0 /\ UNCHANGED <<missed, last>>
             \/ disk[job.path] # 0 /\ missed' = missed \ {job.path} /\ last' = [last EXCEPT ![job.path] = "read"]
          /\ writer' = [Idle EXCEPT !.pc = "commit", !.job = job, !.docs[job.path] = disk[job.path]]
        BY <1>4, <1>13 DEF SeenBy
    <2>2. writer'.pc = "commit" /\ writer'.job = job /\ writer'.docs[job.path] = disk[job.path]
        BY <1>2, <1>7, <1>8, <2>1, Zenon
    <2>3. disk[job.path] # 0 => WillAgree(job.path)'
        BY <1>5, <1>13, <2>2 DEF WillAgree, CommitAgrees
    <2>4. job.old # job.path \/ disk[job.path] = 0 => WillAgree(job.old)'
        BY <1>5, <1>13, <2>2 DEF WillAgree, CommitAgrees
    <2>5. ASSUME NEW r \in Paths \ missed', r # job.old, r # job.path \/ disk[job.path] = 0
          PROVE  (Covered(r) \/ WillAgree(r))'
        <3>1. r \notin missed /\ last'[r] = last[r]
            BY <1>1, <2>1, <2>5 DEF FilesTyped
        <3>2. ~Shows(disk, job, r)
            BY <1>13, <2>5 DEF Shows
        <3>3. CASE Covered(r)
            BY <1>10, <1>13, <3>1, <3>2, <3>3
        <3>4. CASE Agrees(r)
            BY <1>5, <1>13, <2>2, <2>5, <3>1, <3>4 DEF WillAgree, CommitAgrees, Agrees
        <3> QED
            BY <1>11, <3>1, <3>3, <3>4
    <2> QED
        BY <2>3, <2>4, <2>5 DEF IndexFollows
<1>14. CASE job.kind = "remove"
    <2>1. UNCHANGED <<missed, last>> /\ writer' = [Idle EXCEPT !.pc = "commit", !.job = job]
        BY <1>4, <1>14
    <2>2. writer'.pc = "commit" /\ writer'.job = job
        BY <1>2, <1>7, <2>1, Zenon
    <2>3. WillAgree(job.path)'
        BY <1>14, <2>2 DEF WillAgree, CommitAgrees
    <2>4. ASSUME NEW r \in Paths \ missed', r # job.path PROVE (Covered(r) \/ WillAgree(r))'
        <3>1. ~Shows(disk, job, r)
            BY <1>14, <2>4 DEF Shows
        <3>2. CASE Covered(r)
            BY <1>10, <1>14, <2>1, <3>1, <3>2
        <3>3. CASE Agrees(r)
            BY <1>5, <2>1, <2>2, <2>4, <3>3 DEF WillAgree, CommitAgrees, Agrees
        <3> QED
            BY <1>11, <2>1, <3>2, <3>3
    <2> QED
        BY <2>3, <2>4 DEF IndexFollows
<1> QED
    BY <1>4, <1>9, <1>12, <1>13, <1>14

\* What the index does not get from the writer stays on its way when the queue
\* of the runtime keeps it.
LEMMA CoveredStays ==
    ASSUME NEW r, UNCHANGED <<disk, events, moved, op>>,
           QueueShows(disk, rt, r) => QueueShows(disk, rt', r)
    PROVE  Covered(r) => Covered(r)'
BY DEF Covered

\* A job is committed or fails.
LEMMA CommitFollows ==
    ASSUME IndexInv, IndexFollows, CommitJob \/ FailJob
    PROVE  IndexFollows'
<1>0. PICK job, doc : job = writer.job /\ doc = writer.docs[writer.job.path]
    OBVIOUS
<1>1. /\ FilesTyped /\ writer.pc = "commit" /\ writer' = Idle
      /\ job.path \in Paths /\ job.old \in Paths /\ job.kind \in {"rebuild", "index", "remove", "rename"}
      /\ job.kind # "rebuild" /\ (job.kind = "remove" => job.old = job.path)
    BY <1>0 DEF IndexInv, CommitJob, FailJob, WriterTyped, WriterOK, JobOK, Jobs
<1>2. UNCHANGED <<disk, rt, events, moved, op>> /\ missed \subseteq missed'
    BY DEF CommitJob, FailJob
<1>3. writer'.pc = "idle"
    BY <1>1 DEF Idle
<1>4. ASSUME NEW r \in Paths, Covered(r) PROVE Covered(r)'
    BY <1>2, <1>4, CoveredStays
<1>5. ASSUME NEW r \in Paths \ missed PROVE Covered(r) \/ CommitAgrees(r)
    BY <1>1 DEF IndexFollows, WillAgree
<1>6. SUFFICES ASSUME NEW r \in Paths \ missed', CommitAgrees(r) PROVE Agrees(r)'
    BY <1>2, <1>3, <1>4, <1>5 DEF IndexFollows, WillAgree
<1>7. index \in [Paths -> 0..MaxVersion] /\ last \in [Paths -> {"none", "read", "remove"}]
    BY <1>1 DEF FilesTyped
<1>8. CASE CommitJob
    <2>1. /\ job.kind = "index" => index' = [index EXCEPT ![job.path] = doc] /\ last' = last
          /\ job.kind = "remove" => /\ index' = [index EXCEPT ![job.path] = 0]
                                    /\ last' = [last EXCEPT ![job.old] = "remove"]
          /\ job.kind = "rename" =>
                /\ index' = [index EXCEPT ![job.old] = 0, ![job.path] = IF doc # 0 THEN doc ELSE @]
                /\ last' = [last EXCEPT ![job.old] = "remove"]
        BY <1>0, <1>1, <1>8 DEF CommitJob
    <2>2. \/ r # job.path /\ Agrees(r)
          \/ r = job.path /\ job.kind = "index" /\ doc = disk[r]
          \/ r = job.path /\ job.kind = "remove"
          \/ r = job.path /\ job.kind = "rename" /\ doc # 0 /\ doc = disk[r]
          \/ r = job.path /\ job.kind = "rename" /\ doc = 0 /\ Agrees(r)
          \/ r = job.old /\ job.kind = "rename" /\ (r # job.path \/ doc = 0)
        BY <1>0, <1>6 DEF CommitAgrees
    <2>3. CASE job.kind = "index"
        BY <1>1, <1>2, <1>7, <2>1, <2>2, <2>3 DEF Agrees
    <2>4. CASE job.kind = "remove"
        BY <1>1, <1>2, <1>7, <2>1, <2>2, <2>4 DEF Agrees
    <2>5. CASE job.kind = "rename"
        BY <1>1, <1>2, <1>7, <2>1, <2>2, <2>5 DEF Agrees
    <2> QED
        BY <1>1, <2>3, <2>4, <2>5
<1>9. CASE FailJob
    <2>1. r # job.path /\ r # job.old /\ UNCHANGED <<index, last>>
        BY <1>0, <1>6, <1>9 DEF FailJob
    <2>2. Agrees(r)
        BY <1>0, <1>6, <2>1 DEF CommitAgrees
    <2> QED
        BY <1>2, <2>1, <2>2 DEF Agrees
<1> QED
    BY <1>8, <1>9

\* A rebuild lists the files, reads them and ends.
LEMMA RebuildFollows ==
    ASSUME IndexInv, IndexFollows,
           CollectFiles \/ (\E p \in Paths : RebuildRead(p)) \/ FinishRebuild \/ FailRebuild
    PROVE  IndexFollows'
<1>1. /\ FilesTyped /\ WriterTyped /\ QueueOK(rt) /\ writer.todo \subseteq writer.files /\ rt \in Runtimes
    BY DEF IndexInv, WriterOK, QueueOK
<1>2. CASE CollectFiles
    <2>0. PICK files : files = {p \in Paths : disk[p] # 0}
        OBVIOUS
    <2>1. /\ writer' = [writer EXCEPT !.pc = "rebuild", !.files = files, !.todo = files]
          /\ disk' = disk
        BY <1>2, <2>0 DEF CollectFiles
    <2>2. files \in SUBSET Paths
        BY <2>0
    <2>3. writer'.pc = "rebuild" /\ writer'.files = files /\ writer'.todo = files
        BY <1>1, <2>1, <2>2, Zenon DEF WriterTyped
    <2>4. ASSUME NEW r \in Paths PROVE WillAgree(r)'
        BY <2>0, <2>1, <2>3 DEF WillAgree, RebuildAgrees
    <2> QED
        BY <2>4 DEF IndexFollows
<1>3. ASSUME NEW p \in Paths, RebuildRead(p) PROVE IndexFollows'
    <2>1. /\ writer.pc = "rebuild" /\ p \in writer.todo
          /\ writer' = [writer EXCEPT !.todo = @ \ {p}, !.docs[p] = disk[p]]
          /\ \/ disk[p] = 0 /\ UNCHANGED <<missed, last>>
             \/ disk[p] # 0 /\ missed' = missed \ {p} /\ last' = [last EXCEPT ![p] = "read"]
          /\ UNCHANGED <<disk, index, rt, events, moved, op>>
        BY <1>3 DEF RebuildRead, SeenBy
    <2>2. disk[p] \in 0..MaxVersion /\ writer.todo \ {p} \in SUBSET Paths
          /\ [writer.docs EXCEPT ![p] = disk[p]] \in [Paths -> 0..MaxVersion]
        BY <1>1 DEF FilesTyped, WriterTyped
    <2>3. /\ writer'.pc = "rebuild" /\ writer'.files = writer.files /\ writer'.todo = writer.todo \ {p}
          /\ writer'.docs = [writer.docs EXCEPT ![p] = disk[p]]
        BY <1>1, <2>1, <2>2, Zenon DEF WriterTyped
    <2>4. writer'.docs[p] = disk[p] /\ \A r \in Paths \ {p} : writer'.docs[r] = writer.docs[r]
        BY <1>1, <2>3 DEF WriterTyped
    <2>5. ASSUME NEW r \in Paths \ missed', r # p PROVE (Covered(r) \/ WillAgree(r))'
        <3>1. r \notin missed /\ last'[r] = last[r]
            BY <1>1, <2>1, <2>5 DEF FilesTyped
        <3>2. Covered(r) \/ RebuildAgrees(r)
            BY <2>1, <3>1 DEF IndexFollows, WillAgree
        <3>3. Covered(r) => Covered(r)'
            BY <2>1, CoveredStays
        <3>4. RebuildAgrees(r) => RebuildAgrees(r)'
            BY <2>1, <2>3, <2>4, <2>5, <3>1 DEF RebuildAgrees, Agrees
        <3> QED
            BY <2>3, <3>2, <3>3, <3>4 DEF WillAgree
    <2>6. ASSUME p \notin missed' PROVE (Covered(p) \/ WillAgree(p))'
        <3>1. p \in writer.files
            BY <1>1, <2>1
        <3>2. CASE disk[p] # 0
            BY <2>1, <2>3, <2>4, <3>1, <3>2 DEF WillAgree, RebuildAgrees
        <3>3. CASE disk[p] = 0
            <4>1. p \notin missed /\ UNCHANGED last
                BY <2>1, <2>6, <3>3
            <4>2. Covered(p) \/ RebuildAgrees(p)
                BY <2>1, <4>1 DEF IndexFollows, WillAgree
            <4>3. Covered(p) => Covered(p)'
                BY <2>1, CoveredStays
            <4>4. RebuildAgrees(p) => Agrees(p)
                BY <2>1, <3>1, <3>3 DEF RebuildAgrees
            <4>5. Agrees(p) => RebuildAgrees(p)'
                BY <2>1, <2>3, <2>4, <3>1, <3>3, <4>1 DEF RebuildAgrees, Agrees
            <4> QED
                BY <2>3, <4>2, <4>3, <4>4, <4>5 DEF WillAgree
        <3> QED
            BY <3>2, <3>3
    <2> QED
        BY <2>5, <2>6 DEF IndexFollows
<1>4. CASE FinishRebuild
    <2>1. /\ writer.pc = "rebuild" /\ writer.todo = {} /\ writer' = Idle
          /\ index' = [p \in Paths |-> IF p \notin writer.files THEN 0
                                       ELSE IF writer.docs[p] # 0 THEN writer.docs[p] ELSE index[p]]
          /\ rt' = IF rt.rebuild.rerun
                   THEN [rt EXCEPT !.rebuild = [queued |-> TRUE, running |-> FALSE, rerun |-> FALSE],
                                   !.jobs = Append(@, FullRebuild)]
                   ELSE [rt EXCEPT !.rebuild.running = FALSE]
          /\ UNCHANGED <<disk, events, moved, op, missed, last>>
        BY <1>4 DEF FinishRebuild
    <2>2. writer'.pc = "idle"
        BY <2>1 DEF Idle
    <2>3. ASSUME NEW r \in Paths PROVE QueueShows(disk, rt, r) => QueueShows(disk, rt', r)
        <3>1. CASE rt.rebuild.rerun
            <4> DEFINE flags == [queued |-> TRUE, running |-> FALSE, rerun |-> FALSE]
            <4>1. flags \in [queued : BOOLEAN, running : BOOLEAN, rerun : BOOLEAN]
                OBVIOUS
            <4>2. rt.jobs \in Seq(Jobs) /\ Append(rt.jobs, FullRebuild) \in Seq(Jobs)
                BY <1>1, FullRebuildOK DEF Runtimes
            <4>3. rt' = [rt EXCEPT !.rebuild = flags, !.jobs = Append(@, FullRebuild)]
                BY <2>1, <3>1, Zenon
            <4> HIDE DEF flags
            <4>4. rt'.jobs = Append(rt.jobs, FullRebuild)
                BY <1>1, <4>1, <4>2, <4>3, Zenon DEF Runtimes
            <4>5. Len(rt.jobs) + 1 \in DOMAIN rt'.jobs /\ rt'.jobs[Len(rt.jobs) + 1] = FullRebuild
                BY <4>2, <4>4
            <4>6. Shows(disk, FullRebuild, r)
                BY DEF Shows, FullRebuild, Job
            <4> QED
                BY <4>5, <4>6 DEF QueueShows
        <3>2. CASE ~rt.rebuild.rerun
            <4>1. rt' = [rt EXCEPT !.rebuild.running = FALSE]
                BY <2>1, <3>2
            <4>2. rt'.jobs = rt.jobs
                BY <1>1, <4>1, Zenon DEF Runtimes
            <4> QED
                BY <3>2, <4>2 DEF QueueShows
        <3> QED
            BY <3>1, <3>2
    <2>4. ASSUME NEW r \in Paths \ missed PROVE (Covered(r) \/ WillAgree(r))'
        <3>1. Covered(r) \/ RebuildAgrees(r)
            BY <2>1 DEF IndexFollows, WillAgree
        <3>2. Covered(r) => Covered(r)'
            BY <2>1, <2>3, CoveredStays
        <3>3. RebuildAgrees(r) => Agrees(r)'
            BY <2>1 DEF RebuildAgrees, Agrees
        <3> QED
            BY <2>2, <3>1, <3>2, <3>3 DEF WillAgree
    <2> QED
        BY <2>1, <2>4 DEF IndexFollows
<1>5. CASE FailRebuild
    BY <1>5 DEF FailRebuild, IndexFollows
<1> QED
    BY <1>2, <1>3, <1>4, <1>5

\* The index follows from the start: what differs is counted as missed.
LEMMA InitFollows == Init => IndexFollows
<1> SUFFICES ASSUME Init, NEW r \in Paths \ missed PROVE WillAgree(r)
    BY DEF IndexFollows
<1>1. writer.pc = "idle" /\ index[r] = disk[r]
    BY DEF Init, Idle
<1> QED
    BY <1>1 DEF WillAgree, Agrees

\* Every step keeps the index following the vault.
LEMMA NextFollows ==
    ASSUME IndexInv, IndexFollows, [Next]_vars
    PROVE  IndexFollows'
<1>1. CASE UNCHANGED vars
    <2>1. UNCHANGED <<disk, index, rt, writer, events, moved, op, missed, last>>
        BY <1>1 DEF vars
    <2>2. \A r \in Paths \ missed' : (Covered(r) \/ WillAgree(r))'
        BY <2>1, UntouchedFollows
    <2> QED
        BY <2>2 DEF IndexFollows
<1>2. CASE Next
    BY <1>2, TakeFollows, CommitFollows, RebuildFollows, WatcherFollows, ApplyFollows, CommandFollows,
       NotifyFollows, OutsideFollows, RequestFollows
    DEF Next, Writer, Watcher, Command
<1> QED
    BY <1>1, <1>2

\* Every path whose change was not missed is agreed on, or its change is on its way.
THEOREM IndexFollowsVault == Spec => []IndexFollows
BY IndexInvariant, InitFollows, NextFollows, PTL DEF Spec

\* Once everything announced has been handled the index is the vault, for any
\* vault, any number of commands, outside changes, rebuilds and failures
\* (SettledIndexIsVault: search/mod.rs, search/writer.rs, vault/watcher.rs).
THEOREM SettledIndex == Spec => []SettledIndexIsVault
<1>1. ASSUME IndexInv, IndexFollows PROVE SettledIndexIsVault
    <2> SUFFICES ASSUME Settled, NEW r \in Paths \ missed PROVE Agrees(r)
        BY DEF SettledIndexIsVault, Agrees
    <2>1. /\ writer.pc = "idle" /\ rt.jobs = <<>> /\ events = <<>> /\ moved = <<>>
          /\ \A i \in Ops : op[i].pc # "applied"
        BY DEF Settled, Idle
    <2>2. ~rt.rebuild.rerun
        BY <1>1, <2>1 DEF IndexInv, QueueOK, WriterOK
    <2>3. ~Covered(r)
        BY <2>1, <2>2 DEF Covered, QueueShows
    <2> QED
        BY <1>1, <2>1, <2>3 DEF IndexFollows, WillAgree
<1> QED
    BY <1>1, IndexInvariant, IndexFollowsVault, PTL
=============================================================================
