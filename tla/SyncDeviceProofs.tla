--------------------------- MODULE SyncDeviceProofs ---------------------------
(***************************************************************************)
(* Proofs about SyncDevice, for any devices, files, edits and length of    *)
(* the history, with lost replies, failures and users who write at any     *)
(* time: every device computes the same trees from the history.  If users  *)
(* leave a vault alone while it syncs, what its database calls clean is in *)
(* the history, no edit is lost, and a run that ends well leaves nothing   *)
(* to do, as long as no file that held something was deleted.              *)
(***************************************************************************)
EXTENDS SyncDevice, DataFacts, TLAPS

\* What a file can hold by now.
Known == {Absent} \cup SUBSET written
KnownTrees == [Names -> Known]

\* A commit that a device made or plans to make.
CommitOK(c) ==
    /\ c \in Commits /\ c.tree \in KnownTrees
    /\ \A n \in DOMAIN c.ops : n \in Names /\ c.ops[n] \in Known

\* A commit c is the i-th of the history, whose tree is what its readers compute.
Fits(c, i) ==
    /\ c.tree = TreeAt[i]
    /\ c.kind = "merge" => \E p \in 1 .. i - 2 : c.parents = {i - 1, p}

\* A row that has a file's name in it was scanned with the content of the plan.
PlanScanned(r, ops) == \A n \in DOMAIN ops : r[n] # NoRow /\ r[n].hash = ops[n]

\* Where a run t is, what it holds fits the history; h is the local head of its
\* device and r are its rows.
RunOK(t, h, r) ==
    /\ t \in Runs /\ t.parent <= Len(log) /\ t.local \in Known /\ t.work \in KnownTrees
    /\ t.read # NoRow => t.pc = "apply" /\ t.read \in t.left /\ t.local # Absent
    /\ t.pc \in {"apply", "marked"} =>
        /\ h < t.target /\ t.target <= Len(log)
        /\ t.left \subseteq DOMAIN log[h + 1].ops
        /\ \A n \in Names \ t.left : t.work[n] = TreeAt[h + 1][n]
    /\ t.pc = "marked" => t.left = {}
    /\ t.pc \in {"upload", "sent", "saved"} => CommitOK(t.plan)
    /\ t.pc = "upload" =>
        /\ t.plan.expected = h /\ t.plan.tree = Applied(TreeAt[h], t.plan)
        /\ t.plan.kind = "merge" => \E p \in 1 .. h - 1 : t.plan.parents = {h, p}
    /\ t.pc \in {"sent", "saved"} => t.plan.expected + 1 <= Len(log) /\ log[t.plan.expected + 1] = t.plan
    /\ t.pc \in {"upload", "sent"} => PlanScanned(r, t.plan.ops)

Typed ==
    /\ log \in Seq(Commits) /\ lastSeq \in [Devices -> Nat]
    /\ disk \in [Devices -> KnownTrees]
    /\ rows \in [Devices -> [Names -> Row \cup {NoRow}]]
    /\ vault \in [Devices -> [head : Nat, seq : Nat \ {0}]]
    /\ tree \in [Devices -> KnownTrees]
    /\ run \in [Devices -> Runs]
    /\ written \subseteq Edits /\ dropped \subseteq written
    /\ settled \in [Devices -> BOOLEAN]

\* Every commit is as its readers need it, and its files are known to a device.
HistoryOK ==
    /\ \A i \in 1 .. Len(log) : CommitOK(log[i]) /\ Fits(log[i], i)
    /\ \A i \in 1 .. Len(log) : \A n \in DOMAIN log[i].ops : \E o \in Devices : rows[o][n] # NoRow

\* What a pull wrote is there as long as the pull is.
SyncedOK(t, h, files) ==
    t.pc = "apply" => \A n \in t.synced : n \in DOMAIN log[h + 1].ops \ t.left /\ files[n] = t.work[n]

\* What rows call clean is in the history.
CleanOK(r) == \A n \in Names : r[n] # NoRow /\ ~r[n].dirty => \E i \in 0 .. Len(log) : TreeAt[i][n] = r[n].hash

DeviceOK(d) ==
    /\ vault[d].head <= Len(log) /\ tree[d] = TreeAt[vault[d].head]
    /\ RunOK(run[d], vault[d].head, rows[d])
    /\ EditDuringRun \/ (SyncedOK(run[d], vault[d].head, disk[d]) /\ CleanOK(rows[d]))

\* The inductive invariant.
DeviceInv == Typed /\ HistoryOK /\ \A d \in Devices : DeviceOK(d)

-----------------------------------------------------------------------------
(* The trees of the history are what their recursive definition says.      *)

\* The trees up to the i-th commit.
Prefix(f, m) == f = [i \in 0 .. m |-> IF i = 0 THEN EmptyTree ELSE Applied(f[i - 1], log[i])]

\* Two of them agree.
LEMMA PrefixUnique ==
    ASSUME NEW m \in Nat, NEW k \in Nat, NEW f, NEW g, Prefix(f, m), Prefix(g, k)
    PROVE  \A i \in Nat : i <= m /\ i <= k => f[i] = g[i]
<1>1. PICK T : T = {i \in Nat : i <= m /\ i <= k /\ f[i] # g[i]}
    OBVIOUS
<1>2. ASSUME T # {} PROVE FALSE
    <2>1. PICK x \in T : \A y \in T : x <= y
        BY <1>1, <1>2, LeastNatural
    <2>2. x \in Nat /\ x <= m /\ x <= k /\ f[x] # g[x]
        BY <1>1
    <2>3. /\ f[x] = IF x = 0 THEN EmptyTree ELSE Applied(f[x - 1], log[x])
          /\ g[x] = IF x = 0 THEN EmptyTree ELSE Applied(g[x - 1], log[x])
        <3>1. x \in 0 .. m /\ x \in 0 .. k
            BY <2>2
        <3> QED
            BY <3>1, Zenon DEF Prefix
    <2>4. x # 0
        BY <2>2, <2>3
    <2>5. x - 1 \in Nat /\ x - 1 <= m /\ x - 1 <= k /\ x - 1 \notin T
        BY <2>1, <2>2, <2>4
    <2>6. f[x - 1] = g[x - 1]
        BY <1>1, <2>5
    <2> QED
        BY <2>2, <2>3, <2>6
<1> QED
    BY <1>1, <1>2

\* They exist for every commit.
LEMMA PrefixExists == \A m \in Nat : \E f : Prefix(f, m)
<1>1. PICK T : T = {m \in Nat : ~\E f : Prefix(f, m)}
    OBVIOUS
<1>2. ASSUME T # {} PROVE FALSE
    <2>1. PICK x \in T : \A y \in T : x <= y
        BY <1>1, <1>2, LeastNatural
    <2>2. x \in Nat /\ ~\E f : Prefix(f, x)
        BY <1>1
    <2>3. x # 0
        <3>1. ASSUME x = 0 PROVE FALSE
            <4>1. PICK f : f = [i \in 0 .. 0 |-> EmptyTree]
                OBVIOUS
            <4>2. Prefix(f, 0)
                BY <4>1 DEF Prefix
            <4> QED
                BY <2>2, <3>1, <4>2
        <3> QED
            BY <3>1
    <2>4. x - 1 \in Nat /\ x - 1 \notin T
        BY <2>1, <2>2, <2>3
    <2>5. PICK f : Prefix(f, x - 1)
        BY <1>1, <2>4
    <2>6. PICK a : a = Applied(f[x - 1], log[x])
        OBVIOUS
    <2>7. PICK g : g = [i \in 0 .. x |-> IF i = x THEN a ELSE f[i]]
        OBVIOUS
    <2>8. \A i \in 0 .. x : g[i] = IF i = 0 THEN EmptyTree ELSE Applied(g[i - 1], log[i])
        <3> SUFFICES ASSUME NEW i \in 0 .. x PROVE g[i] = IF i = 0 THEN EmptyTree ELSE Applied(g[i - 1], log[i])
            OBVIOUS
        <3>1. CASE i = x
            <4>1. x - 1 \in 0 .. x /\ x - 1 # x
                BY <2>2, <2>3
            <4>2. g[i - 1] = f[x - 1] /\ g[i] = a
                BY <2>7, <3>1, <4>1
            <4> QED
                BY <2>3, <2>6, <3>1, <4>2
        <3>2. CASE i # x
            <4>1. i \in 0 .. (x - 1) /\ (i # 0 => i - 1 \in 0 .. x /\ i - 1 # x)
                BY <2>2, <3>2
            <4>2. f[i] = IF i = 0 THEN EmptyTree ELSE Applied(f[i - 1], log[i])
                BY <2>5, <4>1, Zenon DEF Prefix
            <4>3. g[i] = f[i] /\ (i # 0 => g[i - 1] = f[i - 1])
                BY <2>7, <3>2, <4>1
            <4> QED
                BY <4>2, <4>3
        <3> QED
            BY <3>1, <3>2
    <2>9. Prefix(g, x)
        BY <2>7, <2>8 DEF Prefix
    <2> QED
        BY <2>2, <2>9
<1> QED
    BY <1>1, <1>2

\* rematerialize_tree_entries: the tree at a commit is the one before it with the
\* commit's changes.
TreeEquation == TreeAt = [i \in Nat |-> IF i = 0 THEN EmptyTree ELSE Applied(TreeAt[i - 1], log[i])]

\* The recursion is well-defined.
LEMMA TreeDefined == TreeEquation
<1>1. PICK g : g = [m \in Nat |-> (CHOOSE f : Prefix(f, m))[m]]
    OBVIOUS
<1>2. \A m \in Nat : Prefix(CHOOSE f : Prefix(f, m), m)
    BY PrefixExists, Zenon
<1>3. \A i \in Nat : g[i] = IF i = 0 THEN EmptyTree ELSE Applied(g[i - 1], log[i])
    <2> SUFFICES ASSUME NEW i \in Nat PROVE g[i] = IF i = 0 THEN EmptyTree ELSE Applied(g[i - 1], log[i])
        OBVIOUS
    <2>1. PICK f : f = CHOOSE h : Prefix(h, i)
        OBVIOUS
    <2>2. Prefix(f, i) /\ g[i] = f[i]
        BY <1>1, <1>2, <2>1, Zenon
    <2>3. i \in 0 .. i
        OBVIOUS
    <2>4. f[i] = IF i = 0 THEN EmptyTree ELSE Applied(f[i - 1], log[i])
        BY <2>2, <2>3, Zenon DEF Prefix
    <2>5. ASSUME i # 0 PROVE f[i - 1] = g[i - 1]
        <3>1. PICK e : e = CHOOSE h : Prefix(h, i - 1)
            OBVIOUS
        <3>2. i - 1 \in Nat
            BY <2>5
        <3>3. Prefix(e, i - 1) /\ g[i - 1] = e[i - 1]
            BY <1>1, <1>2, <3>1, <3>2, Zenon
        <3>4. f[i - 1] = e[i - 1]
            BY <2>2, <3>2, <3>3, PrefixUnique
        <3> QED
            BY <3>3, <3>4
    <2> QED
        BY <2>2, <2>4, <2>5
<1>4. g = [i \in Nat |-> IF i = 0 THEN EmptyTree ELSE Applied(g[i - 1], log[i])]
    BY <1>1, <1>3
<1> QED
    BY <1>4, Zenon DEF TreeAt, TreeEquation

\* In every state.
LEMMA TreeDefinedNext == TreeEquation'
BY TreeDefined, PTL

\* The first tree is empty, the others follow.
LEMMA TreeFacts ==
    /\ TreeAt[0] = EmptyTree
    /\ \A i \in Nat : TreeAt[i + 1] = Applied(TreeAt[i], log[i + 1])
<1>1. TreeAt = [i \in Nat |-> IF i = 0 THEN EmptyTree ELSE Applied(TreeAt[i - 1], log[i])]
    BY TreeDefined, Zenon DEF TreeEquation
<1>2. \A i \in Nat : TreeAt[i] = IF i = 0 THEN EmptyTree ELSE Applied(TreeAt[i - 1], log[i])
    BY <1>1, Zenon
<1>3. ASSUME NEW i \in Nat PROVE TreeAt[i + 1] = Applied(TreeAt[i], log[i + 1])
    <2>1. i + 1 \in Nat /\ i + 1 # 0 /\ (i + 1) - 1 = i
        OBVIOUS
    <2> QED
        BY <1>2, <2>1
<1> QED
    BY <1>2, <1>3

\* A commit joins the history: earlier trees stay, and there is one more.
LEMMA TreeGrows ==
    ASSUME NEW k \in Nat, \A i \in 1 .. k : log'[i] = log[i]
    PROVE  /\ \A i \in 0 .. k : TreeAt'[i] = TreeAt[i]
           /\ TreeAt'[k + 1] = Applied(TreeAt[k], log'[k + 1])
<1>1. TreeAt = [i \in Nat |-> IF i = 0 THEN EmptyTree ELSE Applied(TreeAt[i - 1], log[i])]
    BY TreeDefined, Zenon DEF TreeEquation
<1>2. TreeAt' = [i \in Nat |-> IF i = 0 THEN EmptyTree ELSE Applied(TreeAt'[i - 1], log'[i])]
    BY TreeDefinedNext, Zenon DEF TreeEquation, Applied
<1>3. PICK f : f = TreeAt
    OBVIOUS
<1>4. PICK g : g = TreeAt'
    OBVIOUS
<1>5. \A i \in Nat : f[i] = IF i = 0 THEN EmptyTree ELSE Applied(f[i - 1], log[i])
    BY <1>1, <1>3, Zenon
<1>6. \A i \in Nat : g[i] = IF i = 0 THEN EmptyTree ELSE Applied(g[i - 1], log'[i])
    BY <1>2, <1>4, Zenon
<1>7. PICK T : T = {i \in Nat : i <= k /\ f[i] # g[i]}
    OBVIOUS
<1>8. ASSUME T # {} PROVE FALSE
    <2>1. PICK x \in T : \A y \in T : x <= y
        BY <1>7, <1>8, LeastNatural
    <2>2. x \in Nat /\ x <= k /\ f[x] # g[x]
        BY <1>7
    <2>3. x # 0
        BY <1>5, <1>6, <2>2
    <2>4. x - 1 \in Nat /\ x - 1 <= k /\ x - 1 \notin T /\ x \in 1 .. k
        BY <2>1, <2>2, <2>3
    <2>5. f[x - 1] = g[x - 1] /\ log'[x] = log[x]
        BY <1>7, <2>4
    <2> QED
        BY <1>5, <1>6, <2>2, <2>3, <2>5
<1>9. \A i \in 0 .. k : g[i] = f[i]
    BY <1>7, <1>8
<1>10. g[k + 1] = Applied(f[k], log'[k + 1])
    <2>1. k + 1 \in Nat /\ k + 1 # 0 /\ (k + 1) - 1 = k /\ g[k] = f[k]
        BY <1>9
    <2> QED
        BY <1>6, <2>1
<1> QED
    BY <1>3, <1>4, <1>9, <1>10, Zenon

\* While the history stays, its trees do.
LEMMA SameTrees ==
    ASSUME UNCHANGED log
    PROVE  TreeAt' = TreeAt
BY Zenon DEF TreeAt, Applied

-----------------------------------------------------------------------------
(* What the history, and what users have written, grow by.                 *)

\* The history and the edits made are kept.
Grows ==
    /\ written \subseteq written' /\ log' \in Seq(Commits) /\ Len(log) <= Len(log')
    /\ \A i \in 1 .. Len(log) : log'[i] = log[i]

\* Contents and trees that are known stay known.
LEMMA KnownGrows ==
    ASSUME written \subseteq written'
    PROVE  Known \subseteq Known' /\ KnownTrees \subseteq KnownTrees'
<1>1. Known \subseteq Known'
    BY DEF Known
<1> QED
    BY <1>1 DEF KnownTrees

\* Trees of the history so far stay.
LEMMA TreesStay ==
    ASSUME log \in Seq(Commits), Grows
    PROVE  \A i \in 0 .. Len(log) : TreeAt'[i] = TreeAt[i]
<1>1. Len(log) \in Nat
    OBVIOUS
<1> QED
    BY <1>1, TreeGrows DEF Grows

\* A commit that is well formed stays so.
LEMMA CommitStays ==
    ASSUME log \in Seq(Commits), Grows, NEW c, CommitOK(c)
    PROVE  CommitOK(c)' /\ \A i \in 1 .. Len(log) : Fits(c, i) => Fits(c, i)'
<1>1. Known \subseteq Known' /\ KnownTrees \subseteq KnownTrees'
    BY KnownGrows DEF Grows
<1>2. CommitOK(c)'
    BY <1>1 DEF CommitOK
<1>3. ASSUME NEW i \in 1 .. Len(log), Fits(c, i) PROVE Fits(c, i)'
    <2>1. TreeAt'[i] = TreeAt[i]
        BY TreesStay
    <2> QED
        BY <1>3, <2>1 DEF Fits
<1> QED
    BY <1>2, <1>3

\* What a run holds still fits.
LEMMA RunStays ==
    ASSUME log \in Seq(Commits), Grows, NEW t, NEW h \in Nat, NEW r, h <= Len(log), RunOK(t, h, r)
    PROVE  RunOK(t, h, r)'
<1>1. Known \subseteq Known' /\ KnownTrees \subseteq KnownTrees' /\ Len(log) \in Nat /\ Len(log') \in Nat
    BY KnownGrows DEF Grows
<1>2. \A i \in 0 .. Len(log) : TreeAt'[i] = TreeAt[i]
    BY TreesStay
<1>3. t \in Runs /\ t.parent \in Nat /\ t.target \in Nat
    BY DEF RunOK, Runs
<1>4. t.parent <= Len(log') /\ t.local \in Known' /\ t.work \in KnownTrees'
    BY <1>1, <1>3 DEF RunOK, Grows
<1>5. ASSUME t.pc \in {"apply", "marked"}
      PROVE  /\ h < t.target /\ t.target <= Len(log')
             /\ t.left \subseteq DOMAIN log'[h + 1].ops
             /\ \A n \in Names \ t.left : t.work[n] = TreeAt'[h + 1][n]
    <2>1. h < t.target /\ t.target <= Len(log) /\ h + 1 \in 1 .. Len(log) /\ h + 1 \in 0 .. Len(log)
        BY <1>1, <1>3, <1>5 DEF RunOK
    <2>2. t.target <= Len(log') /\ log'[h + 1] = log[h + 1] /\ TreeAt'[h + 1] = TreeAt[h + 1]
        BY <1>1, <1>2, <1>3, <2>1 DEF Grows
    <2> QED
        BY <1>5, <2>1, <2>2 DEF RunOK
<1>6. t.pc \in {"upload", "sent", "saved"} => CommitOK(t.plan) /\ CommitOK(t.plan)'
    <2>1. PICK c : c = t.plan
        OBVIOUS
    <2> QED
        BY <2>1, CommitStays DEF RunOK
<1>7. t.pc = "upload" =>
        /\ t.plan.expected = h /\ t.plan.tree = Applied(TreeAt'[h], t.plan)
        /\ t.plan.kind = "merge" => \E p \in 1 .. h - 1 : t.plan.parents = {h, p}
    <2>1. TreeAt'[h] = TreeAt[h]
        BY <1>1, <1>2
    <2> QED
        BY <2>1 DEF RunOK
<1>8. ASSUME t.pc \in {"sent", "saved"}
      PROVE  t.plan.expected + 1 <= Len(log') /\ log'[t.plan.expected + 1] = t.plan
    <2>1. t.plan.expected \in Nat
        BY <1>6, <1>8 DEF CommitOK, Commits
    <2>2. t.plan.expected + 1 <= Len(log) /\ log[t.plan.expected + 1] = t.plan
        BY <1>8 DEF RunOK
    <2> QED
        BY <1>1, <2>1, <2>2 DEF Grows
<1>9. /\ t.read # NoRow => t.pc = "apply" /\ t.read \in t.left /\ t.local # Absent
      /\ t.pc = "marked" => t.left = {}
      /\ t.pc \in {"upload", "sent"} => PlanScanned(r, t.plan.ops)
    BY DEF RunOK
<1> QED
    BY <1>3, <1>4, <1>5, <1>6, <1>7, <1>8, <1>9 DEF RunOK, Applied

\* What a pull has written and what is clean.
LEMMA CleanStays ==
    ASSUME log \in Seq(Commits), Grows, NEW t, NEW h \in Nat, NEW r, h <= Len(log), RunOK(t, h, r)
    PROVE  (CleanOK(r) => CleanOK(r)') /\ \A files : SyncedOK(t, h, files) => SyncedOK(t, h, files)'
<1>1. Len(log) \in Nat /\ Len(log') \in Nat /\ Len(log) <= Len(log')
    BY DEF Grows
<1>2. \A i \in 0 .. Len(log) : TreeAt'[i] = TreeAt[i]
    BY TreesStay
<1>3. CleanOK(r) => CleanOK(r)'
    <2> SUFFICES ASSUME CleanOK(r), NEW n \in Names, r[n] # NoRow, ~r[n].dirty
                 PROVE  \E i \in 0 .. Len(log') : TreeAt'[i][n] = r[n].hash
        BY DEF CleanOK
    <2>1. PICK i \in 0 .. Len(log) : TreeAt[i][n] = r[n].hash
        BY DEF CleanOK
    <2>2. i \in 0 .. Len(log') /\ TreeAt'[i][n] = r[n].hash
        BY <1>1, <1>2, <2>1
    <2> QED
        BY <2>2
<1>4. ASSUME NEW files, SyncedOK(t, h, files) PROVE SyncedOK(t, h, files)'
    <2>1. t.pc = "apply" => log'[h + 1] = log[h + 1]
        <3>1. t.pc = "apply" => h < t.target /\ t.target <= Len(log) /\ t.target \in Nat
            BY DEF RunOK, Runs
        <3> QED
            BY <1>1, <3>1 DEF Grows
    <2> QED
        BY <1>4, <2>1 DEF SyncedOK
<1> QED
    BY <1>3, <1>4

-----------------------------------------------------------------------------
(* Rows.                                                                   *)

RowSets == [Names -> Row \cup {NoRow}]

\* Something is known of a name once a row has it.
Keeps(r, s) == \A n \in Names : r[n] # NoRow => s[n] # NoRow

\* What a scan s of the rows r and the files leaves.
ScanOf(r, s, files) ==
    /\ s \in RowSets /\ Keeps(r, s)
    /\ \A n \in Names : files[n] # Absent => s[n] # NoRow
    /\ \A n \in Names : s[n] # NoRow => s[n].hash = files[n]
    /\ \A n \in Names : s[n] # NoRow /\ ~s[n].dirty => r[n] # NoRow /\ ~r[n].dirty /\ r[n].hash = files[n]

\* apply_scan records what is on disk, and calls clean only what was and has not
\* changed.
LEMMA ScannedFacts ==
    ASSUME NEW r \in RowSets, NEW files \in Trees
    PROVE  ScanOf(r, Scanned(r, files), files)
<1>1. PICK s : s = Scanned(r, files)
    OBVIOUS
<1>2. NoRow \notin Row
    BY DeviceAssumption
<1>3. ASSUME NEW n \in Names
      PROVE  /\ s[n] \in Row \cup {NoRow}
             /\ r[n] # NoRow => s[n] # NoRow
             /\ files[n] # Absent => s[n] # NoRow
             /\ s[n] # NoRow => s[n].hash = files[n]
             /\ s[n] # NoRow /\ ~s[n].dirty => r[n] # NoRow /\ ~r[n].dirty /\ r[n].hash = files[n]
    <2>1. r[n] \in Row \cup {NoRow} /\ files[n] \in States
        BY DEF RowSets, Trees
    <2>2. CASE files[n] # Absent
        <3>1. PICK b : b = (r[n] = NoRow \/ (r[n] # NoRow /\ (r[n].dirty \/ r[n].hash # files[n])))
            OBVIOUS
        <3>2. b \in BOOLEAN /\ (~b => r[n] # NoRow /\ ~r[n].dirty /\ r[n].hash = files[n])
            BY <3>1, Zenon
        <3>3. s[n] = [hash |-> files[n], dirty |-> b]
            BY <1>1, <2>2, <3>1, Zenon DEF Scanned
        <3>4. s[n] \in Row /\ s[n].hash = files[n] /\ s[n].dirty = b
            BY <2>1, <3>2, <3>3 DEF Row
        <3> QED
            BY <1>2, <3>2, <3>4
    <2>3. CASE files[n] = Absent /\ r[n] = NoRow
        <3>1. s[n] = NoRow
            BY <1>1, <2>3, Zenon DEF Scanned
        <3> QED
            BY <2>3, <3>1
    <2>4. CASE files[n] = Absent /\ r[n] # NoRow
        <3>1. PICK b : b = (r[n].dirty \/ r[n].hash # Absent)
            OBVIOUS
        <3>2. b \in BOOLEAN /\ (~b => ~r[n].dirty /\ r[n].hash = files[n])
            BY <2>4, <3>1, Zenon
        <3>3. s[n] = [hash |-> Absent, dirty |-> b]
            BY <1>1, <2>4, <3>1, Zenon DEF Scanned
        <3>4. s[n] \in Row /\ s[n].hash = files[n] /\ s[n].dirty = b
            BY <2>1, <2>4, <3>2, <3>3 DEF Row
        <3> QED
            BY <1>2, <2>4, <3>2, <3>4
    <2> QED
        BY <2>2, <2>3, <2>4
<1>4. s \in RowSets
    <2>1. s = [n \in Names |-> s[n]]
        BY <1>1, Zenon DEF Scanned
    <2> QED
        BY <1>3, <2>1 DEF RowSets
<1> QED
    BY <1>1, <1>3, <1>4 DEF ScanOf, Keeps

\* What mark_files_synced of the names in S makes of rows.
MarkOf(r, s, S) ==
    /\ s \in RowSets /\ Keeps(r, s) /\ Keeps(s, r)
    /\ \A n \in Names : s[n] # NoRow => s[n].hash = r[n].hash
    /\ \A n \in Names : s[n] # NoRow /\ ~s[n].dirty => n \in S \/ ~r[n].dirty

\* It marks those, and no others.
LEMMA MarkedFacts ==
    ASSUME NEW r \in RowSets, NEW S
    PROVE  MarkOf(r, Marked(r, S), S)
<1>1. PICK s : s = Marked(r, S)
    OBVIOUS
<1>2. NoRow \notin Row
    BY DeviceAssumption
<1>3. ASSUME NEW n \in Names
      PROVE  /\ s[n] \in Row \cup {NoRow}
             /\ r[n] # NoRow <=> s[n] # NoRow
             /\ s[n] # NoRow => s[n].hash = r[n].hash
             /\ s[n] # NoRow /\ ~s[n].dirty => n \in S \/ ~r[n].dirty
    <2>1. r[n] \in Row \cup {NoRow}
        BY DEF RowSets
    <2>2. CASE n \in S /\ r[n] # NoRow
        <3>1. s[n] = [r[n] EXCEPT !.dirty = FALSE]
            BY <1>1, <2>2, Zenon DEF Marked
        <3>2. s[n] \in Row /\ s[n].hash = r[n].hash
            BY <2>1, <2>2, <3>1 DEF Row
        <3> QED
            BY <1>2, <2>2, <3>2
    <2>3. CASE ~(n \in S /\ r[n] # NoRow)
        <3>1. s[n] = r[n]
            BY <1>1, <2>3, Zenon DEF Marked
        <3> QED
            BY <2>1, <3>1
    <2> QED
        BY <2>2, <2>3
<1>4. s \in RowSets
    <2>1. s = [n \in Names |-> s[n]]
        BY <1>1, Zenon DEF Marked
    <2> QED
        BY <1>3, <2>1 DEF RowSets
<1> QED
    BY <1>1, <1>3, <1>4 DEF MarkOf, Keeps

\* A scan calls nothing clean that is not in the history.
LEMMA ScanClean ==
    ASSUME NEW r, NEW s, NEW files, ScanOf(r, s, files), CleanOK(r)
    PROVE  CleanOK(s)
BY DEF ScanOf, CleanOK

-----------------------------------------------------------------------------
(* What is left to show of a step.                                         *)

\* A step of device d.
LEMMA DeviceStep ==
    ASSUME DeviceInv, Typed', Grows, NEW d \in Devices,
           \A o \in Devices \ {d} : /\ run'[o] = run[o] /\ vault'[o] = vault[o] /\ rows'[o] = rows[o]
                                    /\ disk'[o] = disk[o] /\ tree'[o] = tree[o],
           Keeps(rows[d], rows'[d]), DeviceOK(d)',
           \A i \in 1 .. Len(log') : i > Len(log) =>
                CommitOK(log[i])' /\ Fits(log[i], i)' /\ \A n \in DOMAIN log'[i].ops : rows'[d][n] # NoRow
    PROVE  DeviceInv'
<1>1. Typed /\ HistoryOK /\ (\A o \in Devices : DeviceOK(o)) /\ log \in Seq(Commits)
    BY DEF DeviceInv, Typed
<1>2. Len(log) \in Nat /\ Len(log') \in Nat /\ Len(log) <= Len(log')
    BY <1>1 DEF Grows
<1>3. \A o \in Devices : \A n \in Names : rows[o][n] # NoRow => rows'[o][n] # NoRow
    BY DEF Keeps
<1>4. HistoryOK'
    <2>1. ASSUME NEW i \in 1 .. Len(log')
          PROVE  CommitOK(log[i])' /\ Fits(log[i], i)' /\ \A n \in DOMAIN log'[i].ops : \E o \in Devices : rows'[o][n] # NoRow
        <3>1. CASE i > Len(log)
            BY <3>1
        <3>2. CASE i <= Len(log)
            <4>1. PICK c : c = log[i]
                OBVIOUS
            <4>2. i \in 1 .. Len(log) /\ log'[i] = c
                BY <1>2, <3>2, <4>1 DEF Grows
            <4>3. CommitOK(c) /\ Fits(c, i) /\ \A n \in DOMAIN c.ops : \E o \in Devices : rows[o][n] # NoRow
                BY <1>1, <4>1, <4>2 DEF HistoryOK
            <4>4. CommitOK(c)' /\ Fits(c, i)'
                BY <1>1, <4>2, <4>3, CommitStays
            <4>5. \A n \in DOMAIN c.ops : \E o \in Devices : rows'[o][n] # NoRow
                BY <1>3, <4>3 DEF CommitOK
            <4>6. CommitOK(log[i])' /\ Fits(log[i], i)'
                BY <4>2, <4>4 DEF CommitOK, Fits
            <4> QED
                BY <4>2, <4>5, <4>6
        <3> QED
            BY <1>2, <3>1, <3>2
    <2> QED
        BY <2>1 DEF HistoryOK
<1>5. ASSUME NEW o \in Devices PROVE DeviceOK(o)'
    <2>1. CASE o = d
        BY <2>1
    <2>2. CASE o # d
        <3>1. PICK t : t = run[o]
            OBVIOUS
        <3>2. PICK h : h = vault[o].head
            OBVIOUS
        <3>3. PICK r : r = rows[o]
            OBVIOUS
        <3>4. PICK f : f = disk[o]
            OBVIOUS
        <3>5. /\ h \in Nat /\ h <= Len(log) /\ tree[o] = TreeAt[h] /\ RunOK(t, h, r)
              /\ EditDuringRun \/ (SyncedOK(t, h, f) /\ CleanOK(r))
            BY <1>1, <3>1, <3>2, <3>3, <3>4 DEF DeviceOK, Typed
        <3>6. RunOK(t, h, r)'
            BY <1>1, <3>5, RunStays
        <3>7. EditDuringRun \/ (SyncedOK(t, h, f)' /\ CleanOK(r)')
            BY <1>1, <3>5, CleanStays
        <3>8. h <= Len(log') /\ TreeAt'[h] = TreeAt[h]
            BY <1>1, <1>2, <3>5, TreesStay
        <3>9. run'[o] = t /\ vault'[o].head = h /\ rows'[o] = r /\ disk'[o] = f /\ tree'[o] = TreeAt'[h]
            BY <2>2, <3>1, <3>2, <3>3, <3>4, <3>5, <3>8
        <3>10. RunOK(run[o], vault[o].head, rows[o])'
            BY <3>6, <3>9 DEF RunOK
        <3>11. EditDuringRun \/ (SyncedOK(run[o], vault[o].head, disk[o])' /\ CleanOK(rows[o])')
            BY <3>7, <3>9 DEF SyncedOK, CleanOK
        <3> QED
            BY <3>8, <3>9, <3>10, <3>11 DEF DeviceOK
    <2> QED
        BY <2>1, <2>2
<1> QED
    BY <1>4, <1>5 DEF DeviceInv

\* A step of device d that leaves the history, its local head and what users wrote.
LEMMA RunStep ==
    ASSUME DeviceInv, NEW d \in Devices, NEW u, NEW r, NEW files,
           run' = [run EXCEPT ![d] = u], rows' = [rows EXCEPT ![d] = r], disk' = [disk EXCEPT ![d] = files],
           UNCHANGED <<log, lastSeq, vault, tree, written, dropped>>, settled' \in [Devices -> BOOLEAN],
           r \in RowSets, Keeps(rows[d], r), files \in KnownTrees, RunOK(u, vault[d].head, r),
           EditDuringRun \/ (SyncedOK(u, vault[d].head, files) /\ CleanOK(r))
    PROVE  DeviceInv'
<1>1. Typed /\ DeviceOK(d) /\ log \in Seq(Commits)
    BY DEF DeviceInv, Typed
<1>2. Grows /\ TreeAt' = TreeAt
    BY <1>1, SameTrees DEF Grows
<1>3. KnownTrees' = KnownTrees
    BY DEF KnownTrees, Known
<1>4. u \in Runs
    BY DEF RunOK
<1>5. Typed'
    BY <1>1, <1>3, <1>4 DEF Typed, RowSets
<1>6. PICK h : h = vault[d].head
    OBVIOUS
<1>7. h \in Nat /\ h <= Len(log) /\ tree[d] = TreeAt[h] /\ RunOK(u, h, r)
      /\ (EditDuringRun \/ (SyncedOK(u, h, files) /\ CleanOK(r)))
    BY <1>1, <1>6 DEF DeviceOK, Typed
<1>8. RunOK(u, h, r)'
    BY <1>1, <1>2, <1>7, RunStays
<1>9. EditDuringRun \/ (SyncedOK(u, h, files)' /\ CleanOK(r)')
    BY <1>1, <1>2, <1>7, CleanStays
<1>10. /\ run'[d] = u /\ rows'[d] = r /\ disk'[d] = files /\ vault'[d].head = h /\ tree'[d] = TreeAt'[h] /\ h <= Len(log')
       /\ \A o \in Devices \ {d} : run'[o] = run[o] /\ rows'[o] = rows[o] /\ disk'[o] = disk[o]
    BY <1>1, <1>2, <1>6, <1>7 DEF Typed
<1>11. RunOK(run[d], vault[d].head, rows[d])'
    BY <1>8, <1>10 DEF RunOK
<1>12. EditDuringRun \/ (SyncedOK(run[d], vault[d].head, disk[d])' /\ CleanOK(rows[d])')
    BY <1>9, <1>10 DEF SyncedOK, CleanOK
<1>13. DeviceOK(d)'
    BY <1>10, <1>11, <1>12 DEF DeviceOK
<1>14. Keeps(rows[d], rows'[d]) /\ Len(log') = Len(log) /\ Len(log) \in Nat
    BY <1>1, <1>10
<1> QED
    BY <1>2, <1>5, <1>10, <1>13, <1>14, DeviceStep

\* What is known of a device.
LEMMA DeviceFacts ==
    ASSUME DeviceInv, NEW d \in Devices
    PROVE  /\ log \in Seq(Commits) /\ Len(log) \in Nat /\ rows[d] \in RowSets /\ disk[d] \in KnownTrees
           /\ disk[d] \in Trees /\ tree[d] \in KnownTrees
           /\ vault[d].head \in Nat /\ vault[d].seq \in Nat \ {0} /\ vault[d].head <= Len(log)
           /\ tree[d] = TreeAt[vault[d].head] /\ RunOK(run[d], vault[d].head, rows[d])
           /\ run[d] \in Runs /\ settled \in [Devices -> BOOLEAN]
           /\ EditDuringRun \/ (SyncedOK(run[d], vault[d].head, disk[d]) /\ CleanOK(rows[d]))
<1>1. Typed /\ DeviceOK(d)
    BY DEF DeviceInv
<1>2. KnownTrees \subseteq Trees
    BY <1>1 DEF KnownTrees, Known, Trees, States, Typed
<1> QED
    BY <1>1, <1>2 DEF Typed, DeviceOK, RowSets

\* The status poll scans, and calls clean what is as in the tree.
LEMMA StatusScanInv ==
    ASSUME DeviceInv, NEW d \in Devices, StatusScan(d)
    PROVE  DeviceInv'
<1>1. PICK s : s = Scanned(rows[d], disk[d])
    OBVIOUS
<1>2. PICK S : S = {n \in Names : s[n] # NoRow /\ s[n].hash = tree[d][n]}
    OBVIOUS
<1>3. PICK r : r = IF vault[d].head = 0 THEN s ELSE Marked(s, S)
    OBVIOUS
<1>4. /\ run[d].pc = "idle" /\ rows' = [rows EXCEPT ![d] = r]
      /\ UNCHANGED <<log, lastSeq, disk, vault, tree, run, written, dropped, settled>>
    BY <1>1, <1>2, <1>3 DEF StatusScan
<1>5. /\ log \in Seq(Commits) /\ Len(log) \in Nat /\ rows[d] \in RowSets /\ disk[d] \in KnownTrees /\ disk[d] \in Trees
      /\ vault[d].head \in Nat /\ vault[d].head <= Len(log) /\ settled \in [Devices -> BOOLEAN]
      /\ tree[d] = TreeAt[vault[d].head] /\ RunOK(run[d], vault[d].head, rows[d])
      /\ EditDuringRun \/ (SyncedOK(run[d], vault[d].head, disk[d]) /\ CleanOK(rows[d]))
    BY DeviceFacts
<1>6. ScanOf(rows[d], s, disk[d])
    BY <1>1, <1>5, ScannedFacts
<1>7. r \in RowSets /\ Keeps(rows[d], r) /\ (EditDuringRun \/ CleanOK(r))
    <2>1. CASE r = s
        <3>1. EditDuringRun \/ CleanOK(s)
            BY <1>5, <1>6, ScanClean
        <3> QED
            BY <1>6, <2>1, <3>1 DEF ScanOf
    <2>2. CASE r = Marked(s, S)
        <3>1. MarkOf(s, r, S)
            BY <1>6, <2>2, MarkedFacts DEF ScanOf
        <3>2. r \in RowSets /\ Keeps(rows[d], r)
            BY <1>6, <3>1 DEF ScanOf, MarkOf, Keeps
        <3>3. ASSUME CleanOK(s) PROVE CleanOK(r)
            <4> SUFFICES ASSUME NEW n \in Names, r[n] # NoRow, ~r[n].dirty
                         PROVE  \E i \in 0 .. Len(log) : TreeAt[i][n] = r[n].hash
                BY DEF CleanOK
            <4>1. s[n] # NoRow /\ r[n].hash = s[n].hash /\ (n \in S \/ ~s[n].dirty)
                BY <3>1 DEF MarkOf, Keeps
            <4>2. CASE n \in S
                <5>1. TreeAt[vault[d].head][n] = r[n].hash /\ vault[d].head \in 0 .. Len(log)
                    BY <1>2, <1>5, <4>1, <4>2
                <5> QED
                    BY <5>1
            <4>3. CASE ~s[n].dirty
                BY <3>3, <4>1, <4>3 DEF CleanOK
            <4> QED
                BY <4>1, <4>2, <4>3
        <3>4. EditDuringRun \/ CleanOK(s)
            BY <1>5, <1>6, ScanClean
        <3> QED
            BY <3>2, <3>3, <3>4
    <2> QED
        BY <1>3, <2>1, <2>2
<1>8. PICK t : t = run[d]
    OBVIOUS
<1>9. PICK f : f = disk[d]
    OBVIOUS
<1>10. run' = [run EXCEPT ![d] = t] /\ disk' = [disk EXCEPT ![d] = f]
    BY <1>4, <1>8, <1>9 DEF DeviceInv, Typed
<1>11. RunOK(t, vault[d].head, r) /\ SyncedOK(t, vault[d].head, f)
    BY <1>4, <1>5, <1>8 DEF RunOK, SyncedOK
<1> QED
    BY <1>4, <1>5, <1>7, <1>9, <1>10, <1>11, RunStep

-----------------------------------------------------------------------------
(* Pull.                                                                   *)

\* A tree of the history is one of known contents.
LEMMA TreeKnown ==
    ASSUME DeviceInv, NEW i \in 0 .. Len(log)
    PROVE  TreeAt[i] \in KnownTrees
<1>1. EmptyTree \in KnownTrees
    BY DEF EmptyTree, KnownTrees, Known
<1>2. Len(log) \in Nat
    BY DEF DeviceInv, Typed
<1>3. CASE i = 0
    BY <1>1, <1>3, TreeFacts
<1>4. CASE i # 0
    <2>1. i \in 1 .. Len(log)
        BY <1>2, <1>4
    <2>2. CommitOK(log[i]) /\ Fits(log[i], i)
        BY <2>1 DEF DeviceInv, HistoryOK
    <2> QED
        BY <2>2 DEF CommitOK, Fits
<1> QED
    BY <1>3, <1>4

\* A pull turns to the next commit, with the tree so far.
LEMMA NextCommitOK ==
    ASSUME DeviceInv, NEW t \in Runs, t.parent <= Len(log), t.local \in Known, t.read = NoRow,
           t.target <= Len(log), NEW i \in Nat, i <= t.target, NEW w, w = TreeAt[i], NEW r
    PROVE  LET u == NextCommit(t, i, w)
           IN  RunOK(u, i, r) /\ u.pc \in {"push", "apply"} /\ u.synced = {}
<1>1. PICK u : u = NextCommit(t, i, w)
    OBVIOUS
<1>2. log \in Seq(Commits) /\ Len(log) \in Nat /\ t.target \in Nat
    BY DEF DeviceInv, Typed, Runs
<1>3. EmptyTree \in KnownTrees /\ w \in KnownTrees /\ EmptyTree \in Trees /\ w \in Trees
    <2>1. EmptyTree \in KnownTrees /\ TreeAt[i] \in KnownTrees
        BY <1>2, TreeKnown DEF EmptyTree, KnownTrees, Known
    <2>2. KnownTrees \subseteq Trees
        BY DEF KnownTrees, Known, Trees, States, DeviceInv, Typed
    <2> QED
        BY <2>1, <2>2
<1>4. CASE i = t.target
    <2>1. PICK p : p = IF t.second THEN t.parent ELSE i
        OBVIOUS
    <2>2. p \in Nat /\ p <= Len(log)
        BY <1>2, <1>4, <2>1 DEF Runs
    <2>3. u = [t EXCEPT !.pc = "push", !.snap = {}, !.gone = {}, !.left = {}, !.work = EmptyTree,
                        !.synced = {}, !.target = 0, !.parent = p]
        BY <1>1, <1>4, <2>1, Zenon DEF NextCommit
    <2>4. /\ u \in Runs /\ u.pc = "push" /\ u.synced = {} /\ u.parent = p /\ u.local = t.local /\ u.work = EmptyTree
          /\ u.read = t.read
        <3>1. /\ "push" \in {"idle", "pull", "apply", "marked", "push", "upload", "sent", "saved"} /\ 0 \in Nat
              /\ {} \in SUBSET Names
            OBVIOUS
        <3> QED
            BY <1>3, <2>2, <2>3, <3>1, Zenon DEF Runs
    <2>5. RunOK(u, i, r)
        BY <1>3, <2>2, <2>4 DEF RunOK
    <2> QED
        BY <1>1, <2>4, <2>5
<1>5. CASE i # t.target
    <2>1. PICK c : c = log[i + 1]
        OBVIOUS
    <2>2. PICK b : b = IF c.kind = "checkpoint" THEN EmptyTree ELSE w
        OBVIOUS
    <2>3. PICK S : S = DOMAIN c.ops
        OBVIOUS
    <2>4. i + 1 \in 1 .. Len(log) /\ i < t.target
        BY <1>2, <1>5
    <2>5. CommitOK(c)
        BY <2>1, <2>4 DEF DeviceInv, HistoryOK
    <2>6. S \in SUBSET Names /\ b \in KnownTrees /\ b \in Trees
        BY <1>3, <2>2, <2>3, <2>5 DEF CommitOK
    <2>7. u = [t EXCEPT !.pc = "apply", !.left = S, !.synced = {}, !.work = b]
        BY <1>1, <1>5, <2>1, <2>2, <2>3, Zenon DEF NextCommit
    <2>8. /\ u \in Runs /\ u.pc = "apply" /\ u.synced = {} /\ u.parent = t.parent /\ u.local = t.local /\ u.work = b
          /\ u.read = t.read /\ u.left = S /\ u.target = t.target
        <3>1. /\ "apply" \in {"idle", "pull", "apply", "marked", "push", "upload", "sent", "saved"} /\ {} \in SUBSET Names
            OBVIOUS
        <3> QED
            BY <2>6, <2>7, <3>1, Zenon DEF Runs
    <2>9. \A n \in Names \ S : b[n] = TreeAt[i + 1][n]
        <3>1. TreeAt[i + 1] = Applied(w, c)
            BY <2>1, TreeFacts
        <3> QED
            BY <2>2, <2>3, <3>1 DEF Applied
    <2>10. RunOK(u, i, r)
        BY <2>1, <2>3, <2>4, <2>6, <2>8, <2>9 DEF RunOK
    <2> QED
        BY <1>1, <2>8, <2>10
<1> QED
    BY <1>4, <1>5

\* A pull begins: the head is read, and unless it is the local one a scan is made.
LEMMA PullStartInv ==
    ASSUME DeviceInv, NEW d \in Devices, PullStart(d)
    PROVE  DeviceInv'
<1>1. /\ log \in Seq(Commits) /\ Len(log) \in Nat /\ rows[d] \in RowSets /\ disk[d] \in KnownTrees /\ disk[d] \in Trees
      /\ vault[d].head \in Nat /\ vault[d].head <= Len(log) /\ settled \in [Devices -> BOOLEAN]
      /\ tree[d] = TreeAt[vault[d].head] /\ RunOK(run[d], vault[d].head, rows[d])
      /\ EditDuringRun \/ (SyncedOK(run[d], vault[d].head, disk[d]) /\ CleanOK(rows[d]))
    BY DeviceFacts
<1>2. PICK h : h = vault[d].head
    OBVIOUS
<1>3. PICK t : t = run[d]
    OBVIOUS
<1>4. PICK k : k = Len(log)
    OBVIOUS
<1>5. /\ t.pc \in {"idle", "pull"} /\ UNCHANGED <<log, lastSeq, disk, vault, tree, written, dropped>>
      /\ settled' = [settled EXCEPT ![d] = @ \/ run[d].pc = "idle"]
    BY <1>3 DEF PullStart
<1>6. settled' \in [Devices -> BOOLEAN]
    <2>1. (settled[d] \/ run[d].pc = "idle") \in BOOLEAN
        BY Zenon
    <2> QED
        BY <1>1, <1>5, <2>1
<1>7. t \in Runs /\ t.parent <= Len(log) /\ t.local \in Known /\ t.read = NoRow
    BY <1>1, <1>3, <1>5 DEF RunOK
<1>8. PICK f : f = disk[d]
    OBVIOUS
<1>9. disk' = [disk EXCEPT ![d] = f] /\ UNCHANGED <<log, lastSeq, vault, tree, written, dropped>>
    BY <1>5, <1>8 DEF DeviceInv, Typed
<1>10. PICK b : b = [t EXCEPT !.target = k]
    OBVIOUS
<1>11. /\ b \in Runs /\ b.target = k /\ b.parent = t.parent /\ b.local = t.local /\ b.read = t.read
    BY <1>1, <1>4, <1>7, <1>10, Zenon DEF Runs
<1>12. ASSUME NEW q \in Runs, q.parent = t.parent, q.local = t.local, q.read = t.read, q.target = k, NEW r, r \in RowSets,
              Keeps(rows[d], r), EditDuringRun \/ CleanOK(r),
              rows' = [rows EXCEPT ![d] = r], run' = [run EXCEPT ![d] = NextCommit(q, h, TreeAt[h])]
       PROVE  DeviceInv'
    <2>1. PICK w : w = TreeAt[h]
        OBVIOUS
    <2>2. PICK u : u = NextCommit(q, h, w)
        OBVIOUS
    <2>3. /\ q.parent <= Len(log) /\ q.local \in Known /\ q.read = NoRow /\ q.target <= Len(log) /\ h \in Nat /\ h <= q.target
        BY <1>1, <1>2, <1>4, <1>7, <1>12
    <2>4. RunOK(u, h, r) /\ u.pc \in {"push", "apply"} /\ u.synced = {}
        BY <2>1, <2>2, <2>3, NextCommitOK
    <2>5. SyncedOK(u, h, f)
        BY <2>4 DEF SyncedOK
    <2>6. run' = [run EXCEPT ![d] = u]
        BY <1>12, <2>1, <2>2
    <2>7. RunOK(u, vault[d].head, r) /\ (EditDuringRun \/ (SyncedOK(u, vault[d].head, f) /\ CleanOK(r))) /\ f \in KnownTrees
        BY <1>1, <1>2, <1>8, <1>12, <2>4, <2>5
    <2> QED
        BY <1>6, <1>9, <1>12, <2>6, <2>7, RunStep
<1>13. CASE h = k
    <2>1. run' = [run EXCEPT ![d] = NextCommit(b, h, tree[d])] /\ UNCHANGED rows
        BY <1>2, <1>3, <1>4, <1>10, <1>13, Zenon DEF PullStart
    <2>2. PICK r : r = rows[d]
        OBVIOUS
    <2>3. rows' = [rows EXCEPT ![d] = r] /\ r \in RowSets /\ Keeps(rows[d], r) /\ (EditDuringRun \/ CleanOK(r))
        BY <1>1, <2>1, <2>2 DEF DeviceInv, Typed, Keeps
    <2>4. run' = [run EXCEPT ![d] = NextCommit(b, h, TreeAt[h])]
        BY <1>1, <1>2, <2>1
    <2> QED
        BY <1>11, <1>12, <2>3, <2>4
<1>14. CASE h # k
    <2>1. PICK s : s = Scanned(rows[d], disk[d])
        OBVIOUS
    <2>2. PICK D : D = Dirty(s)
        OBVIOUS
    <2>3. PICK G : G = {n \in D : s[n].hash = Absent}
        OBVIOUS
    <2>4. PICK q : q = [b EXCEPT !.snap = D, !.gone = G]
        OBVIOUS
    <2>5. PICK w : w = IF tree[d] = EmptyTree THEN TreeAt[h] ELSE tree[d]
        OBVIOUS
    <2>6. rows' = [rows EXCEPT ![d] = s] /\ run' = [run EXCEPT ![d] = NextCommit(q, h, w)]
        <3>1. /\ rows' = [rows EXCEPT ![d] = s]
              /\ run' = [run EXCEPT ![d] =
                    NextCommit([[run[d] EXCEPT !.target = Len(log)]
                                    EXCEPT !.snap = Dirty(s), !.gone = {n \in Dirty(s) : s[n].hash = Absent}],
                               vault[d].head, IF tree[d] = EmptyTree THEN TreeAt[vault[d].head] ELSE tree[d])]
            BY <1>2, <1>4, <1>14, <2>1, Zenon DEF PullStart
        <3> QED
            BY <1>2, <1>3, <1>4, <1>10, <2>2, <2>3, <2>4, <2>5, <3>1, Zenon
    <2>7. w = TreeAt[h]
        BY <1>1, <1>2, <2>5
    <2>8. D \in SUBSET Names /\ G \in SUBSET Names
        BY <2>2, <2>3 DEF Dirty
    <2>9. /\ q \in Runs /\ q.target = k /\ q.parent = t.parent /\ q.local = t.local /\ q.read = t.read
        BY <1>11, <2>4, <2>8, Zenon DEF Runs
    <2>10. ScanOf(rows[d], s, disk[d])
        BY <1>1, <2>1, ScannedFacts
    <2>11. s \in RowSets /\ Keeps(rows[d], s) /\ (EditDuringRun \/ CleanOK(s))
        BY <1>1, <2>10, ScanClean DEF ScanOf
    <2> QED
        BY <1>12, <2>6, <2>7, <2>9, <2>11
<1> QED
    BY <1>13, <1>14

\* Something under way of commit vault.head + 1, for file n.
LEMMA ApplyFacts ==
    ASSUME DeviceInv, NEW d \in Devices, run[d].pc = "apply", NEW n \in run[d].left
    PROVE  /\ vault[d].head + 1 \in 1 .. Len(log) /\ n \in DOMAIN log[vault[d].head + 1].ops /\ n \in Names
           /\ Remote(d, n) \in Known /\ TreeAt[vault[d].head + 1][n] = Remote(d, n)
           /\ \E o \in Devices : rows[o][n] # NoRow
<1>1. PICK h : h = vault[d].head
    OBVIOUS
<1>2. PICK c : c = log[h + 1]
    OBVIOUS
<1>3. /\ h \in Nat /\ Len(log) \in Nat /\ RunOK(run[d], h, rows[d]) /\ run[d] \in Runs
    BY <1>1, DeviceFacts
<1>4. h + 1 \in 1 .. Len(log) /\ n \in DOMAIN c.ops
    BY <1>2, <1>3 DEF RunOK, Runs
<1>5. CommitOK(c) /\ \A m \in DOMAIN c.ops : \E o \in Devices : rows[o][m] # NoRow
    BY <1>2, <1>4 DEF DeviceInv, HistoryOK
<1>6. n \in Names /\ c.ops[n] \in Known
    BY <1>4, <1>5 DEF CommitOK
<1>7. TreeAt[h + 1] = Applied(TreeAt[h], c)
    BY <1>2, <1>3, TreeFacts
<1>8. TreeAt[h + 1][n] = c.ops[n]
    BY <1>4, <1>6, <1>7 DEF Applied
<1> QED
    BY <1>1, <1>2, <1>4, <1>5, <1>6, <1>8 DEF Remote

\* The change of a file is done.  If it counts as synced, the file is the remote
\* one, and other synced files are left alone.
LEMMA ChangeDoneInv ==
    ASSUME DeviceInv, NEW d \in Devices, run[d].pc = "apply", NEW n \in run[d].left, NEW files \in KnownTrees,
           NEW clean \in BOOLEAN, ChangeDone(d, n, files, clean), clean => files[n] = Remote(d, n),
           \A m \in run[d].synced \ {n} : m \in DOMAIN log[vault[d].head + 1].ops => files[m] = disk[d][m]
    PROVE  DeviceInv'
<1>1. /\ log \in Seq(Commits) /\ Len(log) \in Nat /\ rows[d] \in RowSets
      /\ vault[d].head \in Nat /\ settled \in [Devices -> BOOLEAN] /\ RunOK(run[d], vault[d].head, rows[d])
      /\ EditDuringRun \/ (SyncedOK(run[d], vault[d].head, disk[d]) /\ CleanOK(rows[d]))
    BY DeviceFacts
<1>2. PICK h : h = vault[d].head
    OBVIOUS
<1>3. PICK t : t = run[d]
    OBVIOUS
<1>4. PICK m : m = Remote(d, n)
    OBVIOUS
<1>5. /\ h + 1 \in 1 .. Len(log) /\ n \in DOMAIN log[h + 1].ops /\ n \in Names /\ m \in Known
      /\ TreeAt[h + 1][n] = m
    BY <1>2, <1>4, ApplyFacts
<1>6. t \in Runs /\ RunOK(t, h, rows[d]) /\ t.pc = "apply" /\ n \in t.left
    BY <1>1, <1>2, <1>3 DEF RunOK
<1>7. PICK L : L = t.left \ {n}
    OBVIOUS
<1>8. PICK w : w = [t.work EXCEPT ![n] = m]
    OBVIOUS
<1>9. PICK S : S = IF clean THEN t.synced \cup {n} ELSE t.synced
    OBVIOUS
<1>10. PICK u : u = [t EXCEPT !.left = L, !.work = w, !.synced = S, !.read = NoRow, !.local = Absent]
    OBVIOUS
<1>11. run' = [run EXCEPT ![d] = u]
    <2>1. run' = [run EXCEPT ![d].left = @ \ {n}, ![d].work = [@ EXCEPT ![n] = Remote(d, n)],
                             ![d].synced = IF clean THEN @ \cup {n} ELSE @, ![d].read = NoRow, ![d].local = Absent]
        BY DEF ChangeDone
    <2> QED
        BY <1>3, <1>4, <1>7, <1>8, <1>9, <1>10, <2>1, Zenon
<1>12. w \in KnownTrees /\ w \in Trees /\ w[n] = m /\ \A x \in Names \ {n} : w[x] = t.work[x]
    <2>1. t.work \in KnownTrees
        BY <1>6 DEF RunOK
    <2>2. w \in KnownTrees /\ w[n] = m /\ \A x \in Names \ {n} : w[x] = t.work[x]
        BY <1>5, <1>8, <2>1 DEF KnownTrees
    <2>3. KnownTrees \subseteq Trees
        BY DEF KnownTrees, Known, Trees, States, DeviceInv, Typed
    <2> QED
        BY <2>2, <2>3
<1>13. /\ u \in Runs /\ u.pc = t.pc /\ u.parent = t.parent /\ u.target = t.target /\ u.left = L /\ u.work = w
       /\ u.synced = S /\ u.read = NoRow /\ u.local = Absent
    <2>1. L \in SUBSET Names /\ S \in SUBSET Names /\ NoRow \in Names \cup {NoRow} /\ Absent \in States
        BY <1>5, <1>6, <1>7, <1>9 DEF Runs, States
    <2> QED
        BY <1>6, <1>10, <1>12, <2>1, Zenon DEF Runs
<1>14. RunOK(u, h, rows[d])
    <2>1. \A x \in Names \ L : w[x] = TreeAt[h + 1][x]
        BY <1>5, <1>6, <1>7, <1>12 DEF RunOK
    <2>2. Absent \in Known
        BY DEF Known
    <2> QED
        BY <1>6, <1>7, <1>12, <1>13, <2>1, <2>2 DEF RunOK
<1>15. ASSUME ~EditDuringRun PROVE SyncedOK(u, h, files) /\ CleanOK(rows[d])
    <2>1. SyncedOK(t, h, disk[d]) /\ CleanOK(rows[d])
        BY <1>1, <1>2, <1>3, <1>15
    <2>2. ASSUME NEW x \in S PROVE x \in DOMAIN log[h + 1].ops \ L /\ files[x] = w[x]
        <3>1. CASE x = n
            <4>1. x \notin t.synced
                BY <1>6, <2>1, <3>1 DEF SyncedOK
            <4> QED
                BY <1>4, <1>5, <1>7, <1>9, <1>12, <3>1, <4>1
        <3>2. CASE x # n
            <4>1. x \in t.synced
                BY <1>9, <3>2
            <4>2. x \in DOMAIN log[h + 1].ops \ t.left /\ disk[d][x] = t.work[x]
                BY <1>6, <2>1, <4>1 DEF SyncedOK
            <4>3. x \in Names
                BY <1>6, <4>1 DEF Runs
            <4> QED
                BY <1>2, <1>3, <1>7, <1>12, <3>2, <4>1, <4>2, <4>3
        <3> QED
            BY <3>1, <3>2
    <2> QED
        BY <1>13, <2>1, <2>2 DEF SyncedOK
<1>16. PICK r : r = rows[d]
    OBVIOUS
<1>17. /\ rows' = [rows EXCEPT ![d] = r] /\ disk' = [disk EXCEPT ![d] = files] /\ r \in RowSets /\ Keeps(rows[d], r)
       /\ UNCHANGED <<log, lastSeq, vault, tree, written, dropped>> /\ settled' \in [Devices -> BOOLEAN]
    BY <1>1, <1>16 DEF ChangeDone, DeviceInv, Typed, Keeps
<1> QED
    BY <1>2, <1>11, <1>14, <1>15, <1>16, <1>17, RunStep

\* A conflict copy is a new file: nobody has a row for it.
LEMMA CopyFacts ==
    ASSUME DeviceInv, NEW d \in Devices, run[d].pc = "apply", NEW n \in run[d].left, NEW c \in FreeCopies(d),
           NEW files \in KnownTrees, NEW x \in Known
    PROVE  /\ WithCopy(files, x, c) \in KnownTrees /\ c # n
           /\ \A m \in DOMAIN log[vault[d].head + 1].ops : m # c /\ WithCopy(files, x, c)[m] = files[m]
<1>1. c \in Names /\ \A o \in Devices : rows[o][c] = NoRow
    BY DEF FreeCopies, Names
<1>2. vault[d].head + 1 \in 1 .. Len(log) /\ n \in DOMAIN log[vault[d].head + 1].ops
    BY ApplyFacts
<1>3. /\ CommitOK(log[vault[d].head + 1])
      /\ \A m \in DOMAIN log[vault[d].head + 1].ops : \E o \in Devices : rows[o][m] # NoRow
    BY <1>2 DEF DeviceInv, HistoryOK
<1>4. \A m \in DOMAIN log[vault[d].head + 1].ops : m # c /\ m \in Names
    BY <1>1, <1>3 DEF CommitOK
<1> QED
    BY <1>1, <1>2, <1>4 DEF WithCopy, KnownTrees

\* A file that is not dirty takes the remote version.
LEMMA ApplyCleanInv ==
    ASSUME DeviceInv, NEW d \in Devices, NEW n \in Names, ApplyClean(d, n)
    PROVE  DeviceInv'
<1>1. PICK f : f = [disk[d] EXCEPT ![n] = Remote(d, n)]
    OBVIOUS
<1>2. run[d].pc = "apply" /\ n \in run[d].left /\ ChangeDone(d, n, f, TRUE)
    BY <1>1 DEF ApplyClean
<1>3. disk[d] \in KnownTrees /\ Remote(d, n) \in Known
    BY <1>2, DeviceFacts, ApplyFacts
<1>4. f \in KnownTrees /\ f[n] = Remote(d, n) /\ \A m \in Names \ {n} : f[m] = disk[d][m]
    BY <1>1, <1>3 DEF KnownTrees
<1>5. \A m \in run[d].synced \ {n} : m \in DOMAIN log[vault[d].head + 1].ops => f[m] = disk[d][m]
    <2>1. run[d].synced \subseteq Names
        BY DeviceFacts DEF Runs
    <2> QED
        BY <1>4, <2>1
<1> QED
    BY <1>2, <1>4, <1>5, ChangeDoneInv

\* A change with a conflict copy of x, after which the other files are those in g.
LEMMA CopyInv ==
    ASSUME DeviceInv, NEW d \in Devices, NEW n \in Names, run[d].pc = "apply", n \in run[d].left,
           NEW c \in FreeCopies(d), NEW g \in KnownTrees, NEW x \in Known, NEW clean \in BOOLEAN,
           ChangeDone(d, n, WithCopy(g, x, c), clean), clean => g[n] = Remote(d, n),
           \A m \in Names \ {n} : g[m] = disk[d][m]
    PROVE  DeviceInv'
<1>1. PICK f : f = WithCopy(g, x, c)
    OBVIOUS
<1>2. f \in KnownTrees /\ \A m \in DOMAIN log[vault[d].head + 1].ops : f[m] = g[m]
    BY <1>1, CopyFacts
<1>3. n \in DOMAIN log[vault[d].head + 1].ops
    BY ApplyFacts
<1>4. \A m \in run[d].synced \ {n} : m \in DOMAIN log[vault[d].head + 1].ops => f[m] = disk[d][m]
    <2>1. run[d].synced \subseteq Names
        BY DeviceFacts DEF Runs
    <2> QED
        BY <1>2, <2>1
<1>5. ChangeDone(d, n, f, clean) /\ (clean => f[n] = Remote(d, n))
    BY <1>1, <1>2, <1>3
<1> QED
    BY <1>2, <1>4, <1>5, ChangeDoneInv

\* A file that was deleted here.
LEMMA ApplyToDeletedInv ==
    ASSUME DeviceInv, NEW d \in Devices, NEW n \in Names, ApplyToDeleted(d, n)
    PROVE  DeviceInv'
<1>1. PICK c \in FreeCopies(d) : ChangeDone(d, n, WithCopy(disk[d], Remote(d, n), c), FALSE)
    BY DEF ApplyToDeleted
<1>2. run[d].pc = "apply" /\ n \in run[d].left
    BY DEF ApplyToDeleted
<1>3. PICK g : g = disk[d]
    OBVIOUS
<1>4. PICK x : x = Remote(d, n)
    OBVIOUS
<1>5. g \in KnownTrees /\ x \in Known
    BY <1>2, <1>3, <1>4, DeviceFacts, ApplyFacts
<1>6. \A m \in Names \ {n} : g[m] = disk[d][m]
    BY <1>3
<1>7. PICK b : b = FALSE
    OBVIOUS
<1>8. b \in BOOLEAN /\ ~b /\ ChangeDone(d, n, WithCopy(g, x, c), b)
    BY <1>1, <1>3, <1>4, <1>7, Zenon
<1> QED
    BY <1>2, <1>5, <1>6, <1>8, CopyInv

\* What a merge that began has read.
LEMMA ReadFacts ==
    ASSUME DeviceInv, NEW d \in Devices, NEW n \in Names, run[d].read = n
    PROVE  /\ n \in run[d].left /\ run[d].local \in Known /\ run[d].local # Absent /\ run[d].work[n] \in Known
           /\ disk[d] \in KnownTrees
<1>1. n # NoRow
    BY DeviceAssumption
<1>2. RunOK(run[d], vault[d].head, rows[d]) /\ disk[d] \in KnownTrees
    BY DeviceFacts
<1> QED
    BY <1>1, <1>2 DEF RunOK, KnownTrees

\* A conflict copy of the remote version.
LEMMA ApplyConflictInv ==
    ASSUME DeviceInv, NEW d \in Devices, NEW n \in Names, ApplyConflict(d, n)
    PROVE  DeviceInv'
<1>1. PICK c \in FreeCopies(d) : ChangeDone(d, n, WithCopy(disk[d], Remote(d, n), c), FALSE)
    BY DEF ApplyConflict
<1>2. run[d].pc = "apply" /\ n \in run[d].left
    BY ReadFacts DEF ApplyConflict
<1>3. PICK g : g = disk[d]
    OBVIOUS
<1>4. PICK x : x = Remote(d, n)
    OBVIOUS
<1>5. g \in KnownTrees /\ x \in Known
    BY <1>2, <1>3, <1>4, DeviceFacts, ApplyFacts
<1>6. \A m \in Names \ {n} : g[m] = disk[d][m]
    BY <1>3
<1>7. PICK b : b = FALSE
    OBVIOUS
<1>8. b \in BOOLEAN /\ ~b /\ ChangeDone(d, n, WithCopy(g, x, c), b)
    BY <1>1, <1>3, <1>4, <1>7, Zenon
<1> QED
    BY <1>2, <1>5, <1>6, <1>8, CopyInv

\* A conflict copy of what was read, of a file that goes.
LEMMA ApplyDeleteToEditedInv ==
    ASSUME DeviceInv, NEW d \in Devices, NEW n \in Names, ApplyDeleteToEdited(d, n)
    PROVE  DeviceInv'
<1>1. PICK c \in FreeCopies(d) :
          ChangeDone(d, n, WithCopy([disk[d] EXCEPT ![n] = Absent], run[d].local, c), TRUE)
    BY DEF ApplyDeleteToEdited
<1>2. run[d].pc = "apply" /\ Remote(d, n) = Absent /\ n \in run[d].left /\ run[d].local \in Known
    BY ReadFacts DEF ApplyDeleteToEdited
<1>3. PICK g : g = [disk[d] EXCEPT ![n] = Absent]
    OBVIOUS
<1>4. PICK x : x = run[d].local
    OBVIOUS
<1>5. g \in KnownTrees /\ g[n] = Absent /\ \A m \in Names \ {n} : g[m] = disk[d][m]
    <2>1. disk[d] \in KnownTrees /\ Absent \in Known
        BY DeviceFacts DEF Known
    <2> QED
        BY <1>3, <2>1 DEF KnownTrees
<1>6. PICK b : b = TRUE
    OBVIOUS
<1>7. b \in BOOLEAN /\ ChangeDone(d, n, WithCopy(g, x, c), b)
    BY <1>1, <1>3, <1>4, <1>6, Zenon
<1>8. x \in Known /\ g[n] = Remote(d, n)
    BY <1>2, <1>4, <1>5
<1> QED
    BY <1>2, <1>5, <1>7, <1>8, CopyInv

\* A merge holds only what users wrote.
LEMMA ApplyMergeInv ==
    ASSUME DeviceInv, NEW d \in Devices, NEW n \in Names, ApplyMerge(d, n)
    PROVE  DeviceInv'
<1>1. PICK x : x = Merge(run[d].work[n], run[d].local, Remote(d, n))
    OBVIOUS
<1>2. PICK b : b = IsRemote(x, Remote(d, n))
    OBVIOUS
<1>3. PICK f : f = [disk[d] EXCEPT ![n] = x]
    OBVIOUS
<1>4. /\ run[d].pc = "apply" /\ run[d].read = n /\ Remote(d, n) # Absent /\ run[d].work[n] # Absent
      /\ ChangeDone(d, n, f, b)
    BY <1>1, <1>2, <1>3 DEF ApplyMerge
<1>5. /\ n \in run[d].left /\ run[d].local \in Known /\ run[d].local # Absent /\ run[d].work[n] \in Known
      /\ disk[d] \in KnownTrees
    BY <1>4, ReadFacts
<1>6. Remote(d, n) \in Known
    BY <1>4, <1>5, ApplyFacts
<1>7. x \in Known
    BY <1>1, <1>4, <1>5, <1>6 DEF Known, Merge
<1>8. b \in BOOLEAN /\ (b => x = Remote(d, n))
    BY <1>2, Zenon DEF IsRemote
<1>9. f \in KnownTrees /\ f[n] = x /\ \A m \in Names \ {n} : f[m] = disk[d][m]
    BY <1>3, <1>5, <1>7 DEF KnownTrees
<1>10. \A m \in run[d].synced \ {n} : m \in DOMAIN log[vault[d].head + 1].ops => f[m] = disk[d][m]
    <2>1. run[d].synced \subseteq Names
        BY DeviceFacts DEF Runs
    <2> QED
        BY <1>9, <2>1
<1>11. b => f[n] = Remote(d, n)
    BY <1>8, <1>9
<1> QED
    BY <1>4, <1>5, <1>8, <1>9, <1>10, <1>11, ChangeDoneInv

\* A merge begins: the file is read.
LEMMA ReadLocalInv ==
    ASSUME DeviceInv, NEW d \in Devices, NEW n \in Names, ReadLocal(d, n)
    PROVE  DeviceInv'
<1>1. PICK t : t = run[d]
    OBVIOUS
<1>2. PICK x : x = disk[d][n]
    OBVIOUS
<1>3. PICK u : u = [t EXCEPT !.read = n, !.local = x]
    OBVIOUS
<1>4. PICK r : r = rows[d]
    OBVIOUS
<1>5. PICK f : f = disk[d]
    OBVIOUS
<1>6. PICK h : h = vault[d].head
    OBVIOUS
<1>7. /\ t.pc = "apply" /\ n \in t.left /\ x # Absent
      /\ UNCHANGED <<log, lastSeq, disk, rows, vault, tree, written, dropped, settled>>
    BY <1>1, <1>2 DEF ReadLocal
<1>8. run' = [run EXCEPT ![d] = u]
    <2>1. run' = [run EXCEPT ![d].read = n, ![d].local = disk[d][n]]
        BY DEF ReadLocal
    <2> QED
        BY <1>1, <1>2, <1>3, <2>1, Zenon
<1>9. /\ t \in Runs /\ r \in RowSets /\ f \in KnownTrees /\ RunOK(t, h, r) /\ settled \in [Devices -> BOOLEAN]
      /\ EditDuringRun \/ (SyncedOK(t, h, f) /\ CleanOK(r))
    BY <1>1, <1>4, <1>5, <1>6, DeviceFacts
<1>10. x \in Known /\ x \in States /\ n \in Names \cup {NoRow}
    <2>1. Known \subseteq States
        BY DEF Known, States, DeviceInv, Typed
    <2> QED
        BY <1>2, <1>5, <1>9, <2>1 DEF KnownTrees
<1>11. /\ u \in Runs /\ u.pc = t.pc /\ u.parent = t.parent /\ u.target = t.target /\ u.left = t.left /\ u.work = t.work
       /\ u.synced = t.synced /\ u.read = n /\ u.local = x
    BY <1>3, <1>9, <1>10, Zenon DEF Runs
<1>12. RunOK(u, h, r)
    BY <1>7, <1>9, <1>10, <1>11 DEF RunOK
<1>13. EditDuringRun \/ (SyncedOK(u, h, f) /\ CleanOK(r))
    BY <1>9, <1>11 DEF SyncedOK
<1>14. rows' = [rows EXCEPT ![d] = r] /\ disk' = [disk EXCEPT ![d] = f] /\ Keeps(rows[d], r)
    BY <1>4, <1>5, <1>7 DEF DeviceInv, Typed, Keeps
<1> QED
    BY <1>6, <1>7, <1>8, <1>9, <1>12, <1>13, <1>14, RunStep

\* Whatever happens to a remote change.
LEMMA ApplyInv ==
    ASSUME DeviceInv, NEW d \in Devices, NEW n \in Names, Apply(d, n)
    PROVE  DeviceInv'
BY ApplyCleanInv, ApplyToDeletedInv, ReadLocalInv, ApplyMergeInv, ApplyConflictInv, ApplyDeleteToEditedInv
   DEF Apply

\* A commit is applied: the scan records the files, those as in the commit are clean.
LEMMA PersistAppliedInv ==
    ASSUME DeviceInv, NEW d \in Devices, PersistApplied(d)
    PROVE  DeviceInv'
<1>1. PICK t : t = run[d]
    OBVIOUS
<1>2. PICK h : h = vault[d].head
    OBVIOUS
<1>3. PICK f : f = disk[d]
    OBVIOUS
<1>4. PICK s : s = Scanned(rows[d], f)
    OBVIOUS
<1>5. PICK r : r = Marked(s, t.synced)
    OBVIOUS
<1>6. PICK u : u = [t EXCEPT !.pc = "marked"]
    OBVIOUS
<1>7. /\ t.pc = "apply" /\ t.left = {}
      /\ UNCHANGED <<log, lastSeq, disk, vault, tree, written, dropped, settled>>
    BY <1>1 DEF PersistApplied
<1>8. run' = [run EXCEPT ![d] = u] /\ rows' = [rows EXCEPT ![d] = r]
    <2>1. run' = [run EXCEPT ![d].pc = "marked"]
        BY DEF PersistApplied
    <2>2. run' = [run EXCEPT ![d] = u]
        BY <1>1, <1>6, <2>1, Zenon
    <2>3. rows' = [rows EXCEPT ![d] = r]
        BY <1>1, <1>3, <1>4, <1>5 DEF PersistApplied
    <2> QED
        BY <2>2, <2>3
<1>9. /\ t \in Runs /\ rows[d] \in RowSets /\ f \in KnownTrees /\ f \in Trees /\ RunOK(t, h, rows[d])
      /\ settled \in [Devices -> BOOLEAN] /\ h \in Nat /\ Len(log) \in Nat
      /\ EditDuringRun \/ (SyncedOK(t, h, f) /\ CleanOK(rows[d]))
    BY <1>1, <1>2, <1>3, DeviceFacts
<1>10. ScanOf(rows[d], s, f)
    BY <1>4, <1>9, ScannedFacts
<1>11. MarkOf(s, r, t.synced)
    BY <1>5, <1>10, MarkedFacts DEF ScanOf
<1>12. r \in RowSets /\ Keeps(rows[d], r)
    BY <1>10, <1>11 DEF ScanOf, MarkOf, Keeps
<1>13. /\ u \in Runs /\ u.pc = "marked" /\ u.parent = t.parent /\ u.target = t.target /\ u.left = t.left
       /\ u.work = t.work /\ u.read = t.read /\ u.local = t.local
    <2>1. "marked" \in {"idle", "pull", "apply", "marked", "push", "upload", "sent", "saved"}
        OBVIOUS
    <2> QED
        BY <1>6, <1>9, <2>1, Zenon DEF Runs
<1>14. RunOK(u, h, r)
    BY <1>7, <1>9, <1>13 DEF RunOK
<1>15. ASSUME ~EditDuringRun PROVE CleanOK(r)
    <2>1. SyncedOK(t, h, f) /\ CleanOK(s)
        BY <1>9, <1>10, <1>15, ScanClean
    <2> SUFFICES ASSUME NEW n \in Names, r[n] # NoRow, ~r[n].dirty
                 PROVE  \E i \in 0 .. Len(log) : TreeAt[i][n] = r[n].hash
        BY DEF CleanOK
    <2>2. s[n] # NoRow /\ r[n].hash = s[n].hash /\ (n \in t.synced \/ ~s[n].dirty)
        BY <1>11 DEF MarkOf, Keeps
    <2>3. CASE n \in t.synced
        <3>1. f[n] = t.work[n] /\ s[n].hash = f[n]
            BY <1>7, <1>10, <2>1, <2>2, <2>3 DEF SyncedOK, ScanOf
        <3>2. t.work[n] = TreeAt[h + 1][n] /\ h + 1 \in 0 .. Len(log)
            BY <1>7, <1>9 DEF RunOK, Runs
        <3> QED
            BY <2>2, <3>1, <3>2
    <2>4. CASE ~s[n].dirty
        BY <2>1, <2>2, <2>4 DEF CleanOK
    <2> QED
        BY <2>2, <2>3, <2>4
<1>16. EditDuringRun \/ (SyncedOK(u, h, f) /\ CleanOK(r))
    BY <1>13, <1>15 DEF SyncedOK
<1>17. disk' = [disk EXCEPT ![d] = f]
    BY <1>3, <1>7 DEF DeviceInv, Typed
<1> QED
    BY <1>2, <1>7, <1>8, <1>9, <1>12, <1>14, <1>16, <1>17, RunStep

-----------------------------------------------------------------------------
(* The local head moves.                                                   *)

\* What sync_vaults has of a vault.
Vaults == [head : Nat, seq : Nat \ {0}]

\* A step that moves the local head of device d.
LEMMA HeadStep ==
    ASSUME DeviceInv, NEW d \in Devices, NEW u, NEW v \in Vaults, NEW h, v.head = h, NEW w,
           run' = [run EXCEPT ![d] = u], vault' = [vault EXCEPT ![d] = v], tree' = [tree EXCEPT ![d] = w],
           UNCHANGED <<log, lastSeq, disk, rows, written, dropped, settled>>,
           h <= Len(log), w = TreeAt[h], RunOK(u, h, rows[d]), u.synced = {}
    PROVE  DeviceInv'
<1>1. Typed /\ log \in Seq(Commits) /\ Len(log) \in Nat
    BY DEF DeviceInv, Typed
<1>2. Grows /\ TreeAt' = TreeAt
    BY <1>1, SameTrees DEF Grows
<1>3. KnownTrees' = KnownTrees
    BY DEF KnownTrees, Known
<1>5. h \in Nat /\ h <= Len(log) /\ w = TreeAt[h] /\ u \in Runs
    BY DEF RunOK, Vaults
<1>6. w \in KnownTrees
    BY <1>1, <1>5, TreeKnown
<1>7. Typed'
    BY <1>1, <1>3, <1>5, <1>6 DEF Typed, Vaults
<1>8. PICK r : r = rows[d]
    OBVIOUS
<1>9. PICK f : f = disk[d]
    OBVIOUS
<1>10. RunOK(u, h, r) /\ SyncedOK(u, h, f) /\ (EditDuringRun \/ CleanOK(r))
    BY <1>8, DeviceFacts DEF SyncedOK
<1>11. RunOK(u, h, r)' /\ SyncedOK(u, h, f)' /\ (EditDuringRun \/ CleanOK(r)')
    BY <1>1, <1>2, <1>5, <1>10, RunStays, CleanStays
<1>12. /\ run'[d] = u /\ rows'[d] = r /\ disk'[d] = f /\ vault'[d].head = h /\ tree'[d] = TreeAt'[h] /\ h <= Len(log')
       /\ \A o \in Devices \ {d} : run'[o] = run[o] /\ vault'[o] = vault[o] /\ tree'[o] = tree[o]
    BY <1>1, <1>2, <1>5, <1>8, <1>9 DEF Typed
<1>13. RunOK(run[d], vault[d].head, rows[d])'
    BY <1>11, <1>12 DEF RunOK
<1>14. EditDuringRun \/ (SyncedOK(run[d], vault[d].head, disk[d])' /\ CleanOK(rows[d])')
    BY <1>11, <1>12 DEF SyncedOK, CleanOK
<1>15. DeviceOK(d)'
    BY <1>12, <1>13, <1>14 DEF DeviceOK
<1>16. Keeps(rows[d], rows'[d]) /\ Len(log') = Len(log) /\ Len(log) \in Nat
    BY <1>1 DEF Keeps
<1> QED
    BY <1>2, <1>7, <1>12, <1>15, <1>16, DeviceStep

\* update_vault_after_pull: the commit is applied, on to the next.
LEMMA AdvanceHeadInv ==
    ASSUME DeviceInv, NEW d \in Devices, AdvanceHead(d)
    PROVE  DeviceInv'
<1>1. PICK t : t = run[d]
    OBVIOUS
<1>2. PICK h : h = vault[d].head
    OBVIOUS
<1>3. PICK w : w = t.work
    OBVIOUS
<1>4. PICK u : u = NextCommit(t, h + 1, w)
    OBVIOUS
<1>5. PICK v : v = [vault[d] EXCEPT !.head = h + 1]
    OBVIOUS
<1>6. /\ t.pc = "marked" /\ UNCHANGED <<log, lastSeq, disk, rows, written, dropped, settled>>
      /\ run' = [run EXCEPT ![d] = u] /\ tree' = [tree EXCEPT ![d] = w]
    BY <1>1, <1>2, <1>3, <1>4, Zenon DEF AdvanceHead
<1>7. vault' = [vault EXCEPT ![d] = v]
    <2>1. vault' = [vault EXCEPT ![d].head = @ + 1]
        BY DEF AdvanceHead
    <2> QED
        BY <1>2, <1>5, <2>1, Zenon
<1>8. /\ t \in Runs /\ RunOK(t, h, rows[d]) /\ h \in Nat /\ Len(log) \in Nat
      /\ vault[d] \in [head : Nat, seq : Nat \ {0}]
    BY <1>1, <1>2, DeviceFacts DEF DeviceInv, Typed
<1>9. /\ t.left = {} /\ h + 1 <= t.target /\ t.target <= Len(log) /\ t.target \in Nat /\ t.read = NoRow
      /\ t.parent <= Len(log) /\ t.local \in Known /\ w \in KnownTrees
      /\ \A n \in Names : w[n] = TreeAt[h + 1][n]
    BY <1>3, <1>6, <1>8 DEF RunOK, Runs
<1>10. PICK i : i = h + 1
    OBVIOUS
<1>11. i \in Nat /\ i <= t.target /\ i \in 0 .. Len(log)
    BY <1>8, <1>9, <1>10
<1>12. TreeAt[i] \in KnownTrees
    BY <1>11, TreeKnown
<1>13. w = TreeAt[i]
    BY <1>9, <1>10, <1>12 DEF KnownTrees
<1>14. u = NextCommit(t, i, w)
    BY <1>4, <1>10
<1>15. RunOK(u, i, rows[d]) /\ u.synced = {}
    <2>1. PICK r : r = rows[d]
        OBVIOUS
    <2> QED
        BY <1>8, <1>9, <1>11, <1>13, <1>14, <2>1, NextCommitOK
<1>16. v \in Vaults /\ v.head = i /\ i <= Len(log)
    BY <1>5, <1>8, <1>10, <1>11 DEF Vaults
<1> QED
    BY <1>6, <1>7, <1>11, <1>13, <1>15, <1>16, HeadStep

\* No run.
LEMMA IdleOK ==
    ASSUME NEW h, NEW r, Len(log) \in Nat
    PROVE  RunOK(Idle, h, r) /\ Idle.synced = {} /\ Idle.pc = "idle"
<1>1. EmptyTree \in Trees /\ EmptyTree \in KnownTrees /\ Absent \in States /\ Absent \in Known /\ FALSE \in BOOLEAN
    BY DEF EmptyTree, Trees, KnownTrees, States, Known
<1>2. Idle \in Runs
    BY <1>1 DEF Idle, Runs
<1>3. /\ Idle.pc = "idle" /\ Idle.parent = 0 /\ Idle.local = Absent /\ Idle.work = EmptyTree /\ Idle.read = NoRow
      /\ Idle.synced = {}
    BY DEF Idle
<1> QED
    BY <1>1, <1>2, <1>3 DEF RunOK

\* update_vault_after_publish: the commit that was published is the local head.
LEMMA PublishDoneInv ==
    ASSUME DeviceInv, NEW d \in Devices, PublishDone(d)
    PROVE  DeviceInv'
<1>1. PICK c : c = run[d].plan
    OBVIOUS
<1>2. PICK v : v = [head |-> c.expected + 1, seq |-> c.seq + 1]
    OBVIOUS
<1>3. /\ run[d].pc = "saved" /\ UNCHANGED <<log, lastSeq, disk, rows, written, dropped, settled>>
      /\ vault' = [vault EXCEPT ![d] = v] /\ tree' = [tree EXCEPT ![d] = c.tree] /\ run' = [run EXCEPT ![d] = Idle]
    BY <1>1, <1>2 DEF PublishDone
<1>4. Len(log) \in Nat /\ RunOK(run[d], vault[d].head, rows[d])
    BY DeviceFacts
<1>5. CommitOK(c) /\ c.expected + 1 <= Len(log) /\ log[c.expected + 1] = c
    BY <1>1, <1>3, <1>4 DEF RunOK
<1>6. c.expected \in Nat /\ c.seq \in Nat
    BY <1>5 DEF CommitOK, Commits
<1>7. c.expected + 1 \in 1 .. Len(log) /\ v \in Vaults /\ v.head = c.expected + 1
    BY <1>2, <1>4, <1>5, <1>6 DEF Vaults
<1>8. c.tree = TreeAt[v.head]
    BY <1>5, <1>7 DEF DeviceInv, HistoryOK, Fits
<1>9. PICK u : u = Idle
    OBVIOUS
<1>10. RunOK(u, v.head, rows[d]) /\ u.synced = {}
    BY <1>4, <1>9, IdleOK
<1>11. PICK w : w = c.tree
    OBVIOUS
<1>12. PICK h : h = v.head
    OBVIOUS
<1>13. /\ run' = [run EXCEPT ![d] = u] /\ tree' = [tree EXCEPT ![d] = w] /\ w = TreeAt[h] /\ h <= Len(log)
       /\ v.head = h /\ RunOK(u, h, rows[d])
    BY <1>3, <1>5, <1>7, <1>8, <1>9, <1>10, <1>11, <1>12
<1> QED
    BY <1>3, <1>7, <1>10, <1>13, HeadStep

-----------------------------------------------------------------------------
(* Push.                                                                   *)

\* What a plan of kind k changes was scanned.
LEMMA PlanOpsFacts ==
    ASSUME DeviceInv, NEW d \in Devices, NEW k
    PROVE  /\ PlanScanned(Scanned(rows[d], disk[d]), PlanOps(d, k))
           /\ PlanOps(d, k) \in UNION {[S -> States] : S \in SUBSET Names}
           /\ DOMAIN PlanOps(d, k) \subseteq Names
           /\ \A n \in DOMAIN PlanOps(d, k) : PlanOps(d, k)[n] \in Known
<1>1. PICK f : f = disk[d]
    OBVIOUS
<1>2. PICK r : r = rows[d]
    OBVIOUS
<1>3. PICK s : s = Scanned(r, f)
    OBVIOUS
<1>4. r \in RowSets /\ f \in KnownTrees /\ f \in Trees
    BY <1>1, <1>2, DeviceFacts
<1>5. ScanOf(r, s, f)
    BY <1>3, <1>4, ScannedFacts
<1>6. PICK N : N = IF k = "checkpoint" THEN {n \in Names : f[n] # Absent} ELSE Upserts(r, f) \cup Deletions(r, f)
    OBVIOUS
<1>7. PICK ops : ops = [n \in N |-> f[n]]
    OBVIOUS
<1>8. PlanOps(d, k) = ops
    BY <1>1, <1>2, <1>6, <1>7, Zenon DEF PlanOps
<1>9. N \subseteq Names /\ \A n \in N : s[n] # NoRow
    <2>1. CASE k = "checkpoint"
        BY <1>5, <1>6, <2>1 DEF ScanOf
    <2>2. CASE k # "checkpoint"
        <3>1. N = Upserts(r, f) \cup Deletions(r, f)
            BY <1>6, <2>2
        <3>2. ASSUME NEW n \in Upserts(r, f) PROVE n \in Names /\ s[n] # NoRow
            BY <1>3 DEF Upserts, Dirty
        <3>3. ASSUME NEW n \in Deletions(r, f) PROVE n \in Names /\ s[n] # NoRow
            BY <1>5 DEF Deletions, ScanOf, Keeps
        <3> QED
            BY <3>1, <3>2, <3>3
    <2> QED
        BY <2>1, <2>2
<1>10. DOMAIN ops = N /\ \A n \in N : ops[n] = f[n] /\ f[n] \in Known /\ f[n] \in States
    BY <1>4, <1>7, <1>9 DEF KnownTrees, Trees
<1>11. ops \in [N -> States]
    BY <1>7, <1>10
<1>12. ops \in UNION {[S -> States] : S \in SUBSET Names}
    BY <1>9, <1>11
<1>13. PlanScanned(s, ops)
    BY <1>5, <1>9, <1>10 DEF PlanScanned, ScanOf
<1> QED
    BY <1>1, <1>2, <1>3, <1>8, <1>9, <1>10, <1>12, <1>13

\* A plan is made on the local head, which is the head of the history.
LEMMA PushPlanInv ==
    ASSUME DeviceInv, NEW d \in Devices, PushPlan(d)
    PROVE  DeviceInv'
<1>1. PICK t : t = run[d]
    OBVIOUS
<1>2. PICK h : h = vault[d].head
    OBVIOUS
<1>3. PICK f : f = disk[d]
    OBVIOUS
<1>4. PICK s : s = Scanned(rows[d], f)
    OBVIOUS
<1>5. PICK k : k = PushKind(d)
    OBVIOUS
<1>6. PICK ops : ops = PlanOps(d, k)
    OBVIOUS
<1>7. PICK P : P = ParentIds(Len(log)) \cup (IF k = "merge" THEN {t.parent} ELSE {})
    OBVIOUS
<1>8. PICK w : w = MaterializedTree(tree[d], ops)
    OBVIOUS
<1>9. PICK c : c = [dev |-> d, seq |-> vault[d].seq, kind |-> k, expected |-> Len(log), parents |-> P, ops |-> ops, tree |-> w]
    OBVIOUS
<1>10. PICK v : v = [t EXCEPT !.pc = "upload", !.plan = c]
    OBVIOUS
<1>11. PICK u : u = IF DOMAIN ops = {} THEN Idle ELSE v
    OBVIOUS
<1>12. /\ t.pc = "push" /\ h = Len(log) /\ (k = "merge" => t.parent # Len(log))
       /\ rows' = [rows EXCEPT ![d] = s] /\ run' = [run EXCEPT ![d] = u]
       /\ UNCHANGED <<log, lastSeq, disk, vault, tree, written, dropped, settled>>
    BY <1>1, <1>2, <1>3, <1>4, <1>5, <1>6, <1>7, <1>8, <1>9, <1>10, <1>11, Zenon DEF PushPlan
<1>13. /\ t \in Runs /\ rows[d] \in RowSets /\ f \in KnownTrees /\ f \in Trees /\ RunOK(t, h, rows[d])
       /\ settled \in [Devices -> BOOLEAN] /\ h \in Nat /\ Len(log) \in Nat
       /\ vault[d].seq \in Nat \ {0} /\ tree[d] = TreeAt[h] /\ tree[d] \in KnownTrees
       /\ EditDuringRun \/ CleanOK(rows[d])
    BY <1>1, <1>2, <1>3, DeviceFacts
<1>14. /\ ScanOf(rows[d], s, f) /\ s \in RowSets /\ Keeps(rows[d], s)
    BY <1>4, <1>13, ScannedFacts DEF ScanOf
<1>15. EditDuringRun \/ CleanOK(s)
    BY <1>13, <1>14, ScanClean
<1>16. /\ PlanScanned(s, ops) /\ ops \in UNION {[S -> States] : S \in SUBSET Names}
       /\ DOMAIN ops \subseteq Names /\ \A n \in DOMAIN ops : ops[n] \in Known
    BY <1>3, <1>4, <1>6, PlanOpsFacts
<1>17. /\ k \in CommitKinds /\ (k = "merge" => t.parent # 0) /\ (k = "checkpoint" => Len(log) = 0)
    BY <1>1, <1>5 DEF PushKind, CommitKinds
<1>18. w \in KnownTrees /\ w \in Trees
    <2>1. w \in KnownTrees
        BY <1>8, <1>13, <1>16 DEF MaterializedTree, KnownTrees
    <2>2. KnownTrees \subseteq Trees
        BY DEF KnownTrees, Known, Trees, States, DeviceInv, Typed
    <2> QED
        BY <2>1, <2>2
<1>19. t.parent \in Nat /\ t.parent <= Len(log) /\ t.read = NoRow /\ t.local \in Known /\ t.work \in KnownTrees
    BY <1>12, <1>13 DEF RunOK, Runs
<1>20. P \in SUBSET (Nat \ {0}) /\ (k = "merge" => t.parent \in 1 .. h - 1 /\ P = {h, t.parent})
    <2>1. CASE k = "merge"
        <3>1. t.parent \in 1 .. h - 1 /\ h # 0
            BY <1>12, <1>13, <1>17, <1>19, <2>1
        <3>2. P = {h, t.parent}
            BY <1>7, <1>12, <2>1, <3>1 DEF ParentIds
        <3> QED
            BY <1>13, <3>1, <3>2
    <2>2. CASE k # "merge"
        BY <1>7, <1>13, <2>2 DEF ParentIds
    <2> QED
        BY <2>1, <2>2
<1>21. /\ c \in Commits /\ c.tree = w /\ c.ops = ops /\ c.kind = k /\ c.expected = h /\ c.parents = P
    BY <1>9, <1>12, <1>13, <1>16, <1>17, <1>18, <1>20 DEF Commits
<1>22. CommitOK(c)
    BY <1>16, <1>18, <1>21 DEF CommitOK
<1>23. w = Applied(TreeAt[h], c)
    <2>1. TreeAt[0] = EmptyTree
        BY TreeFacts
    <2>2. k = "checkpoint" => TreeAt[h] = EmptyTree
        BY <1>12, <1>17, <2>1
    <2> QED
        BY <1>8, <1>13, <1>21, <2>2 DEF MaterializedTree, Applied
<1>24. /\ v \in Runs /\ v.pc = "upload" /\ v.plan = c /\ v.parent = t.parent /\ v.local = t.local /\ v.work = t.work
       /\ v.read = t.read
    <2>1. "upload" \in {"idle", "pull", "apply", "marked", "push", "upload", "sent", "saved"} /\ c \in Commits \cup {NoRow}
        BY <1>21
    <2> QED
        BY <1>10, <1>13, <2>1, Zenon DEF Runs
<1>25. RunOK(v, h, s)
    <2>1. k = "merge" => \E p \in 1 .. h - 1 : c.parents = {h, p}
        BY <1>20, <1>21
    <2> QED
        BY <1>16, <1>19, <1>21, <1>22, <1>23, <1>24, <2>1 DEF RunOK
<1>26. RunOK(u, h, s) /\ SyncedOK(u, h, f)
    <2>1. RunOK(Idle, h, s) /\ Idle.pc = "idle"
        BY <1>13, IdleOK
    <2> QED
        BY <1>11, <1>24, <1>25, <2>1 DEF SyncedOK
<1>27. disk' = [disk EXCEPT ![d] = f]
    BY <1>3, <1>12 DEF DeviceInv, Typed
<1> QED
    BY <1>2, <1>12, <1>13, <1>14, <1>15, <1>26, <1>27, RunStep

\* PublishCommit accepts a plan made on the head.
LEMMA PublishAcceptedInv ==
    ASSUME DeviceInv, NEW d \in Devices, PublishAccepted(d)
    PROVE  DeviceInv'
<1>1. PICK t : t = run[d]
    OBVIOUS
<1>2. PICK h : h = vault[d].head
    OBVIOUS
<1>3. PICK c : c = t.plan
    OBVIOUS
<1>4. PICK k : k = Len(log)
    OBVIOUS
<1>5. PICK u : u = [t EXCEPT !.pc = "sent"]
    OBVIOUS
<1>6. PICK r : r = rows[d]
    OBVIOUS
<1>7. PICK f : f = disk[d]
    OBVIOUS
<1>8. /\ t.pc = "upload" /\ c.expected = k /\ log' = Append(log, c) /\ lastSeq' = [lastSeq EXCEPT ![d] = c.seq]
      /\ UNCHANGED <<disk, rows, vault, tree, written, dropped, settled>>
    BY <1>1, <1>3, <1>4 DEF PublishAccepted
<1>9. run' = [run EXCEPT ![d] = u]
    <2>1. run' = [run EXCEPT ![d].pc = "sent"]
        BY DEF PublishAccepted
    <2> QED
        BY <1>1, <1>5, <2>1, Zenon
<1>10. /\ log \in Seq(Commits) /\ k \in Nat /\ t \in Runs /\ RunOK(t, h, r) /\ h \in Nat /\ h <= k /\ tree[d] = TreeAt[h]
       /\ EditDuringRun \/ CleanOK(r)
    BY <1>1, <1>2, <1>4, <1>6, DeviceFacts
<1>11. /\ CommitOK(c) /\ c.expected = h /\ c.tree = Applied(TreeAt[h], c) /\ PlanScanned(r, c.ops)
       /\ c.kind = "merge" => \E p \in 1 .. h - 1 : c.parents = {h, p}
    BY <1>3, <1>8, <1>10 DEF RunOK
<1>12. c \in Commits /\ c.seq \in Nat /\ h = k
    BY <1>8, <1>11 DEF CommitOK, Commits
<1>13. log' \in Seq(Commits) /\ Len(log') = k + 1 /\ log'[k + 1] = c /\ \A i \in 1 .. k : log'[i] = log[i]
    BY <1>4, <1>8, <1>10, <1>12
<1>14. Grows
    BY <1>4, <1>8, <1>10, <1>13 DEF Grows
<1>15. (\A i \in 0 .. k : TreeAt'[i] = TreeAt[i]) /\ TreeAt'[k + 1] = Applied(TreeAt[k], c)
    <2>1. TreeAt'[k + 1] = Applied(TreeAt[k], log'[k + 1])
        BY <1>10, <1>13, TreeGrows
    <2> QED
        BY <1>10, <1>13, <2>1, TreeGrows
<1>16. TreeAt'[k + 1] = c.tree /\ TreeAt'[h] = TreeAt[h]
    BY <1>10, <1>11, <1>12, <1>15
<1>17. /\ u \in Runs /\ u.pc = "sent" /\ u.parent = t.parent /\ u.plan = c /\ u.work = t.work /\ u.read = t.read
       /\ u.local = t.local
    <2>1. "sent" \in {"idle", "pull", "apply", "marked", "push", "upload", "sent", "saved"}
        OBVIOUS
    <2> QED
        BY <1>3, <1>5, <1>10, <2>1, Zenon DEF Runs
<1>18. Typed'
    <2>1. KnownTrees' = KnownTrees
        BY <1>8 DEF KnownTrees, Known
    <2>2. Typed
        BY DEF DeviceInv
    <2> QED
        BY <1>8, <1>9, <1>12, <1>13, <1>17, <2>1, <2>2 DEF Typed
<1>19. CommitOK(c)'
    BY <1>10, <1>11, <1>14, CommitStays
<1>20. RunOK(u, h, r)'
    <2>1. /\ t.parent <= k /\ t.parent \in Nat /\ t.local \in Known' /\ t.work \in KnownTrees'
          /\ t.read = NoRow
        BY <1>4, <1>8, <1>10 DEF RunOK, Runs, KnownTrees, Known
    <2>2. u.parent <= Len(log') /\ c.expected + 1 <= Len(log') /\ log'[c.expected + 1] = c
        BY <1>8, <1>10, <1>13, <1>17, <2>1
    <2> QED
        BY <1>11, <1>17, <1>19, <2>1, <2>2 DEF RunOK
<1>21. EditDuringRun \/ CleanOK(r)'
    BY <1>4, <1>10, <1>14, CleanStays
<1>22. SyncedOK(u, h, f)'
    BY <1>17 DEF SyncedOK
<1>23. /\ run'[d] = u /\ rows'[d] = r /\ disk'[d] = f /\ vault'[d].head = h /\ tree'[d] = TreeAt'[h] /\ h <= Len(log')
       /\ \A o \in Devices \ {d} : run'[o] = run[o]
    BY <1>2, <1>6, <1>7, <1>8, <1>9, <1>10, <1>13, <1>16 DEF DeviceInv, Typed
<1>24. RunOK(run[d], vault[d].head, rows[d])'
    BY <1>20, <1>23 DEF RunOK
<1>25. EditDuringRun \/ (SyncedOK(run[d], vault[d].head, disk[d])' /\ CleanOK(rows[d])')
    BY <1>21, <1>22, <1>23 DEF SyncedOK, CleanOK
<1>26. DeviceOK(d)'
    BY <1>23, <1>24, <1>25 DEF DeviceOK
<1>27. Keeps(rows[d], rows'[d])
    BY <1>8 DEF Keeps
<1>28. ASSUME NEW i \in 1 .. Len(log'), i > Len(log)
       PROVE  CommitOK(log[i])' /\ Fits(log[i], i)' /\ \A n \in DOMAIN log'[i].ops : rows'[d][n] # NoRow
    <2>1. i = k + 1 /\ log'[i] = c /\ i - 1 = h /\ i - 2 = h - 1
        BY <1>4, <1>10, <1>12, <1>13, <1>28
    <2>2. Fits(log[i], i)'
        BY <1>11, <1>16, <2>1 DEF Fits
    <2>3. CommitOK(log[i])'
        BY <1>19, <2>1 DEF CommitOK
    <2>4. \A n \in DOMAIN log'[i].ops : rows'[d][n] # NoRow
        BY <1>11, <1>23, <2>1 DEF PlanScanned
    <2> QED
        BY <2>2, <2>3, <2>4
<1> QED
    BY <1>8, <1>14, <1>18, <1>23, <1>26, <1>27, <1>28, DeviceStep

\* A head conflict ends the run, or makes it pull again.
LEMMA PublishConflictInv ==
    ASSUME DeviceInv, NEW d \in Devices, PublishConflict(d)
    PROVE  DeviceInv'
<1>1. PICK t : t = run[d]
    OBVIOUS
<1>2. PICK p : p = t.parent
    OBVIOUS
<1>3. PICK v : v = [Idle EXCEPT !.pc = "pull", !.second = TRUE, !.parent = p]
    OBVIOUS
<1>4. PICK u : u = IF t.second THEN Idle ELSE v
    OBVIOUS
<1>5. PICK r : r = rows[d]
    OBVIOUS
<1>6. PICK f : f = disk[d]
    OBVIOUS
<1>7. PICK h : h = vault[d].head
    OBVIOUS
<1>8. /\ run' = [run EXCEPT ![d] = u] /\ UNCHANGED <<log, lastSeq, disk, rows, vault, tree, written, dropped>>
      /\ settled' = [settled EXCEPT ![d] = @ /\ ~run[d].second]
    BY <1>1, <1>2, <1>3, <1>4, Zenon DEF PublishConflict
<1>9. /\ r \in RowSets /\ f \in KnownTrees /\ RunOK(t, h, r) /\ settled \in [Devices -> BOOLEAN] /\ Len(log) \in Nat
      /\ EditDuringRun \/ CleanOK(r)
    BY <1>1, <1>5, <1>6, <1>7, DeviceFacts
<1>10. settled' \in [Devices -> BOOLEAN]
    <2>1. (settled[d] /\ ~run[d].second) \in BOOLEAN
        BY Zenon
    <2> QED
        BY <1>8, <1>9, <2>1
<1>11. p \in Nat /\ p <= Len(log)
    BY <1>2, <1>9 DEF RunOK, Runs
<1>12. RunOK(Idle, h, r) /\ Idle.pc = "idle" /\ Idle \in Runs
    BY <1>9, IdleOK DEF RunOK
<1>13. /\ v \in Runs /\ v.pc = "pull" /\ v.parent = p /\ v.local = Idle.local /\ v.work = Idle.work /\ v.read = Idle.read
    <2>1. "pull" \in {"idle", "pull", "apply", "marked", "push", "upload", "sent", "saved"} /\ TRUE \in BOOLEAN
        OBVIOUS
    <2> QED
        BY <1>3, <1>11, <1>12, <2>1, Zenon DEF Runs
<1>14. RunOK(v, h, r)
    <2>1. Idle.local \in Known /\ Idle.work \in KnownTrees /\ Idle.read = NoRow
        BY <1>12 DEF RunOK
    <2> QED
        BY <1>11, <1>13, <2>1 DEF RunOK
<1>15. RunOK(u, h, r) /\ SyncedOK(u, h, f)
    BY <1>4, <1>12, <1>13, <1>14 DEF SyncedOK
<1>16. rows' = [rows EXCEPT ![d] = r] /\ disk' = [disk EXCEPT ![d] = f] /\ Keeps(rows[d], r)
    BY <1>5, <1>6, <1>8 DEF DeviceInv, Typed, Keeps
<1> QED
    BY <1>7, <1>8, <1>9, <1>10, <1>15, <1>16, RunStep

\* apply_publish_success: what was published is clean, and is in the history.
LEMMA PublishSavedInv ==
    ASSUME DeviceInv, NEW d \in Devices, PublishSaved(d)
    PROVE  DeviceInv'
<1>1. PICK t : t = run[d]
    OBVIOUS
<1>2. PICK c : c = t.plan
    OBVIOUS
<1>3. PICK S : S = DOMAIN c.ops
    OBVIOUS
<1>4. PICK r : r = Marked(rows[d], S)
    OBVIOUS
<1>5. PICK u : u = [t EXCEPT !.pc = "saved"]
    OBVIOUS
<1>6. PICK f : f = disk[d]
    OBVIOUS
<1>7. PICK h : h = vault[d].head
    OBVIOUS
<1>8. /\ t.pc = "sent" /\ UNCHANGED <<log, lastSeq, disk, vault, tree, written, dropped, settled>>
      /\ rows' = [rows EXCEPT ![d] = r]
    BY <1>1, <1>2, <1>3, <1>4 DEF PublishSaved
<1>9. run' = [run EXCEPT ![d] = u]
    <2>1. run' = [run EXCEPT ![d].pc = "saved"]
        BY DEF PublishSaved
    <2> QED
        BY <1>1, <1>5, <2>1, Zenon
<1>10. /\ rows[d] \in RowSets /\ f \in KnownTrees /\ RunOK(t, h, rows[d]) /\ settled \in [Devices -> BOOLEAN]
       /\ Len(log) \in Nat /\ t \in Runs /\ (EditDuringRun \/ CleanOK(rows[d]))
    BY <1>1, <1>6, <1>7, DeviceFacts
<1>11. MarkOf(rows[d], r, S)
    BY <1>4, <1>10, MarkedFacts
<1>12. CommitOK(c) /\ c.expected + 1 <= Len(log) /\ log[c.expected + 1] = c /\ PlanScanned(rows[d], c.ops)
    BY <1>2, <1>8, <1>10 DEF RunOK
<1>13. PICK e : e = c.expected
    OBVIOUS
<1>14. e \in Nat /\ e + 1 \in 0 .. Len(log)
    BY <1>10, <1>12, <1>13 DEF CommitOK, Commits
<1>15. TreeAt[e + 1] = Applied(TreeAt[e], c)
    BY <1>12, <1>13, <1>14, TreeFacts
<1>16. \A n \in S : n \in Names /\ TreeAt[e + 1][n] = c.ops[n] /\ rows[d][n].hash = c.ops[n]
    BY <1>3, <1>12, <1>15 DEF Applied, CommitOK, PlanScanned
<1>17. EditDuringRun \/ CleanOK(r)
    <2>1. ASSUME CleanOK(rows[d]), NEW n \in Names, r[n] # NoRow, ~r[n].dirty
          PROVE  \E i \in 0 .. Len(log) : TreeAt[i][n] = r[n].hash
        <3>1. rows[d][n] # NoRow /\ r[n].hash = rows[d][n].hash /\ (n \in S \/ ~rows[d][n].dirty)
            BY <1>11, <2>1 DEF MarkOf, Keeps
        <3>2. CASE n \in S
            BY <1>14, <1>16, <3>1, <3>2
        <3>3. CASE ~rows[d][n].dirty
            BY <2>1, <3>1, <3>3 DEF CleanOK
        <3> QED
            BY <3>1, <3>2, <3>3
    <2> QED
        BY <1>10, <2>1 DEF CleanOK
<1>18. /\ u \in Runs /\ u.pc = "saved" /\ u.parent = t.parent /\ u.plan = c /\ u.work = t.work /\ u.read = t.read
       /\ u.local = t.local
    <2>1. "saved" \in {"idle", "pull", "apply", "marked", "push", "upload", "sent", "saved"}
        OBVIOUS
    <2> QED
        BY <1>2, <1>5, <1>10, <2>1, Zenon DEF Runs
<1>19. RunOK(u, h, r) /\ SyncedOK(u, h, f)
    <2>1. t.parent <= Len(log) /\ t.local \in Known /\ t.work \in KnownTrees /\ t.read = NoRow
        BY <1>8, <1>10 DEF RunOK
    <2> QED
        BY <1>12, <1>18, <2>1 DEF RunOK, SyncedOK
<1>20. disk' = [disk EXCEPT ![d] = f] /\ r \in RowSets /\ Keeps(rows[d], r)
    BY <1>6, <1>8, <1>11 DEF DeviceInv, Typed, MarkOf
<1> QED
    BY <1>7, <1>8, <1>9, <1>10, <1>17, <1>19, <1>20, RunStep

\* A run ends with an error, or the app quits.
LEMMA RunFailInv ==
    ASSUME DeviceInv, NEW d \in Devices, RunFail(d)
    PROVE  DeviceInv'
<1>1. PICK u : u = Idle
    OBVIOUS
<1>2. PICK r : r = rows[d]
    OBVIOUS
<1>3. PICK f : f = disk[d]
    OBVIOUS
<1>4. PICK h : h = vault[d].head
    OBVIOUS
<1>5. /\ run' = [run EXCEPT ![d] = u] /\ UNCHANGED <<log, lastSeq, disk, rows, vault, tree, written, dropped>>
      /\ settled' = [settled EXCEPT ![d] = FALSE]
    BY <1>1 DEF RunFail
<1>6. /\ r \in RowSets /\ f \in KnownTrees /\ settled \in [Devices -> BOOLEAN] /\ Len(log) \in Nat
      /\ EditDuringRun \/ CleanOK(r)
    BY <1>2, <1>3, DeviceFacts
<1>7. RunOK(u, h, r) /\ SyncedOK(u, h, f)
    BY <1>1, <1>6, IdleOK DEF SyncedOK
<1>8. settled' \in [Devices -> BOOLEAN] /\ rows' = [rows EXCEPT ![d] = r] /\ disk' = [disk EXCEPT ![d] = f] /\ Keeps(rows[d], r)
    BY <1>2, <1>3, <1>5, <1>6 DEF DeviceInv, Typed, Keeps
<1> QED
    BY <1>4, <1>5, <1>6, <1>7, <1>8, RunStep

-----------------------------------------------------------------------------
(* Users.                                                                  *)

\* A user changes the files of device d, while it syncs only with EditDuringRun.
LEMMA UserStep ==
    ASSUME DeviceInv, NEW d \in Devices, NEW files, disk' = [disk EXCEPT ![d] = files], files \in KnownTrees',
           written \subseteq written', written' \subseteq Edits, dropped' \subseteq written',
           settled' = [settled EXCEPT ![d] = FALSE], EditDuringRun \/ run[d].pc = "idle",
           UNCHANGED <<log, lastSeq, rows, vault, tree, run>>
    PROVE  DeviceInv'
<1>1. Typed /\ log \in Seq(Commits) /\ Len(log) \in Nat
    BY DEF DeviceInv, Typed
<1>2. Grows /\ TreeAt' = TreeAt
    BY <1>1, SameTrees DEF Grows
<1>3. KnownTrees \subseteq KnownTrees'
    BY KnownGrows
<1>4. Typed'
    <2>1. disk' \in [Devices -> KnownTrees'] /\ tree' \in [Devices -> KnownTrees']
        <3>1. disk \in [Devices -> KnownTrees'] /\ tree \in [Devices -> KnownTrees']
            BY <1>1, <1>3 DEF Typed
        <3> QED
            BY <3>1
    <2> QED
        BY <1>1, <2>1 DEF Typed
<1>5. PICK t : t = run[d]
    OBVIOUS
<1>6. PICK h : h = vault[d].head
    OBVIOUS
<1>7. PICK r : r = rows[d]
    OBVIOUS
<1>8. h \in Nat /\ h <= Len(log) /\ tree[d] = TreeAt[h] /\ RunOK(t, h, r) /\ (EditDuringRun \/ CleanOK(r))
    BY <1>5, <1>6, <1>7, DeviceFacts
<1>9. RunOK(t, h, r)' /\ (EditDuringRun \/ CleanOK(r)')
    BY <1>1, <1>2, <1>8, RunStays, CleanStays
<1>10. EditDuringRun \/ SyncedOK(t, h, files)'
    BY <1>5 DEF SyncedOK
<1>11. /\ run'[d] = t /\ rows'[d] = r /\ disk'[d] = files /\ vault'[d].head = h /\ tree'[d] = TreeAt'[h] /\ h <= Len(log')
       /\ \A o \in Devices \ {d} : disk'[o] = disk[o]
    BY <1>1, <1>2, <1>5, <1>6, <1>7, <1>8 DEF Typed
<1>12. RunOK(run[d], vault[d].head, rows[d])'
    BY <1>9, <1>11 DEF RunOK
<1>13. EditDuringRun \/ (SyncedOK(run[d], vault[d].head, disk[d])' /\ CleanOK(rows[d])')
    BY <1>9, <1>10, <1>11 DEF SyncedOK, CleanOK
<1>14. DeviceOK(d)'
    BY <1>11, <1>12, <1>13 DEF DeviceOK
<1>15. Keeps(rows[d], rows'[d]) /\ Len(log') = Len(log)
    BY DEF Keeps
<1> QED
    BY <1>1, <1>2, <1>4, <1>11, <1>14, <1>15, DeviceStep

\* A user adds something to a file.
LEMMA EditInv ==
    ASSUME DeviceInv, NEW d \in Devices, NEW n \in Files, NEW e \in Edits, Edit(d, n, e)
    PROVE  DeviceInv'
<1>1. PICK x : x = IF disk[d][n] = Absent THEN {e} ELSE disk[d][n] \cup {e}
    OBVIOUS
<1>2. PICK f : f = [disk[d] EXCEPT ![n] = x]
    OBVIOUS
<1>3. /\ written' = written \cup {e} /\ settled' = [settled EXCEPT ![d] = FALSE] /\ (EditDuringRun \/ run[d].pc = "idle")
      /\ UNCHANGED <<log, lastSeq, rows, vault, tree, run, dropped>>
    BY DEF Edit
<1>4. disk' = [disk EXCEPT ![d] = f]
    <2>1. disk' = [disk EXCEPT ![d][n] = IF @ = Absent THEN {e} ELSE @ \cup {e}]
        BY DEF Edit
    <2> QED
        BY <1>1, <1>2, <2>1, Zenon
<1>5. disk[d] \in KnownTrees /\ written \subseteq Edits /\ dropped \subseteq written
    BY DeviceFacts DEF DeviceInv, Typed
<1>6. disk[d] \in KnownTrees'
    BY <1>3, <1>5, KnownGrows
<1>7. x \in Known'
    <2>1. n \in Names
        BY DEF Names
    <2>2. disk[d][n] \in Known
        BY <1>5, <2>1 DEF KnownTrees
    <2> QED
        BY <1>1, <1>3, <2>2 DEF Known
<1>8. f \in KnownTrees'
    BY <1>2, <1>6, <1>7 DEF KnownTrees
<1>9. written \subseteq written' /\ written' \subseteq Edits /\ dropped' \subseteq written'
    BY <1>3, <1>5
<1> QED
    BY <1>3, <1>4, <1>8, <1>9, UserStep

\* A user deletes a file.
LEMMA DeleteInv ==
    ASSUME DeviceInv, NEW d \in Devices, NEW n \in Names, Delete(d, n)
    PROVE  DeviceInv'
<1>1. PICK f : f = [disk[d] EXCEPT ![n] = Absent]
    OBVIOUS
<1>2. /\ dropped' = dropped \cup disk[d][n] /\ settled' = [settled EXCEPT ![d] = FALSE] /\ disk[d][n] # Absent
      /\ (EditDuringRun \/ run[d].pc = "idle") /\ UNCHANGED <<log, lastSeq, rows, vault, tree, run, written>>
    BY DEF Delete
<1>3. disk' = [disk EXCEPT ![d] = f]
    <2>1. disk' = [disk EXCEPT ![d][n] = Absent]
        BY DEF Delete
    <2> QED
        BY <1>1, <2>1, Zenon
<1>4. disk[d] \in KnownTrees /\ written \subseteq Edits /\ dropped \subseteq written
    BY DeviceFacts DEF DeviceInv, Typed
<1>5. disk[d][n] \subseteq written
    BY <1>2, <1>4 DEF KnownTrees, Known
<1>6. f \in KnownTrees'
    <2>1. f \in KnownTrees
        BY <1>1, <1>4 DEF KnownTrees, Known
    <2> QED
        BY <1>2, <2>1, KnownGrows
<1>7. written \subseteq written' /\ written' \subseteq Edits /\ dropped' \subseteq written'
    BY <1>2, <1>4, <1>5
<1> QED
    BY <1>2, <1>3, <1>6, <1>7, UserStep

-----------------------------------------------------------------------------
(* Every reachable state.                                                  *)

\* It holds at first.
LEMMA InitInv == Init => DeviceInv
<1> SUFFICES ASSUME Init PROVE DeviceInv
    OBVIOUS
<1>1. Typed
    <2>1. EmptyTree \in KnownTrees
        BY DEF EmptyTree, KnownTrees, Known
    <2>2. Len(log) \in Nat /\ log \in Seq(Commits)
        BY DEF Init
    <2>3. Idle \in Runs
        BY <2>2, IdleOK DEF RunOK
    <2> QED
        BY <2>1, <2>2, <2>3 DEF Init, Typed
<1>2. Len(log) = 0
    BY DEF Init
<1>3. HistoryOK
    BY <1>2 DEF HistoryOK
<1>4. ASSUME NEW d \in Devices PROVE DeviceOK(d)
    <2>1. /\ vault[d].head = 0 /\ tree[d] = EmptyTree /\ run[d] = Idle /\ \A n \in Names : rows[d][n] = NoRow
        BY DEF Init
    <2>2. RunOK(run[d], vault[d].head, rows[d]) /\ run[d].pc = "idle"
        BY <1>2, <2>1, IdleOK
    <2>3. TreeAt[0] = EmptyTree
        BY TreeFacts
    <2>4. SyncedOK(run[d], vault[d].head, disk[d]) /\ CleanOK(rows[d])
        BY <2>1, <2>2 DEF SyncedOK, CleanOK
    <2> QED
        BY <1>2, <2>1, <2>2, <2>3, <2>4 DEF DeviceOK
<1> QED
    BY <1>1, <1>3, <1>4 DEF DeviceInv

\* Every step keeps it.
LEMMA NextInv ==
    ASSUME DeviceInv, [Next]_vars
    PROVE  DeviceInv'
<1>1. ASSUME NEW d \in Devices,
             \/ \E n \in Files, e \in Edits : Edit(d, n, e)
             \/ \E n \in Names : Delete(d, n)
             \/ StatusScan(d)
             \/ PullStart(d)
             \/ \E n \in Names : Apply(d, n)
             \/ PersistApplied(d) \/ AdvanceHead(d)
             \/ PushPlan(d)
             \/ PublishAccepted(d) \/ PublishConflict(d) \/ PublishSaved(d) \/ PublishDone(d)
             \/ RunFail(d)
      PROVE  DeviceInv'
    BY <1>1, EditInv, DeleteInv, StatusScanInv, PullStartInv, ApplyInv, PersistAppliedInv, AdvanceHeadInv, PushPlanInv,
       PublishAcceptedInv, PublishConflictInv, PublishSavedInv, PublishDoneInv, RunFailInv
<1>2. CASE UNCHANGED vars
    <2>1. UNCHANGED <<log, lastSeq, disk, rows, vault, tree, run, written, dropped, settled>> /\ TreeAt' = TreeAt
        BY <1>2, SameTrees DEF vars
    <2>2. Known' = Known /\ KnownTrees' = KnownTrees
        BY <2>1 DEF Known, KnownTrees
    <2>3. Typed'
        BY <2>1, <2>2 DEF DeviceInv, Typed
    <2>4. HistoryOK'
        BY <2>1, <2>2 DEF DeviceInv, HistoryOK, CommitOK, Fits
    <2>5. ASSUME NEW d \in Devices PROVE DeviceOK(d)'
        <3>1. DeviceOK(d)
            BY DEF DeviceInv
        <3>2. RunOK(run[d], vault[d].head, rows[d])' <=> RunOK(run[d], vault[d].head, rows[d])
            <4>1. \A c : CommitOK(c)' <=> CommitOK(c)
                BY <2>1, <2>2, Zenon DEF CommitOK, Applied
            <4>2. PICK t : t = run[d]
                OBVIOUS
            <4>3. PICK h : h = vault[d].head
                OBVIOUS
            <4>4. PICK r : r = rows[d]
                OBVIOUS
            <4>5. RunOK(t, h, r)' <=> RunOK(t, h, r)
                BY <2>1, <2>2, <4>1, Zenon DEF RunOK, Applied
            <4>6. RunOK(t, h, r)
                BY <3>1, <4>2, <4>3, <4>4 DEF DeviceOK
            <4>7. run'[d] = t /\ vault'[d].head = h /\ rows'[d] = r
                BY <2>1, <4>2, <4>3, <4>4
            <4> QED
                BY <4>2, <4>3, <4>4, <4>5, <4>6, <4>7 DEF RunOK
        <3>3. SyncedOK(run[d], vault[d].head, disk[d])' <=> SyncedOK(run[d], vault[d].head, disk[d])
            BY <2>1, <2>2, Zenon DEF SyncedOK
        <3>4. CleanOK(rows[d])' <=> CleanOK(rows[d])
            BY <2>1, <2>2, Zenon DEF CleanOK
        <3> QED
            BY <2>1, <3>1, <3>2, <3>3, <3>4 DEF DeviceOK
    <2> QED
        BY <2>3, <2>4, <2>5 DEF DeviceInv
<1> QED
    BY <1>1, <1>2 DEF Next

\* The invariant holds of every reachable state: whatever runs, failures, lost
\* replies and users do, what a run holds fits the history it was read from.
THEOREM DeviceInvariant == Spec => []DeviceInv
<1>1. Init => DeviceInv
    BY InitInv
<1>2. DeviceInv /\ [Next]_vars => DeviceInv'
    BY NextInv
<1> QED
    BY <1>1, <1>2, PTL DEF Spec

\* Every variable keeps its type, and a merge commit has the head it replaces and an
\* older commit as its parents, also after a lost race for the head (run_sync_once).
THEOREM DeviceTypeOK == Spec => []TypeOK
<1>1. DeviceInv => TypeOK
    <2> SUFFICES ASSUME DeviceInv PROVE TypeOK
        OBVIOUS
    <2>1. KnownTrees \subseteq Trees
        BY DEF KnownTrees, Known, Trees, States, DeviceInv, Typed
    <2>2. disk \in [Devices -> Trees] /\ tree \in [Devices -> Trees]
        BY <2>1 DEF DeviceInv, Typed
    <2>3. MergeParents
        BY DEF DeviceInv, HistoryOK, Fits, MergeParents
    <2> QED
        BY <2>2, <2>3 DEF TypeOK, DeviceInv, Typed
<1> QED
    BY <1>1, DeviceInvariant, PTL

\* Every device's tree cache is the tree of its local head, and every commit carries
\* the tree its readers compute, so that persist_applied_commit's check of the tree id
\* never refuses a commit.
THEOREM DeviceTreesAgree == Spec => []TreesAgree
<1>1. DeviceInv => TreesAgree
    BY DEF DeviceInv, HistoryOK, DeviceOK, Fits, TreesAgree
<1> QED
    BY <1>1, DeviceInvariant, PTL

\* With users who leave a vault alone while it syncs, a file its database calls clean,
\* which apply_remote_write overwrites, is in the history as it is.
THEOREM DeviceClean == Spec => [](~EditDuringRun => CleanIsInHistory)
<1>1. DeviceInv => (~EditDuringRun => CleanIsInHistory)
    BY DEF DeviceInv, DeviceOK, CleanOK, CleanIsInHistory
<1> QED
    BY <1>1, DeviceInvariant, PTL

-----------------------------------------------------------------------------
(* No edit is lost, if users leave a vault alone while it syncs.           *)

\* Edit e is in a file or an entry of a tree.
Holds(s, e) == s # Absent /\ e \in s

\* What a pull t goes by is so on disk: a file it takes for deleted is, a file it
\* takes for clean is in the history, unless it is a conflict copy, which no commit
\* it applies can name; what a merge has read is there.
PullOK(t, h, r, files) ==
    /\ t.pc \in {"apply", "marked"} =>
        /\ t.gone \subseteq t.snap
        /\ \A n \in t.gone : n \in Names /\ files[n] = Absent /\ r[n] # NoRow
        /\ \A n \in Names \ t.snap :
            \/ files[n] = Absent
            \/ \E i \in 0 .. Len(log) : TreeAt[i][n] = files[n]
            \/ \A i \in 1 .. t.target : n \notin DOMAIN log[i].ops
    /\ t.pc = "apply" => \A n \in t.left : t.work[n] \in {Absent, TreeAt[h][n]}
    /\ t.read # NoRow => t.read \in t.snap \ t.gone /\ t.local = files[t.read]

\* A device that has e under the name m in its tree, in the tree it works on or in
\* its plan has it there on disk, and does not plan to drop it.
HomeAt(e, m, t, h, files) ==
    /\ Holds(TreeAt[h][m], e) => Holds(files[m], e)
    /\ t.pc \in {"apply", "marked"} /\ Holds(t.work[m], e) => Holds(files[m], e)
    /\ t.pc \in {"upload", "sent", "saved"} /\ Holds(t.plan.tree[m], e) => Holds(files[m], e)
    /\ t.pc = "upload" /\ Holds(TreeAt[h][m], e) => Holds(t.plan.tree[m], e)

\* Once in the history, e stays there under this name.
StaysInHistory(e, m) ==
    \A i, j \in 0 .. Len(log) : i <= j /\ Holds(TreeAt[i][m], e) => Holds(TreeAt[j][m], e)

\* The name m is the home of e: e is there, and nobody drops it.
Home(e, m) ==
    /\ Holds(TreeAt[Len(log)][m], e) \/ \E d \in Devices : Holds(disk[d][m], e)
    /\ StaysInHistory(e, m)
    /\ \A d \in Devices : HomeAt(e, m, run[d], vault[d].head, disk[d])

\* Every edit has a home.  A conflict copy, whose name is new, is one.
KeepInv ==
    /\ \A d \in Devices : PullOK(run[d], vault[d].head, rows[d], disk[d])
    /\ \A e \in written \ dropped : \E m \in Names : Home(e, m)

\* Nobody has e under the name c, but perhaps on disk.
Unseen(e, c) ==
    /\ \A i \in 0 .. Len(log) : ~Holds(TreeAt[i][c], e)
    /\ \A o \in Devices :
        /\ run[o].pc \in {"apply", "marked"} => ~Holds(run[o].work[c], e)
        /\ run[o].pc \in {"upload", "sent", "saved"} => ~Holds(run[o].plan.tree[c], e)

\* Device d did a step, after which its run is u, its local head i and its files f.
StepOf(d, u, i, f) ==
    /\ UNCHANGED log
    /\ run'[d] = u /\ vault'[d].head = i /\ disk'[d] = f
    /\ \A o \in Devices \ {d} : run'[o] = run[o] /\ vault'[o] = vault[o] /\ rows'[o] = rows[o] /\ disk'[o] = disk[o]

\* A home stays one if the step keeps e in the device's file, or e is in the history.
LEMMA HomeStays ==
    ASSUME NEW d \in Devices, NEW u, NEW i, NEW f, StepOf(d, u, i, f), NEW e, NEW m, Home(e, m),
           HomeAt(e, m, u, i, f), Holds(disk[d][m], e) => Holds(f[m], e) \/ Holds(TreeAt[Len(log)][m], e)
    PROVE  Home(e, m)'
<1>1. UNCHANGED log /\ TreeAt' = TreeAt
    BY SameTrees DEF StepOf
<1>2. Holds(TreeAt'[Len(log')][m], e) \/ \E o \in Devices : Holds(disk'[o][m], e)
    BY <1>1 DEF Home, StepOf
<1>3. StaysInHistory(e, m)'
    BY <1>1 DEF Home, StaysInHistory, Holds
<1>4. ASSUME NEW o \in Devices PROVE HomeAt(e, m, run[o], vault[o].head, disk[o])'
    <2>1. CASE o = d
        BY <1>1, <2>1 DEF HomeAt, StepOf, Holds
    <2>2. CASE o # d
        BY <1>1, <2>2 DEF Home, HomeAt, StepOf, Holds
    <2> QED
        BY <2>1, <2>2
<1> QED
    BY <1>2, <1>3, <1>4 DEF Home, Holds

\* A file with a name that nobody has e under is a home for e.
LEMMA HomeMoves ==
    ASSUME NEW d \in Devices, NEW u, NEW i \in 0 .. Len(log), NEW f, StepOf(d, u, i, f), DeviceInv,
           NEW e, NEW c, Holds(f[c], e), Unseen(e, c)
    PROVE  Home(e, c)'
<1>1. UNCHANGED log /\ TreeAt' = TreeAt
    BY SameTrees DEF StepOf
<1>2. \E o \in Devices : Holds(disk'[o][c], e)
    BY DEF StepOf
<1>3. StaysInHistory(e, c)'
    BY <1>1 DEF StaysInHistory, Holds, Unseen
<1>4. ASSUME NEW o \in Devices PROVE HomeAt(e, c, run[o], vault[o].head, disk[o])'
    <2>1. CASE o = d
        <3>1. ~Holds(TreeAt[i][c], e)
            BY DEF Unseen
        <3> QED
            BY <1>1, <2>1, <3>1 DEF HomeAt, StepOf, Holds
    <2>2. CASE o # d
        <3>1. vault[o].head \in 0 .. Len(log)
            BY DeviceFacts
        <3>2. ~Holds(TreeAt[vault[o].head][c], e)
            BY <3>1 DEF Unseen
        <3> QED
            BY <1>1, <2>2, <3>2 DEF HomeAt, StepOf, Holds, Unseen
    <2> QED
        BY <2>1, <2>2
<1> QED
    BY <1>2, <1>3, <1>4 DEF Home, Holds

\* What is left to show of a step: what the pull goes by, and that an edit's home
\* stays one or the edit has got a new one.
LEMMA KeepStep ==
    ASSUME DeviceInv, KeepInv, NEW d \in Devices, NEW u, NEW i \in 0 .. Len(log), NEW f, NEW r, StepOf(d, u, i, f),
           rows'[d] = r, PullOK(u, i, r, f),
           \A e \in written' \ dropped' :
             \/ \E c \in Names : Holds(f[c], e) /\ Unseen(e, c)
             \/ /\ e \in written \ dropped
                /\ \A m \in Names : Home(e, m) =>
                      \/ \E c \in Names : Holds(f[c], e) /\ Unseen(e, c)
                      \/ /\ HomeAt(e, m, u, i, f)
                         /\ Holds(disk[d][m], e) => Holds(f[m], e) \/ Holds(TreeAt[Len(log)][m], e)
    PROVE  KeepInv'
<1>1. UNCHANGED log /\ TreeAt' = TreeAt
    BY SameTrees DEF StepOf
<1>2. ASSUME NEW o \in Devices PROVE PullOK(run[o], vault[o].head, rows[o], disk[o])'
    <2>1. CASE o = d
        BY <1>1, <2>1 DEF PullOK, StepOf
    <2>2. CASE o # d
        <3>1. PullOK(run[o], vault[o].head, rows[o], disk[o])
            BY DEF KeepInv
        <3> QED
            BY <1>1, <2>2, <3>1 DEF PullOK, StepOf
    <2> QED
        BY <2>1, <2>2
<1>3. ASSUME NEW e \in written' \ dropped' PROVE \E m \in Names : Home(e, m)'
    <2>1. CASE \E c \in Names : Holds(f[c], e) /\ Unseen(e, c)
        BY <2>1, HomeMoves
    <2>2. CASE ~\E c \in Names : Holds(f[c], e) /\ Unseen(e, c)
        <3>1. e \in written \ dropped
            BY <1>3, <2>2
        <3>2. PICK m \in Names : Home(e, m)
            BY <3>1 DEF KeepInv
        <3>3. /\ HomeAt(e, m, u, i, f)
              /\ Holds(disk[d][m], e) => Holds(f[m], e) \/ Holds(TreeAt[Len(log)][m], e)
            BY <1>3, <2>2, <3>2
        <3> QED
            BY <3>2, <3>3, HomeStays
    <2> QED
        BY <2>1, <2>2
<1> QED
    BY <1>2, <1>3 DEF KeepInv

\* A conflict copy's name is in no tree.
LEMMA FreeInNoTree ==
    ASSUME DeviceInv, NEW d \in Devices, NEW c \in FreeCopies(d)
    PROVE  /\ \A i \in 1 .. Len(log) : c \notin DOMAIN log[i].ops
           /\ \A i \in 0 .. Len(log) : TreeAt[i][c] = Absent
<1>1. c \in Names /\ \A o \in Devices : rows[o][c] = NoRow
    BY DEF FreeCopies, Names
<1>2. \A i \in 1 .. Len(log) : c \notin DOMAIN log[i].ops
    BY <1>1 DEF DeviceInv, HistoryOK
<1>3. PICK T : T = {i \in Nat : i <= Len(log) /\ TreeAt[i][c] # Absent}
    OBVIOUS
<1>4. Len(log) \in Nat
    BY DeviceFacts
<1>5. ASSUME T # {} PROVE FALSE
    <2>1. PICK x \in T : \A y \in T : x <= y
        BY <1>3, <1>5, LeastNatural
    <2>2. x \in Nat /\ x <= Len(log) /\ TreeAt[x][c] # Absent
        BY <1>3
    <2>3. x # 0
        <3>1. TreeAt[0][c] = Absent
            BY <1>1, TreeFacts DEF EmptyTree
        <3> QED
            BY <2>2, <3>1
    <2>4. PICK y : y = x - 1
        OBVIOUS
    <2>5. y \in Nat /\ y + 1 = x /\ y <= Len(log) /\ y \notin T /\ x \in 1 .. Len(log)
        BY <1>4, <2>1, <2>2, <2>3, <2>4
    <2>6. TreeAt[x] = Applied(TreeAt[y], log[x]) /\ TreeAt[y][c] = Absent
        BY <1>3, <2>5, TreeFacts
    <2>7. TreeAt[x][c] = Absent
        BY <1>1, <1>2, <2>5, <2>6 DEF Applied, EmptyTree
    <2> QED
        BY <2>2, <2>7
<1> QED
    BY <1>2, <1>3, <1>4, <1>5

\* Nor does anybody work on it or plan to publish it.
LEMMA FreeUnseen ==
    ASSUME DeviceInv, NEW d \in Devices, NEW c \in FreeCopies(d), NEW e
    PROVE  Unseen(e, c)
<1>1. c \in Names /\ \A o \in Devices : rows[o][c] = NoRow
    BY DEF FreeCopies, Names
<1>2. /\ \A i \in 1 .. Len(log) : c \notin DOMAIN log[i].ops
      /\ \A i \in 0 .. Len(log) : TreeAt[i][c] = Absent
    BY FreeInNoTree
<1>3. ASSUME NEW o \in Devices
      PROVE  /\ run[o].pc \in {"apply", "marked"} => run[o].work[c] = Absent
             /\ run[o].pc \in {"upload", "sent", "saved"} => run[o].plan.tree[c] = Absent
    <2>1. PICK t : t = run[o]
        OBVIOUS
    <2>2. PICK h : h = vault[o].head
        OBVIOUS
    <2>3. RunOK(t, h, rows[o]) /\ h \in Nat /\ Len(log) \in Nat /\ h <= Len(log) /\ t \in Runs
        BY <2>1, <2>2, DeviceFacts
    <2>4. ASSUME t.pc \in {"apply", "marked"} PROVE t.work[c] = Absent
        <3>1. h + 1 \in 1 .. Len(log) /\ h + 1 \in 0 .. Len(log)
            BY <2>3, <2>4 DEF RunOK, Runs
        <3>2. c \notin t.left
            BY <1>2, <2>3, <2>4, <3>1 DEF RunOK
        <3> QED
            BY <1>1, <1>2, <2>3, <2>4, <3>1, <3>2 DEF RunOK
    <2>5. ASSUME t.pc = "upload" PROVE t.plan.tree[c] = Absent
        <3>1. t.plan.tree = Applied(TreeAt[h], t.plan) /\ c \notin DOMAIN t.plan.ops
            BY <1>1, <2>3, <2>5 DEF RunOK, PlanScanned
        <3>2. TreeAt[h][c] = Absent
            BY <1>2, <2>3
        <3> QED
            BY <1>1, <3>1, <3>2 DEF Applied, EmptyTree
    <2>6. ASSUME t.pc \in {"sent", "saved"} PROVE t.plan.tree[c] = Absent
        <3>1. /\ t.plan.expected \in Nat /\ t.plan.expected + 1 <= Len(log) /\ log[t.plan.expected + 1] = t.plan
            BY <2>3, <2>6 DEF RunOK, CommitOK, Commits
        <3>2. PICK i : i = t.plan.expected + 1
            OBVIOUS
        <3>3. i \in 1 .. Len(log) /\ i \in 0 .. Len(log) /\ log[i] = t.plan
            BY <2>3, <3>1, <3>2
        <3>4. t.plan.tree = TreeAt[i]
            BY <3>3 DEF DeviceInv, HistoryOK, Fits
        <3> QED
            BY <1>2, <3>3, <3>4
    <2> QED
        BY <2>1, <2>4, <2>5, <2>6
<1> QED
    BY <1>2, <1>3 DEF Unseen, Holds

\* Nor is an edit that is still to be made anywhere.
LEMMA NewUnseen ==
    ASSUME DeviceInv, NEW e, e \notin written, NEW n \in Names
    PROVE  Unseen(e, n)
<1>1. \A i \in 0 .. Len(log) : TreeAt[i] \in KnownTrees
    BY TreeKnown
<1>2. ASSUME NEW o \in Devices
      PROVE  /\ run[o].work \in KnownTrees
             /\ run[o].pc \in {"upload", "sent", "saved"} => run[o].plan.tree \in KnownTrees
    BY DeviceFacts DEF RunOK, CommitOK
<1>3. \A w \in KnownTrees : ~Holds(w[n], e)
    BY DEF KnownTrees, Known, Holds
<1> QED
    BY <1>1, <1>2, <1>3 DEF Unseen

-----------------------------------------------------------------------------
(* Steps that leave the files of a device, or add to them.                 *)

\* A home's facts about a device.
LEMMA HomeFacts ==
    ASSUME NEW e, NEW m, Home(e, m), NEW d \in Devices
    PROVE  HomeAt(e, m, run[d], vault[d].head, disk[d])
BY DEF Home

\* A run that neither applies nor publishes needs nothing of the files.
LEMMA QuietStep ==
    ASSUME DeviceInv, KeepInv, NEW d \in Devices, NEW u, NEW f, NEW r, StepOf(d, u, vault[d].head, f), rows'[d] = r,
           u.pc \in {"idle", "pull", "push"}, u.read = NoRow,
           \A e \in written' \ dropped' :
             \/ \E c \in Names : Holds(f[c], e) /\ Unseen(e, c)
             \/ e \in written \ dropped /\ \A m \in Names : Holds(disk[d][m], e) => Holds(f[m], e)
    PROVE  KeepInv'
<1>1. PICK h : h = vault[d].head
    OBVIOUS
<1>2. h \in 0 .. Len(log)
    BY <1>1, DeviceFacts
<1>3. PullOK(u, h, r, f)
    BY DEF PullOK
<1>4. ASSUME NEW e, NEW m, Home(e, m), Holds(disk[d][m], e) => Holds(f[m], e)
      PROVE  HomeAt(e, m, u, h, f)
    BY <1>1, <1>4, HomeFacts DEF HomeAt
<1>5. StepOf(d, u, h, f)
    BY <1>1
<1> QED
    BY <1>2, <1>3, <1>4, <1>5, KeepStep

\* The same for a step that leaves the files, and what users wrote.
LEMMA QuietRun ==
    ASSUME DeviceInv, KeepInv, NEW d \in Devices, NEW u, NEW r, run' = [run EXCEPT ![d] = u], rows' = [rows EXCEPT ![d] = r],
           UNCHANGED <<log, disk, vault, written, dropped>>,
           u.pc \in {"idle", "pull", "push"}, u.read = NoRow
    PROVE  KeepInv'
<1>1. PICK f : f = disk[d]
    OBVIOUS
<1>2. Typed
    BY DEF DeviceInv
<1>3. StepOf(d, u, vault[d].head, f) /\ rows'[d] = r
    BY <1>1, <1>2 DEF StepOf, Typed
<1> QED
    BY <1>1, <1>3, QuietStep

\* A run that is idle has read nothing.
LEMMA IdleRead ==
    ASSUME DeviceInv, NEW d \in Devices, run[d].pc # "apply"
    PROVE  run[d].read = NoRow
BY DeviceFacts DEF RunOK

\* A user adds something to a file: this file is the edit's home.
LEMMA EditKeeps ==
    ASSUME DeviceInv, KeepInv, ~EditDuringRun, NEW d \in Devices, NEW n \in Files, NEW e \in Edits, Edit(d, n, e)
    PROVE  KeepInv'
<1>1. PICK x : x = IF disk[d][n] = Absent THEN {e} ELSE disk[d][n] \cup {e}
    OBVIOUS
<1>2. PICK f : f = [disk[d] EXCEPT ![n] = x]
    OBVIOUS
<1>3. /\ written' = written \cup {e} /\ run[d].pc = "idle" /\ e \notin written
      /\ UNCHANGED <<log, lastSeq, rows, vault, tree, run, dropped>>
    BY DEF Edit
<1>4. disk' = [disk EXCEPT ![d] = f]
    <2>1. disk' = [disk EXCEPT ![d][n] = IF @ = Absent THEN {e} ELSE @ \cup {e}]
        BY DEF Edit
    <2> QED
        BY <1>1, <1>2, <2>1, Zenon
<1>5. n \in Names /\ disk[d] \in KnownTrees /\ Typed
    BY DeviceFacts DEF Names, DeviceInv
<1>6. f[n] = x /\ \A m \in Names \ {n} : f[m] = disk[d][m]
    BY <1>2, <1>5 DEF KnownTrees
<1>7. x # Absent /\ e \in x /\ (disk[d][n] # Absent => disk[d][n] \subseteq x)
    <2>1. x \in SUBSET Edits
        BY <1>1, <1>5 DEF KnownTrees, Known, Typed
    <2> QED
        BY <1>1, <2>1, DeviceAssumption
<1>8. PICK u : u = run[d]
    OBVIOUS
<1>9. PICK r : r = rows[d]
    OBVIOUS
<1>10. StepOf(d, u, vault[d].head, f) /\ rows'[d] = r
    BY <1>3, <1>4, <1>5, <1>8, <1>9 DEF StepOf, Typed
<1>11. u.pc = "idle" /\ u.read = NoRow
    BY <1>3, <1>8, IdleRead
<1>12. ASSUME NEW g, NEW m \in Names, Holds(disk[d][m], g) PROVE Holds(f[m], g)
    BY <1>6, <1>7, <1>12 DEF Holds
<1>13. Holds(f[n], e) /\ Unseen(e, n)
    BY <1>3, <1>5, <1>6, <1>7, NewUnseen DEF Holds
<1> QED
    BY <1>3, <1>5, <1>10, <1>11, <1>12, <1>13, QuietStep

\* A user deletes a file, and with it what is in it.
LEMMA DeleteKeeps ==
    ASSUME DeviceInv, KeepInv, ~EditDuringRun, NEW d \in Devices, NEW n \in Names, Delete(d, n)
    PROVE  KeepInv'
<1>1. PICK f : f = [disk[d] EXCEPT ![n] = Absent]
    OBVIOUS
<1>2. /\ dropped' = dropped \cup disk[d][n] /\ run[d].pc = "idle"
      /\ UNCHANGED <<log, lastSeq, rows, vault, tree, run, written>>
    BY DEF Delete
<1>3. disk' = [disk EXCEPT ![d] = f]
    <2>1. disk' = [disk EXCEPT ![d][n] = Absent]
        BY DEF Delete
    <2> QED
        BY <1>1, <2>1, Zenon
<1>4. disk[d] \in KnownTrees /\ Typed
    BY DeviceFacts DEF DeviceInv
<1>5. \A m \in Names \ {n} : f[m] = disk[d][m]
    BY <1>1, <1>4 DEF KnownTrees
<1>6. PICK u : u = run[d]
    OBVIOUS
<1>7. PICK r : r = rows[d]
    OBVIOUS
<1>8. StepOf(d, u, vault[d].head, f) /\ rows'[d] = r
    BY <1>2, <1>3, <1>4, <1>6, <1>7 DEF StepOf, Typed
<1>9. u.pc = "idle" /\ u.read = NoRow
    BY <1>2, <1>6, IdleRead
<1>10. ASSUME NEW e \in written' \ dropped', NEW m \in Names, Holds(disk[d][m], e) PROVE Holds(f[m], e)
    BY <1>2, <1>5, <1>10 DEF Holds
<1>11. \A e \in written' \ dropped' : e \in written \ dropped
    BY <1>2
<1> QED
    BY <1>8, <1>9, <1>10, <1>11, QuietStep

\* The status poll touches rows only.
LEMMA StatusScanKeeps ==
    ASSUME DeviceInv, KeepInv, NEW d \in Devices, StatusScan(d)
    PROVE  KeepInv'
<1>1. PICK r : rows' = [rows EXCEPT ![d] = r]
    BY DEF StatusScan
<1>2. PICK u : u = run[d]
    OBVIOUS
<1>3. run' = [run EXCEPT ![d] = u] /\ UNCHANGED <<log, disk, vault, written, dropped>> /\ u.pc = "idle"
    BY <1>2 DEF StatusScan, DeviceInv, Typed
<1>4. u.read = NoRow
    BY <1>2, <1>3, IdleRead
<1> QED
    BY <1>1, <1>3, <1>4, QuietRun

\* A run fails, or the app quits.
LEMMA RunFailKeeps ==
    ASSUME DeviceInv, KeepInv, NEW d \in Devices, RunFail(d)
    PROVE  KeepInv'
<1>1. PICK r : r = rows[d]
    OBVIOUS
<1>2. PICK u : u = Idle
    OBVIOUS
<1>3. /\ run' = [run EXCEPT ![d] = u] /\ rows' = [rows EXCEPT ![d] = r]
      /\ UNCHANGED <<log, disk, vault, written, dropped>>
    BY <1>1, <1>2 DEF RunFail, DeviceInv, Typed
<1>4. u.pc = "idle" /\ u.read = NoRow
    BY <1>2 DEF Idle
<1> QED
    BY <1>3, <1>4, QuietRun

\* A head conflict: the run pulls again, or ends.
LEMMA PublishConflictKeeps ==
    ASSUME DeviceInv, KeepInv, NEW d \in Devices, PublishConflict(d)
    PROVE  KeepInv'
<1>1. PICK r : r = rows[d]
    OBVIOUS
<1>2. PICK q : q = [Idle EXCEPT !.pc = "pull", !.second = TRUE, !.parent = run[d].parent]
    OBVIOUS
<1>3. PICK u : u = IF run[d].second THEN Idle ELSE q
    OBVIOUS
<1>4. /\ run' = [run EXCEPT ![d] = u] /\ UNCHANGED <<log, disk, rows, vault, written, dropped>>
    BY <1>2, <1>3, Zenon DEF PublishConflict
<1>5. rows' = [rows EXCEPT ![d] = r]
    BY <1>1, <1>4 DEF DeviceInv, Typed
<1>6. q.pc = "pull" /\ q.read = NoRow /\ Idle.pc = "idle" /\ Idle.read = NoRow
    BY <1>2 DEF Idle
<1>7. u.pc \in {"idle", "pull", "push"} /\ u.read = NoRow
    BY <1>3, <1>6
<1> QED
    BY <1>4, <1>5, <1>7, QuietRun

-----------------------------------------------------------------------------
(* Pull keeps the edits.                                                   *)

\* A run that turns to the next commit keeps what the pull goes by.
NextOf(t, u, w) ==
    /\ u.read = NoRow
    /\ \/ u.pc = "push"
       \/ /\ u.pc = "apply" /\ u.snap = t.snap /\ u.gone = t.gone /\ u.target = t.target
          /\ \A n \in Names : u.work[n] \in {Absent, w[n]}

\* As NextCommit says.
LEMMA NextFields ==
    ASSUME NEW t \in Runs, t.read = NoRow, NEW i, NEW w
    PROVE  NextOf(t, NextCommit(t, i, w), w)
<1>1. PICK u : u = NextCommit(t, i, w)
    OBVIOUS
<1>2. CASE i = t.target
    <2>1. PICK p : p = IF t.second THEN t.parent ELSE i
        OBVIOUS
    <2>2. u = [t EXCEPT !.pc = "push", !.snap = {}, !.gone = {}, !.left = {}, !.work = EmptyTree,
                        !.synced = {}, !.target = 0, !.parent = p]
        BY <1>1, <1>2, <2>1, Zenon DEF NextCommit
    <2>3. u.pc = "push" /\ u.read = t.read
        BY <2>2 DEF Runs
    <2> QED
        BY <1>1, <2>3 DEF NextOf
<1>3. CASE i # t.target
    <2>1. PICK S : S = DOMAIN log[i + 1].ops
        OBVIOUS
    <2>2. PICK b : b = IF log[i + 1].kind = "checkpoint" THEN EmptyTree ELSE w
        OBVIOUS
    <2>3. u = [t EXCEPT !.pc = "apply", !.left = S, !.synced = {}, !.work = b]
        BY <1>1, <1>3, <2>1, <2>2, Zenon DEF NextCommit
    <2>4. u.pc = "apply" /\ u.read = t.read /\ u.snap = t.snap /\ u.gone = t.gone /\ u.target = t.target /\ u.work = b
        BY <2>3 DEF Runs
    <2>5. \A n \in Names : b[n] \in {Absent, w[n]}
        BY <2>2 DEF EmptyTree
    <2> QED
        BY <1>1, <2>4, <2>5 DEF NextOf
<1> QED
    BY <1>2, <1>3

\* The tree a pull works on is the local one, which the files hold.
LEMMA WorkHome ==
    ASSUME NEW e, NEW m \in Names, NEW t, NEW u, NEW i, NEW f, NextOf(t, u, TreeAt[i]), Holds(TreeAt[i][m], e) => Holds(f[m], e)
    PROVE  HomeAt(e, m, u, i, f)
BY DEF NextOf, HomeAt, Holds

\* A pull begins.
LEMMA PullStartKeeps ==
    ASSUME DeviceInv, KeepInv, ~EditDuringRun, NEW d \in Devices, PullStart(d)
    PROVE  KeepInv'
<1>1. PICK h : h = vault[d].head
    OBVIOUS
<1>2. PICK t : t = run[d]
    OBVIOUS
<1>3. PICK k : k = Len(log)
    OBVIOUS
<1>4. PICK f : f = disk[d]
    OBVIOUS
<1>5. /\ h \in 0 .. Len(log) /\ k \in Nat /\ rows[d] \in RowSets /\ f \in Trees /\ tree[d] = TreeAt[h] /\ t \in Runs
      /\ CleanOK(rows[d]) /\ Typed
    BY <1>1, <1>2, <1>3, <1>4, DeviceFacts DEF DeviceInv
<1>6. t.pc \in {"idle", "pull"} /\ UNCHANGED <<log, disk, vault, written, dropped>>
    BY <1>2 DEF PullStart
<1>7. t.read = NoRow
    BY <1>2, <1>6, IdleRead
<1>8. PICK b : b = [t EXCEPT !.target = k]
    OBVIOUS
<1>9. b \in Runs /\ b.read = NoRow /\ b.target = k
    BY <1>5, <1>7, <1>8, Zenon DEF Runs
<1>10. CASE h = k
    <2>1. PICK u : u = NextCommit(b, h, TreeAt[h])
        OBVIOUS
    <2>2. run' = [run EXCEPT ![d] = u] /\ UNCHANGED rows
        <3>1. run' = [run EXCEPT ![d] = NextCommit(b, h, tree[d])] /\ UNCHANGED rows
            BY <1>1, <1>2, <1>3, <1>8, <1>10, Zenon DEF PullStart
        <3> QED
            BY <1>5, <2>1, <3>1
    <2>3. PICK r : r = rows[d]
        OBVIOUS
    <2>4. rows' = [rows EXCEPT ![d] = r]
        BY <1>5, <2>2, <2>3 DEF Typed
    <2>5. u.pc = "push" /\ u.read = NoRow
        <3>1. PICK p : p = IF b.second THEN b.parent ELSE h
            OBVIOUS
        <3>2. u = [b EXCEPT !.pc = "push", !.snap = {}, !.gone = {}, !.left = {}, !.work = EmptyTree,
                            !.synced = {}, !.target = 0, !.parent = p]
            BY <1>9, <1>10, <2>1, <3>1, Zenon DEF NextCommit
        <3> QED
            BY <1>9, <3>2 DEF Runs
    <2> QED
        BY <1>6, <2>2, <2>4, <2>5, QuietRun
<1>11. CASE h # k
    <2>1. PICK s : s = Scanned(rows[d], disk[d])
        OBVIOUS
    <2>2. PICK D : D = Dirty(s)
        OBVIOUS
    <2>3. PICK G : G = {n \in D : s[n].hash = Absent}
        OBVIOUS
    <2>4. PICK q : q = [b EXCEPT !.snap = D, !.gone = G]
        OBVIOUS
    <2>5. PICK w : w = IF tree[d] = EmptyTree THEN TreeAt[h] ELSE tree[d]
        OBVIOUS
    <2>6. PICK u : u = NextCommit(q, h, w)
        OBVIOUS
    <2>7. rows' = [rows EXCEPT ![d] = s] /\ run' = [run EXCEPT ![d] = u]
        <3>1. /\ rows' = [rows EXCEPT ![d] = s]
              /\ run' = [run EXCEPT ![d] =
                    NextCommit([[run[d] EXCEPT !.target = Len(log)]
                                    EXCEPT !.snap = Dirty(s), !.gone = {n \in Dirty(s) : s[n].hash = Absent}],
                               vault[d].head, IF tree[d] = EmptyTree THEN TreeAt[vault[d].head] ELSE tree[d])]
            BY <1>1, <1>3, <1>11, <2>1, Zenon DEF PullStart
        <3> QED
            BY <1>1, <1>2, <1>3, <1>8, <2>2, <2>3, <2>4, <2>5, <2>6, <3>1, Zenon
    <2>8. w = TreeAt[h]
        BY <1>5, <2>5
    <2>9. D \in SUBSET Names /\ G \in SUBSET Names /\ G \subseteq D
        BY <2>2, <2>3 DEF Dirty
    <2>10. q \in Runs /\ q.target = k /\ q.read = NoRow /\ q.snap = D /\ q.gone = G
        BY <1>9, <2>4, <2>9, Zenon DEF Runs
    <2>11. NextOf(q, u, TreeAt[h])
        BY <2>6, <2>8, <2>10, NextFields
    <2>12. ScanOf(rows[d], s, f) /\ CleanOK(s)
        <3>1. ScanOf(rows[d], s, f)
            BY <1>4, <1>5, <2>1, ScannedFacts
        <3> QED
            BY <1>5, <3>1, ScanClean
    <2>13. \A n \in G : n \in Names /\ f[n] = Absent /\ s[n] # NoRow
        BY <2>2, <2>3, <2>12 DEF ScanOf, Dirty
    <2>14. ASSUME NEW n \in Names \ D PROVE f[n] = Absent \/ \E i \in 0 .. Len(log) : TreeAt[i][n] = f[n]
        <3>1. s[n] = NoRow \/ ~s[n].dirty
            BY <2>2, <2>14 DEF Dirty
        <3> QED
            BY <2>12, <3>1 DEF ScanOf, CleanOK
    <2>15. PullOK(u, h, s, f)
        <3>1. CASE u.pc = "push"
            BY <2>11, <3>1 DEF PullOK, NextOf
        <3>2. CASE u.pc = "apply"
            <4>1. u.snap = D /\ u.gone = G /\ u.read = NoRow /\ \A n \in Names : u.work[n] \in {Absent, TreeAt[h][n]}
                BY <2>10, <2>11, <3>2 DEF NextOf
            <4>2. u.left \subseteq Names
                <5>1. RunOK(u, h, s)
                    <6>1. q.parent <= Len(log) /\ q.local \in Known
                        <7>1. RunOK(t, h, rows[d])
                            BY <1>1, <1>2, DeviceFacts
                        <7>2. q.parent = t.parent /\ q.local = t.local
                            BY <1>5, <1>8, <1>9, <2>4, <2>9 DEF Runs
                        <7> QED
                            BY <7>1, <7>2 DEF RunOK
                    <6>2. q.target <= Len(log) /\ h \in Nat /\ h <= q.target
                        BY <1>3, <1>5, <2>10
                    <6> QED
                        BY <2>6, <2>8, <2>10, <6>1, <6>2, NextCommitOK
                <5> QED
                    BY <5>1 DEF RunOK, Runs
            <4> QED
                BY <2>9, <2>13, <2>14, <3>2, <4>1, <4>2 DEF PullOK
        <3> QED
            BY <2>11, <3>1, <3>2 DEF NextOf
    <2>16. StepOf(d, u, h, f) /\ rows'[d] = s
        BY <1>1, <1>4, <1>5, <1>6, <2>7 DEF StepOf, Typed
    <2>17. ASSUME NEW e, NEW m \in Names, Home(e, m) PROVE HomeAt(e, m, u, h, f)
        <3>1. Holds(TreeAt[h][m], e) => Holds(f[m], e)
            BY <1>1, <1>4, <2>17, HomeFacts DEF HomeAt
        <3> QED
            BY <2>11, <3>1, WorkHome
    <2> QED
        BY <1>4, <1>5, <1>6, <2>15, <2>16, <2>17, KeepStep
<1> QED
    BY <1>10, <1>11

\* A step that leaves the files and the tree the pull works on.
LEMMA WorkStep ==
    ASSUME DeviceInv, KeepInv, NEW d \in Devices, NEW u, NEW r, run' = [run EXCEPT ![d] = u], rows' = [rows EXCEPT ![d] = r],
           UNCHANGED <<log, disk, vault, written, dropped>>, run[d].pc = "apply", u.pc \in {"apply", "marked"},
           u.work = run[d].work, PullOK(u, vault[d].head, r, disk[d])
    PROVE  KeepInv'
<1>1. PICK h : h = vault[d].head
    OBVIOUS
<1>2. PICK f : f = disk[d]
    OBVIOUS
<1>3. h \in 0 .. Len(log) /\ Typed
    BY <1>1, DeviceFacts DEF DeviceInv
<1>4. StepOf(d, u, h, f) /\ rows'[d] = r /\ PullOK(u, h, r, f)
    BY <1>1, <1>2, <1>3 DEF StepOf, Typed
<1>5. ASSUME NEW e, NEW m, Home(e, m) PROVE HomeAt(e, m, u, h, f)
    BY <1>1, <1>2, <1>5, HomeFacts DEF HomeAt
<1> QED
    BY <1>2, <1>3, <1>4, <1>5, KeepStep

\* A merge reads the file.
LEMMA ReadLocalKeeps ==
    ASSUME DeviceInv, KeepInv, NEW d \in Devices, NEW n \in Names, ReadLocal(d, n)
    PROVE  KeepInv'
<1>1. PICK t : t = run[d]
    OBVIOUS
<1>2. PICK x : x = disk[d][n]
    OBVIOUS
<1>3. PICK u : u = [t EXCEPT !.read = n, !.local = x]
    OBVIOUS
<1>4. PICK r : r = rows[d]
    OBVIOUS
<1>5. /\ t.pc = "apply" /\ n \in t.snap \ t.gone /\ UNCHANGED <<log, disk, vault, rows, written, dropped>>
    BY <1>1 DEF ReadLocal
<1>6. run' = [run EXCEPT ![d] = u]
    <2>1. run' = [run EXCEPT ![d].read = n, ![d].local = disk[d][n]]
        BY DEF ReadLocal
    <2> QED
        BY <1>1, <1>2, <1>3, <2>1, Zenon
<1>7. t \in Runs /\ rows' = [rows EXCEPT ![d] = r]
    BY <1>1, <1>4, <1>5, DeviceFacts DEF DeviceInv, Typed
<1>8. /\ u.pc = t.pc /\ u.snap = t.snap /\ u.gone = t.gone /\ u.target = t.target /\ u.left = t.left /\ u.work = t.work
      /\ u.read = n /\ u.local = x
    BY <1>3, <1>7 DEF Runs
<1>9. PullOK(t, vault[d].head, r, disk[d])
    BY <1>1, <1>4 DEF KeepInv
<1>10. PullOK(u, vault[d].head, r, disk[d])
    BY <1>2, <1>5, <1>8, <1>9 DEF PullOK
<1>11. u.pc \in {"apply", "marked"} /\ u.work = run[d].work /\ run[d].pc = "apply"
    BY <1>1, <1>5, <1>8
<1>12. UNCHANGED <<log, disk, vault, written, dropped>>
    BY <1>5
<1> QED
    BY <1>6, <1>7, <1>10, <1>11, <1>12, WorkStep

\* A commit is applied, and the files are marked.
LEMMA PersistAppliedKeeps ==
    ASSUME DeviceInv, KeepInv, NEW d \in Devices, PersistApplied(d)
    PROVE  KeepInv'
<1>1. PICK t : t = run[d]
    OBVIOUS
<1>2. PICK s : s = Scanned(rows[d], disk[d])
    OBVIOUS
<1>3. PICK r : r = Marked(s, t.synced)
    OBVIOUS
<1>4. PICK u : u = [t EXCEPT !.pc = "marked"]
    OBVIOUS
<1>5. t.pc = "apply" /\ t.left = {} /\ UNCHANGED <<log, disk, vault, written, dropped>>
    BY <1>1 DEF PersistApplied
<1>6. run' = [run EXCEPT ![d] = u] /\ rows' = [rows EXCEPT ![d] = r]
    <2>1. run' = [run EXCEPT ![d].pc = "marked"]
        BY DEF PersistApplied
    <2>2. run' = [run EXCEPT ![d] = u]
        BY <1>1, <1>4, <2>1, Zenon
    <2>3. rows' = [rows EXCEPT ![d] = r]
        BY <1>1, <1>2, <1>3 DEF PersistApplied
    <2> QED
        BY <2>2, <2>3
<1>7. t \in Runs /\ rows[d] \in RowSets /\ disk[d] \in Trees /\ RunOK(t, vault[d].head, rows[d])
    BY <1>1, DeviceFacts
<1>8. ScanOf(rows[d], s, disk[d])
    BY <1>2, <1>7, ScannedFacts
<1>9. MarkOf(s, r, t.synced)
    BY <1>3, <1>8, MarkedFacts DEF ScanOf
<1>10. Keeps(rows[d], r)
    BY <1>8, <1>9 DEF ScanOf, MarkOf, Keeps
<1>11. /\ u.pc = "marked" /\ u.snap = t.snap /\ u.gone = t.gone /\ u.target = t.target /\ u.work = t.work /\ u.read = t.read
    BY <1>4, <1>7 DEF Runs
<1>12. t.read = NoRow
    BY <1>5, <1>7 DEF RunOK
<1>13. PullOK(t, vault[d].head, rows[d], disk[d])
    BY <1>1 DEF KeepInv
<1>14. PullOK(u, vault[d].head, r, disk[d])
    BY <1>5, <1>10, <1>11, <1>12, <1>13 DEF PullOK, Keeps
<1> QED
    BY <1>1, <1>5, <1>6, <1>11, <1>14, WorkStep

\* The local head moves to the commit that was applied.
LEMMA AdvanceHeadKeeps ==
    ASSUME DeviceInv, KeepInv, NEW d \in Devices, AdvanceHead(d)
    PROVE  KeepInv'
<1>1. PICK t : t = run[d]
    OBVIOUS
<1>2. PICK h : h = vault[d].head
    OBVIOUS
<1>3. PICK w : w = t.work
    OBVIOUS
<1>4. PICK u : u = NextCommit(t, h + 1, w)
    OBVIOUS
<1>5. PICK f : f = disk[d]
    OBVIOUS
<1>6. PICK r : r = rows[d]
    OBVIOUS
<1>7. /\ t.pc = "marked" /\ UNCHANGED <<log, disk, rows, written, dropped>> /\ run' = [run EXCEPT ![d] = u]
      /\ vault' = [vault EXCEPT ![d].head = @ + 1]
    BY <1>1, <1>2, <1>3, <1>4, Zenon DEF AdvanceHead
<1>8. t \in Runs /\ RunOK(t, h, r) /\ h \in Nat /\ Len(log) \in Nat /\ Typed
    BY <1>1, <1>2, <1>6, DeviceFacts DEF DeviceInv
<1>9. /\ h + 1 \in 0 .. Len(log) /\ t.read = NoRow /\ w \in KnownTrees /\ t.target \in Nat
      /\ t.parent <= Len(log) /\ t.local \in Known /\ h + 1 <= t.target /\ t.target <= Len(log)
      /\ \A n \in Names : w[n] = TreeAt[h + 1][n]
    BY <1>3, <1>7, <1>8 DEF RunOK, Runs
<1>10. PICK i : i = h + 1
    OBVIOUS
<1>11. w = TreeAt[i]
    <2>1. TreeAt[i] \in KnownTrees
        BY <1>9, <1>10, TreeKnown
    <2> QED
        BY <1>9, <1>10, <2>1 DEF KnownTrees
<1>12. NextOf(t, u, TreeAt[i])
    BY <1>4, <1>8, <1>9, <1>10, <1>11, NextFields
<1>13. u.left \subseteq Names
    <2>1. RunOK(u, i, r)
        <3>1. i \in Nat /\ i <= t.target /\ u = NextCommit(t, i, w)
            BY <1>4, <1>8, <1>9, <1>10
        <3> QED
            BY <1>8, <1>9, <1>11, <3>1, NextCommitOK
    <2> QED
        BY <2>1 DEF RunOK, Runs
<1>14. PullOK(t, h, r, f)
    BY <1>1, <1>2, <1>5, <1>6 DEF KeepInv
<1>15. PullOK(u, i, r, f)
    BY <1>7, <1>12, <1>13, <1>14 DEF PullOK, NextOf
<1>16. StepOf(d, u, i, f) /\ rows'[d] = r
    BY <1>2, <1>5, <1>6, <1>7, <1>8, <1>10 DEF StepOf, Typed
<1>17. ASSUME NEW e, NEW m \in Names, Home(e, m) PROVE HomeAt(e, m, u, i, f)
    <2>1. HomeAt(e, m, t, h, f)
        BY <1>1, <1>2, <1>5, <1>17, HomeFacts
    <2>2. Holds(TreeAt[i][m], e) => Holds(f[m], e)
        BY <1>3, <1>7, <1>11, <2>1 DEF HomeAt
    <2> QED
        BY <1>12, <2>2, WorkHome
<1>18. i \in 0 .. Len(log)
    BY <1>9, <1>10
<1> QED
    BY <1>5, <1>7, <1>15, <1>16, <1>17, <1>18, KeepStep

-----------------------------------------------------------------------------
(* Applying a change keeps the edits.                                      *)

\* The name of a conflict copy that is yet to be made is nobody's home.
LEMMA FreeNoHome ==
    ASSUME DeviceInv, NEW d \in Devices, NEW c \in FreeCopies(d), NEW e, Home(e, c)
    PROVE  FALSE
<1>1. \A o \in Devices : disk[o][c] = Absent
    BY Zenon DEF FreeCopies
<1>2. Len(log) \in 0 .. Len(log)
    BY DeviceFacts
<1>3. TreeAt[Len(log)][c] = Absent
    BY <1>2, FreeInNoTree
<1> QED
    BY <1>1, <1>3 DEF Home, Holds

\* An edit in the local tree under its home is in the remote version, too.
LEMMA RemoteHolds ==
    ASSUME DeviceInv, NEW d \in Devices, run[d].pc = "apply", NEW n \in run[d].left, NEW e, Home(e, n),
           NEW i \in 0 .. vault[d].head, Holds(TreeAt[i][n], e)
    PROVE  Holds(Remote(d, n), e)
<1>1. PICK j : j = vault[d].head + 1
    OBVIOUS
<1>2. j \in 1 .. Len(log) /\ TreeAt[j][n] = Remote(d, n) /\ vault[d].head \in Nat /\ Len(log) \in Nat
    BY <1>1, ApplyFacts, DeviceFacts
<1>3. i \in 0 .. Len(log) /\ j \in 0 .. Len(log) /\ i <= j
    BY <1>1, <1>2
<1>4. Holds(TreeAt[j][n], e)
    BY <1>3 DEF Home, StaysInHistory
<1> QED
    BY <1>2, <1>4

\* The change of file n is done, and no other file but perhaps a conflict copy is
\* written.  What is left to show is about the edits whose home is n.
LEMMA ChangeKeeps ==
    ASSUME DeviceInv, KeepInv, NEW d \in Devices, run[d].pc = "apply", NEW n \in run[d].left, NEW f, NEW clean,
           ChangeDone(d, n, f, clean),
           \A m \in Names \ {n} : f[m] = disk[d][m] \/ m \in FreeCopies(d),
           n \in run[d].gone => f[n] = Absent,
           n \notin run[d].snap => f[n] = Remote(d, n),
           \A e : Home(e, n) =>
             \/ \E c \in Names : Holds(f[c], e) /\ Unseen(e, c)
             \/ /\ Holds(Remote(d, n), e) => Holds(f[n], e)
                /\ Holds(disk[d][n], e) => Holds(f[n], e) \/ Holds(TreeAt[Len(log)][n], e)
    PROVE  KeepInv'
<1>1. PICK h : h = vault[d].head
    OBVIOUS
<1>2. PICK t : t = run[d]
    OBVIOUS
<1>3. PICK x : x = Remote(d, n)
    OBVIOUS
<1>4. PICK r : r = rows[d]
    OBVIOUS
<1>5. /\ h + 1 \in 1 .. Len(log) /\ n \in DOMAIN log[h + 1].ops /\ n \in Names /\ TreeAt[h + 1][n] = x
      /\ h \in Nat /\ h \in 0 .. Len(log) /\ Len(log) \in Nat
    BY <1>1, <1>3, ApplyFacts, DeviceFacts
<1>6. t \in Runs /\ RunOK(t, h, r) /\ t.pc = "apply" /\ n \in t.left /\ Typed /\ t.work \in KnownTrees
    BY <1>1, <1>2, <1>4, DeviceFacts DEF RunOK, DeviceInv
<1>7. PICK L : L = t.left \ {n}
    OBVIOUS
<1>8. PICK w : w = [t.work EXCEPT ![n] = x]
    OBVIOUS
<1>9. PICK S : S = IF clean THEN t.synced \cup {n} ELSE t.synced
    OBVIOUS
<1>10. PICK u : u = [t EXCEPT !.left = L, !.work = w, !.synced = S, !.read = NoRow, !.local = Absent]
    OBVIOUS
<1>11. run' = [run EXCEPT ![d] = u]
    <2>1. run' = [run EXCEPT ![d].left = @ \ {n}, ![d].work = [@ EXCEPT ![n] = Remote(d, n)],
                             ![d].synced = IF clean THEN @ \cup {n} ELSE @, ![d].read = NoRow, ![d].local = Absent]
        BY DEF ChangeDone
    <2> QED
        BY <1>2, <1>3, <1>7, <1>8, <1>9, <1>10, <2>1, Zenon
<1>12. w[n] = x /\ \A m \in Names \ {n} : w[m] = t.work[m]
    BY <1>5, <1>6, <1>8 DEF KnownTrees
<1>13. /\ u.pc = "apply" /\ u.target = t.target /\ u.left = L /\ u.work = w /\ u.snap = t.snap /\ u.gone = t.gone
       /\ u.read = NoRow
    BY <1>6, <1>10 DEF Runs
<1>14. StepOf(d, u, h, f) /\ rows'[d] = r /\ UNCHANGED <<written, dropped>>
    BY <1>1, <1>4, <1>6, <1>11 DEF StepOf, ChangeDone, Typed
<1>15. PullOK(t, h, r, disk[d])
    BY <1>1, <1>2, <1>4 DEF KeepInv
<1>16. PullOK(u, h, r, f)
    <2>1. ASSUME NEW m \in t.gone PROVE m \in Names /\ f[m] = Absent /\ r[m] # NoRow
        <3>1. m \in Names /\ disk[d][m] = Absent /\ r[m] # NoRow
            BY <1>6, <1>15, <2>1 DEF PullOK
        <3>2. m \notin FreeCopies(d)
            BY <1>4, <3>1 DEF FreeCopies
        <3> QED
            BY <1>2, <2>1, <3>1, <3>2
    <2>2. ASSUME NEW m \in Names \ t.snap
          PROVE  \/ f[m] = Absent
                 \/ \E i \in 0 .. Len(log) : TreeAt[i][m] = f[m]
                 \/ \A i \in 1 .. t.target : m \notin DOMAIN log[i].ops
        <3>1. CASE m = n
            BY <1>2, <1>3, <1>5, <2>2, <3>1
        <3>2. CASE m # n /\ f[m] = disk[d][m]
            BY <1>6, <1>15, <2>2, <3>2 DEF PullOK
        <3>3. CASE m \in FreeCopies(d)
            <4>1. \A i \in 1 .. Len(log) : m \notin DOMAIN log[i].ops
                BY <3>3, FreeInNoTree
            <4>2. t.target <= Len(log) /\ t.target \in Nat
                BY <1>6 DEF RunOK, Runs
            <4> QED
                BY <1>5, <4>1, <4>2
        <3> QED
            BY <2>2, <3>1, <3>2, <3>3
    <2>3. ASSUME NEW m \in L PROVE w[m] \in {Absent, TreeAt[h][m]}
        <3>1. m \in t.left /\ m \in Names \ {n}
            BY <1>6, <1>7, <2>3 DEF Runs
        <3>2. t.work[m] \in {Absent, TreeAt[h][m]}
            BY <1>6, <1>15, <3>1 DEF PullOK
        <3> QED
            BY <1>12, <3>1, <3>2
    <2>4. t.gone \subseteq t.snap
        BY <1>6, <1>15 DEF PullOK
    <2> QED
        BY <1>13, <2>1, <2>2, <2>3, <2>4 DEF PullOK
<1>17. ASSUME NEW e, NEW m \in Names, Home(e, m)
       PROVE  \/ \E c \in Names : Holds(f[c], e) /\ Unseen(e, c)
              \/ /\ HomeAt(e, m, u, h, f)
                 /\ Holds(disk[d][m], e) => Holds(f[m], e) \/ Holds(TreeAt[Len(log)][m], e)
    <2>1. HomeAt(e, m, t, h, disk[d])
        BY <1>1, <1>2, <1>17, HomeFacts
    <2>2. CASE m = n
        <3>1. CASE \E c \in Names : Holds(f[c], e) /\ Unseen(e, c)
            BY <3>1
        <3>2. CASE /\ Holds(x, e) => Holds(f[n], e)
                   /\ Holds(disk[d][n], e) => Holds(f[n], e) \/ Holds(TreeAt[Len(log)][n], e)
            <4>1. Holds(TreeAt[h][n], e) => Holds(x, e)
                <5>1. h \in 0 .. vault[d].head
                    BY <1>1, <1>5
                <5> QED
                    BY <1>3, <1>17, <2>2, <5>1, RemoteHolds
            <4>2. HomeAt(e, n, u, h, f)
                BY <1>12, <1>13, <3>2, <4>1 DEF HomeAt
            <4> QED
                BY <2>2, <3>2, <4>2
        <3> QED
            BY <1>3, <1>17, <2>2, <3>1, <3>2
    <2>3. CASE m # n
        <3>1. f[m] = disk[d][m]
            BY <1>17, <2>3, FreeNoHome
        <3>2. HomeAt(e, m, u, h, f)
            BY <1>6, <1>12, <1>13, <2>1, <2>3, <3>1 DEF HomeAt
        <3> QED
            BY <3>1, <3>2
    <2> QED
        BY <2>2, <2>3
<1> QED
    BY <1>5, <1>14, <1>16, <1>17, KeepStep

\* A file that is not dirty, or is deleted on both sides: what was in it is in the
\* history, so it is in the newest tree as well.
LEMMA ApplyCleanKeeps ==
    ASSUME DeviceInv, KeepInv, NEW d \in Devices, NEW n \in Names, ApplyClean(d, n)
    PROVE  KeepInv'
<1>1. PICK f : f = [disk[d] EXCEPT ![n] = Remote(d, n)]
    OBVIOUS
<1>2. PICK b : b = TRUE
    OBVIOUS
<1>3. /\ run[d].pc = "apply" /\ n \in run[d].left /\ ChangeDone(d, n, f, b)
      /\ n \notin run[d].snap \/ (n \in run[d].gone /\ Remote(d, n) = Absent)
    BY <1>1, <1>2 DEF ApplyClean
<1>4. f[n] = Remote(d, n) /\ \A m \in Names \ {n} : f[m] = disk[d][m]
    BY <1>1, DeviceFacts DEF KnownTrees
<1>5. PullOK(run[d], vault[d].head, rows[d], disk[d])
    BY DEF KeepInv
<1>6. n \in run[d].gone => f[n] = Absent
    BY <1>3, <1>4, <1>5 DEF PullOK
<1>7. ASSUME NEW e, Home(e, n), Holds(disk[d][n], e) PROVE Holds(TreeAt[Len(log)][n], e)
    <2>1. disk[d][n] # Absent
        BY <1>7 DEF Holds
    <2>2. n \notin run[d].snap
        BY <1>3, <1>5, <2>1 DEF PullOK
    <2>3. ~\A i \in 1 .. run[d].target : n \notin DOMAIN log[i].ops
        <3>1. PICK j : j = vault[d].head + 1
            OBVIOUS
        <3>2. n \in DOMAIN log[j].ops /\ j \in 1 .. Len(log)
            BY <1>3, <3>1, ApplyFacts
        <3>3. run[d].target \in Nat /\ j <= run[d].target
            BY <1>3, <3>1, DeviceFacts DEF RunOK, Runs
        <3>4. j \in 1 .. run[d].target
            BY <3>2, <3>3
        <3> QED
            BY <3>2, <3>4
    <2>4. PICK i \in 0 .. Len(log) : TreeAt[i][n] = disk[d][n]
        BY <1>3, <1>5, <2>1, <2>2, <2>3 DEF PullOK
    <2>5. Len(log) \in 0 .. Len(log) /\ i <= Len(log)
        BY DeviceFacts
    <2> QED
        BY <1>7, <2>4, <2>5 DEF Home, StaysInHistory
<1> QED
    BY <1>3, <1>4, <1>6, <1>7, ChangeKeeps

\* The conflict copy holds what the file does not: a change after which the other
\* files are those in g, with a copy of x.
LEMMA CopyKeeps ==
    ASSUME DeviceInv, KeepInv, NEW d \in Devices, run[d].pc = "apply", NEW n \in run[d].left, NEW c \in FreeCopies(d),
           NEW g \in KnownTrees, NEW x \in Known, NEW clean, ChangeDone(d, n, WithCopy(g, x, c), clean),
           \A m \in Names \ {n} : g[m] = disk[d][m], n \in run[d].snap, n \in run[d].gone => g[n] = Absent,
           \A e : Home(e, n) /\ ~Holds(x, e) =>
             /\ Holds(Remote(d, n), e) => Holds(g[n], e)
             /\ Holds(disk[d][n], e) => Holds(g[n], e)
    PROVE  KeepInv'
<1>1. PICK f : f = WithCopy(g, x, c)
    OBVIOUS
<1>2. c \in Names
    BY DEF FreeCopies, Names
<1>3. c # n
    BY CopyFacts
<1>4. f[c] = x /\ \A m \in Names \ {c} : f[m] = g[m]
    BY <1>1, <1>2 DEF WithCopy, KnownTrees
<1>5. f[n] = g[n]
    BY <1>3, <1>4, ApplyFacts
<1>6. \A m \in Names \ {n} : f[m] = disk[d][m] \/ m \in FreeCopies(d)
    BY <1>4
<1>7. ASSUME NEW e, Home(e, n)
      PROVE  \/ \E q \in Names : Holds(f[q], e) /\ Unseen(e, q)
             \/ /\ Holds(Remote(d, n), e) => Holds(f[n], e)
                /\ Holds(disk[d][n], e) => Holds(f[n], e)
    <2>1. CASE Holds(x, e)
        BY <1>2, <1>4, <2>1, FreeUnseen
    <2>2. CASE ~Holds(x, e)
        BY <1>5, <1>7, <2>2
    <2> QED
        BY <2>1, <2>2
<1>8. ChangeDone(d, n, f, clean)
    BY <1>1
<1>9. n \in run[d].gone => f[n] = Absent
    BY <1>5
<1> QED
    BY <1>6, <1>7, <1>8, <1>9, ChangeKeeps

\* A file that was deleted here: the remote version is in the copy.
LEMMA ApplyToDeletedKeeps ==
    ASSUME DeviceInv, KeepInv, NEW d \in Devices, NEW n \in Names, ApplyToDeleted(d, n)
    PROVE  KeepInv'
<1>1. PICK c \in FreeCopies(d) : ChangeDone(d, n, WithCopy(disk[d], Remote(d, n), c), FALSE)
    BY DEF ApplyToDeleted
<1>2. run[d].pc = "apply" /\ n \in run[d].left /\ n \in run[d].gone
    BY DEF ApplyToDeleted
<1>3. PICK g : g = disk[d]
    OBVIOUS
<1>4. PICK x : x = Remote(d, n)
    OBVIOUS
<1>5. PICK b : b = FALSE
    OBVIOUS
<1>6. g \in KnownTrees /\ x \in Known /\ \A m \in Names \ {n} : g[m] = disk[d][m]
    BY <1>2, <1>3, <1>4, DeviceFacts, ApplyFacts
<1>7. ChangeDone(d, n, WithCopy(g, x, c), b)
    BY <1>1, <1>3, <1>4, <1>5, Zenon
<1>8. PullOK(run[d], vault[d].head, rows[d], disk[d])
    BY DEF KeepInv
<1>9. g[n] = Absent /\ n \in run[d].snap
    BY <1>2, <1>3, <1>8 DEF PullOK
<1>10. \A e : Home(e, n) /\ ~Holds(x, e) =>
             /\ Holds(Remote(d, n), e) => Holds(g[n], e)
             /\ Holds(disk[d][n], e) => Holds(g[n], e)
    BY <1>3, <1>4
<1> QED
    BY <1>2, <1>6, <1>7, <1>9, <1>10, CopyKeeps

\* What a merge has read is there.
LEMMA ReadThere ==
    ASSUME DeviceInv, KeepInv, NEW d \in Devices, NEW n \in Names, run[d].pc = "apply", run[d].read = n
    PROVE  /\ n \in run[d].left /\ n \in run[d].snap /\ n \notin run[d].gone /\ run[d].local = disk[d][n]
           /\ run[d].work[n] \in {Absent, TreeAt[vault[d].head][n]} /\ run[d].local # Absent
<1>1. PullOK(run[d], vault[d].head, rows[d], disk[d])
    BY DEF KeepInv
<1>2. n \in run[d].left /\ run[d].local # Absent
    BY ReadFacts
<1>3. n # NoRow
    BY DeviceAssumption
<1>4. n \in run[d].snap \ run[d].gone /\ run[d].local = disk[d][n]
    BY <1>1, <1>3 DEF PullOK
<1>5. run[d].work[n] \in {Absent, TreeAt[vault[d].head][n]}
    BY <1>1, <1>2 DEF PullOK
<1> QED
    BY <1>2, <1>4, <1>5

\* Lines that collide: the remote version is in the copy.
LEMMA ApplyConflictKeeps ==
    ASSUME DeviceInv, KeepInv, NEW d \in Devices, NEW n \in Names, ApplyConflict(d, n)
    PROVE  KeepInv'
<1>1. PICK c \in FreeCopies(d) : ChangeDone(d, n, WithCopy(disk[d], Remote(d, n), c), FALSE)
    BY DEF ApplyConflict
<1>2. run[d].pc = "apply" /\ run[d].read = n
    BY DEF ApplyConflict
<1>3. n \in run[d].left /\ n \in run[d].snap /\ n \notin run[d].gone
    BY <1>2, ReadThere
<1>4. PICK g : g = disk[d]
    OBVIOUS
<1>5. PICK x : x = Remote(d, n)
    OBVIOUS
<1>6. PICK b : b = FALSE
    OBVIOUS
<1>7. g \in KnownTrees /\ x \in Known /\ \A m \in Names \ {n} : g[m] = disk[d][m]
    BY <1>2, <1>3, <1>4, <1>5, DeviceFacts, ApplyFacts
<1>8. ChangeDone(d, n, WithCopy(g, x, c), b)
    BY <1>1, <1>4, <1>5, <1>6, Zenon
<1>9. \A e : Home(e, n) /\ ~Holds(x, e) =>
             /\ Holds(Remote(d, n), e) => Holds(g[n], e)
             /\ Holds(disk[d][n], e) => Holds(g[n], e)
    BY <1>4, <1>5
<1> QED
    BY <1>2, <1>3, <1>7, <1>8, <1>9, CopyKeeps

\* A file deleted elsewhere: what was read of it is in the copy.
LEMMA ApplyDeleteToEditedKeeps ==
    ASSUME DeviceInv, KeepInv, NEW d \in Devices, NEW n \in Names, ApplyDeleteToEdited(d, n)
    PROVE  KeepInv'
<1>1. PICK c \in FreeCopies(d) :
          ChangeDone(d, n, WithCopy([disk[d] EXCEPT ![n] = Absent], run[d].local, c), TRUE)
    BY DEF ApplyDeleteToEdited
<1>2. run[d].pc = "apply" /\ run[d].read = n /\ Remote(d, n) = Absent
    BY DEF ApplyDeleteToEdited
<1>3. n \in run[d].left /\ n \in run[d].snap /\ n \notin run[d].gone /\ run[d].local = disk[d][n]
    BY <1>2, ReadThere
<1>4. PICK g : g = [disk[d] EXCEPT ![n] = Absent]
    OBVIOUS
<1>5. PICK x : x = run[d].local
    OBVIOUS
<1>6. PICK b : b = TRUE
    OBVIOUS
<1>7. g \in KnownTrees /\ \A m \in Names \ {n} : g[m] = disk[d][m]
    <2>1. disk[d] \in KnownTrees /\ Absent \in Known
        BY DeviceFacts DEF Known
    <2> QED
        BY <1>4, <2>1 DEF KnownTrees
<1>8. x \in Known
    BY <1>2, <1>5, ReadFacts
<1>9. ChangeDone(d, n, WithCopy(g, x, c), b)
    BY <1>1, <1>4, <1>5, <1>6, Zenon
<1>10. \A e : Home(e, n) /\ ~Holds(x, e) =>
             /\ Holds(Remote(d, n), e) => Holds(g[n], e)
             /\ Holds(disk[d][n], e) => Holds(g[n], e)
    BY <1>2, <1>3, <1>5 DEF Holds
<1> QED
    BY <1>2, <1>3, <1>7, <1>8, <1>9, <1>10, CopyKeeps

\* A merge drops what one side dropped of the base.  No side does that to an edit
\* whose home this is.
LEMMA ApplyMergeKeeps ==
    ASSUME DeviceInv, KeepInv, NEW d \in Devices, NEW n \in Names, ApplyMerge(d, n)
    PROVE  KeepInv'
<1>1. PICK base : base = run[d].work[n]
    OBVIOUS
<1>2. PICK x : x = Merge(base, run[d].local, Remote(d, n))
    OBVIOUS
<1>3. PICK b : b = IsRemote(x, Remote(d, n))
    OBVIOUS
<1>4. PICK f : f = [disk[d] EXCEPT ![n] = x]
    OBVIOUS
<1>5. /\ run[d].pc = "apply" /\ run[d].read = n /\ Remote(d, n) # Absent /\ base # Absent
      /\ ChangeDone(d, n, f, b)
    BY <1>1, <1>2, <1>3, <1>4 DEF ApplyMerge
<1>6. /\ n \in run[d].left /\ n \in run[d].snap /\ n \notin run[d].gone /\ run[d].local = disk[d][n]
      /\ base \in {Absent, TreeAt[vault[d].head][n]} /\ run[d].local # Absent
    BY <1>1, <1>5, ReadThere
<1>7. Remote(d, n) \in Known /\ run[d].local \in Known /\ base \in Known /\ disk[d] \in KnownTrees
    BY <1>1, <1>5, <1>6, ApplyFacts, ReadFacts
<1>8. x # Absent
    <2>1. x \in SUBSET Edits
        BY <1>2, <1>5, <1>6, <1>7 DEF Known, Merge, DeviceInv, Typed
    <2> QED
        BY <2>1, DeviceAssumption
<1>9. f[n] = x /\ \A m \in Names \ {n} : f[m] = disk[d][m]
    BY <1>4, <1>7 DEF KnownTrees
<1>10. ASSUME NEW e, Home(e, n), Holds(Remote(d, n), e) \/ Holds(disk[d][n], e) PROVE Holds(f[n], e)
    <2>1. Holds(base, e) => Holds(Remote(d, n), e)
        <3>1. PICK i : i = vault[d].head
            OBVIOUS
        <3>2. i \in 0 .. vault[d].head /\ (Holds(base, e) => Holds(TreeAt[i][n], e))
            BY <1>6, <3>1, DeviceFacts DEF Holds
        <3> QED
            BY <1>5, <1>6, <1>10, <3>2, RemoteHolds
    <2>2. Holds(base, e) => Holds(disk[d][n], e)
        <3>1. HomeAt(e, n, run[d], vault[d].head, disk[d])
            BY <1>10, HomeFacts
        <3> QED
            BY <1>6, <3>1 DEF HomeAt, Holds
    <2> QED
        BY <1>2, <1>5, <1>6, <1>8, <1>9, <1>10, <2>1, <2>2 DEF Merge, Holds
<1> QED
    BY <1>5, <1>6, <1>9, <1>10, ChangeKeeps

\* Whatever happens to a remote change.
LEMMA ApplyKeeps ==
    ASSUME DeviceInv, KeepInv, NEW d \in Devices, NEW n \in Names, Apply(d, n)
    PROVE  KeepInv'
BY ApplyCleanKeeps, ApplyToDeletedKeeps, ReadLocalKeeps, ApplyMergeKeeps, ApplyConflictKeeps, ApplyDeleteToEditedKeeps
   DEF Apply

-----------------------------------------------------------------------------
(* Push keeps the edits.                                                   *)

\* A plan is made: its tree has an edit under its home if the local tree has.
LEMMA PushPlanKeeps ==
    ASSUME DeviceInv, KeepInv, NEW d \in Devices, PushPlan(d)
    PROVE  KeepInv'
<1>1. PICK t : t = run[d]
    OBVIOUS
<1>2. PICK h : h = vault[d].head
    OBVIOUS
<1>3. PICK f : f = disk[d]
    OBVIOUS
<1>4. PICK s : s = Scanned(rows[d], f)
    OBVIOUS
<1>5. PICK k : k = PushKind(d)
    OBVIOUS
<1>6. PICK ops : ops = PlanOps(d, k)
    OBVIOUS
<1>7. PICK P : P = ParentIds(Len(log)) \cup (IF k = "merge" THEN {t.parent} ELSE {})
    OBVIOUS
<1>8. PICK w : w = MaterializedTree(tree[d], ops)
    OBVIOUS
<1>9. PICK c : c = [dev |-> d, seq |-> vault[d].seq, kind |-> k, expected |-> Len(log), parents |-> P, ops |-> ops, tree |-> w]
    OBVIOUS
<1>10. PICK v : v = [t EXCEPT !.pc = "upload", !.plan = c]
    OBVIOUS
<1>11. PICK u : u = IF DOMAIN ops = {} THEN Idle ELSE v
    OBVIOUS
<1>12. /\ t.pc = "push" /\ rows' = [rows EXCEPT ![d] = s] /\ run' = [run EXCEPT ![d] = u]
       /\ UNCHANGED <<log, disk, vault, written, dropped>>
    BY <1>1, <1>3, <1>4, <1>5, <1>6, <1>7, <1>8, <1>9, <1>10, <1>11, Zenon DEF PushPlan
<1>13. /\ t \in Runs /\ t.read = NoRow /\ h \in 0 .. Len(log) /\ tree[d] = TreeAt[h] /\ Typed
    BY <1>1, <1>2, <1>12, DeviceFacts, IdleRead DEF DeviceInv
<1>14. v.pc = "upload" /\ v.plan = c /\ v.read = NoRow /\ c.tree = w
    BY <1>9, <1>10, <1>13 DEF Runs
<1>15. \A n \in DOMAIN ops : ops[n] = f[n]
    BY <1>3, <1>6 DEF PlanOps
<1>16. \A n \in Names : w[n] = IF n \in DOMAIN ops THEN f[n] ELSE TreeAt[h][n]
    BY <1>8, <1>13, <1>15 DEF MaterializedTree
<1>17. CASE DOMAIN ops = {}
    <2>1. u.pc = "idle" /\ u.read = NoRow
        BY <1>11, <1>17 DEF Idle
    <2> QED
        BY <1>12, <2>1, QuietRun
<1>18. CASE DOMAIN ops # {}
    <2>1. u = v
        BY <1>11, <1>18
    <2>2. StepOf(d, v, h, f) /\ rows'[d] = s
        BY <1>2, <1>3, <1>12, <1>13, <2>1 DEF StepOf, Typed
    <2>3. PullOK(v, h, s, f)
        BY <1>14 DEF PullOK
    <2>4. ASSUME NEW e, NEW m \in Names, Home(e, m) PROVE HomeAt(e, m, v, h, f)
        <3>1. HomeAt(e, m, t, h, f)
            BY <1>1, <1>2, <1>3, <2>4, HomeFacts
        <3>2. Holds(TreeAt[h][m], e) => Holds(f[m], e)
            BY <3>1 DEF HomeAt
        <3>3. (Holds(w[m], e) => Holds(f[m], e)) /\ (Holds(TreeAt[h][m], e) => Holds(w[m], e))
            BY <1>16, <3>2
        <3> QED
            BY <1>14, <3>2, <3>3 DEF HomeAt
    <2> QED
        BY <1>3, <1>12, <1>13, <2>2, <2>3, <2>4, KeepStep
<1> QED
    BY <1>17, <1>18

\* The reply arrives.
LEMMA PublishSavedKeeps ==
    ASSUME DeviceInv, KeepInv, NEW d \in Devices, PublishSaved(d)
    PROVE  KeepInv'
<1>1. PICK t : t = run[d]
    OBVIOUS
<1>2. PICK r : r = Marked(rows[d], DOMAIN t.plan.ops)
    OBVIOUS
<1>3. PICK u : u = [t EXCEPT !.pc = "saved"]
    OBVIOUS
<1>4. PICK f : f = disk[d]
    OBVIOUS
<1>5. PICK h : h = vault[d].head
    OBVIOUS
<1>6. t.pc = "sent" /\ UNCHANGED <<log, disk, vault, written, dropped>> /\ rows' = [rows EXCEPT ![d] = r]
    BY <1>1, <1>2 DEF PublishSaved
<1>7. run' = [run EXCEPT ![d] = u]
    <2>1. run' = [run EXCEPT ![d].pc = "saved"]
        BY DEF PublishSaved
    <2> QED
        BY <1>1, <1>3, <2>1, Zenon
<1>8. t \in Runs /\ t.read = NoRow /\ h \in 0 .. Len(log) /\ Typed
    BY <1>1, <1>5, <1>6, DeviceFacts, IdleRead DEF DeviceInv
<1>9. u.pc = "saved" /\ u.plan = t.plan /\ u.read = NoRow
    BY <1>3, <1>8 DEF Runs
<1>10. StepOf(d, u, h, f) /\ rows'[d] = r
    BY <1>4, <1>5, <1>6, <1>7, <1>8 DEF StepOf, Typed
<1>11. PullOK(u, h, r, f)
    BY <1>9 DEF PullOK
<1>12. ASSUME NEW e, NEW m \in Names, Home(e, m) PROVE HomeAt(e, m, u, h, f)
    <2>1. HomeAt(e, m, t, h, f)
        BY <1>1, <1>4, <1>5, <1>12, HomeFacts
    <2> QED
        BY <1>6, <1>9, <2>1 DEF HomeAt
<1> QED
    BY <1>4, <1>6, <1>8, <1>10, <1>11, <1>12, KeepStep

\* The local head moves to the device's own commit, which the files hold.
LEMMA PublishDoneKeeps ==
    ASSUME DeviceInv, KeepInv, NEW d \in Devices, PublishDone(d)
    PROVE  KeepInv'
<1>1. PICK t : t = run[d]
    OBVIOUS
<1>2. PICK c : c = t.plan
    OBVIOUS
<1>3. PICK i : i = c.expected + 1
    OBVIOUS
<1>4. PICK q : q = [head |-> i, seq |-> c.seq + 1]
    OBVIOUS
<1>5. PICK u : u = Idle
    OBVIOUS
<1>6. PICK f : f = disk[d]
    OBVIOUS
<1>7. PICK r : r = rows[d]
    OBVIOUS
<1>8. /\ t.pc = "saved" /\ UNCHANGED <<log, disk, rows, written, dropped>>
      /\ vault' = [vault EXCEPT ![d] = q] /\ run' = [run EXCEPT ![d] = u]
    BY <1>1, <1>2, <1>3, <1>4, <1>5 DEF PublishDone
<1>9. RunOK(t, vault[d].head, r) /\ Len(log) \in Nat /\ Typed
    BY <1>1, <1>7, DeviceFacts DEF DeviceInv
<1>10. CommitOK(c) /\ i <= Len(log) /\ log[i] = c
    BY <1>2, <1>3, <1>8, <1>9 DEF RunOK
<1>11. i \in 1 .. Len(log) /\ i \in 0 .. Len(log)
    BY <1>3, <1>9, <1>10 DEF CommitOK, Commits
<1>12. c.tree = TreeAt[i]
    BY <1>10, <1>11 DEF DeviceInv, HistoryOK, Fits
<1>13. q.head = i /\ u.pc = "idle" /\ u.read = NoRow
    BY <1>4, <1>5 DEF Idle
<1>14. StepOf(d, u, i, f) /\ rows'[d] = r
    BY <1>6, <1>7, <1>8, <1>9, <1>13 DEF StepOf, Typed
<1>15. PullOK(u, i, r, f)
    BY <1>13 DEF PullOK
<1>16. ASSUME NEW e, NEW m \in Names, Home(e, m) PROVE HomeAt(e, m, u, i, f)
    <2>1. HomeAt(e, m, t, vault[d].head, f)
        BY <1>1, <1>6, <1>16, HomeFacts
    <2>2. Holds(TreeAt[i][m], e) => Holds(f[m], e)
        BY <1>2, <1>8, <1>12, <2>1 DEF HomeAt
    <2> QED
        BY <1>13, <2>2 DEF HomeAt
<1> QED
    BY <1>6, <1>8, <1>11, <1>14, <1>15, <1>16, KeepStep

\* The plan joins the history: the newest tree has an edit under its home if the
\* tree before had, and what a pull goes by is about older commits.
LEMMA PublishAcceptedKeeps ==
    ASSUME DeviceInv, KeepInv, NEW d \in Devices, PublishAccepted(d)
    PROVE  KeepInv'
<1>1. PICK t : t = run[d]
    OBVIOUS
<1>2. PICK c : c = t.plan
    OBVIOUS
<1>3. PICK k : k = Len(log)
    OBVIOUS
<1>4. PICK u : u = [t EXCEPT !.pc = "sent"]
    OBVIOUS
<1>5. /\ t.pc = "upload" /\ c.expected = k /\ log' = Append(log, c) /\ UNCHANGED <<disk, rows, vault, written, dropped>>
    BY <1>1, <1>2, <1>3 DEF PublishAccepted
<1>6. run' = [run EXCEPT ![d] = u]
    <2>1. run' = [run EXCEPT ![d].pc = "sent"]
        BY DEF PublishAccepted
    <2> QED
        BY <1>1, <1>4, <2>1, Zenon
<1>7. /\ log \in Seq(Commits) /\ k \in Nat /\ t \in Runs /\ RunOK(t, vault[d].head, rows[d]) /\ Typed /\ t.read = NoRow
    BY <1>1, <1>3, <1>5, DeviceFacts, IdleRead DEF DeviceInv
<1>8. CommitOK(c) /\ vault[d].head = k /\ c.tree = Applied(TreeAt[k], c)
    BY <1>2, <1>5, <1>7 DEF RunOK
<1>9. c \in Commits
    BY <1>8 DEF CommitOK
<1>10. Len(log') = k + 1 /\ log'[k + 1] = c /\ \A i \in 1 .. k : log'[i] = log[i]
    BY <1>3, <1>5, <1>7, <1>9
<1>11. (\A i \in 0 .. k : TreeAt'[i] = TreeAt[i]) /\ TreeAt'[k + 1] = c.tree
    <2>1. TreeAt'[k + 1] = Applied(TreeAt[k], log'[k + 1]) /\ \A i \in 0 .. k : TreeAt'[i] = TreeAt[i]
        BY <1>7, <1>10, TreeGrows
    <2> QED
        BY <1>8, <1>10, <2>1
<1>12. u.pc = "sent" /\ u.plan = c /\ u.read = NoRow
    BY <1>2, <1>4, <1>7 DEF Runs
<1>13. run'[d] = u /\ \A o \in Devices \ {d} : run'[o] = run[o]
    BY <1>6, <1>7 DEF Typed
<1>14. ASSUME NEW o \in Devices
       PROVE  /\ vault[o].head \in 0 .. k /\ TreeAt'[vault[o].head] = TreeAt[vault[o].head] /\ vault'[o].head = vault[o].head
              /\ disk'[o] = disk[o] /\ rows'[o] = rows[o]
    <2>1. vault[o].head \in 0 .. k
        BY <1>3, DeviceFacts
    <2> QED
        BY <1>5, <1>11, <2>1
<1>15. ASSUME NEW o \in Devices PROVE PullOK(run[o], vault[o].head, rows[o], disk[o])'
    <2>1. CASE o = d
        BY <1>12, <1>13, <2>1 DEF PullOK
    <2>2. CASE o # d
        <3>1. PICK v : v = run[o]
            OBVIOUS
        <3>2. PICK h : h = vault[o].head
            OBVIOUS
        <3>3. PullOK(v, h, rows[o], disk[o]) /\ RunOK(v, h, rows[o]) /\ v \in Runs
            BY <3>1, <3>2, DeviceFacts DEF KeepInv
        <3>4. PullOK(v, h, rows[o], disk[o])'
            <4>1. v.pc \in {"apply", "marked"} => v.target \in Nat /\ v.target <= k
                BY <1>3, <3>3 DEF RunOK, Runs
            <4>2. ASSUME v.pc \in {"apply", "marked"}
                  PROVE  \A i \in 1 .. v.target : log'[i] = log[i]
                BY <1>7, <1>10, <4>1, <4>2
            <4>3. \A i \in 0 .. Len(log) : i \in 0 .. Len(log') /\ TreeAt'[i] = TreeAt[i]
                BY <1>3, <1>7, <1>10, <1>11
            <4>4. TreeAt'[h] = TreeAt[h] /\ rows'[o] = rows[o] /\ disk'[o] = disk[o]
                BY <1>14, <3>2
            <4>5. ASSUME v.pc \in {"apply", "marked"}, NEW n \in Names \ v.snap
                  PROVE  \/ disk'[o][n] = Absent
                         \/ \E i \in 0 .. Len(log') : TreeAt'[i][n] = disk'[o][n]
                         \/ \A i \in 1 .. v.target : n \notin DOMAIN log'[i].ops
                <5>1. \/ disk[o][n] = Absent
                      \/ \E i \in 0 .. Len(log) : TreeAt[i][n] = disk[o][n]
                      \/ \A i \in 1 .. v.target : n \notin DOMAIN log[i].ops
                    BY <3>3, <4>5 DEF PullOK
                <5> QED
                    BY <4>2, <4>3, <4>4, <4>5, <5>1
            <4> QED
                BY <3>3, <4>4, <4>5 DEF PullOK
        <3>5. run'[o] = v /\ vault'[o].head = h
            BY <1>13, <1>14, <2>2, <3>1, <3>2
        <3> QED
            BY <3>4, <3>5 DEF PullOK
    <2> QED
        BY <2>1, <2>2
<1>16. ASSUME NEW e, NEW m \in Names, Home(e, m) PROVE Home(e, m)'
    <2>1. HomeAt(e, m, t, k, disk[d])
        BY <1>1, <1>8, <1>16, HomeFacts
    <2>2. Holds(TreeAt[k][m], e) => Holds(c.tree[m], e)
        BY <1>2, <1>5, <2>1 DEF HomeAt
    <2>3. Holds(TreeAt'[Len(log')][m], e) \/ \E o \in Devices : Holds(disk'[o][m], e)
        BY <1>3, <1>5, <1>10, <1>11, <1>16, <2>2 DEF Home
    <2>4. ASSUME NEW i \in 0 .. Len(log'), NEW j \in 0 .. Len(log'), i <= j, Holds(TreeAt'[i][m], e)
          PROVE  Holds(TreeAt'[j][m], e)
        <3>1. \A a, b \in 0 .. k : a <= b /\ Holds(TreeAt[a][m], e) => Holds(TreeAt[b][m], e)
            BY <1>3, <1>16 DEF Home, StaysInHistory
        <3>2. CASE j \in 0 .. k
            <4>1. i \in 0 .. k
                BY <1>7, <1>10, <2>4, <3>2
            <4> QED
                BY <1>11, <2>4, <3>1, <3>2, <4>1
        <3>3. CASE j \notin 0 .. k
            <4>1. j = k + 1 /\ k \in 0 .. k /\ (i = k + 1 \/ (i \in 0 .. k /\ i <= k))
                BY <1>7, <1>10, <2>4, <3>3
            <4> QED
                BY <1>11, <2>2, <2>4, <3>1, <4>1
        <3> QED
            BY <3>2, <3>3
    <2>5. ASSUME NEW o \in Devices PROVE HomeAt(e, m, run[o], vault[o].head, disk[o])'
        <3>1. HomeAt(e, m, run[o], vault[o].head, disk[o])
            BY <1>16, HomeFacts
        <3>2. CASE o = d
            BY <1>1, <1>2, <1>5, <1>12, <1>13, <1>14, <3>1, <3>2 DEF HomeAt, Holds
        <3>3. CASE o # d
            BY <1>13, <1>14, <3>1, <3>3 DEF HomeAt, Holds
        <3> QED
            BY <3>2, <3>3
    <2> QED
        BY <2>3, <2>4, <2>5 DEF Home, StaysInHistory, Holds
<1> QED
    BY <1>5, <1>15, <1>16 DEF KeepInv

-----------------------------------------------------------------------------
(* So no step loses an edit.                                               *)

\* At first there is no edit.
LEMMA InitKeeps == Init => KeepInv
<1> SUFFICES ASSUME Init PROVE KeepInv
    OBVIOUS
<1>1. ASSUME NEW d \in Devices PROVE PullOK(run[d], vault[d].head, rows[d], disk[d])
    <2>1. PICK t : t = run[d]
        OBVIOUS
    <2>2. t = Idle
        BY <2>1 DEF Init
    <2>3. t.pc = "idle" /\ t.read = NoRow
        BY <2>2 DEF Idle
    <2> QED
        BY <2>1, <2>3, Zenon DEF PullOK
<1>2. written \ dropped = {}
    BY DEF Init
<1> QED
    BY <1>1, <1>2, Zenon DEF KeepInv

\* Nothing happens.
LEMMA StutterKeeps ==
    ASSUME KeepInv, UNCHANGED vars
    PROVE  KeepInv'
<1>1. UNCHANGED <<log, disk, rows, vault, run, written, dropped>> /\ TreeAt' = TreeAt
    BY SameTrees DEF vars
<1> QED
    BY <1>1 DEF KeepInv, PullOK, Home, HomeAt, StaysInHistory, Holds

\* Every step leaves every edit a home.
LEMMA NextKeeps ==
    ASSUME DeviceInv, KeepInv, ~EditDuringRun, [Next]_vars
    PROVE  KeepInv'
<1>1. CASE UNCHANGED vars
    BY <1>1, StutterKeeps
<1>2. ASSUME NEW d \in Devices, NEW n \in Files, NEW e \in Edits, Edit(d, n, e) PROVE KeepInv'
    BY <1>2, EditKeeps
<1>3. ASSUME NEW d \in Devices, NEW n \in Names, Delete(d, n) PROVE KeepInv'
    BY <1>3, DeleteKeeps
<1>4. ASSUME NEW d \in Devices, StatusScan(d) PROVE KeepInv'
    BY <1>4, StatusScanKeeps
<1>5. ASSUME NEW d \in Devices, PullStart(d) PROVE KeepInv'
    BY <1>5, PullStartKeeps
<1>6. ASSUME NEW d \in Devices, NEW n \in Names, Apply(d, n) PROVE KeepInv'
    BY <1>6, ApplyKeeps
<1>7. ASSUME NEW d \in Devices, PersistApplied(d) PROVE KeepInv'
    BY <1>7, PersistAppliedKeeps
<1>8. ASSUME NEW d \in Devices, AdvanceHead(d) PROVE KeepInv'
    BY <1>8, AdvanceHeadKeeps
<1>9. ASSUME NEW d \in Devices, PushPlan(d) PROVE KeepInv'
    BY <1>9, PushPlanKeeps
<1>10. ASSUME NEW d \in Devices, PublishAccepted(d) PROVE KeepInv'
    BY <1>10, PublishAcceptedKeeps
<1>11. ASSUME NEW d \in Devices, PublishConflict(d) PROVE KeepInv'
    BY <1>11, PublishConflictKeeps
<1>12. ASSUME NEW d \in Devices, PublishSaved(d) PROVE KeepInv'
    BY <1>12, PublishSavedKeeps
<1>13. ASSUME NEW d \in Devices, PublishDone(d) PROVE KeepInv'
    BY <1>13, PublishDoneKeeps
<1>14. ASSUME NEW d \in Devices, RunFail(d) PROVE KeepInv'
    BY <1>14, RunFailKeeps
<1> QED
    BY <1>1, <1>2, <1>3, <1>4, <1>5, <1>6, <1>7, <1>8, <1>9, <1>10, <1>11, <1>12, <1>13, <1>14 DEF Next

\* Unless users write while their device syncs, every edit that no user deleted has
\* a home, whatever runs, merges, conflict copies, failures and retries there are
\* (run_sync_once, merge_remote_upsert, merge_remote_delete, write_conflict_copy).
THEOREM KeepInvariant == Spec => [](~EditDuringRun => KeepInv)
<1>1. Init => (~EditDuringRun => KeepInv)
    BY InitKeeps
<1>2. DeviceInv /\ (~EditDuringRun => KeepInv) /\ [Next]_vars => (~EditDuringRun => KeepInv)'
    BY NextKeeps
<1> QED
    BY <1>1, <1>2, DeviceInvariant, PTL DEF Spec

\* So no edit is lost: one that nobody deleted is in some vault or in the newest
\* tree of the history.
THEOREM EditsAreKept == Spec => [](~EditDuringRun => NoEditLost)
<1>1. KeepInv => NoEditLost
    BY DEF KeepInv, Home, NoEditLost, Holds
<1> QED
    BY <1>1, KeepInvariant, PTL

-----------------------------------------------------------------------------
(* A run that ends well leaves nothing to do, if users delete no file.     *)

Clean(r, n) == r[n] # NoRow /\ ~r[n].dirty

\* The rows r are as a scan of the files leaves them.
AsScanned(r, files) ==
    \A n \in Names : (r[n] = NoRow <=> files[n] = Absent) /\ (r[n] # NoRow => r[n].hash = files[n])

\* No commit deletes a file, and only the first is a checkpoint.
NoTombstones ==
    \A i \in 1 .. Len(log) :
        (log[i].kind = "checkpoint" => i = 1) /\ \A n \in DOMAIN log[i].ops : log[i].ops[n] # Absent

\* A file that is in the rows or in the local tree is there.  A file that is called
\* clean is as in the local tree, or as in the commit after it: the app may quit
\* when the files are marked and the local head has not moved.
RowsAt(h, r, files) ==
    \A n \in Names :
        /\ r[n] # NoRow => files[n] # Absent
        /\ TreeAt[h][n] # Absent => files[n] # Absent
        /\ Clean(r, n) => r[n].hash = TreeAt[h][n] \/ (h < Len(log) /\ r[n].hash = TreeAt[h + 1][n])

\* A file still to do is as scanned, and if it was dirty and is not now, as in the
\* local tree.  A file that is done is synced or dirty.
ApplyAt(t, h, r, files) ==
    /\ t.gone = {} /\ \A n \in t.snap : r[n] # NoRow
    /\ \A n \in t.left :
        /\ t.work[n] = TreeAt[h][n]
        /\ r[n] # NoRow => r[n].hash = files[n]
        /\ n \in t.snap /\ Clean(r, n) => r[n].hash = TreeAt[h][n]
    /\ \A n \in DOMAIN log[h + 1].ops : n \notin t.left /\ n \notin t.synced => r[n] # NoRow /\ r[n].dirty
    /\ \A n \in Names \ t.left : TreeAt[h + 1][n] # Absent => files[n] # Absent

\* A commit is done: what is clean is as in it.
MarkedAt(t, h, r, files) ==
    /\ t.gone = {} /\ \A n \in t.snap : r[n] # NoRow
    /\ AsScanned(r, files)
    /\ \A n \in Names : Clean(r, n) => r[n].hash = TreeAt[h + 1][n]
    /\ \A n \in Names : TreeAt[h + 1][n] # Absent => files[n] # Absent

\* The tree of the plan is the vault, and whatever is dirty is in the plan.
PlanAt(t, h, r, files) ==
    /\ AsScanned(r, files) /\ t.plan.expected = h
    /\ \A n \in Names : t.plan.tree[n] = files[n]
    /\ t.pc = "upload" /\ t.plan.kind = "checkpoint" => h = 0
    /\ t.pc # "saved" => \A n \in Names : r[n] # NoRow /\ r[n].dirty => n \in DOMAIN t.plan.ops
    /\ t.pc = "saved" => \A n \in Names : r[n] # NoRow => Clean(r, n)

SyncAt(t, h, r, files) ==
    /\ RowsAt(h, r, files)
    /\ t.pc = "apply" => ApplyAt(t, h, r, files)
    /\ t.pc = "marked" => MarkedAt(t, h, r, files)
    /\ t.pc \in {"upload", "sent", "saved"} => PlanAt(t, h, r, files)

\* Nothing is left to do.
SettledAt(h, r, files) ==
    AsScanned(r, files) /\ \A n \in Names : files[n] = TreeAt[h][n] /\ (r[n] # NoRow => Clean(r, n))

\* Holds as long as nobody deletes a file that holds something; OwnInv, below, is why
\* there are no others.
SyncInv ==
    /\ NoTombstones
    /\ \A d \in Devices :
        /\ SyncAt(run[d], vault[d].head, rows[d], disk[d])
        /\ settled[d] /\ run[d].pc = "idle" => SettledAt(vault[d].head, rows[d], disk[d])

\* What is left to show of a step that publishes nothing.
LEMMA SyncStep ==
    ASSUME SyncInv, NEW d \in Devices, NEW u, NEW i, NEW f, NEW r, StepOf(d, u, i, f), rows'[d] = r,
           SyncAt(u, i, r, f), settled'[d] /\ u.pc = "idle" => SettledAt(i, r, f),
           \A o \in Devices \ {d} : settled'[o] = settled[o]
    PROVE  SyncInv'
<1>1. log' = log /\ TreeAt' = TreeAt
    BY SameTrees DEF StepOf
<1>2. NoTombstones'
    BY <1>1 DEF SyncInv, NoTombstones
<1>3. ASSUME NEW t, NEW h, NEW q, NEW g, SyncAt(t, h, q, g) PROVE SyncAt(t, h, q, g)'
    BY <1>1, <1>3 DEF SyncAt, RowsAt, ApplyAt, MarkedAt, PlanAt, AsScanned, Clean
<1>4. ASSUME NEW h, NEW q, NEW g, SettledAt(h, q, g) PROVE SettledAt(h, q, g)'
    BY <1>1, <1>4 DEF SettledAt, AsScanned, Clean
<1>5. ASSUME NEW o \in Devices
      PROVE  /\ SyncAt(run'[o], vault'[o].head, rows'[o], disk'[o])
             /\ settled'[o] /\ run'[o].pc = "idle" => SettledAt(vault'[o].head, rows'[o], disk'[o])
    <2>1. CASE o = d
        BY <2>1, Zenon DEF StepOf
    <2>2. CASE o # d
        <3>1. /\ run'[o] = run[o] /\ vault'[o] = vault[o] /\ rows'[o] = rows[o] /\ disk'[o] = disk[o]
              /\ settled'[o] = settled[o]
            BY <2>2 DEF StepOf
        <3> QED
            BY <3>1, Zenon DEF SyncInv
    <2> QED
        BY <2>1, <2>2
<1>6. ASSUME NEW o \in Devices
      PROVE  /\ SyncAt(run[o], vault[o].head, rows[o], disk[o])'
             /\ (settled[o] /\ run[o].pc = "idle" => SettledAt(vault[o].head, rows[o], disk[o]))'
    <2>1. PICK t : t = run'[o]
        OBVIOUS
    <2>2. PICK h : h = vault'[o].head
        OBVIOUS
    <2>3. PICK q : q = rows'[o]
        OBVIOUS
    <2>4. PICK g : g = disk'[o]
        OBVIOUS
    <2>5. SyncAt(t, h, q, g)' /\ (settled'[o] /\ t.pc = "idle" => SettledAt(h, q, g)')
        BY <1>3, <1>4, <1>5, <2>1, <2>2, <2>3, <2>4, Zenon
    <2> QED
        BY <2>1, <2>2, <2>3, <2>4, <2>5, Zenon
<1> QED
    BY <1>2, <1>6, Zenon DEF SyncInv

\* What is known of a device.
LEMMA SyncFacts ==
    ASSUME SyncInv, NEW d \in Devices
    PROVE  /\ NoTombstones /\ SyncAt(run[d], vault[d].head, rows[d], disk[d])
           /\ RowsAt(vault[d].head, rows[d], disk[d])
BY DEF SyncInv, SyncAt

\* What a commit does to a name.
LEMMA TreeNext ==
    ASSUME DeviceInv, NoTombstones, NEW h \in Nat, h < Len(log), NEW n \in Names
    PROVE  /\ n \in DOMAIN log[h + 1].ops => TreeAt[h + 1][n] = log[h + 1].ops[n] /\ log[h + 1].ops[n] # Absent
           /\ n \notin DOMAIN log[h + 1].ops => TreeAt[h + 1][n] = TreeAt[h][n]
           /\ log[h + 1].kind = "checkpoint" => h = 0 /\ TreeAt[h] = EmptyTree
<1>1. Len(log) \in Nat
    BY DEF DeviceInv, Typed
<1>2. h + 1 \in 1 .. Len(log)
    BY <1>1
<1>3. TreeAt[h + 1] = Applied(TreeAt[h], log[h + 1]) /\ TreeAt[0] = EmptyTree
    BY TreeFacts
<1>4. log[h + 1].kind = "checkpoint" => h = 0 /\ TreeAt[h] = EmptyTree
    <2>1. log[h + 1].kind = "checkpoint" => h + 1 = 1
        BY <1>2 DEF NoTombstones
    <2> QED
        BY <1>3, <2>1
<1>5. n \in DOMAIN log[h + 1].ops => log[h + 1].ops[n] # Absent
    BY <1>2 DEF NoTombstones
<1>6. n \in DOMAIN log[h + 1].ops => TreeAt[h + 1][n] = log[h + 1].ops[n]
    BY <1>3 DEF Applied
<1>7. n \notin DOMAIN log[h + 1].ops => TreeAt[h + 1][n] = TreeAt[h][n]
    BY <1>3, <1>4 DEF Applied
<1> QED
    BY <1>4, <1>5, <1>6, <1>7

\* A scan of rows whose files are there: it adds rows, and what is clean stays so
\* unless it has changed.
LEMMA ScanRows ==
    ASSUME NEW r \in RowSets, NEW files \in Trees, NEW h, RowsAt(h, r, files), NEW s, s = Scanned(r, files)
    PROVE  /\ AsScanned(s, files) /\ RowsAt(h, s, files) /\ s \in RowSets
           /\ \A n \in Names : Clean(s, n) => Clean(r, n) /\ r[n].hash = files[n]
           /\ \A n \in Names : Clean(r, n) /\ r[n].hash = files[n] => Clean(s, n)
<1>1. ScanOf(r, s, files)
    BY ScannedFacts
<1>2. ASSUME NEW n \in Names, files[n] = Absent PROVE s[n] = NoRow
    <2>1. r[n] = NoRow
        BY <1>2 DEF RowsAt
    <2> QED
        BY <1>2, <2>1, Zenon DEF Scanned
<1>3. AsScanned(s, files)
    BY <1>1, <1>2 DEF AsScanned, ScanOf
<1>4. \A n \in Names : Clean(s, n) => Clean(r, n) /\ r[n].hash = files[n]
    BY <1>1 DEF ScanOf, Clean
<1>5. RowsAt(h, s, files)
    BY <1>1, <1>3, <1>4 DEF RowsAt, AsScanned, ScanOf, Clean
<1>6. ASSUME NEW n \in Names, Clean(r, n), r[n].hash = files[n] PROVE Clean(s, n)
    <2>1. files[n] # Absent /\ r[n] # NoRow
        BY <1>6 DEF RowsAt, Clean
    <2>2. PICK b : b = (r[n] = NoRow \/ (r[n] # NoRow /\ (r[n].dirty \/ r[n].hash # files[n])))
        OBVIOUS
    <2>3. s[n] = [hash |-> files[n], dirty |-> b]
        BY <2>1, <2>2, Zenon DEF Scanned
    <2>4. ~b
        BY <1>6, <2>1, <2>2, Zenon DEF Clean
    <2>5. s[n].dirty = b
        BY <2>3
    <2>6. s[n] # NoRow
        BY <1>1, <2>1 DEF ScanOf
    <2> QED
        BY <2>4, <2>5, <2>6, Zenon DEF Clean
<1> QED
    BY <1>1, <1>3, <1>4, <1>5, <1>6 DEF ScanOf

\* mark_files_synced makes files clean, and nothing dirty.
LEMMA MarkRows ==
    ASSUME NEW r \in RowSets, NEW S, NEW s, s = Marked(r, S), NEW n \in Names
    PROVE  /\ s[n] = NoRow <=> r[n] = NoRow
           /\ s[n] # NoRow => s[n].hash = r[n].hash
           /\ Clean(s, n) => n \in S \/ Clean(r, n)
           /\ r[n] # NoRow /\ (n \in S \/ Clean(r, n)) => Clean(s, n)
<1>1. MarkOf(r, s, S)
    BY MarkedFacts
<1>2. s[n] = NoRow <=> r[n] = NoRow
    BY <1>1 DEF MarkOf, Keeps
<1>3. Clean(s, n) => n \in S \/ Clean(r, n)
    BY <1>1, <1>2 DEF MarkOf, Clean
<1>4. ASSUME r[n] # NoRow, n \in S \/ Clean(r, n) PROVE Clean(s, n)
    <2>1. CASE n \in S
        <3>1. s[n] = [r[n] EXCEPT !.dirty = FALSE]
            BY <1>4, <2>1, Zenon DEF Marked
        <3>2. r[n] \in Row
            BY <1>4 DEF RowSets
        <3>3. s[n].dirty = FALSE
            BY <3>1, <3>2 DEF Row
        <3> QED
            BY <1>2, <1>4, <3>3 DEF Clean
    <2>2. CASE n \notin S
        <3>1. s[n] = r[n]
            BY <2>2, Zenon DEF Marked
        <3> QED
            BY <1>4, <2>2, <3>1, Zenon DEF Clean
    <2> QED
        BY <2>1, <2>2
<1> QED
    BY <1>1, <1>2, <1>3, <1>4 DEF MarkOf

\* A run turns to the next commit, or ends its pull.
LEMMA NextFieldsAre ==
    ASSUME NEW t \in Runs, NEW i, NEW w, NEW u, u = NextCommit(t, i, w)
    PROVE  /\ i = t.target => u.pc = "push"
           /\ i # t.target =>
                /\ u.pc = "apply" /\ u.snap = t.snap /\ u.gone = t.gone /\ u.left = DOMAIN log[i + 1].ops /\ u.synced = {}
                /\ u.work = IF log[i + 1].kind = "checkpoint" THEN EmptyTree ELSE w
<1>1. ASSUME i = t.target PROVE u.pc = "push"
    <2>1. PICK p : p = IF t.second THEN t.parent ELSE i
        OBVIOUS
    <2>2. u = [t EXCEPT !.pc = "push", !.snap = {}, !.gone = {}, !.left = {}, !.work = EmptyTree,
                        !.synced = {}, !.target = 0, !.parent = p]
        BY <1>1, <2>1, Zenon DEF NextCommit
    <2> QED
        BY <2>2 DEF Runs
<1>2. ASSUME i # t.target
      PROVE  /\ u.pc = "apply" /\ u.snap = t.snap /\ u.gone = t.gone /\ u.left = DOMAIN log[i + 1].ops /\ u.synced = {}
             /\ u.work = IF log[i + 1].kind = "checkpoint" THEN EmptyTree ELSE w
    <2>1. PICK S : S = DOMAIN log[i + 1].ops
        OBVIOUS
    <2>2. PICK b : b = IF log[i + 1].kind = "checkpoint" THEN EmptyTree ELSE w
        OBVIOUS
    <2>3. u = [t EXCEPT !.pc = "apply", !.left = S, !.synced = {}, !.work = b]
        BY <1>2, <2>1, <2>2, Zenon DEF NextCommit
    <2>4. u.pc = "apply" /\ u.snap = t.snap /\ u.gone = t.gone /\ u.left = S /\ u.synced = {} /\ u.work = b
        BY <2>3 DEF Runs
    <2> QED
        BY <2>1, <2>2, <2>4, Zenon
<1> QED
    BY <1>1, <1>2, Zenon

\* A pull turns to the commit after i, with rows as scanned.
LEMMA NextSync ==
    ASSUME DeviceInv, NoTombstones, NEW t \in Runs, NEW i \in Nat, i <= t.target, t.target <= Len(log), NEW r, NEW f,
           RowsAt(i, r, f), i # t.target => AsScanned(r, f), t.gone = {}, \A n \in t.snap : r[n] # NoRow,
           \A n \in Names : n \in t.snap /\ Clean(r, n) => r[n].hash = TreeAt[i][n],
           NEW u, u = NextCommit(t, i, TreeAt[i])
    PROVE  SyncAt(u, i, r, f) /\ u.pc # "idle"
<1>1. CASE i = t.target
    <2>1. u.pc = "push"
        BY <1>1, NextFieldsAre
    <2> QED
        BY <2>1 DEF SyncAt
<1>2. CASE i # t.target
    <2>1. /\ u.pc = "apply" /\ u.snap = t.snap /\ u.gone = t.gone /\ u.left = DOMAIN log[i + 1].ops /\ u.synced = {}
          /\ u.work = IF log[i + 1].kind = "checkpoint" THEN EmptyTree ELSE TreeAt[i]
        BY <1>2, NextFieldsAre
    <2>2. i < Len(log) /\ i + 1 \in 1 .. Len(log)
        <3>1. t.target \in Nat /\ Len(log) \in Nat
            BY DEF Runs, DeviceInv, Typed
        <3> QED
            BY <1>2, <3>1
    <2>3. \A n \in DOMAIN log[i + 1].ops : n \in Names
        BY <2>2 DEF DeviceInv, HistoryOK, CommitOK
    <2>4. \A n \in Names :
            /\ n \notin DOMAIN log[i + 1].ops => TreeAt[i + 1][n] = TreeAt[i][n]
            /\ log[i + 1].kind = "checkpoint" => TreeAt[i] = EmptyTree
        BY <2>2, TreeNext
    <2>5. \A n \in u.left : u.work[n] = TreeAt[i][n]
        BY <2>1, <2>3, <2>4
    <2>6. \A n \in u.left : r[n] # NoRow => r[n].hash = f[n]
        BY <1>2, <2>1, <2>3 DEF AsScanned
    <2>7. \A n \in Names \ u.left : TreeAt[i + 1][n] # Absent => f[n] # Absent
        BY <2>1, <2>4 DEF RowsAt
    <2>8. ApplyAt(u, i, r, f)
        BY <2>1, <2>3, <2>5, <2>6, <2>7 DEF ApplyAt
    <2> QED
        BY <2>1, <2>8 DEF SyncAt
<1> QED
    BY <1>1, <1>2

\* A user adds something to a file.
LEMMA EditSyncs ==
    ASSUME DeviceInv, SyncInv, ~EditDuringRun, NEW d \in Devices, NEW n \in Files, NEW e \in Edits, Edit(d, n, e)
    PROVE  SyncInv'
<1>1. PICK x : x = IF disk[d][n] = Absent THEN {e} ELSE disk[d][n] \cup {e}
    OBVIOUS
<1>2. PICK f : f = [disk[d] EXCEPT ![n] = x]
    OBVIOUS
<1>3. PICK u : u = run[d]
    OBVIOUS
<1>4. PICK h : h = vault[d].head
    OBVIOUS
<1>5. PICK r : r = rows[d]
    OBVIOUS
<1>6. /\ u.pc = "idle" /\ disk' = [disk EXCEPT ![d] = f] /\ settled' = [settled EXCEPT ![d] = FALSE]
      /\ UNCHANGED <<log, rows, vault, run>>
    BY <1>1, <1>2, <1>3 DEF Edit
<1>7. Typed /\ disk[d] \in KnownTrees /\ n \in Names /\ settled \in [Devices -> BOOLEAN]
    BY DeviceFacts DEF DeviceInv, Names
<1>8. x # Absent
    <2>1. x \in SUBSET Edits
        BY <1>1, <1>7 DEF KnownTrees, Known, Typed
    <2> QED
        BY <2>1, DeviceAssumption
<1>9. \A m \in Names : disk[d][m] # Absent => f[m] # Absent
    BY <1>2, <1>7, <1>8 DEF KnownTrees
<1>10. RowsAt(h, r, disk[d])
    BY <1>4, <1>5, SyncFacts
<1>11. RowsAt(h, r, f)
    BY <1>9, <1>10 DEF RowsAt
<1>12. SyncAt(u, h, r, f)
    BY <1>6, <1>11 DEF SyncAt
<1>13. StepOf(d, u, h, f) /\ rows'[d] = r
    BY <1>3, <1>4, <1>5, <1>6, <1>7 DEF StepOf, Typed
<1>14. ~settled'[d] /\ \A o \in Devices \ {d} : settled'[o] = settled[o]
    BY <1>6, <1>7, Zenon
<1> QED
    BY <1>12, <1>13, <1>14, SyncStep

\* The status poll scans, and calls clean what is as in the tree.
LEMMA StatusScanSyncs ==
    ASSUME DeviceInv, SyncInv, NEW d \in Devices, StatusScan(d)
    PROVE  SyncInv'
<1>1. PICK r : r = rows[d]
    OBVIOUS
<1>2. PICK f : f = disk[d]
    OBVIOUS
<1>3. PICK h : h = vault[d].head
    OBVIOUS
<1>4. PICK u : u = run[d]
    OBVIOUS
<1>5. PICK s : s = Scanned(r, f)
    OBVIOUS
<1>6. PICK S : S = {n \in Names : s[n] # NoRow /\ s[n].hash = tree[d][n]}
    OBVIOUS
<1>7. PICK m : m = Marked(s, S)
    OBVIOUS
<1>8. PICK q : q = IF h = 0 THEN s ELSE m
    OBVIOUS
<1>9. /\ u.pc = "idle" /\ rows' = [rows EXCEPT ![d] = q] /\ UNCHANGED <<log, disk, vault, run, settled>>
    BY <1>1, <1>2, <1>3, <1>4, <1>5, <1>6, <1>7, <1>8, Zenon DEF StatusScan
<1>10. r \in RowSets /\ f \in Trees /\ tree[d] = TreeAt[h] /\ Typed
    BY <1>1, <1>2, <1>3, DeviceFacts DEF DeviceInv
<1>11. RowsAt(h, r, f)
    BY <1>1, <1>2, <1>3, SyncFacts
<1>12. /\ AsScanned(s, f) /\ RowsAt(h, s, f) /\ s \in RowSets
       /\ \A n \in Names : Clean(s, n) => Clean(r, n) /\ r[n].hash = f[n]
       /\ \A n \in Names : Clean(r, n) /\ r[n].hash = f[n] => Clean(s, n)
    BY <1>5, <1>10, <1>11, ScanRows
<1>13. ASSUME NEW n \in Names
       PROVE  /\ q[n] = NoRow <=> s[n] = NoRow
              /\ q[n] # NoRow => q[n].hash = s[n].hash
              /\ Clean(q, n) => n \in S \/ Clean(s, n)
              /\ Clean(s, n) => Clean(q, n)
    <2>1. CASE q = s
        BY <2>1
    <2>2. CASE q = m
        <3>1. /\ m[n] = NoRow <=> s[n] = NoRow
              /\ m[n] # NoRow => m[n].hash = s[n].hash
              /\ Clean(m, n) => n \in S \/ Clean(s, n)
              /\ s[n] # NoRow /\ (n \in S \/ Clean(s, n)) => Clean(m, n)
            BY <1>7, <1>12, MarkRows
        <3>2. Clean(s, n) => s[n] # NoRow
            BY DEF Clean
        <3> QED
            BY <2>2, <3>1, <3>2, Zenon
    <2> QED
        BY <1>8, <2>1, <2>2
<1>14. AsScanned(q, f)
    BY <1>12, <1>13 DEF AsScanned
<1>15. RowsAt(h, q, f)
    <2>1. ASSUME NEW n \in Names, Clean(q, n)
          PROVE  q[n].hash = TreeAt[h][n] \/ (h < Len(log) /\ q[n].hash = TreeAt[h + 1][n])
        <3>1. q[n].hash = s[n].hash
            BY <1>13, <2>1 DEF Clean
        <3>2. CASE n \in S
            BY <1>6, <1>10, <3>1, <3>2
        <3>3. CASE Clean(s, n)
            BY <1>12, <3>1, <3>3 DEF RowsAt
        <3> QED
            BY <1>13, <2>1, <3>2, <3>3
    <2> QED
        BY <1>12, <1>13, <2>1 DEF RowsAt
<1>16. SyncAt(u, h, q, f)
    BY <1>9, <1>15 DEF SyncAt
<1>17. ASSUME settled'[d] PROVE SettledAt(h, q, f)
    <2>1. SettledAt(h, r, f)
        BY <1>1, <1>2, <1>3, <1>4, <1>9, <1>17 DEF SyncInv
    <2>2. \A n \in Names : s[n] # NoRow => Clean(s, n)
        BY <1>12, <2>1 DEF SettledAt, AsScanned
    <2>3. \A n \in Names : q[n] # NoRow => Clean(q, n)
        BY <1>13, <2>2
    <2> QED
        BY <1>14, <2>1, <2>3 DEF SettledAt
<1>18. StepOf(d, u, h, f) /\ rows'[d] = q
    BY <1>2, <1>3, <1>4, <1>9, <1>10 DEF StepOf, Typed
<1> QED
    BY <1>9, <1>16, <1>17, <1>18, SyncStep

\* A pull begins: nothing counts as deleted.
LEMMA PullStartSyncs ==
    ASSUME DeviceInv, SyncInv, NEW d \in Devices, PullStart(d)
    PROVE  SyncInv'
<1>1. PICK h : h = vault[d].head
    OBVIOUS
<1>2. PICK t : t = run[d]
    OBVIOUS
<1>3. PICK k : k = Len(log)
    OBVIOUS
<1>4. PICK f : f = disk[d]
    OBVIOUS
<1>5. PICK r : r = rows[d]
    OBVIOUS
<1>6. /\ h \in Nat /\ h <= k /\ k \in Nat /\ r \in RowSets /\ f \in Trees /\ tree[d] = TreeAt[h] /\ t \in Runs /\ Typed
    BY <1>1, <1>2, <1>3, <1>4, <1>5, DeviceFacts DEF DeviceInv
<1>7. t.pc \in {"idle", "pull"} /\ UNCHANGED <<log, disk, vault>> /\ \A o \in Devices \ {d} : settled'[o] = settled[o]
    BY <1>2, <1>6 DEF PullStart, Typed
<1>8. NoTombstones /\ RowsAt(h, r, f)
    BY <1>1, <1>4, <1>5, SyncFacts
<1>9. PICK b : b = [t EXCEPT !.target = k]
    OBVIOUS
<1>10. b \in Runs /\ b.target = k
    BY <1>6, <1>9, Zenon DEF Runs
<1>11. CASE h = k
    <2>1. PICK u : u = NextCommit(b, h, TreeAt[h])
        OBVIOUS
    <2>2. run' = [run EXCEPT ![d] = u] /\ UNCHANGED rows
        <3>1. run' = [run EXCEPT ![d] = NextCommit(b, h, tree[d])] /\ UNCHANGED rows
            BY <1>1, <1>2, <1>3, <1>9, <1>11, Zenon DEF PullStart
        <3> QED
            BY <1>6, <2>1, <3>1
    <2>3. u.pc = "push"
        BY <1>10, <1>11, <2>1, NextFieldsAre
    <2>4. SyncAt(u, h, r, f)
        BY <1>8, <2>3 DEF SyncAt
    <2>5. StepOf(d, u, h, f) /\ rows'[d] = r
        BY <1>1, <1>4, <1>5, <1>6, <1>7, <2>2 DEF StepOf, Typed
    <2> QED
        BY <1>7, <2>3, <2>4, <2>5, SyncStep
<1>12. CASE h # k
    <2>1. PICK s : s = Scanned(r, f)
        OBVIOUS
    <2>2. PICK D : D = Dirty(s)
        OBVIOUS
    <2>3. PICK G : G = {n \in D : s[n].hash = Absent}
        OBVIOUS
    <2>4. PICK q : q = [b EXCEPT !.snap = D, !.gone = G]
        OBVIOUS
    <2>5. PICK w : w = IF tree[d] = EmptyTree THEN TreeAt[h] ELSE tree[d]
        OBVIOUS
    <2>6. PICK u : u = NextCommit(q, h, w)
        OBVIOUS
    <2>7. rows' = [rows EXCEPT ![d] = s] /\ run' = [run EXCEPT ![d] = u]
        <3>1. /\ rows' = [rows EXCEPT ![d] = s]
              /\ run' = [run EXCEPT ![d] =
                    NextCommit([[run[d] EXCEPT !.target = Len(log)]
                                    EXCEPT !.snap = Dirty(s), !.gone = {n \in Dirty(s) : s[n].hash = Absent}],
                               vault[d].head, IF tree[d] = EmptyTree THEN TreeAt[vault[d].head] ELSE tree[d])]
            BY <1>1, <1>3, <1>4, <1>5, <1>12, <2>1, Zenon DEF PullStart
        <3> QED
            BY <1>1, <1>2, <1>3, <1>9, <2>2, <2>3, <2>4, <2>5, <2>6, <3>1, Zenon
    <2>8. w = TreeAt[h]
        BY <1>6, <2>5
    <2>9. AsScanned(s, f) /\ RowsAt(h, s, f)
        BY <1>6, <1>8, <2>1, ScanRows
    <2>10. D \in SUBSET Names /\ \A n \in D : s[n] # NoRow /\ ~Clean(s, n)
        BY <2>2 DEF Dirty, Clean
    <2>11. G = {}
        BY <2>3, <2>9, <2>10 DEF AsScanned
    <2>12. G \in SUBSET Names
        BY <2>11
    <2>13. q \in Runs /\ q.target = k /\ q.snap = D /\ q.gone = G
        BY <1>10, <2>4, <2>10, <2>12, Zenon DEF Runs
    <2>14. /\ h <= q.target /\ q.target <= Len(log) /\ u = NextCommit(q, h, TreeAt[h]) /\ q.gone = {}
           /\ \A n \in q.snap : s[n] # NoRow
        BY <1>3, <1>6, <2>6, <2>8, <2>10, <2>11, <2>13
    <2>15. \A n \in Names : n \in q.snap /\ Clean(s, n) => s[n].hash = TreeAt[h][n]
        BY <2>10, <2>13
    <2>16. SyncAt(u, h, s, f) /\ u.pc # "idle"
        BY <1>6, <1>8, <2>9, <2>13, <2>14, <2>15, NextSync
    <2>17. StepOf(d, u, h, f) /\ rows'[d] = s
        BY <1>1, <1>4, <1>6, <1>7, <2>7 DEF StepOf, Typed
    <2> QED
        BY <1>7, <2>16, <2>17, SyncStep
<1> QED
    BY <1>11, <1>12

\* The local head moves to the commit that was applied.
LEMMA AdvanceHeadSyncs ==
    ASSUME DeviceInv, SyncInv, NEW d \in Devices, AdvanceHead(d)
    PROVE  SyncInv'
<1>1. PICK t : t = run[d]
    OBVIOUS
<1>2. PICK h : h = vault[d].head
    OBVIOUS
<1>3. PICK w : w = t.work
    OBVIOUS
<1>4. PICK i : i = h + 1
    OBVIOUS
<1>5. PICK u : u = NextCommit(t, i, w)
    OBVIOUS
<1>6. PICK f : f = disk[d]
    OBVIOUS
<1>7. PICK r : r = rows[d]
    OBVIOUS
<1>8. /\ t.pc = "marked" /\ UNCHANGED <<log, disk, rows, settled>> /\ run' = [run EXCEPT ![d] = u]
      /\ vault' = [vault EXCEPT ![d].head = @ + 1]
    BY <1>1, <1>2, <1>3, <1>4, <1>5, Zenon DEF AdvanceHead
<1>9. t \in Runs /\ RunOK(t, h, r) /\ h \in Nat /\ Len(log) \in Nat /\ Typed
    BY <1>1, <1>2, <1>7, DeviceFacts DEF DeviceInv
<1>10. /\ i \in Nat /\ i \in 0 .. Len(log) /\ w \in KnownTrees /\ t.target \in Nat /\ i <= t.target /\ t.target <= Len(log)
       /\ \A n \in Names : w[n] = TreeAt[i][n]
    BY <1>3, <1>4, <1>8, <1>9 DEF RunOK, Runs
<1>11. w = TreeAt[i]
    <2>1. TreeAt[i] \in KnownTrees
        BY <1>10, TreeKnown
    <2> QED
        BY <1>10, <2>1 DEF KnownTrees
<1>12. NoTombstones /\ MarkedAt(t, h, r, f)
    BY <1>1, <1>2, <1>6, <1>7, <1>8, SyncFacts DEF SyncAt
<1>13. /\ AsScanned(r, f) /\ t.gone = {} /\ \A n \in t.snap : r[n] # NoRow
    BY <1>12 DEF MarkedAt
<1>14. \A n \in Names : (Clean(r, n) => r[n].hash = TreeAt[i][n]) /\ (TreeAt[i][n] # Absent => f[n] # Absent)
    BY <1>4, <1>12 DEF MarkedAt
<1>15. RowsAt(i, r, f)
    BY <1>13, <1>14 DEF RowsAt, AsScanned
<1>16. u = NextCommit(t, i, TreeAt[i])
    BY <1>5, <1>11
<1>17. SyncAt(u, i, r, f) /\ u.pc # "idle"
    BY <1>9, <1>10, <1>12, <1>13, <1>14, <1>15, <1>16, NextSync
<1>18. StepOf(d, u, i, f) /\ rows'[d] = r
    BY <1>2, <1>4, <1>6, <1>7, <1>8, <1>9 DEF StepOf, Typed
<1> QED
    BY <1>8, <1>17, <1>18, SyncStep

\* The change of file n is done: it counts as synced, or it is dirty.
LEMMA ChangeSyncs ==
    ASSUME DeviceInv, SyncInv, NEW d \in Devices, run[d].pc = "apply", NEW n \in run[d].left, NEW f, NEW clean \in BOOLEAN,
           ChangeDone(d, n, f, clean),
           \A m \in Names \ {n} : f[m] = disk[d][m] \/ m \in FreeCopies(d),
           f[n] # Absent, ~clean => rows[d][n] # NoRow /\ rows[d][n].dirty
    PROVE  SyncInv'
<1>1. PICK h : h = vault[d].head
    OBVIOUS
<1>2. PICK t : t = run[d]
    OBVIOUS
<1>3. PICK x : x = Remote(d, n)
    OBVIOUS
<1>4. PICK r : r = rows[d]
    OBVIOUS
<1>5. n \in Names /\ h \in Nat
    BY <1>1, ApplyFacts, DeviceFacts
<1>6. t \in Runs /\ t.pc = "apply" /\ n \in t.left /\ Typed /\ t.work \in KnownTrees
    BY <1>1, <1>2, <1>4, DeviceFacts DEF RunOK, DeviceInv
<1>7. PICK L : L = t.left \ {n}
    OBVIOUS
<1>8. PICK w : w = [t.work EXCEPT ![n] = x]
    OBVIOUS
<1>9. PICK S : S = IF clean THEN t.synced \cup {n} ELSE t.synced
    OBVIOUS
<1>10. PICK u : u = [t EXCEPT !.left = L, !.work = w, !.synced = S, !.read = NoRow, !.local = Absent]
    OBVIOUS
<1>11. run' = [run EXCEPT ![d] = u]
    <2>1. run' = [run EXCEPT ![d].left = @ \ {n}, ![d].work = [@ EXCEPT ![n] = Remote(d, n)],
                             ![d].synced = IF clean THEN @ \cup {n} ELSE @, ![d].read = NoRow, ![d].local = Absent]
        BY DEF ChangeDone
    <2> QED
        BY <1>2, <1>3, <1>7, <1>8, <1>9, <1>10, <2>1, Zenon
<1>12. \A m \in Names \ {n} : w[m] = t.work[m]
    BY <1>5, <1>6, <1>8 DEF KnownTrees
<1>13. u.pc = "apply" /\ u.left = L /\ u.work = w /\ u.synced = S /\ u.snap = t.snap /\ u.gone = t.gone
    BY <1>6, <1>10 DEF Runs
<1>14. StepOf(d, u, h, f) /\ rows'[d] = r /\ UNCHANGED settled
    BY <1>1, <1>4, <1>6, <1>11 DEF StepOf, ChangeDone, Typed
<1>15. ApplyAt(t, h, r, disk[d]) /\ RowsAt(h, r, disk[d])
    BY <1>1, <1>2, <1>4, <1>6, SyncFacts DEF SyncAt
<1>16. ASSUME NEW m \in Names
       PROVE  /\ disk[d][m] # Absent => f[m] # Absent
              /\ m # n /\ r[m] # NoRow => f[m] = disk[d][m]
    <2>1. m \in FreeCopies(d) => disk[d][m] = Absent /\ r[m] = NoRow
        BY <1>4, Zenon DEF FreeCopies
    <2> QED
        BY <1>16, <2>1
<1>17. RowsAt(h, r, f)
    BY <1>15, <1>16 DEF RowsAt
<1>18. ApplyAt(u, h, r, f)
    <2>1. t.left \subseteq Names
        BY <1>6 DEF Runs
    <2>2. ASSUME NEW m \in L
          PROVE  /\ w[m] = TreeAt[h][m]
                 /\ r[m] # NoRow => r[m].hash = f[m]
                 /\ m \in t.snap /\ Clean(r, m) => r[m].hash = TreeAt[h][m]
        <3>1. m \in t.left /\ m \in Names \ {n}
            BY <1>7, <2>1, <2>2
        <3> QED
            BY <1>12, <1>15, <1>16, <3>1 DEF ApplyAt
    <2>3. ASSUME NEW m \in DOMAIN log[h + 1].ops, m \notin L, m \notin S PROVE r[m] # NoRow /\ r[m].dirty
        <3>1. CASE m = n
            <4>1. ~clean
                BY <1>9, <2>3, <3>1
            <4> QED
                BY <1>4, <3>1, <4>1
        <3>2. CASE m # n
            <4>1. m \notin t.left /\ m \notin t.synced
                BY <1>7, <1>9, <2>3, <3>2
            <4> QED
                BY <1>15, <2>3, <4>1 DEF ApplyAt
        <3> QED
            BY <3>1, <3>2
    <2>4. ASSUME NEW m \in Names \ L, TreeAt[h + 1][m] # Absent PROVE f[m] # Absent
        <3>1. CASE m = n
            BY <3>1
        <3>2. CASE m # n
            <4>1. m \in Names \ t.left
                BY <1>7, <2>4, <3>2
            <4>2. disk[d][m] # Absent
                BY <1>15, <2>4, <4>1 DEF ApplyAt
            <4> QED
                BY <1>16, <4>1, <4>2
        <3> QED
            BY <3>1, <3>2
    <2>5. t.gone = {} /\ \A m \in t.snap : r[m] # NoRow
        BY <1>15 DEF ApplyAt
    <2> QED
        BY <1>13, <2>2, <2>3, <2>4, <2>5 DEF ApplyAt
<1>19. SyncAt(u, h, r, f)
    BY <1>13, <1>17, <1>18 DEF SyncAt
<1> QED
    BY <1>13, <1>14, <1>19, SyncStep

\* No commit deletes a file.
LEMMA RemotePresent ==
    ASSUME DeviceInv, SyncInv, NEW d \in Devices, run[d].pc = "apply", NEW n \in run[d].left
    PROVE  Remote(d, n) # Absent
<1>1. vault[d].head + 1 \in 1 .. Len(log) /\ n \in DOMAIN log[vault[d].head + 1].ops
    BY ApplyFacts
<1>2. NoTombstones
    BY DEF SyncInv
<1> QED
    BY <1>1, <1>2 DEF NoTombstones, Remote

\* A file that is not dirty takes the remote version.
LEMMA ApplyCleanSyncs ==
    ASSUME DeviceInv, SyncInv, NEW d \in Devices, NEW n \in Names, ApplyClean(d, n)
    PROVE  SyncInv'
<1>1. PICK f : f = [disk[d] EXCEPT ![n] = Remote(d, n)]
    OBVIOUS
<1>2. PICK b : b = TRUE
    OBVIOUS
<1>3. run[d].pc = "apply" /\ n \in run[d].left /\ ChangeDone(d, n, f, b) /\ b \in BOOLEAN
    BY <1>1, <1>2, Zenon DEF ApplyClean
<1>4. f[n] = Remote(d, n) /\ \A m \in Names \ {n} : f[m] = disk[d][m]
    BY <1>1, DeviceFacts DEF KnownTrees
<1>5. f[n] # Absent
    BY <1>3, <1>4, RemotePresent
<1> QED
    BY <1>2, <1>3, <1>4, <1>5, ChangeSyncs

\* Nothing was deleted here.
LEMMA ApplyToDeletedSyncs ==
    ASSUME DeviceInv, SyncInv, NEW d \in Devices, NEW n \in Names, ApplyToDeleted(d, n)
    PROVE  FALSE
<1>1. run[d].pc = "apply" /\ n \in run[d].gone
    BY DEF ApplyToDeleted
<1>2. ApplyAt(run[d], vault[d].head, rows[d], disk[d])
    BY <1>1, SyncFacts DEF SyncAt
<1> QED
    BY <1>1, <1>2 DEF ApplyAt

\* A merge begins.
LEMMA ReadLocalSyncs ==
    ASSUME DeviceInv, SyncInv, NEW d \in Devices, NEW n \in Names, ReadLocal(d, n)
    PROVE  SyncInv'
<1>1. PICK t : t = run[d]
    OBVIOUS
<1>2. PICK x : x = disk[d][n]
    OBVIOUS
<1>3. PICK u : u = [t EXCEPT !.read = n, !.local = x]
    OBVIOUS
<1>4. PICK r : r = rows[d]
    OBVIOUS
<1>5. PICK h : h = vault[d].head
    OBVIOUS
<1>6. PICK f : f = disk[d]
    OBVIOUS
<1>7. t.pc = "apply" /\ UNCHANGED <<log, disk, vault, rows, settled>>
    BY <1>1 DEF ReadLocal
<1>8. run' = [run EXCEPT ![d] = u]
    <2>1. run' = [run EXCEPT ![d].read = n, ![d].local = disk[d][n]]
        BY DEF ReadLocal
    <2> QED
        BY <1>1, <1>2, <1>3, <2>1, Zenon
<1>9. t \in Runs /\ Typed
    BY <1>1, DeviceFacts DEF DeviceInv
<1>10. u.pc = "apply" /\ u.snap = t.snap /\ u.gone = t.gone /\ u.left = t.left /\ u.work = t.work /\ u.synced = t.synced
    BY <1>3, <1>7, <1>9 DEF Runs
<1>11. ApplyAt(t, h, r, f) /\ RowsAt(h, r, f)
    BY <1>1, <1>4, <1>5, <1>6, <1>7, SyncFacts DEF SyncAt
<1>12. ApplyAt(u, h, r, f)
    BY <1>10, <1>11 DEF ApplyAt
<1>13. SyncAt(u, h, r, f)
    BY <1>10, <1>11, <1>12 DEF SyncAt
<1>14. StepOf(d, u, h, f) /\ rows'[d] = r
    BY <1>4, <1>5, <1>6, <1>7, <1>8, <1>9 DEF StepOf, Typed
<1> QED
    BY <1>7, <1>10, <1>13, <1>14, SyncStep

\* A file that was read and is not dirty is as in the local tree, the base of the
\* merge.
LEMMA ReadClean ==
    ASSUME DeviceInv, KeepInv, SyncInv, NEW d \in Devices, NEW n \in Names, run[d].pc = "apply", run[d].read = n
    PROVE  rows[d][n] # NoRow /\ (rows[d][n].dirty \/ run[d].local = run[d].work[n])
<1>1. n \in run[d].left /\ n \in run[d].snap /\ run[d].local = disk[d][n]
    BY ReadThere
<1>2. ApplyAt(run[d], vault[d].head, rows[d], disk[d])
    BY SyncFacts DEF SyncAt
<1> QED
    BY <1>1, <1>2 DEF ApplyAt, Clean

\* A merge is the remote version, or the file is dirty.
LEMMA ApplyMergeSyncs ==
    ASSUME DeviceInv, KeepInv, SyncInv, NEW d \in Devices, NEW n \in Names, ApplyMerge(d, n)
    PROVE  SyncInv'
<1>1. PICK base : base = run[d].work[n]
    OBVIOUS
<1>2. PICK y : y = Remote(d, n)
    OBVIOUS
<1>3. PICK z : z = run[d].local
    OBVIOUS
<1>4. PICK x : x = Merge(base, z, y)
    OBVIOUS
<1>5. PICK b : b = IsRemote(x, y)
    OBVIOUS
<1>6. PICK f : f = [disk[d] EXCEPT ![n] = x]
    OBVIOUS
<1>7. /\ run[d].pc = "apply" /\ run[d].read = n /\ y # Absent /\ base # Absent
      /\ ChangeDone(d, n, f, b)
    BY <1>1, <1>2, <1>3, <1>4, <1>5, <1>6 DEF ApplyMerge
<1>8. n \in run[d].left /\ z \in Known /\ z # Absent /\ base \in Known /\ disk[d] \in KnownTrees
    BY <1>1, <1>3, <1>7, ReadFacts
<1>9. y \in Known
    BY <1>2, <1>7, <1>8, ApplyFacts
<1>10. x # Absent
    <2>1. x \in SUBSET Edits
        BY <1>4, <1>7, <1>8, <1>9 DEF Known, Merge, DeviceInv, Typed
    <2> QED
        BY <2>1, DeviceAssumption
<1>11. f[n] = x /\ \A m \in Names \ {n} : f[m] = disk[d][m]
    BY <1>6, <1>8 DEF KnownTrees
<1>12. b \in BOOLEAN /\ (x = y => b)
    BY <1>5, Zenon DEF IsRemote
<1>13. z = base => x = y
    <2>1. y \in SUBSET written /\ base \in SUBSET written
        BY <1>7, <1>8, <1>9 DEF Known
    <2> QED
        BY <1>4, <2>1 DEF Merge
<1>14. rows[d][n] # NoRow /\ (rows[d][n].dirty \/ z = base)
    BY <1>1, <1>3, <1>7, ReadClean
<1>15. ~b => rows[d][n] # NoRow /\ rows[d][n].dirty
    BY <1>12, <1>13, <1>14, Zenon
<1>16. f[n] # Absent
    BY <1>10, <1>11
<1> QED
    BY <1>7, <1>8, <1>11, <1>12, <1>15, <1>16, ChangeSyncs

\* The lines of a file that is not dirty do not collide.
LEMMA ApplyConflictSyncs ==
    ASSUME DeviceInv, KeepInv, SyncInv, NEW d \in Devices, NEW n \in Names, ApplyConflict(d, n)
    PROVE  SyncInv'
<1>1. PICK c \in FreeCopies(d) : ChangeDone(d, n, WithCopy(disk[d], Remote(d, n), c), FALSE)
    BY DEF ApplyConflict
<1>2. run[d].pc = "apply" /\ run[d].read = n /\ run[d].local # run[d].work[n]
    BY DEF ApplyConflict
<1>3. n \in run[d].left /\ run[d].local = disk[d][n] /\ run[d].local # Absent
    BY <1>2, ReadThere
<1>4. rows[d][n] # NoRow /\ rows[d][n].dirty
    BY <1>2, ReadClean
<1>5. PICK f : f = WithCopy(disk[d], Remote(d, n), c)
    OBVIOUS
<1>6. PICK b : b = FALSE
    OBVIOUS
<1>7. ChangeDone(d, n, f, b) /\ b \in BOOLEAN
    BY <1>1, <1>5, <1>6, Zenon
<1>8. c # n /\ c \in Names
    BY <1>4 DEF FreeCopies, Names
<1>9. \A m \in Names \ {c} : f[m] = disk[d][m]
    BY <1>5, <1>8, DeviceFacts DEF WithCopy, KnownTrees
<1>10. f[n] # Absent /\ \A m \in Names \ {n} : f[m] = disk[d][m] \/ m \in FreeCopies(d)
    BY <1>3, <1>8, <1>9
<1> QED
    BY <1>2, <1>3, <1>4, <1>7, <1>10, ChangeSyncs

\* Nothing was deleted elsewhere.
LEMMA ApplyDeleteToEditedSyncs ==
    ASSUME DeviceInv, SyncInv, NEW d \in Devices, NEW n \in Names, ApplyDeleteToEdited(d, n)
    PROVE  FALSE
<1>1. run[d].pc = "apply" /\ run[d].read = n /\ Remote(d, n) = Absent
    BY DEF ApplyDeleteToEdited
<1>2. n \in run[d].left
    BY <1>1, ReadFacts
<1> QED
    BY <1>1, <1>2, RemotePresent

\* Whatever happens to a remote change.
LEMMA ApplySyncs ==
    ASSUME DeviceInv, KeepInv, SyncInv, NEW d \in Devices, NEW n \in Names, Apply(d, n)
    PROVE  SyncInv'
BY ApplyCleanSyncs, ApplyToDeletedSyncs, ReadLocalSyncs, ApplyMergeSyncs, ApplyConflictSyncs, ApplyDeleteToEditedSyncs
   DEF Apply

\* A commit is applied: what is clean now is as in this commit.
LEMMA PersistAppliedSyncs ==
    ASSUME DeviceInv, SyncInv, ~EditDuringRun, NEW d \in Devices, PersistApplied(d)
    PROVE  SyncInv'
<1>1. PICK t : t = run[d]
    OBVIOUS
<1>2. PICK f : f = disk[d]
    OBVIOUS
<1>3. PICK h : h = vault[d].head
    OBVIOUS
<1>4. PICK r : r = rows[d]
    OBVIOUS
<1>5. PICK s : s = Scanned(r, f)
    OBVIOUS
<1>6. PICK m : m = Marked(s, t.synced)
    OBVIOUS
<1>7. PICK u : u = [t EXCEPT !.pc = "marked"]
    OBVIOUS
<1>8. t.pc = "apply" /\ t.left = {} /\ UNCHANGED <<log, disk, vault, settled>> /\ rows' = [rows EXCEPT ![d] = m]
    BY <1>1, <1>2, <1>4, <1>5, <1>6 DEF PersistApplied
<1>9. run' = [run EXCEPT ![d] = u]
    <2>1. run' = [run EXCEPT ![d].pc = "marked"]
        BY DEF PersistApplied
    <2> QED
        BY <1>1, <1>7, <2>1, Zenon
<1>10. /\ t \in Runs /\ r \in RowSets /\ f \in Trees /\ RunOK(t, h, r) /\ SyncedOK(t, h, f) /\ Typed
       /\ h \in Nat /\ Len(log) \in Nat
    BY <1>1, <1>2, <1>3, <1>4, DeviceFacts DEF DeviceInv
<1>11. h < Len(log) /\ \A n \in Names : t.work[n] = TreeAt[h + 1][n]
    BY <1>8, <1>10 DEF RunOK, Runs
<1>12. NoTombstones /\ ApplyAt(t, h, r, f) /\ RowsAt(h, r, f)
    BY <1>1, <1>2, <1>3, <1>4, <1>8, SyncFacts DEF SyncAt
<1>13. /\ AsScanned(s, f) /\ s \in RowSets /\ \A n \in Names : Clean(s, n) => Clean(r, n) /\ r[n].hash = f[n]
    BY <1>5, <1>10, <1>12, ScanRows
<1>14. ASSUME NEW n \in Names
       PROVE  /\ m[n] = NoRow <=> s[n] = NoRow
              /\ m[n] # NoRow => m[n].hash = s[n].hash
              /\ Clean(m, n) => n \in t.synced \/ Clean(s, n)
    BY <1>6, <1>13, MarkRows
<1>15. AsScanned(m, f)
    BY <1>13, <1>14 DEF AsScanned
<1>16. ASSUME NEW n \in Names, Clean(m, n) PROVE m[n].hash = TreeAt[h + 1][n]
    <2>1. m[n].hash = f[n]
        BY <1>15, <1>16 DEF AsScanned, Clean
    <2>2. CASE n \in t.synced
        <3>1. f[n] = t.work[n]
            BY <1>8, <1>10, <2>2 DEF SyncedOK
        <3> QED
            BY <1>11, <2>1, <3>1
    <2>3. CASE n \notin t.synced
        <3>1. Clean(r, n) /\ r[n].hash = f[n]
            BY <1>13, <1>14, <1>16, <2>3
        <3>2. n \notin DOMAIN log[h + 1].ops
            BY <1>8, <1>12, <2>3, <3>1 DEF ApplyAt, Clean
        <3>3. TreeAt[h + 1][n] = TreeAt[h][n]
            BY <1>10, <1>11, <1>12, <3>2, TreeNext
        <3> QED
            BY <1>12, <2>1, <3>1, <3>3 DEF RowsAt
    <2> QED
        BY <2>2, <2>3
<1>17. \A n \in Names : TreeAt[h + 1][n] # Absent => f[n] # Absent
    BY <1>8, <1>12 DEF ApplyAt
<1>18. u.pc = "marked" /\ u.snap = t.snap /\ u.gone = t.gone
    BY <1>7, <1>10 DEF Runs
<1>19. t.gone = {} /\ \A n \in t.snap : n \in Names /\ m[n] # NoRow
    <2>1. t.gone = {} /\ t.snap \subseteq Names /\ \A n \in t.snap : r[n] # NoRow
        BY <1>10, <1>12 DEF ApplyAt, Runs
    <2>2. Keeps(r, s)
        BY <1>5, <1>10, ScannedFacts DEF ScanOf
    <2> QED
        BY <1>14, <2>1, <2>2 DEF Keeps
<1>20. MarkedAt(u, h, m, f)
    BY <1>15, <1>16, <1>17, <1>18, <1>19 DEF MarkedAt
<1>21. RowsAt(h, m, f)
    BY <1>11, <1>12, <1>15, <1>16 DEF RowsAt, AsScanned
<1>22. SyncAt(u, h, m, f)
    BY <1>18, <1>20, <1>21 DEF SyncAt
<1>23. StepOf(d, u, h, f) /\ rows'[d] = m
    BY <1>2, <1>3, <1>8, <1>9, <1>10 DEF StepOf, Typed
<1> QED
    BY <1>8, <1>18, <1>22, <1>23, SyncStep

\* A plan takes all that is dirty, so its tree is the vault.  With nothing to plan
\* the vault is as the local tree.
LEMMA PushPlanSyncs ==
    ASSUME DeviceInv, SyncInv, NEW d \in Devices, PushPlan(d)
    PROVE  SyncInv'
<1>1. PICK t : t = run[d]
    OBVIOUS
<1>2. PICK h : h = vault[d].head
    OBVIOUS
<1>3. PICK f : f = disk[d]
    OBVIOUS
<1>4. PICK r : r = rows[d]
    OBVIOUS
<1>5. PICK s : s = Scanned(r, f)
    OBVIOUS
<1>6. PICK k : k = PushKind(d)
    OBVIOUS
<1>7. PICK ops : ops = PlanOps(d, k)
    OBVIOUS
<1>8. PICK P : P = ParentIds(Len(log)) \cup (IF k = "merge" THEN {t.parent} ELSE {})
    OBVIOUS
<1>9. PICK w : w = MaterializedTree(tree[d], ops)
    OBVIOUS
<1>10. PICK c : c = [dev |-> d, seq |-> vault[d].seq, kind |-> k, expected |-> Len(log), parents |-> P, ops |-> ops, tree |-> w]
    OBVIOUS
<1>11. PICK v : v = [t EXCEPT !.pc = "upload", !.plan = c]
    OBVIOUS
<1>12. PICK u : u = IF DOMAIN ops = {} THEN Idle ELSE v
    OBVIOUS
<1>13. /\ h = Len(log) /\ rows' = [rows EXCEPT ![d] = s] /\ run' = [run EXCEPT ![d] = u]
       /\ UNCHANGED <<log, disk, vault, settled>>
    BY <1>1, <1>2, <1>3, <1>4, <1>5, <1>6, <1>7, <1>8, <1>9, <1>10, <1>11, <1>12, Zenon DEF PushPlan
<1>14. /\ t \in Runs /\ r \in RowSets /\ f \in Trees /\ h \in Nat /\ Len(log) \in Nat /\ tree[d] = TreeAt[h] /\ Typed
    BY <1>1, <1>2, <1>3, <1>4, DeviceFacts DEF DeviceInv
<1>15. RowsAt(h, r, f)
    BY <1>2, <1>3, <1>4, SyncFacts
<1>16. AsScanned(s, f) /\ RowsAt(h, s, f) /\ s \in RowSets
    BY <1>5, <1>14, <1>15, ScanRows
<1>17. /\ v.pc = "upload" /\ v.plan = c /\ c.tree = w /\ c.ops = ops /\ c.kind = k /\ c.expected = h
    BY <1>10, <1>11, <1>13, <1>14 DEF Runs
<1>18. \A n \in DOMAIN ops : ops[n] = f[n]
    BY <1>3, <1>7 DEF PlanOps
<1>19. ASSUME NEW n \in Names, s[n] # NoRow, s[n].dirty PROVE n \in DOMAIN ops
    <2>1. f[n] # Absent
        BY <1>16, <1>19 DEF AsScanned
    <2>2. n \in Dirty(s)
        BY <1>19 DEF Dirty
    <2>3. n \in Upserts(r, f)
        BY <1>5, <2>1, <2>2 DEF Upserts
    <2>4. PICK N : N = IF k = "checkpoint" THEN {x \in Names : f[x] # Absent} ELSE Upserts(r, f) \cup Deletions(r, f)
        OBVIOUS
    <2>5. ops = [x \in N |-> f[x]]
        BY <1>3, <1>4, <1>7, <2>4, Zenon DEF PlanOps
    <2> QED
        BY <2>1, <2>3, <2>4, <2>5
<1>20. ASSUME NEW n \in Names PROVE w[n] = f[n]
    <2>1. w[n] = IF n \in DOMAIN ops THEN f[n] ELSE TreeAt[h][n]
        BY <1>9, <1>14, <1>18 DEF MaterializedTree
    <2>2. CASE n \in DOMAIN ops
        BY <2>1, <2>2
    <2>3. CASE n \notin DOMAIN ops /\ s[n] = NoRow
        BY <1>16, <2>1, <2>3 DEF AsScanned, RowsAt
    <2>4. CASE n \notin DOMAIN ops /\ s[n] # NoRow
        <3>1. Clean(s, n)
            BY <1>19, <2>4 DEF Clean
        <3>2. s[n].hash = TreeAt[h][n]
            BY <1>13, <1>14, <1>16, <3>1 DEF RowsAt
        <3> QED
            BY <1>16, <2>1, <2>4, <3>2 DEF AsScanned
    <2> QED
        BY <2>2, <2>3, <2>4
<1>21. StepOf(d, u, h, f) /\ rows'[d] = s
    BY <1>2, <1>3, <1>13, <1>14 DEF StepOf, Typed
<1>22. CASE DOMAIN ops = {}
    <2>1. u.pc = "idle"
        BY <1>12, <1>22 DEF Idle
    <2>2. SyncAt(u, h, s, f)
        BY <1>16, <2>1 DEF SyncAt
    <2>3. \A n \in Names : s[n] # NoRow => Clean(s, n)
        BY <1>19, <1>22 DEF Clean
    <2>4. \A n \in Names : w[n] = TreeAt[h][n]
        BY <1>9, <1>14, <1>22 DEF MaterializedTree
    <2>5. SettledAt(h, s, f)
        BY <1>16, <1>20, <2>3, <2>4 DEF SettledAt
    <2> QED
        BY <1>13, <1>21, <2>2, <2>5, SyncStep
<1>23. CASE DOMAIN ops # {}
    <2>1. u = v
        BY <1>12, <1>23
    <2>2. k = "checkpoint" => h = 0
        BY <1>6, <1>13 DEF PushKind
    <2>3. PlanAt(v, h, s, f)
        BY <1>16, <1>17, <1>19, <1>20, <2>2 DEF PlanAt
    <2>4. SyncAt(v, h, s, f)
        BY <1>16, <1>17, <2>3 DEF SyncAt
    <2> QED
        BY <1>13, <1>17, <1>21, <2>1, <2>4, SyncStep
<1> QED
    BY <1>22, <1>23

\* PublishCommit accepts a plan: it deletes nothing either.
LEMMA PublishAcceptedSyncs ==
    ASSUME DeviceInv, SyncInv, NEW d \in Devices, PublishAccepted(d)
    PROVE  SyncInv'
<1>1. PICK t : t = run[d]
    OBVIOUS
<1>2. PICK c : c = t.plan
    OBVIOUS
<1>3. PICK k : k = Len(log)
    OBVIOUS
<1>4. PICK u : u = [t EXCEPT !.pc = "sent"]
    OBVIOUS
<1>5. PICK r : r = rows[d]
    OBVIOUS
<1>6. PICK f : f = disk[d]
    OBVIOUS
<1>7. /\ t.pc = "upload" /\ c.expected = k /\ log' = Append(log, c) /\ UNCHANGED <<disk, rows, vault, settled>>
    BY <1>1, <1>2, <1>3 DEF PublishAccepted
<1>8. run' = [run EXCEPT ![d] = u]
    <2>1. run' = [run EXCEPT ![d].pc = "sent"]
        BY DEF PublishAccepted
    <2> QED
        BY <1>1, <1>4, <2>1, Zenon
<1>9. log \in Seq(Commits) /\ k \in Nat /\ t \in Runs /\ RunOK(t, vault[d].head, r) /\ Typed
    BY <1>1, <1>3, <1>5, DeviceFacts DEF DeviceInv
<1>10. CommitOK(c) /\ vault[d].head = k /\ PlanScanned(r, c.ops)
    BY <1>2, <1>7, <1>9 DEF RunOK
<1>11. c \in Commits
    BY <1>10 DEF CommitOK
<1>12. Len(log') = k + 1 /\ log'[k + 1] = c /\ \A i \in 1 .. k : log'[i] = log[i]
    BY <1>3, <1>7, <1>9, <1>11
<1>13. \A i \in 0 .. k : TreeAt'[i] = TreeAt[i]
    BY <1>9, <1>12, TreeGrows
<1>14. NoTombstones /\ PlanAt(t, k, r, f) /\ RowsAt(k, r, f)
    BY <1>1, <1>5, <1>6, <1>7, <1>10, SyncFacts DEF SyncAt
<1>15. NoTombstones'
    <2>1. c.kind = "checkpoint" => k + 1 = 1
        BY <1>2, <1>7, <1>9, <1>14 DEF PlanAt
    <2>2. ASSUME NEW n \in DOMAIN c.ops PROVE c.ops[n] # Absent
        <3>1. n \in Names /\ r[n] # NoRow /\ r[n].hash = c.ops[n]
            BY <1>10, <2>2 DEF CommitOK, PlanScanned
        <3> QED
            BY <1>14, <3>1 DEF PlanAt, AsScanned
    <2>3. ASSUME NEW i \in 1 .. Len(log')
          PROVE  (log'[i].kind = "checkpoint" => i = 1) /\ \A n \in DOMAIN log'[i].ops : log'[i].ops[n] # Absent
        <3>1. CASE i = k + 1
            BY <1>12, <2>1, <2>2, <3>1
        <3>2. CASE i # k + 1
            <4>1. i \in 1 .. k
                BY <1>9, <1>12, <2>3, <3>2
            <4> QED
                BY <1>3, <1>12, <1>14, <4>1 DEF NoTombstones
        <3> QED
            BY <3>1, <3>2
    <2> QED
        BY <2>3 DEF NoTombstones
<1>16. u.pc = "sent" /\ u.plan = c
    BY <1>2, <1>4, <1>9 DEF Runs
<1>17. run'[d] = u /\ \A o \in Devices \ {d} : run'[o] = run[o]
    BY <1>8, <1>9 DEF Typed
<1>18. ASSUME NEW h \in 0 .. k, NEW q, NEW g, RowsAt(h, q, g) PROVE RowsAt(h, q, g)'
    <2>1. TreeAt'[h] = TreeAt[h]
        BY <1>13
    <2>2. h < Len(log) => h < Len(log') /\ TreeAt'[h + 1] = TreeAt[h + 1]
        BY <1>3, <1>9, <1>12, <1>13
    <2> QED
        BY <1>18, <2>1, <2>2 DEF RowsAt, Clean
<1>19. ASSUME NEW o \in Devices, o # d PROVE SyncAt(run[o], vault[o].head, rows[o], disk[o])'
    <2>1. PICK v : v = run[o]
        OBVIOUS
    <2>2. PICK h : h = vault[o].head
        OBVIOUS
    <2>3. PICK q : q = rows[o]
        OBVIOUS
    <2>4. PICK g : g = disk[o]
        OBVIOUS
    <2>5. SyncAt(v, h, q, g) /\ RunOK(v, h, q) /\ h \in 0 .. k /\ v \in Runs
        BY <1>3, <2>1, <2>2, <2>3, <2>4, SyncFacts, DeviceFacts
    <2>6. TreeAt'[h] = TreeAt[h]
        BY <1>13, <2>5
    <2>7. v.pc \in {"apply", "marked"} => TreeAt'[h + 1] = TreeAt[h + 1] /\ log'[h + 1] = log[h + 1]
        <3>1. v.pc \in {"apply", "marked"} => h + 1 \in 0 .. k /\ h + 1 \in 1 .. k
            BY <1>3, <1>9, <2>5 DEF RunOK, Runs
        <3> QED
            BY <1>12, <1>13, <3>1
    <2>8. RowsAt(h, q, g)'
        BY <1>18, <2>5 DEF SyncAt
    <2>9. v.pc = "apply" => ApplyAt(v, h, q, g)'
        BY <2>5, <2>6, <2>7 DEF SyncAt, ApplyAt, Clean
    <2>10. v.pc = "marked" => MarkedAt(v, h, q, g)'
        BY <2>5, <2>6, <2>7 DEF SyncAt, MarkedAt, AsScanned, Clean
    <2>11. v.pc \in {"upload", "sent", "saved"} => PlanAt(v, h, q, g)'
        BY <2>5 DEF SyncAt, PlanAt, AsScanned, Clean
    <2>12. SyncAt(v, h, q, g)'
        BY <2>8, <2>9, <2>10, <2>11 DEF SyncAt
    <2>13. run'[o] = v /\ vault'[o].head = h /\ rows'[o] = q /\ disk'[o] = g
        BY <1>7, <1>17, <1>19, <2>1, <2>2, <2>3, <2>4
    <2> QED
        BY <2>12, <2>13, Zenon
<1>20. SyncAt(run[d], vault[d].head, rows[d], disk[d])'
    <2>1. k \in 0 .. k
        BY <1>9
    <2>2. RowsAt(k, r, f)'
        BY <1>14, <1>18, <2>1
    <2>3. PlanAt(u, k, r, f)'
        BY <1>2, <1>7, <1>14, <1>16 DEF PlanAt, AsScanned, Clean
    <2>4. SyncAt(u, k, r, f)'
        BY <1>16, <2>2, <2>3 DEF SyncAt
    <2>5. run'[d] = u /\ vault'[d].head = k /\ rows'[d] = r /\ disk'[d] = f
        BY <1>5, <1>6, <1>7, <1>10, <1>17
    <2> QED
        BY <2>4, <2>5, Zenon
<1>21. ASSUME NEW o \in Devices, settled'[o], run'[o].pc = "idle"
       PROVE  SettledAt(vault[o].head, rows[o], disk[o])'
    <2>1. PICK h : h = vault[o].head
        OBVIOUS
    <2>2. PICK q : q = rows[o]
        OBVIOUS
    <2>3. PICK g : g = disk[o]
        OBVIOUS
    <2>4. o # d
        BY <1>16, <1>17, <1>21
    <2>5. settled[o] /\ run[o].pc = "idle"
        BY <1>7, <1>17, <1>21, <2>4
    <2>6. SettledAt(h, q, g)
        BY <2>1, <2>2, <2>3, <2>5, Zenon DEF SyncInv
    <2>7. TreeAt'[h] = TreeAt[h]
        BY <1>3, <1>13, <2>1, DeviceFacts
    <2>8. SettledAt(h, q, g)'
        BY <2>6, <2>7 DEF SettledAt, AsScanned, Clean
    <2>9. vault'[o].head = h /\ rows'[o] = q /\ disk'[o] = g
        BY <1>7, <2>1, <2>2, <2>3
    <2> QED
        BY <2>8, <2>9, Zenon
<1> QED
    BY <1>15, <1>19, <1>20, <1>21, Zenon DEF SyncInv

\* The reply arrives: all is clean, and as in the new commit.
LEMMA PublishSavedSyncs ==
    ASSUME DeviceInv, SyncInv, NEW d \in Devices, PublishSaved(d)
    PROVE  SyncInv'
<1>1. PICK t : t = run[d]
    OBVIOUS
<1>2. PICK S : S = DOMAIN t.plan.ops
    OBVIOUS
<1>3. PICK r : r = rows[d]
    OBVIOUS
<1>4. PICK m : m = Marked(r, S)
    OBVIOUS
<1>5. PICK u : u = [t EXCEPT !.pc = "saved"]
    OBVIOUS
<1>6. PICK f : f = disk[d]
    OBVIOUS
<1>7. PICK h : h = vault[d].head
    OBVIOUS
<1>8. t.pc = "sent" /\ UNCHANGED <<log, disk, vault, settled>> /\ rows' = [rows EXCEPT ![d] = m]
    BY <1>1, <1>2, <1>3, <1>4 DEF PublishSaved
<1>9. run' = [run EXCEPT ![d] = u]
    <2>1. run' = [run EXCEPT ![d].pc = "saved"]
        BY DEF PublishSaved
    <2> QED
        BY <1>1, <1>5, <2>1, Zenon
<1>10. t \in Runs /\ r \in RowSets /\ RunOK(t, h, r) /\ h \in Nat /\ Len(log) \in Nat /\ Typed
    BY <1>1, <1>3, <1>7, DeviceFacts DEF DeviceInv
<1>11. PlanAt(t, h, r, f) /\ RowsAt(h, r, f)
    BY <1>1, <1>3, <1>6, <1>7, <1>8, SyncFacts DEF SyncAt
<1>12. /\ AsScanned(r, f) /\ t.plan.expected = h /\ \A n \in Names : t.plan.tree[n] = f[n]
       /\ \A n \in Names : r[n] # NoRow /\ r[n].dirty => n \in S
    BY <1>2, <1>8, <1>11 DEF PlanAt
<1>13. h + 1 \in 1 .. Len(log) /\ h < Len(log) /\ log[h + 1] = t.plan
    BY <1>8, <1>10, <1>12 DEF RunOK
<1>14. t.plan.tree = TreeAt[h + 1]
    BY <1>13 DEF DeviceInv, HistoryOK, Fits
<1>15. ASSUME NEW n \in Names
       PROVE  /\ m[n] = NoRow <=> r[n] = NoRow
              /\ m[n] # NoRow => m[n].hash = r[n].hash
              /\ r[n] # NoRow /\ (n \in S \/ Clean(r, n)) => Clean(m, n)
    BY <1>4, <1>10, MarkRows
<1>16. AsScanned(m, f)
    BY <1>12, <1>15 DEF AsScanned
<1>17. \A n \in Names : m[n] # NoRow => Clean(m, n)
    <2>1. \A n \in Names : r[n] # NoRow => n \in S \/ Clean(r, n)
        BY <1>12 DEF Clean
    <2> QED
        BY <1>15, <2>1
<1>18. RowsAt(h, m, f)
    <2>1. \A n \in Names : m[n] # NoRow => m[n].hash = TreeAt[h + 1][n]
        BY <1>12, <1>14, <1>16 DEF AsScanned
    <2> QED
        BY <1>11, <1>13, <1>16, <2>1 DEF RowsAt, AsScanned, Clean
<1>19. u.pc = "saved" /\ u.plan = t.plan
    BY <1>5, <1>10 DEF Runs
<1>20. PlanAt(u, h, m, f)
    BY <1>12, <1>16, <1>17, <1>19 DEF PlanAt
<1>21. SyncAt(u, h, m, f)
    BY <1>18, <1>19, <1>20 DEF SyncAt
<1>22. StepOf(d, u, h, f) /\ rows'[d] = m
    BY <1>6, <1>7, <1>8, <1>9, <1>10 DEF StepOf, Typed
<1> QED
    BY <1>8, <1>19, <1>21, <1>22, SyncStep

\* The local head moves to the device's own commit, which is the vault.
LEMMA PublishDoneSyncs ==
    ASSUME DeviceInv, SyncInv, NEW d \in Devices, PublishDone(d)
    PROVE  SyncInv'
<1>1. PICK t : t = run[d]
    OBVIOUS
<1>2. PICK c : c = t.plan
    OBVIOUS
<1>3. PICK i : i = c.expected + 1
    OBVIOUS
<1>4. PICK q : q = [head |-> i, seq |-> c.seq + 1]
    OBVIOUS
<1>5. PICK u : u = Idle
    OBVIOUS
<1>6. PICK f : f = disk[d]
    OBVIOUS
<1>7. PICK r : r = rows[d]
    OBVIOUS
<1>8. /\ t.pc = "saved" /\ UNCHANGED <<log, disk, rows, settled>>
      /\ vault' = [vault EXCEPT ![d] = q] /\ run' = [run EXCEPT ![d] = u]
    BY <1>1, <1>2, <1>3, <1>4, <1>5 DEF PublishDone
<1>9. RunOK(t, vault[d].head, r) /\ Len(log) \in Nat /\ Typed
    BY <1>1, <1>7, DeviceFacts DEF DeviceInv
<1>10. CommitOK(c) /\ i <= Len(log) /\ log[i] = c
    BY <1>2, <1>3, <1>8, <1>9 DEF RunOK
<1>11. i \in 1 .. Len(log)
    BY <1>3, <1>9, <1>10 DEF CommitOK, Commits
<1>12. c.tree = TreeAt[i]
    BY <1>10, <1>11 DEF DeviceInv, HistoryOK, Fits
<1>13. q.head = i /\ u.pc = "idle"
    BY <1>4, <1>5 DEF Idle
<1>14. StepOf(d, u, i, f) /\ rows'[d] = r
    BY <1>6, <1>7, <1>8, <1>9, <1>13 DEF StepOf, Typed
<1>15. PlanAt(t, vault[d].head, r, f)
    BY <1>1, <1>6, <1>7, <1>8, SyncFacts DEF SyncAt
<1>16. SettledAt(i, r, f)
    BY <1>2, <1>8, <1>12, <1>15 DEF PlanAt, SettledAt
<1>17. RowsAt(i, r, f)
    BY <1>16 DEF SettledAt, RowsAt, AsScanned, Clean
<1>18. SyncAt(u, i, r, f)
    BY <1>13, <1>17 DEF SyncAt
<1> QED
    BY <1>8, <1>14, <1>16, <1>18, SyncStep

\* A run ends with an error, or pulls again: the rows stay as they are.
LEMMA StopSyncs ==
    ASSUME DeviceInv, SyncInv, NEW d \in Devices, NEW u, run' = [run EXCEPT ![d] = u], u.pc \in {"idle", "pull"},
           UNCHANGED <<log, disk, rows, vault>>, ~settled'[d] \/ u.pc # "idle",
           \A o \in Devices \ {d} : settled'[o] = settled[o]
    PROVE  SyncInv'
<1>1. PICK h : h = vault[d].head
    OBVIOUS
<1>2. PICK r : r = rows[d]
    OBVIOUS
<1>3. PICK f : f = disk[d]
    OBVIOUS
<1>4. RowsAt(h, r, f)
    BY <1>1, <1>2, <1>3, SyncFacts
<1>5. SyncAt(u, h, r, f)
    BY <1>4 DEF SyncAt
<1>6. StepOf(d, u, h, f) /\ rows'[d] = r
    BY <1>1, <1>2, <1>3 DEF StepOf, DeviceInv, Typed
<1> QED
    BY <1>5, <1>6, SyncStep

\* A run ends with an error, or the app quits.
LEMMA RunFailSyncs ==
    ASSUME DeviceInv, SyncInv, NEW d \in Devices, RunFail(d)
    PROVE  SyncInv'
<1>1. PICK u : u = Idle
    OBVIOUS
<1>2. u.pc = "idle" /\ run' = [run EXCEPT ![d] = u] /\ UNCHANGED <<log, disk, rows, vault>>
    BY <1>1 DEF RunFail, Idle
<1>3. settled' = [settled EXCEPT ![d] = FALSE] /\ settled \in [Devices -> BOOLEAN]
    BY DeviceFacts DEF RunFail
<1>4. ~settled'[d] /\ \A o \in Devices \ {d} : settled'[o] = settled[o]
    BY <1>3, Zenon
<1> QED
    BY <1>2, <1>4, StopSyncs

\* A head conflict.
LEMMA PublishConflictSyncs ==
    ASSUME DeviceInv, SyncInv, NEW d \in Devices, PublishConflict(d)
    PROVE  SyncInv'
<1>1. PICK q : q = [Idle EXCEPT !.pc = "pull", !.second = TRUE, !.parent = run[d].parent]
    OBVIOUS
<1>2. PICK u : u = IF run[d].second THEN Idle ELSE q
    OBVIOUS
<1>3. /\ run' = [run EXCEPT ![d] = u] /\ UNCHANGED <<log, disk, rows, vault>>
      /\ settled' = [settled EXCEPT ![d] = @ /\ ~run[d].second]
    BY <1>1, <1>2, Zenon DEF PublishConflict
<1>4. settled \in [Devices -> BOOLEAN]
    BY DeviceFacts
<1>5. (settled'[d] => ~run[d].second) /\ \A o \in Devices \ {d} : settled'[o] = settled[o]
    BY <1>3, <1>4, Zenon
<1>6. q.pc = "pull" /\ Idle.pc = "idle"
    BY <1>1 DEF Idle
<1>7. u.pc \in {"idle", "pull"} /\ (~settled'[d] \/ u.pc # "idle")
    <2>1. CASE run[d].second
        BY <1>2, <1>5, <1>6, <2>1
    <2>2. CASE ~run[d].second
        BY <1>2, <1>6, <2>2
    <2> QED
        BY <2>1, <2>2
<1> QED
    BY <1>3, <1>5, <1>7, StopSyncs

-----------------------------------------------------------------------------
(* As long as no file was deleted that held something, none is left empty. *)

\* Nobody but device d has e under the name n, and it is in no tree.
OnlyHere(d, n, e) ==
    /\ \A i \in 0 .. Len(log) : ~Holds(TreeAt[i][n], e)
    /\ \A o \in Devices \ {d} : ~Holds(disk[o][n], e)

\* A pull t is done with the name n.
DoneWith(t, n) == t.pc \in {"apply", "marked"} /\ n \notin t.left

\* What device d has under the name n is as in the local tree or in the commit after
\* it (a pull wrote it, or the device published it and did not hear of it), or it
\* holds an edit that is only there.
OwnedAt(d, n, t, h, x) ==
    \/ x = Absent
    \/ ~DoneWith(t, n) /\ x = TreeAt[h][n]
    \/ h < Len(log) /\ x = TreeAt[h + 1][n]
    \/ \E e \in written : Holds(x, e) /\ OnlyHere(d, n, e)

\* No file is empty, on disk or in a tree.
NonEmpty ==
    \A n \in Names : (\A d \in Devices : disk[d][n] # {}) /\ \A i \in 0 .. Len(log) : TreeAt[i][n] # {}

OwnInv ==
    /\ NonEmpty
    /\ \A d \in Devices, n \in Names : OwnedAt(d, n, run[d], vault[d].head, disk[d][n])

\* Where the edits in the files f of a device come from: its files, the history, or
\* the user just now.  A conflict copy has a new name.
FromSomewhere(d, f) ==
    \A n \in Names : \A e \in written :
        Holds(f[n], e) => Holds(disk[d][n], e) \/ (\E i \in 0 .. Len(log) : Holds(TreeAt[i][n], e)) \/ n \in FreeCopies(d)

\* What is left to show of a step that publishes nothing.
LEMMA OwnStep ==
    ASSUME DeviceInv, OwnInv, NEW d \in Devices, NEW u, NEW i, NEW f, StepOf(d, u, i, f), written \subseteq written',
           FromSomewhere(d, f), \A n \in Names : f[n] # {},
           \A n \in Names :
             \/ OwnedAt(d, n, u, i, f[n])
             \/ \E e \in written' : Holds(f[n], e) /\ OnlyHere(d, n, e)
    PROVE  OwnInv'
<1>1. log' = log /\ TreeAt' = TreeAt
    BY SameTrees DEF StepOf
<1>2. /\ run'[d] = u /\ vault'[d].head = i /\ disk'[d] = f
      /\ \A o \in Devices \ {d} : run'[o] = run[o] /\ vault'[o] = vault[o] /\ disk'[o] = disk[o]
    BY DEF StepOf
<1>3. NonEmpty'
    BY <1>1, <1>2 DEF OwnInv, NonEmpty
<1>4. ASSUME NEW n \in Names, NEW e, OnlyHere(d, n, e) PROVE OnlyHere(d, n, e)'
    BY <1>1, <1>2, <1>4 DEF OnlyHere, Holds
<1>5. ASSUME NEW o \in Devices \ {d}, NEW n \in Names, NEW e \in written, Holds(disk[o][n], e), OnlyHere(o, n, e)
      PROVE  OnlyHere(o, n, e)'
    <2>1. n \notin FreeCopies(d)
        BY <1>5, Zenon DEF FreeCopies, Holds
    <2>2. ~Holds(f[n], e)
        BY <1>5, <2>1 DEF FromSomewhere, OnlyHere
    <2> QED
        BY <1>1, <1>2, <1>5, <2>2 DEF OnlyHere, Holds
<1>6. ASSUME NEW n \in Names PROVE OwnedAt(d, n, u, i, f[n])'
    <2>1. CASE \E e \in written' : Holds(f[n], e) /\ OnlyHere(d, n, e)
        BY <1>4, <1>2, <2>1 DEF OwnedAt, Holds
    <2>2. CASE OwnedAt(d, n, u, i, f[n])
        BY <1>1, <1>4, <2>2 DEF OwnedAt, Holds, DoneWith
    <2> QED
        BY <2>1, <2>2
<1>7. ASSUME NEW o \in Devices \ {d}, NEW n \in Names PROVE OwnedAt(o, n, run[o], vault[o].head, disk[o][n])'
    <2>1. OwnedAt(o, n, run[o], vault[o].head, disk[o][n])
        BY DEF OwnInv
    <2>2. CASE \E e \in written : Holds(disk[o][n], e) /\ OnlyHere(o, n, e)
        BY <1>2, <1>5, <2>2 DEF OwnedAt, Holds
    <2>3. CASE ~\E e \in written : Holds(disk[o][n], e) /\ OnlyHere(o, n, e)
        BY <1>1, <1>2, <2>1, <2>3 DEF OwnedAt, DoneWith
    <2> QED
        BY <2>2, <2>3
<1>8. ASSUME NEW o \in Devices, NEW n \in Names PROVE OwnedAt(o, n, run[o], vault[o].head, disk[o][n])'
    <2>1. CASE o = d
        BY <1>2, <1>6, <2>1 DEF OwnedAt, DoneWith, Holds
    <2>2. CASE o # d
        BY <1>7, <2>2
    <2> QED
        BY <2>1, <2>2
<1> QED
    BY <1>3, <1>8 DEF OwnInv

\* The files stay.
LEMMA OwnRun ==
    ASSUME DeviceInv, OwnInv, NEW d \in Devices, NEW u, run' = [run EXCEPT ![d] = u], NEW i, vault'[d].head = i,
           \A o \in Devices \ {d} : vault'[o] = vault[o] /\ rows'[o] = rows[o],
           UNCHANGED <<log, disk, written>>,
           \A n \in Names : OwnedAt(d, n, u, i, disk[d][n])
    PROVE  OwnInv'
<1>1. PICK f : f = disk[d]
    OBVIOUS
<1>2. StepOf(d, u, i, f)
    BY <1>1 DEF StepOf, DeviceInv, Typed
<1>3. FromSomewhere(d, f)
    BY <1>1 DEF FromSomewhere
<1>4. \A n \in Names : f[n] # {}
    BY <1>1 DEF OwnInv, NonEmpty
<1> QED
    BY <1>1, <1>2, <1>3, <1>4, OwnStep

\* Also the local head stays, and no pull goes on.
LEMMA OwnQuiet ==
    ASSUME DeviceInv, OwnInv, NEW d \in Devices, NEW u, run' = [run EXCEPT ![d] = u],
           \A o \in Devices \ {d} : rows'[o] = rows[o],
           UNCHANGED <<log, disk, vault, written>>, u.pc \notin {"apply", "marked"}
    PROVE  OwnInv'
<1>1. PICK h : h = vault[d].head
    OBVIOUS
<1>2. ASSUME NEW n \in Names PROVE OwnedAt(d, n, u, h, disk[d][n])
    <2>1. OwnedAt(d, n, run[d], h, disk[d][n])
        BY <1>1 DEF OwnInv
    <2> QED
        BY <2>1 DEF OwnedAt, DoneWith
<1> QED
    BY <1>1, <1>2, OwnRun

\* A user adds something to a file.
LEMMA EditOwns ==
    ASSUME DeviceInv, OwnInv, ~EditDuringRun, NEW d \in Devices, NEW n \in Files, NEW e \in Edits, Edit(d, n, e)
    PROVE  OwnInv'
<1>1. PICK x : x = IF disk[d][n] = Absent THEN {e} ELSE disk[d][n] \cup {e}
    OBVIOUS
<1>2. PICK f : f = [disk[d] EXCEPT ![n] = x]
    OBVIOUS
<1>3. PICK u : u = run[d]
    OBVIOUS
<1>4. PICK h : h = vault[d].head
    OBVIOUS
<1>5. /\ disk' = [disk EXCEPT ![d] = f] /\ e \notin written /\ written' = written \cup {e}
      /\ UNCHANGED <<log, rows, vault, run>>
    BY <1>1, <1>2 DEF Edit
<1>6. Typed /\ disk[d] \in KnownTrees /\ n \in Names
    BY DeviceFacts DEF DeviceInv, Names
<1>7. x # Absent /\ e \in x /\ \A y \in x : y = e \/ Holds(disk[d][n], y)
    <2>1. x \in SUBSET Edits
        BY <1>1, <1>6 DEF KnownTrees, Known, Typed
    <2>2. x # Absent
        BY <2>1, DeviceAssumption
    <2> QED
        BY <1>1, <2>2 DEF Holds
<1>8. f[n] = x /\ \A m \in Names \ {n} : f[m] = disk[d][m]
    BY <1>2, <1>6 DEF KnownTrees
<1>9. StepOf(d, u, h, f)
    BY <1>3, <1>4, <1>5, <1>6 DEF StepOf, Typed
<1>10. FromSomewhere(d, f)
    <2>1. ASSUME NEW m \in Names, NEW y \in written, Holds(f[m], y) PROVE Holds(disk[d][m], y)
        <3>1. CASE m = n
            BY <1>5, <1>7, <1>8, <2>1, <3>1 DEF Holds
        <3>2. CASE m # n
            BY <1>8, <2>1, <3>2
        <3> QED
            BY <3>1, <3>2
    <2> QED
        BY <2>1 DEF FromSomewhere
<1>11. \A m \in Names : f[m] # {}
    BY <1>7, <1>8 DEF OwnInv, NonEmpty
<1>12. OnlyHere(d, n, e)
    <2>1. \A i \in 0 .. Len(log) : TreeAt[i] \in KnownTrees
        BY TreeKnown
    <2>2. \A o \in Devices : disk[o] \in KnownTrees
        BY <1>6 DEF Typed
    <2>3. \A w \in KnownTrees : ~Holds(w[n], e)
        BY <1>5, <1>6 DEF KnownTrees, Known, Holds
    <2> QED
        BY <2>1, <2>2, <2>3 DEF OnlyHere
<1>13. ASSUME NEW m \in Names
       PROVE  OwnedAt(d, m, u, h, f[m]) \/ \E y \in written' : Holds(f[m], y) /\ OnlyHere(d, m, y)
    <2>1. CASE m = n
        BY <1>5, <1>7, <1>8, <1>12, <2>1 DEF Holds
    <2>2. CASE m # n
        BY <1>3, <1>4, <1>8, <2>2 DEF OwnInv
    <2> QED
        BY <2>1, <2>2
<1>14. written \subseteq written'
    BY <1>5
<1> QED
    BY <1>9, <1>10, <1>11, <1>13, <1>14, OwnStep

\* A pull turns to the commit after i.
LEMMA NextOwns ==
    ASSUME DeviceInv, NoTombstones, NEW d \in Devices, NEW t \in Runs, NEW i \in Nat, i <= t.target, t.target <= Len(log),
           NEW w, NEW u, u = NextCommit(t, i, w), NEW n \in Names, NEW x,
           \/ x = Absent
           \/ x = TreeAt[i][n]
           \/ i < Len(log) /\ x = TreeAt[i + 1][n]
           \/ \E e \in written : Holds(x, e) /\ OnlyHere(d, n, e)
    PROVE  OwnedAt(d, n, u, i, x)
<1>1. CASE i = t.target
    <2>1. u.pc = "push"
        BY <1>1, NextFieldsAre
    <2> QED
        BY <2>1 DEF OwnedAt, DoneWith
<1>2. CASE i # t.target
    <2>1. u.pc = "apply" /\ u.left = DOMAIN log[i + 1].ops
        BY <1>2, NextFieldsAre
    <2>2. i < Len(log)
        <3>1. t.target \in Nat /\ Len(log) \in Nat
            BY DEF Runs, DeviceInv, Typed
        <3> QED
            BY <1>2, <3>1
    <2>3. n \notin DOMAIN log[i + 1].ops => TreeAt[i + 1][n] = TreeAt[i][n]
        BY <2>2, TreeNext
    <2> QED
        BY <2>1, <2>2, <2>3 DEF OwnedAt, DoneWith
<1> QED
    BY <1>1, <1>2

\* A pull begins.
LEMMA PullStartOwns ==
    ASSUME DeviceInv, SyncInv, OwnInv, NEW d \in Devices, PullStart(d)
    PROVE  OwnInv'
<1>1. PICK h : h = vault[d].head
    OBVIOUS
<1>2. PICK t : t = run[d]
    OBVIOUS
<1>3. PICK k : k = Len(log)
    OBVIOUS
<1>4. /\ h \in Nat /\ h <= k /\ k \in Nat /\ rows[d] \in RowSets /\ disk[d] \in Trees /\ t \in Runs /\ NoTombstones /\ Typed
    BY <1>1, <1>2, <1>3, DeviceFacts, SyncFacts DEF DeviceInv
<1>5. UNCHANGED <<log, disk, vault, written>> /\ \A o \in Devices \ {d} : rows'[o] = rows[o]
    BY <1>4 DEF PullStart, Typed
<1>6. PICK b : b = [t EXCEPT !.target = k]
    OBVIOUS
<1>7. b \in Runs /\ b.target = k
    BY <1>4, <1>6, Zenon DEF Runs
<1>8. ASSUME NEW q \in Runs, q.target = k, NEW w, NEW u, u = NextCommit(q, h, w), run' = [run EXCEPT ![d] = u]
      PROVE  OwnInv'
    <2>1. h <= q.target /\ q.target <= Len(log)
        BY <1>3, <1>4, <1>8
    <2>2. ASSUME NEW n \in Names PROVE OwnedAt(d, n, u, h, disk[d][n])
        <3>1. OwnedAt(d, n, t, h, disk[d][n])
            BY <1>1, <1>2 DEF OwnInv
        <3>2. \/ disk[d][n] = Absent
              \/ disk[d][n] = TreeAt[h][n]
              \/ h < Len(log) /\ disk[d][n] = TreeAt[h + 1][n]
              \/ \E e \in written : Holds(disk[d][n], e) /\ OnlyHere(d, n, e)
            BY <3>1 DEF OwnedAt
        <3>3. PICK x : x = disk[d][n]
            OBVIOUS
        <3> QED
            BY <1>4, <1>8, <2>1, <3>2, <3>3, NextOwns
    <2> QED
        BY <1>1, <1>5, <1>8, <2>2, OwnRun
<1>9. CASE h = k
    <2>1. PICK u : u = NextCommit(b, h, tree[d])
        OBVIOUS
    <2>2. run' = [run EXCEPT ![d] = u]
        BY <1>1, <1>2, <1>3, <1>6, <1>9, <2>1, Zenon DEF PullStart
    <2> QED
        BY <1>7, <1>8, <2>1, <2>2
<1>10. CASE h # k
    <2>1. PICK s : s = Scanned(rows[d], disk[d])
        OBVIOUS
    <2>2. PICK D : D = Dirty(s)
        OBVIOUS
    <2>3. PICK G : G = {n \in D : s[n].hash = Absent}
        OBVIOUS
    <2>4. PICK q : q = [b EXCEPT !.snap = D, !.gone = G]
        OBVIOUS
    <2>5. PICK w : w = IF tree[d] = EmptyTree THEN TreeAt[h] ELSE tree[d]
        OBVIOUS
    <2>6. PICK u : u = NextCommit(q, h, w)
        OBVIOUS
    <2>7. run' = [run EXCEPT ![d] = u]
        <3>1. run' = [run EXCEPT ![d] =
                    NextCommit([[run[d] EXCEPT !.target = Len(log)]
                                    EXCEPT !.snap = Dirty(s), !.gone = {n \in Dirty(s) : s[n].hash = Absent}],
                               vault[d].head, IF tree[d] = EmptyTree THEN TreeAt[vault[d].head] ELSE tree[d])]
            BY <1>1, <1>3, <1>10, <2>1, Zenon DEF PullStart
        <3> QED
            BY <1>1, <1>2, <1>3, <1>6, <2>2, <2>3, <2>4, <2>5, <2>6, <3>1, Zenon
    <2>8. D \in SUBSET Names /\ G \in SUBSET Names
        BY <2>2, <2>3 DEF Dirty
    <2>9. q \in Runs /\ q.target = k
        BY <1>7, <2>4, <2>8, Zenon DEF Runs
    <2> QED
        BY <1>8, <2>6, <2>7, <2>9
<1> QED
    BY <1>9, <1>10

\* The local head moves to the commit that was applied.
LEMMA AdvanceHeadOwns ==
    ASSUME DeviceInv, SyncInv, OwnInv, NEW d \in Devices, AdvanceHead(d)
    PROVE  OwnInv'
<1>1. PICK t : t = run[d]
    OBVIOUS
<1>2. PICK h : h = vault[d].head
    OBVIOUS
<1>3. PICK w : w = t.work
    OBVIOUS
<1>4. PICK i : i = h + 1
    OBVIOUS
<1>5. PICK u : u = NextCommit(t, i, w)
    OBVIOUS
<1>6. /\ t.pc = "marked" /\ UNCHANGED <<log, disk, rows, written>> /\ run' = [run EXCEPT ![d] = u]
      /\ vault' = [vault EXCEPT ![d].head = @ + 1]
    BY <1>1, <1>2, <1>3, <1>4, <1>5, Zenon DEF AdvanceHead
<1>7. t \in Runs /\ RunOK(t, h, rows[d]) /\ h \in Nat /\ Len(log) \in Nat /\ Typed /\ NoTombstones
    BY <1>1, <1>2, DeviceFacts, SyncFacts DEF DeviceInv
<1>8. i \in Nat /\ i <= t.target /\ t.target <= Len(log) /\ t.left = {}
    BY <1>4, <1>6, <1>7 DEF RunOK, Runs
<1>9. vault'[d].head = i /\ \A o \in Devices \ {d} : vault'[o] = vault[o] /\ rows'[o] = rows[o]
    BY <1>2, <1>4, <1>6, <1>7 DEF Typed
<1>10. ASSUME NEW n \in Names PROVE OwnedAt(d, n, u, i, disk[d][n])
    <2>1. PICK x : x = disk[d][n]
        OBVIOUS
    <2>2. OwnedAt(d, n, t, h, x) /\ DoneWith(t, n)
        BY <1>1, <1>2, <1>6, <1>8, <2>1 DEF OwnInv, DoneWith
    <2>3. x = Absent \/ x = TreeAt[i][n] \/ \E e \in written : Holds(x, e) /\ OnlyHere(d, n, e)
        BY <1>4, <2>2 DEF OwnedAt
    <2>4. OwnedAt(d, n, u, i, x)
        BY <1>5, <1>7, <1>8, <2>3, NextOwns
    <2> QED
        BY <2>1, <2>4
<1> QED
    BY <1>6, <1>9, <1>10, OwnRun

\* A pull reads a file, or has applied all of a commit: it is done with the same
\* names.
LEMMA OwnSame ==
    ASSUME DeviceInv, OwnInv, NEW d \in Devices, NEW u, run' = [run EXCEPT ![d] = u], UNCHANGED <<log, disk, vault, written>>,
           \A o \in Devices \ {d} : rows'[o] = rows[o], run[d].pc = "apply", u.left = run[d].left
    PROVE  OwnInv'
<1>1. PICK h : h = vault[d].head
    OBVIOUS
<1>2. ASSUME NEW n \in Names PROVE OwnedAt(d, n, u, h, disk[d][n])
    <2>1. OwnedAt(d, n, run[d], h, disk[d][n])
        BY <1>1 DEF OwnInv
    <2> QED
        BY <2>1 DEF OwnedAt, DoneWith
<1> QED
    BY <1>1, <1>2, OwnRun

\* A merge begins.
LEMMA ReadLocalOwns ==
    ASSUME DeviceInv, OwnInv, NEW d \in Devices, NEW n \in Names, ReadLocal(d, n)
    PROVE  OwnInv'
<1>1. PICK t : t = run[d]
    OBVIOUS
<1>2. PICK x : x = disk[d][n]
    OBVIOUS
<1>3. PICK u : u = [t EXCEPT !.read = n, !.local = x]
    OBVIOUS
<1>4. t.pc = "apply" /\ UNCHANGED <<log, disk, vault, rows, written>>
    BY <1>1 DEF ReadLocal
<1>5. run' = [run EXCEPT ![d] = u]
    <2>1. run' = [run EXCEPT ![d].read = n, ![d].local = disk[d][n]]
        BY DEF ReadLocal
    <2> QED
        BY <1>1, <1>2, <1>3, <2>1, Zenon
<1>6. t \in Runs
    BY <1>1, DeviceFacts
<1>7. u.left = t.left
    BY <1>3, <1>6 DEF Runs
<1> QED
    BY <1>1, <1>4, <1>5, <1>7, OwnSame

\* All of a commit is applied.
LEMMA PersistAppliedOwns ==
    ASSUME DeviceInv, OwnInv, NEW d \in Devices, PersistApplied(d)
    PROVE  OwnInv'
<1>1. PICK t : t = run[d]
    OBVIOUS
<1>2. PICK m : m = Marked(Scanned(rows[d], disk[d]), t.synced)
    OBVIOUS
<1>3. PICK u : u = [t EXCEPT !.pc = "marked"]
    OBVIOUS
<1>4. t.pc = "apply" /\ UNCHANGED <<log, disk, vault, written>> /\ rows' = [rows EXCEPT ![d] = m]
    BY <1>1, <1>2 DEF PersistApplied
<1>5. run' = [run EXCEPT ![d] = u]
    <2>1. run' = [run EXCEPT ![d].pc = "marked"]
        BY DEF PersistApplied
    <2> QED
        BY <1>1, <1>3, <2>1, Zenon
<1>6. t \in Runs /\ Typed
    BY <1>1, DeviceFacts DEF DeviceInv
<1>7. u.left = t.left
    BY <1>3, <1>6 DEF Runs
<1>8. \A o \in Devices \ {d} : rows'[o] = rows[o]
    BY <1>4, <1>6 DEF Typed
<1> QED
    BY <1>1, <1>4, <1>5, <1>7, <1>8, OwnSame

\* The status poll.
LEMMA StatusScanOwns ==
    ASSUME DeviceInv, OwnInv, NEW d \in Devices, StatusScan(d)
    PROVE  OwnInv'
<1>1. PICK u : u = run[d]
    OBVIOUS
<1>2. Typed
    BY DEF DeviceInv
<1>3. u.pc = "idle" /\ UNCHANGED <<log, disk, vault, written, run>>
    BY <1>1 DEF StatusScan
<1>4. run' = [run EXCEPT ![d] = u]
    BY <1>1, <1>2, <1>3 DEF Typed
<1>5. \A o \in Devices \ {d} : rows'[o] = rows[o]
    BY <1>2 DEF StatusScan, Typed
<1> QED
    BY <1>3, <1>4, <1>5, OwnQuiet

\* A run ends with an error, or the app quits.
LEMMA RunFailOwns ==
    ASSUME DeviceInv, OwnInv, NEW d \in Devices, RunFail(d)
    PROVE  OwnInv'
<1>1. PICK u : u = Idle
    OBVIOUS
<1>2. u.pc = "idle" /\ run' = [run EXCEPT ![d] = u] /\ UNCHANGED <<log, disk, rows, vault, written>>
    BY <1>1 DEF RunFail, Idle
<1> QED
    BY <1>2, OwnQuiet

\* A head conflict.
LEMMA PublishConflictOwns ==
    ASSUME DeviceInv, OwnInv, NEW d \in Devices, PublishConflict(d)
    PROVE  OwnInv'
<1>1. PICK q : q = [Idle EXCEPT !.pc = "pull", !.second = TRUE, !.parent = run[d].parent]
    OBVIOUS
<1>2. PICK u : u = IF run[d].second THEN Idle ELSE q
    OBVIOUS
<1>3. /\ run' = [run EXCEPT ![d] = u] /\ UNCHANGED <<log, disk, rows, vault, written>>
    BY <1>1, <1>2, Zenon DEF PublishConflict
<1>4. q.pc = "pull" /\ Idle.pc = "idle"
    BY <1>1 DEF Idle
<1>5. u.pc \notin {"apply", "marked"}
    <2>1. CASE run[d].second
        BY <1>2, <1>4, <2>1
    <2>2. CASE ~run[d].second
        BY <1>2, <1>4, <2>2
    <2> QED
        BY <2>1, <2>2
<1> QED
    BY <1>3, <1>5, OwnQuiet

\* The reply arrives.
LEMMA PublishSavedOwns ==
    ASSUME DeviceInv, OwnInv, NEW d \in Devices, PublishSaved(d)
    PROVE  OwnInv'
<1>1. PICK u : u = [run[d] EXCEPT !.pc = "saved"]
    OBVIOUS
<1>2. run' = [run EXCEPT ![d] = u]
    <2>1. run' = [run EXCEPT ![d].pc = "saved"]
        BY DEF PublishSaved
    <2> QED
        BY <1>1, <2>1, Zenon
<1>3. run[d] \in Runs /\ Typed
    BY DeviceFacts DEF DeviceInv
<1>4. u.pc = "saved"
    BY <1>1, <1>3 DEF Runs
<1>5. UNCHANGED <<log, disk, vault, written>> /\ \A o \in Devices \ {d} : rows'[o] = rows[o]
    BY <1>3 DEF PublishSaved, Typed
<1> QED
    BY <1>2, <1>4, <1>5, OwnQuiet

\* The local head moves to the device's own commit, which is the vault.
LEMMA PublishDoneOwns ==
    ASSUME DeviceInv, SyncInv, OwnInv, NEW d \in Devices, PublishDone(d)
    PROVE  OwnInv'
<1>1. PICK t : t = run[d]
    OBVIOUS
<1>2. PICK c : c = t.plan
    OBVIOUS
<1>3. PICK i : i = c.expected + 1
    OBVIOUS
<1>4. PICK q : q = [head |-> i, seq |-> c.seq + 1]
    OBVIOUS
<1>5. PICK u : u = Idle
    OBVIOUS
<1>6. /\ t.pc = "saved" /\ UNCHANGED <<log, disk, rows, written>>
      /\ vault' = [vault EXCEPT ![d] = q] /\ run' = [run EXCEPT ![d] = u]
    BY <1>1, <1>2, <1>3, <1>4, <1>5 DEF PublishDone
<1>7. RunOK(t, vault[d].head, rows[d]) /\ Len(log) \in Nat /\ Typed
    BY <1>1, DeviceFacts DEF DeviceInv
<1>8. CommitOK(c) /\ i <= Len(log) /\ log[i] = c
    BY <1>2, <1>3, <1>6, <1>7 DEF RunOK
<1>9. i \in 1 .. Len(log)
    BY <1>3, <1>7, <1>8 DEF CommitOK, Commits
<1>10. c.tree = TreeAt[i]
    BY <1>8, <1>9 DEF DeviceInv, HistoryOK, Fits
<1>11. q.head = i /\ u.pc = "idle"
    BY <1>4, <1>5 DEF Idle
<1>12. PlanAt(t, vault[d].head, rows[d], disk[d])
    BY <1>1, <1>6, SyncFacts DEF SyncAt
<1>13. \A n \in Names : OwnedAt(d, n, u, i, disk[d][n])
    BY <1>2, <1>10, <1>11, <1>12 DEF PlanAt, OwnedAt, DoneWith
<1>14. vault'[d].head = i /\ \A o \in Devices \ {d} : vault'[o] = vault[o] /\ rows'[o] = rows[o]
    BY <1>6, <1>7, <1>11 DEF Typed
<1> QED
    BY <1>6, <1>13, <1>14, OwnRun

\* A plan is made, or there is nothing to plan.
LEMMA PushPlanOwns ==
    ASSUME DeviceInv, OwnInv, NEW d \in Devices, PushPlan(d)
    PROVE  OwnInv'
<1>1. PICK ops : ops = PlanOps(d, PushKind(d))
    OBVIOUS
<1>2. PICK c : c = [dev |-> d, seq |-> vault[d].seq, kind |-> PushKind(d), expected |-> Len(log),
                    parents |-> ParentIds(Len(log)) \cup (IF PushKind(d) = "merge" THEN {run[d].parent} ELSE {}),
                    ops |-> ops, tree |-> MaterializedTree(tree[d], ops)]
    OBVIOUS
<1>3. PICK q : q = [run[d] EXCEPT !.pc = "upload", !.plan = c]
    OBVIOUS
<1>4. PICK u : u = IF DOMAIN ops = {} THEN Idle ELSE q
    OBVIOUS
<1>5. run' = [run EXCEPT ![d] = u] /\ UNCHANGED <<log, disk, vault, written>>
    BY <1>1, <1>2, <1>3, <1>4, Zenon DEF PushPlan
<1>6. run[d] \in Runs /\ Typed
    BY DeviceFacts DEF DeviceInv
<1>7. q.pc = "upload" /\ Idle.pc = "idle"
    BY <1>3, <1>6 DEF Runs, Idle
<1>8. u.pc \notin {"apply", "marked"}
    BY <1>4, <1>7
<1>9. \A o \in Devices \ {d} : rows'[o] = rows[o]
    BY <1>6 DEF PushPlan, Typed
<1> QED
    BY <1>5, <1>8, <1>9, OwnQuiet

\* The change of file n is done, and no other file but perhaps a conflict copy of
\* something is written.  What is left to show is about n.
LEMMA ChangeOwns ==
    ASSUME DeviceInv, OwnInv, NEW d \in Devices, run[d].pc = "apply", NEW n \in run[d].left, NEW f, NEW clean,
           ChangeDone(d, n, f, clean),
           \A m \in Names \ {n} : f[m] = disk[d][m] \/ (m \in FreeCopies(d) /\ f[m] \in (SUBSET written) \ {{}}),
           f[n] # {},
           \A e \in written : Holds(f[n], e) => Holds(disk[d][n], e) \/ Holds(Remote(d, n), e),
           f[n] = Remote(d, n) \/ \E e \in written : Holds(f[n], e) /\ OnlyHere(d, n, e)
    PROVE  OwnInv'
<1>1. PICK h : h = vault[d].head
    OBVIOUS
<1>2. PICK t : t = run[d]
    OBVIOUS
<1>3. PICK x : x = Remote(d, n)
    OBVIOUS
<1>4. h + 1 \in 1 .. Len(log) /\ n \in Names /\ TreeAt[h + 1][n] = x /\ h \in Nat /\ Len(log) \in Nat
    BY <1>1, <1>3, ApplyFacts, DeviceFacts
<1>5. t \in Runs /\ t.pc = "apply" /\ n \in t.left /\ Typed
    BY <1>2, DeviceFacts DEF DeviceInv
<1>6. PICK L : L = t.left \ {n}
    OBVIOUS
<1>7. PICK w : w = [t.work EXCEPT ![n] = x]
    OBVIOUS
<1>8. PICK S : S = IF clean THEN t.synced \cup {n} ELSE t.synced
    OBVIOUS
<1>9. PICK u : u = [t EXCEPT !.left = L, !.work = w, !.synced = S, !.read = NoRow, !.local = Absent]
    OBVIOUS
<1>10. run' = [run EXCEPT ![d] = u]
    <2>1. run' = [run EXCEPT ![d].left = @ \ {n}, ![d].work = [@ EXCEPT ![n] = Remote(d, n)],
                             ![d].synced = IF clean THEN @ \cup {n} ELSE @, ![d].read = NoRow, ![d].local = Absent]
        BY DEF ChangeDone
    <2> QED
        BY <1>2, <1>3, <1>6, <1>7, <1>8, <1>9, <2>1, Zenon
<1>11. u.pc = "apply" /\ u.left = L
    BY <1>5, <1>9 DEF Runs
<1>12. StepOf(d, u, h, f) /\ UNCHANGED written
    BY <1>1, <1>5, <1>10 DEF StepOf, ChangeDone, Typed
<1>13. \A m \in Names : f[m] # {}
    BY DEF OwnInv, NonEmpty
<1>14. FromSomewhere(d, f)
    <2>1. h + 1 \in 0 .. Len(log)
        BY <1>4
    <2>2. ASSUME NEW m \in Names, NEW e \in written, Holds(f[m], e)
          PROVE  Holds(disk[d][m], e) \/ (\E i \in 0 .. Len(log) : Holds(TreeAt[i][m], e)) \/ m \in FreeCopies(d)
        <3>1. CASE m = n
            BY <1>3, <1>4, <2>1, <2>2, <3>1
        <3>2. CASE m # n
            BY <2>2, <3>2
        <3> QED
            BY <3>1, <3>2
    <2> QED
        BY <2>2 DEF FromSomewhere
<1>15. ASSUME NEW m \in Names PROVE OwnedAt(d, m, u, h, f[m])
    <2>1. CASE m = n
        <3>1. h < Len(log)
            BY <1>4
        <3> QED
            BY <1>3, <1>4, <2>1, <3>1 DEF OwnedAt
    <2>2. CASE m # n /\ f[m] = disk[d][m]
        <3>1. OwnedAt(d, m, t, h, disk[d][m])
            BY <1>1, <1>2 DEF OwnInv
        <3>2. DoneWith(t, m) <=> DoneWith(u, m)
            BY <1>5, <1>6, <1>11, <2>2 DEF DoneWith
        <3> QED
            BY <2>2, <3>1, <3>2 DEF OwnedAt
    <2>3. CASE m \in FreeCopies(d) /\ f[m] \in (SUBSET written) \ {{}}
        <3>1. PICK e \in written : e \in f[m]
            BY <2>3
        <3>2. f[m] # Absent
            <4>1. f[m] \in SUBSET Edits
                BY <1>5, <2>3 DEF Typed
            <4> QED
                BY <4>1, DeviceAssumption
        <3>3. \A i \in 0 .. Len(log) : TreeAt[i][m] = Absent
            BY <2>3, FreeInNoTree
        <3>4. \A o \in Devices : disk[o][m] = Absent
            BY <2>3, Zenon DEF FreeCopies
        <3>5. Holds(f[m], e) /\ OnlyHere(d, m, e)
            BY <3>1, <3>2, <3>3, <3>4 DEF Holds, OnlyHere
        <3> QED
            BY <3>5 DEF OwnedAt
    <2> QED
        BY <2>1, <2>2, <2>3
<1>16. written \subseteq written'
    BY <1>12
<1> QED
    BY <1>12, <1>13, <1>14, <1>15, <1>16, OwnStep

\* What a commit brings is something.
LEMMA RemoteSomething ==
    ASSUME DeviceInv, SyncInv, OwnInv, NEW d \in Devices, run[d].pc = "apply", NEW n \in run[d].left
    PROVE  /\ Remote(d, n) \in (SUBSET written) \ {{}}
           /\ vault[d].head + 1 \in 1 .. Len(log) /\ TreeAt[vault[d].head + 1][n] = Remote(d, n)
           /\ n \in Names /\ vault[d].head \in Nat /\ vault[d].head < Len(log)
<1>1. PICK h : h = vault[d].head
    OBVIOUS
<1>2. /\ h + 1 \in 1 .. Len(log) /\ n \in Names /\ TreeAt[h + 1][n] = Remote(d, n) /\ h \in Nat /\ Len(log) \in Nat
      /\ Remote(d, n) \in Known
    BY <1>1, ApplyFacts, DeviceFacts
<1>3. h + 1 \in 0 .. Len(log) /\ h < Len(log)
    BY <1>2
<1>4. Remote(d, n) # {}
    BY <1>2, <1>3 DEF OwnInv, NonEmpty
<1>5. Remote(d, n) # Absent
    BY RemotePresent
<1> QED
    BY <1>1, <1>2, <1>3, <1>4, <1>5 DEF Known

\* A file that is not dirty takes the remote version.
LEMMA ApplyCleanOwns ==
    ASSUME DeviceInv, SyncInv, OwnInv, NEW d \in Devices, NEW n \in Names, ApplyClean(d, n)
    PROVE  OwnInv'
<1>1. PICK f : f = [disk[d] EXCEPT ![n] = Remote(d, n)]
    OBVIOUS
<1>2. PICK b : b = TRUE
    OBVIOUS
<1>3. run[d].pc = "apply" /\ n \in run[d].left /\ ChangeDone(d, n, f, b)
    BY <1>1, <1>2, Zenon DEF ApplyClean
<1>4. f[n] = Remote(d, n) /\ \A m \in Names \ {n} : f[m] = disk[d][m]
    BY <1>1, DeviceFacts DEF KnownTrees
<1>5. f[n] # {}
    BY <1>3, <1>4, RemoteSomething
<1> QED
    BY <1>3, <1>4, <1>5, ChangeOwns

\* What a merge has read is as the base or the remote version, or holds an edit that
\* is only there.
LEMMA ReadOwned ==
    ASSUME DeviceInv, KeepInv, SyncInv, OwnInv, NEW d \in Devices, NEW n \in Names, run[d].pc = "apply", run[d].read = n
    PROVE  /\ n \in run[d].left /\ run[d].local = disk[d][n] /\ run[d].local \in (SUBSET written) \ {{}}
           /\ run[d].work[n] = TreeAt[vault[d].head][n]
           /\ \/ run[d].local = run[d].work[n]
              \/ run[d].local = Remote(d, n)
              \/ \E e \in written : Holds(run[d].local, e) /\ OnlyHere(d, n, e)
<1>1. PICK h : h = vault[d].head
    OBVIOUS
<1>2. PICK t : t = run[d]
    OBVIOUS
<1>3. n \in t.left /\ t.local = disk[d][n] /\ t.local # Absent /\ t.pc = "apply"
    BY <1>2, ReadThere
<1>4. t.local \in Known
    BY <1>2, ReadFacts
<1>5. ApplyAt(t, h, rows[d], disk[d])
    BY <1>1, <1>2, <1>3, SyncFacts DEF SyncAt
<1>6. t.work[n] = TreeAt[h][n]
    BY <1>3, <1>5 DEF ApplyAt
<1>7. TreeAt[h + 1][n] = Remote(d, n)
    BY <1>1, <1>2, <1>3, RemoteSomething
<1>8. OwnedAt(d, n, t, h, t.local)
    BY <1>1, <1>2, <1>3 DEF OwnInv
<1>9. \/ t.local = t.work[n]
      \/ t.local = Remote(d, n)
      \/ \E e \in written : Holds(t.local, e) /\ OnlyHere(d, n, e)
    BY <1>3, <1>6, <1>7, <1>8 DEF OwnedAt
<1>10. t.local # {}
    BY <1>3 DEF OwnInv, NonEmpty
<1> QED
    BY <1>1, <1>2, <1>3, <1>4, <1>6, <1>9, <1>10 DEF Known

\* A merge is the remote version, or keeps the edit that is only here.
LEMMA ApplyMergeOwns ==
    ASSUME DeviceInv, KeepInv, SyncInv, OwnInv, NEW d \in Devices, NEW n \in Names, ApplyMerge(d, n)
    PROVE  OwnInv'
<1>1. PICK base : base = run[d].work[n]
    OBVIOUS
<1>2. PICK y : y = Remote(d, n)
    OBVIOUS
<1>3. PICK z : z = run[d].local
    OBVIOUS
<1>4. PICK x : x = Merge(base, z, y)
    OBVIOUS
<1>5. PICK b : b = IsRemote(x, y)
    OBVIOUS
<1>6. PICK f : f = [disk[d] EXCEPT ![n] = x]
    OBVIOUS
<1>7. run[d].pc = "apply" /\ run[d].read = n /\ y # Absent /\ base # Absent /\ ChangeDone(d, n, f, b)
    BY <1>1, <1>2, <1>3, <1>4, <1>5, <1>6 DEF ApplyMerge
<1>8. n \in run[d].left /\ base \in Known /\ disk[d] \in KnownTrees
    BY <1>1, <1>7, ReadFacts
<1>9. PICK h : h = vault[d].head
    OBVIOUS
<1>10. y \in (SUBSET written) \ {{}} /\ TreeAt[h + 1][n] = y /\ h + 1 \in 1 .. Len(log) /\ h \in Nat /\ h < Len(log)
    BY <1>2, <1>7, <1>8, <1>9, RemoteSomething
<1>11. /\ z = disk[d][n] /\ z \in (SUBSET written) \ {{}} /\ base = TreeAt[h][n]
       /\ z = base \/ z = y \/ \E e \in written : Holds(z, e) /\ OnlyHere(d, n, e)
    BY <1>1, <1>2, <1>3, <1>7, <1>9, ReadOwned
<1>12. base \in SUBSET written /\ x \in SUBSET written
    BY <1>4, <1>7, <1>8, <1>10, <1>11 DEF Known, Merge
<1>13. x # Absent /\ z # Absent
    <2>1. x \in SUBSET Edits /\ z \in SUBSET Edits
        BY <1>11, <1>12 DEF DeviceInv, Typed
    <2> QED
        BY <2>1, DeviceAssumption
<1>14. f[n] = x /\ \A m \in Names \ {n} : f[m] = disk[d][m]
    BY <1>6, <1>8 DEF KnownTrees
<1>15. \A e \in written : Holds(f[n], e) => Holds(disk[d][n], e) \/ Holds(y, e)
    BY <1>4, <1>7, <1>11, <1>13, <1>14 DEF Holds, Merge
<1>16. x = y \/ \E e \in written : Holds(x, e) /\ OnlyHere(d, n, e)
    <2>1. CASE z = base
        BY <1>4, <1>10, <1>12, <2>1 DEF Merge
    <2>2. CASE z = y
        BY <1>4, <1>10, <1>12, <2>2 DEF Merge
    <2>3. ASSUME NEW e \in written, Holds(z, e), OnlyHere(d, n, e) PROVE Holds(x, e)
        <3>1. h \in 0 .. Len(log)
            BY <1>10
        <3>2. ~Holds(base, e)
            BY <1>11, <2>3, <3>1 DEF OnlyHere
        <3> QED
            BY <1>4, <1>7, <1>13, <2>3, <3>2 DEF Holds, Merge
    <2> QED
        BY <1>11, <2>1, <2>2, <2>3
<1>17. f[n] # {}
    BY <1>10, <1>14, <1>16 DEF Holds
<1> QED
    BY <1>2, <1>7, <1>8, <1>14, <1>15, <1>16, <1>17, ChangeOwns

\* Lines that collide: the file stays as it is, and is not as the base.
LEMMA ApplyConflictOwns ==
    ASSUME DeviceInv, KeepInv, SyncInv, OwnInv, NEW d \in Devices, NEW n \in Names, ApplyConflict(d, n)
    PROVE  OwnInv'
<1>1. PICK c \in FreeCopies(d) : ChangeDone(d, n, WithCopy(disk[d], Remote(d, n), c), FALSE)
    BY DEF ApplyConflict
<1>2. run[d].pc = "apply" /\ run[d].read = n /\ run[d].local # run[d].work[n]
    BY DEF ApplyConflict
<1>3. PICK y : y = Remote(d, n)
    OBVIOUS
<1>4. PICK b : b = FALSE
    OBVIOUS
<1>5. PICK f : f = [disk[d] EXCEPT ![c] = y]
    OBVIOUS
<1>6. ChangeDone(d, n, f, b)
    BY <1>1, <1>3, <1>4, <1>5, Zenon DEF WithCopy
<1>7. /\ n \in run[d].left /\ run[d].local = disk[d][n] /\ run[d].local # {}
      /\ run[d].local = y \/ \E e \in written : Holds(run[d].local, e) /\ OnlyHere(d, n, e)
    BY <1>2, <1>3, ReadOwned
<1>8. y \in (SUBSET written) \ {{}}
    BY <1>2, <1>3, <1>7, RemoteSomething
<1>9. c \in Names /\ disk[d][c] = Absent
    BY Zenon DEF FreeCopies, Names
<1>10. c # n
    BY <1>2, <1>7, <1>9, ReadThere
<1>11. f[c] = y /\ \A m \in Names \ {c} : f[m] = disk[d][m]
    BY <1>5, <1>9, DeviceFacts DEF KnownTrees
<1>12. f[n] = disk[d][n]
    BY <1>10, <1>11
<1>13. \A m \in Names \ {n} : f[m] = disk[d][m] \/ (m \in FreeCopies(d) /\ f[m] \in (SUBSET written) \ {{}})
    BY <1>8, <1>11
<1> QED
    BY <1>2, <1>3, <1>6, <1>7, <1>12, <1>13, ChangeOwns

\* Whatever happens to a remote change.
LEMMA ApplyOwns ==
    ASSUME DeviceInv, KeepInv, SyncInv, OwnInv, NEW d \in Devices, NEW n \in Names, Apply(d, n)
    PROVE  OwnInv'
BY ApplyCleanOwns, ApplyToDeletedSyncs, ReadLocalOwns, ApplyMergeOwns, ApplyConflictOwns, ApplyDeleteToEditedSyncs
   DEF Apply

\* A commit joins the history.  It is the vault of the device, so it holds no edit
\* that only another device has.
LEMMA PublishAcceptedOwns ==
    ASSUME DeviceInv, SyncInv, OwnInv, NEW d \in Devices, PublishAccepted(d)
    PROVE  OwnInv'
<1>1. PICK t : t = run[d]
    OBVIOUS
<1>2. PICK c : c = t.plan
    OBVIOUS
<1>3. PICK k : k = Len(log)
    OBVIOUS
<1>4. PICK u : u = [t EXCEPT !.pc = "sent"]
    OBVIOUS
<1>5. t.pc = "upload" /\ c.expected = k /\ log' = Append(log, c) /\ UNCHANGED <<disk, vault, written>>
    BY <1>1, <1>2, <1>3 DEF PublishAccepted
<1>6. run' = [run EXCEPT ![d] = u]
    <2>1. run' = [run EXCEPT ![d].pc = "sent"]
        BY DEF PublishAccepted
    <2> QED
        BY <1>1, <1>4, <2>1, Zenon
<1>7. log \in Seq(Commits) /\ k \in Nat /\ t \in Runs /\ RunOK(t, vault[d].head, rows[d]) /\ Typed
    BY <1>1, <1>3, DeviceFacts DEF DeviceInv
<1>8. CommitOK(c) /\ vault[d].head = k
    BY <1>2, <1>5, <1>7 DEF RunOK
<1>9. c \in Commits
    BY <1>8 DEF CommitOK
<1>10. Len(log') = k + 1 /\ log'[k + 1] = c /\ \A i \in 1 .. k : log'[i] = log[i]
    BY <1>3, <1>5, <1>7, <1>9
<1>11. \A i \in 0 .. k : TreeAt'[i] = TreeAt[i]
    BY <1>7, <1>10, TreeGrows
<1>12. PlanAt(t, k, rows[d], disk[d])
    BY <1>1, <1>5, <1>8, SyncFacts DEF SyncAt
<1>13. \A n \in Names : TreeAt'[k + 1][n] = disk[d][n]
    <2>1. DeviceInv'
        BY PublishAcceptedInv
    <2>2. k + 1 \in 1 .. Len(log')
        BY <1>7, <1>10
    <2>3. c.tree = TreeAt'[k + 1]
        BY <1>10, <2>1, <2>2 DEF DeviceInv, HistoryOK, Fits
    <2> QED
        BY <1>2, <1>12, <2>3 DEF PlanAt
<1>14. ASSUME NEW i \in 0 .. Len(log'), i \notin 0 .. k PROVE i = k + 1
    BY <1>7, <1>10, <1>14
<1>15. NonEmpty'
    <2>1. ASSUME NEW n \in Names, NEW i \in 0 .. Len(log') PROVE TreeAt'[i][n] # {}
        <3>1. CASE i \in 0 .. k
            BY <1>3, <1>11, <3>1 DEF OwnInv, NonEmpty
        <3>2. CASE i \notin 0 .. k
            BY <1>13, <1>14, <3>2 DEF OwnInv, NonEmpty
        <3> QED
            BY <3>1, <3>2
    <2> QED
        BY <1>5, <2>1 DEF OwnInv, NonEmpty
<1>16. u.pc = "sent"
    BY <1>4, <1>7 DEF Runs
<1>17. run'[d] = u /\ \A o \in Devices \ {d} : run'[o] = run[o]
    BY <1>6, <1>7 DEF Typed
<1>18. ASSUME NEW n \in Names PROVE OwnedAt(d, n, run[d], vault[d].head, disk[d][n])'
    <2>1. k < Len(log')
        BY <1>7, <1>10
    <2> QED
        BY <1>5, <1>8, <1>13, <2>1 DEF OwnedAt
<1>19. ASSUME NEW o \in Devices \ {d}, NEW n \in Names PROVE OwnedAt(o, n, run[o], vault[o].head, disk[o][n])'
    <2>1. PICK h : h = vault[o].head
        OBVIOUS
    <2>2. PICK x : x = disk[o][n]
        OBVIOUS
    <2>3. PICK v : v = run[o]
        OBVIOUS
    <2>4. OwnedAt(o, n, v, h, x) /\ h \in 0 .. k
        BY <1>3, <2>1, <2>2, <2>3, DeviceFacts DEF OwnInv
    <2>5. TreeAt'[h] = TreeAt[h] /\ (h < k => h < Len(log') /\ TreeAt'[h + 1] = TreeAt[h + 1])
        BY <1>7, <1>10, <1>11, <2>4
    <2>6. ASSUME NEW e, OnlyHere(o, n, e) PROVE OnlyHere(o, n, e)'
        <3>1. ~Holds(disk[d][n], e)
            BY <1>19, <2>6 DEF OnlyHere
        <3>2. ASSUME NEW i \in 0 .. Len(log') PROVE ~Holds(TreeAt'[i][n], e)
            <4>1. CASE i \in 0 .. k
                BY <1>3, <1>11, <2>6, <4>1 DEF OnlyHere
            <4>2. CASE i \notin 0 .. k
                BY <1>13, <1>14, <3>1, <4>2 DEF Holds
            <4> QED
                BY <4>1, <4>2
        <3> QED
            BY <1>5, <2>6, <3>2 DEF OnlyHere, Holds
    <2>7. OwnedAt(o, n, v, h, x)'
        <3>1. CASE \E e \in written : Holds(x, e) /\ OnlyHere(o, n, e)
            BY <1>5, <2>6, <3>1 DEF OwnedAt, Holds
        <3>2. CASE ~\E e \in written : Holds(x, e) /\ OnlyHere(o, n, e)
            BY <1>3, <2>4, <2>5, <3>2 DEF OwnedAt, DoneWith
        <3> QED
            BY <3>1, <3>2
    <2>8. run'[o] = v /\ vault'[o].head = h /\ disk'[o][n] = x
        BY <1>5, <1>17, <1>19, <2>1, <2>2, <2>3
    <2> QED
        BY <2>7, <2>8, Zenon
<1> QED
    BY <1>15, <1>18, <1>19, Zenon DEF OwnInv

\* At first there is no file.
LEMMA InitOwns == Init => OwnInv
<1> SUFFICES ASSUME Init PROVE OwnInv
    OBVIOUS
<1>1. Absent # {}
    BY DeviceAssumption
<1>2. \A d \in Devices, n \in Names : disk[d][n] = Absent
    BY DEF Init, EmptyTree
<1>3. \A i \in 0 .. Len(log) : i = 0
    BY DEF Init
<1>4. \A n \in Names : TreeAt[0][n] = Absent
    BY TreeFacts DEF EmptyTree
<1>5. NonEmpty
    BY <1>1, <1>2, <1>3, <1>4 DEF NonEmpty
<1>6. \A d \in Devices, n \in Names : OwnedAt(d, n, run[d], vault[d].head, disk[d][n])
    BY <1>2 DEF OwnedAt
<1> QED
    BY <1>5, <1>6 DEF OwnInv

\* Nothing happens.
LEMMA StutterOwns ==
    ASSUME OwnInv, UNCHANGED vars
    PROVE  OwnInv'
<1>1. UNCHANGED <<log, disk, vault, run, written>> /\ TreeAt' = TreeAt
    BY SameTrees DEF vars
<1> QED
    BY <1>1 DEF OwnInv, NonEmpty, OwnedAt, DoneWith, OnlyHere, Holds

\* A user who deletes a file drops something.
LEMMA DeleteDrops ==
    ASSUME DeviceInv, OwnInv, NEW d \in Devices, NEW n \in Names, Delete(d, n)
    PROVE  dropped' # {}
<1>1. disk[d][n] # Absent /\ disk[d][n] # {} /\ disk[d] \in KnownTrees
    BY DeviceFacts DEF Delete, OwnInv, NonEmpty
<1>2. disk[d][n] \in SUBSET written
    BY <1>1 DEF KnownTrees, Known
<1>3. dropped' = dropped \cup disk[d][n]
    BY DEF Delete
<1> QED
    BY <1>1, <1>2, <1>3
-----------------------------------------------------------------------------
(* So a run that ends well leaves nothing to do.                           *)

\* At first there is nothing.
LEMMA InitSyncs == Init => SyncInv
<1> SUFFICES ASSUME Init PROVE SyncInv
    OBVIOUS
<1>1. NoTombstones
    BY DEF Init, NoTombstones
<1>2. ASSUME NEW d \in Devices
      PROVE  SyncAt(run[d], vault[d].head, rows[d], disk[d]) /\ ~settled[d]
    <2>1. PICK t : t = run[d]
        OBVIOUS
    <2>2. t.pc = "idle"
        BY <2>1 DEF Init, Idle
    <2>3. vault[d].head = 0 /\ \A n \in Names : rows[d][n] = NoRow
        BY DEF Init
    <2>4. \A n \in Names : TreeAt[0][n] = Absent
        BY TreeFacts DEF EmptyTree
    <2>5. RowsAt(vault[d].head, rows[d], disk[d])
        BY <2>3, <2>4 DEF RowsAt, Clean
    <2>6. SyncAt(t, vault[d].head, rows[d], disk[d])
        BY <2>2, <2>5 DEF SyncAt
    <2>7. ~settled[d]
        BY Zenon DEF Init
    <2> QED
        BY <2>1, <2>6, <2>7
<1> QED
    BY <1>1, <1>2, Zenon DEF SyncInv

\* Nothing happens.
LEMMA StutterSyncs ==
    ASSUME SyncInv, UNCHANGED vars
    PROVE  SyncInv'
<1>1. UNCHANGED <<log, disk, rows, vault, run, settled>> /\ TreeAt' = TreeAt
    BY SameTrees DEF vars
<1> QED
    BY <1>1 DEF SyncInv, NoTombstones, SyncAt, RowsAt, ApplyAt, MarkedAt, PlanAt, SettledAt, AsScanned, Clean

\* What users deleted stays deleted.
LEMMA DroppedGrows ==
    ASSUME [Next]_vars
    PROVE  dropped \subseteq dropped'
<1>1. CASE UNCHANGED vars
    BY <1>1 DEF vars
<1>2. ASSUME NEW d \in Devices, NEW n \in Names, Delete(d, n) PROVE dropped \subseteq dropped'
    BY <1>2 DEF Delete
<1>3. ASSUME NEW d \in Devices, NEW n \in Names, Apply(d, n) PROVE UNCHANGED dropped
    BY <1>3, Zenon DEF Apply, ApplyClean, ApplyToDeleted, ReadLocal, ApplyMerge, ApplyConflict, ApplyDeleteToEdited, ChangeDone
<1>4. ASSUME NEW d \in Devices, NEW n \in Files, NEW e \in Edits, Edit(d, n, e) PROVE UNCHANGED dropped
    BY <1>4 DEF Edit
<1>5. ASSUME NEW d \in Devices,
             \/ StatusScan(d) \/ PullStart(d) \/ PersistApplied(d) \/ AdvanceHead(d) \/ PushPlan(d)
             \/ PublishAccepted(d) \/ PublishConflict(d) \/ PublishSaved(d) \/ PublishDone(d) \/ RunFail(d)
      PROVE  UNCHANGED dropped
    BY <1>5, Zenon DEF StatusScan, PullStart, PersistApplied, AdvanceHead, PushPlan, PublishAccepted, PublishConflict, PublishSaved,
                PublishDone, RunFail
<1> QED
    BY <1>1, <1>2, <1>3, <1>4, <1>5, Zenon DEF Next

\* Every step keeps it, but a deletion of a file that held something.  There is no
\* other file, as long as none of those was deleted.
LEMMA NextSyncs ==
    ASSUME DeviceInv, KeepInv, SyncInv, OwnInv, ~EditDuringRun, dropped' = {}, [Next]_vars
    PROVE  SyncInv' /\ OwnInv'
<1>1. CASE UNCHANGED vars
    BY <1>1, StutterSyncs, StutterOwns
<1>2. ASSUME NEW d \in Devices, NEW n \in Files, NEW e \in Edits, Edit(d, n, e) PROVE SyncInv' /\ OwnInv'
    BY <1>2, EditSyncs, EditOwns
<1>3. ASSUME NEW d \in Devices, NEW n \in Names, Delete(d, n) PROVE FALSE
    BY <1>3, DeleteDrops
<1>4. ASSUME NEW d \in Devices, NEW n \in Names, Apply(d, n) PROVE SyncInv' /\ OwnInv'
    BY <1>4, ApplySyncs, ApplyOwns
<1>5. ASSUME NEW d \in Devices, StatusScan(d) PROVE SyncInv' /\ OwnInv'
    BY <1>5, StatusScanSyncs, StatusScanOwns
<1>6. ASSUME NEW d \in Devices, PullStart(d) PROVE SyncInv' /\ OwnInv'
    BY <1>6, PullStartSyncs, PullStartOwns
<1>7. ASSUME NEW d \in Devices, PersistApplied(d) PROVE SyncInv' /\ OwnInv'
    BY <1>7, PersistAppliedSyncs, PersistAppliedOwns
<1>8. ASSUME NEW d \in Devices, AdvanceHead(d) PROVE SyncInv' /\ OwnInv'
    BY <1>8, AdvanceHeadSyncs, AdvanceHeadOwns
<1>9. ASSUME NEW d \in Devices, PushPlan(d) PROVE SyncInv' /\ OwnInv'
    BY <1>9, PushPlanSyncs, PushPlanOwns
<1>10. ASSUME NEW d \in Devices, PublishAccepted(d) PROVE SyncInv' /\ OwnInv'
    BY <1>10, PublishAcceptedSyncs, PublishAcceptedOwns
<1>11. ASSUME NEW d \in Devices, PublishConflict(d) PROVE SyncInv' /\ OwnInv'
    BY <1>11, PublishConflictSyncs, PublishConflictOwns
<1>12. ASSUME NEW d \in Devices, PublishSaved(d) PROVE SyncInv' /\ OwnInv'
    BY <1>12, PublishSavedSyncs, PublishSavedOwns
<1>13. ASSUME NEW d \in Devices, PublishDone(d) PROVE SyncInv' /\ OwnInv'
    BY <1>13, PublishDoneSyncs, PublishDoneOwns
<1>14. ASSUME NEW d \in Devices, RunFail(d) PROVE SyncInv' /\ OwnInv'
    BY <1>14, RunFailSyncs, RunFailOwns
<1> QED
    BY <1>1, <1>2, <1>3, <1>4, <1>5, <1>6, <1>7, <1>8, <1>9, <1>10, <1>11, <1>12, <1>13, <1>14 DEF Next

\* As long as nobody has deleted a file that held something, and nobody writes while a
\* device syncs, what a device calls clean, what its runs apply and what they publish
\* fit together (apply_scan, mark_files_synced, persist_applied_commit,
\* plan_incremental), and no run leaves a file empty.
THEOREM SyncInvariant == Spec => [](~EditDuringRun /\ dropped = {} => SyncInv /\ OwnInv)
<1>1. Init => (~EditDuringRun /\ dropped = {} => SyncInv /\ OwnInv)
    BY InitSyncs, InitOwns
<1>2. /\ DeviceInv /\ (~EditDuringRun => KeepInv) /\ (~EditDuringRun /\ dropped = {} => SyncInv /\ OwnInv) /\ [Next]_vars
      => (~EditDuringRun /\ dropped = {} => SyncInv /\ OwnInv)'
    <2> SUFFICES ASSUME DeviceInv, ~EditDuringRun => KeepInv, ~EditDuringRun /\ dropped = {} => SyncInv /\ OwnInv,
                        [Next]_vars, ~EditDuringRun, dropped' = {}
                 PROVE  SyncInv' /\ OwnInv'
        OBVIOUS
    <2>1. dropped = {}
        BY DroppedGrows
    <2> QED
        BY <2>1, NextSyncs
<1> QED
    BY <1>1, <1>2, DeviceInvariant, KeepInvariant, PTL DEF Spec

\* After a run that ended well, with nobody writing meanwhile, nothing is dirty and the
\* vault is the tree of its local head, as long as no user has deleted a file that
\* held something (run_sync_once, on devices where nobody writes during a run).
THEOREM SettledDevices == Spec => [](~EditDuringRun => SettledIsSynced)
<1>1. DeviceInv /\ (~EditDuringRun /\ dropped = {} => SyncInv /\ OwnInv) => (~EditDuringRun => SettledIsSynced)
    <2> SUFFICES ASSUME DeviceInv, ~EditDuringRun /\ dropped = {} => SyncInv /\ OwnInv, ~EditDuringRun,
                        NEW d \in Devices, settled[d], run[d].pc = "idle", dropped = {}
                 PROVE  Dirty(rows[d]) = {} /\ disk[d] = tree[d]
        BY DEF SettledIsSynced
    <2>1. PICK h : h = vault[d].head
        OBVIOUS
    <2>2. SettledAt(h, rows[d], disk[d])
        BY <2>1, Zenon DEF SyncInv
    <2>3. disk[d] \in KnownTrees /\ tree[d] \in KnownTrees /\ tree[d] = TreeAt[h]
        BY <2>1, DeviceFacts
    <2>4. disk[d] = tree[d]
        BY <2>2, <2>3 DEF SettledAt, KnownTrees
    <2>5. Dirty(rows[d]) = {}
        BY <2>2 DEF SettledAt, Dirty, Clean
    <2> QED
        BY <2>4, <2>5
<1> QED
    BY <1>1, SyncInvariant, DeviceInvariant, PTL
=============================================================================
