-------------------------- MODULE SearchLinksProofs --------------------------
(***************************************************************************)
(* Proofs about SearchLinks, for any vault, any links and any sequence of  *)
(* jobs and failures.                                                      *)
(*                                                                         *)
(* A job changes documents of the names in its plan only, and the          *)
(* resolution of a link depends on the documents of the name it links to:  *)
(* links the plan does not select keep theirs.  That the documents of      *)
(* other names stay rests on the table's keys, so both are in one          *)
(* invariant, LinksInv.                                                    *)
(***************************************************************************)
EXTENDS SearchLinks, DataFacts, FiniteSetTheorems, TLAPS

Resolutions == [kind : Kinds, uid : {None} \cup Uids, distance : Nat]

Documents(l) == [uid : 1..l, path : Paths, links : Texts]
Links(l) == [uid : 1..l, path : Paths, target : Targets, resolution : Resolutions]

\* No two rows of the table have the same uid or the same path.
Keys(D) == \A d, e \in D : d.uid = e.uid \/ d.path = e.path => d = e

\* Links R are those of the documents D, or of one of the displaced uids X.
LinksOf(D, R, X) ==
    /\ \A r \in R : \A d \in D : r.uid = d.uid => r.path = d.path /\ r.target \in d.links
    /\ \A d \in D : \A t \in d.links : \E r \in R : r.uid = d.uid /\ r.path = d.path /\ r.target = t
    /\ \A r \in R : r.uid \in X \/ \E d \in D : d.uid = r.uid

\* Tables with documents D and links R, whose last uid is l.
TablesOK(D, R, l, X) ==
    /\ l \in Nat /\ D \subseteq Documents(l) /\ R \subseteq Links(l)
    /\ Keys(D) /\ LinksOf(D, R, X)

\* Between jobs every link is resolved; while a job's links are open, those that
\* its plan does not select.
Resolved == ~stale => \A r \in refs : (plan.open /\ Selected(r)) \/ r.resolution = Resolve(r.path, r.target, docs)

LinksInv ==
    /\ TablesOK(docs, refs, lastUid, displaced) /\ lastUid <= MaxUid
    /\ plan.open \in BOOLEAN /\ plan.sources \cup plan.resolved \subseteq Uids
    /\ displaced \subseteq Uids /\ stale \in BOOLEAN
    /\ Resolved

-----------------------------------------------------------------------------
(* Resolving a link.                                                       *)

\* What a link resolves to depends on the documents of the name it links to.
LEMMA ResolveByName ==
    ASSUME NEW path, NEW target, NEW D, NEW E,
           \A d : d.path.name = target.name => (d \in D <=> d \in E)
    PROVE  Resolve(path, target, D) = Resolve(path, target, E)
<1>1. \A d : Normalized(d.path) = target => d.path.name = target.name
    BY DEF Normalized
<1>2. {d \in D : Normalized(d.path) = target} = {d \in E : Normalized(d.path) = target}
    BY <1>1
<1>3. {d \in D : d.path.name = target.name} = {d \in E : d.path.name = target.name}
    OBVIOUS
<1> QED
    BY <1>2, <1>3, Zenon DEF Resolve

\* Folders have a distance.
LEMMA DistanceIsNat ==
    ASSUME NEW p \in Paths, NEW q \in Paths
    PROVE  Distance[p][q] \in Nat
<1>1. PICK a : a = p.folder
    OBVIOUS
<1>2. PICK b : b = q.folder
    OBVIOUS
<1>3. Len(a) \in Nat /\ Len(b) \in Nat
    BY <1>1, <1>2, SearchLinksAssumption
<1> DEFINE Common(n) == n <= Len(a) /\ n <= Len(b) /\ SubSeq(a, 1, n) = SubSeq(b, 1, n)
<1>4. Common(0)
    <2>1. 0 \in Int /\ 1 \in Int /\ 0 < 1
        OBVIOUS
    <2>2. SubSeq(a, 1, 0) = <<>> /\ SubSeq(b, 1, 0) = <<>>
        BY <2>1, SubSeqEmpty
    <2> QED
        BY <1>3, <2>2
<1>5. PICK T : T = {n \in Nat : ~Common(n)}
    OBVIOUS
<1>6. Len(a) + 1 \in T
    BY <1>3, <1>5
<1>7. PICK x \in T : \A y \in T : x <= y
    BY <1>5, <1>6, LeastNatural
<1>8. x \in Nat /\ ~Common(x) /\ x # 0
    BY <1>4, <1>5
<1>9. x - 1 \in Nat /\ Common(x - 1) /\ ~Common((x - 1) + 1)
    <2>1. x - 1 \in Nat /\ x - 1 \notin T /\ (x - 1) + 1 = x
        BY <1>7, <1>8
    <2> HIDE DEF Common
    <2> QED
        BY <1>5, <1>8, <2>1
<1>10. x - 1 \in 0..Len(a)
    BY <1>3, <1>9
<1>11. PICK c : c = CHOOSE n \in 0..Len(a) : Common(n) /\ ~Common(n + 1)
    OBVIOUS
<1>12. c \in 0..Len(a) /\ c <= Len(b)
    <2>1. c \in 0..Len(a) /\ Common(c)
        <3> HIDE DEF Common
        <3> QED
            BY <1>9, <1>10, <1>11, Zenon
    <2> QED
        BY <2>1
<1>13. Distance[p][q] = (Len(a) - c) + (Len(b) - c)
    BY <1>1, <1>2, <1>11 DEF Distance
<1> QED
    BY <1>3, <1>12, <1>13

\* The last of some documents is one of them.
LEMMA LastOfIn ==
    ASSUME NEW D, D # {}, \A d \in D : d.path \in Paths
    PROVE  LastOf(D) \in D
<1> DEFINE Pos(d) == CHOOSE i \in DOMAIN DocIds : DocIds[i] = d.path
<1>1. Len(DocIds) \in Nat /\ DOMAIN DocIds = 1..Len(DocIds)
    BY SearchLinksAssumption
<1>2. ASSUME NEW d \in D PROVE Pos(d) \in 1..Len(DocIds)
    <2>1. \E i \in DOMAIN DocIds : DocIds[i] = d.path
        BY <1>2 DEF Paths, Range
    <2>2. Pos(d) \in DOMAIN DocIds
        BY <2>1, Zenon
    <2> QED
        BY <1>1, <2>2
<1> HIDE DEF Pos
<1>3. PICK T : T = {x \in Nat : \E d \in D : x = Len(DocIds) - Pos(d)}
    OBVIOUS
<1>4. T # {}
    <2>1. PICK d \in D : TRUE
        OBVIOUS
    <2>2. Len(DocIds) - Pos(d) \in Nat
        BY <1>1, <1>2
    <2> QED
        BY <1>3, <2>1, <2>2
<1>5. PICK x \in T : \A y \in T : x <= y
    BY <1>3, <1>4, LeastNatural
<1>6. PICK d \in D : x = Len(DocIds) - Pos(d)
    BY <1>3
<1>7. ASSUME NEW e \in D PROVE Pos(e) <= Pos(d)
    <2>1. Len(DocIds) - Pos(e) \in T
        BY <1>1, <1>2, <1>3
    <2>2. Pos(e) \in 1..Len(DocIds) /\ Pos(d) \in 1..Len(DocIds) /\ Len(DocIds) - Pos(d) <= Len(DocIds) - Pos(e)
        BY <1>2, <1>5, <1>6, <2>1
    <2> QED
        BY <1>1, <2>2
<1>8. \E f \in D : \A e \in D : Pos(e) <= Pos(f)
    BY <1>7
<1>9. LastOf(D) = CHOOSE f \in D : \A e \in D : Pos(e) <= Pos(f)
    BY Zenon DEF LastOf, Pos
<1> QED
    BY <1>8, <1>9, Zenon

\* A resolution names a document.
LEMMA ResolveType ==
    ASSUME NEW path \in Paths, NEW target, NEW D, D \subseteq Documents(MaxUid)
    PROVE  Resolve(path, target, D) \in Resolutions
<1>1. PICK exact : exact = {d \in D : Normalized(d.path) = target}
    OBVIOUS
<1>2. PICK named : named = {d \in D : d.path.name = target.name}
    OBVIOUS
<1>3. PICK nearest : nearest = {d \in named : \A e \in named : Distance[path][d.path] <= Distance[path][e.path]}
    OBVIOUS
<1>4. \A d \in D : d.path \in Paths /\ d.uid \in Uids
    BY DEF Documents, Uids
<1>5. ASSUME NEW kind \in Kinds, NEW d \in D PROVE Resolution(kind, d.uid, Distance[path][d.path]) \in Resolutions
    <2>1. d.uid \in {None} \cup Uids /\ Distance[path][d.path] \in Nat
        BY <1>4, DistanceIsNat
    <2> QED
        BY <2>1, Zenon DEF Resolution, Resolutions
<1>6. Unresolved \in Resolutions /\ Ambiguous \in Resolutions
    BY DEF Unresolved, Ambiguous, Resolution, Resolutions, Kinds, None
<1>7. exact # {} => LastOf(exact) \in D
    BY <1>1, <1>4, LastOfIn
<1>8. Cardinality(nearest) = 1 => LastOf(nearest) \in D
    <2>1. Cardinality(nearest) = 1 => nearest # {}
        BY FS_EmptySet
    <2> QED
        BY <1>2, <1>3, <1>4, <2>1, LastOfIn
<1>9. Resolve(path, target, D) =
          IF target.folder # <<>> /\ exact # {}
          THEN Resolution("exact", LastOf(exact).uid, Distance[path][LastOf(exact).path])
          ELSE IF named = {} THEN Unresolved
          ELSE IF Cardinality(nearest) = 1
          THEN Resolution("basename", LastOf(nearest).uid, Distance[path][LastOf(nearest).path])
          ELSE Ambiguous
    BY <1>1, <1>2, <1>3, Zenon DEF Resolve
<1>10. "exact" \in Kinds /\ "basename" \in Kinds
    BY DEF Kinds
<1> QED
    BY <1>5, <1>6, <1>7, <1>8, <1>9, <1>10

-----------------------------------------------------------------------------
(* The tables.                                                             *)

\* The uid a document is written with.
UidFor(uid, l) == IF uid = {} THEN l + 1 ELSE CHOOSE u \in uid : TRUE

\* What replace_document leaves, by its parts.
ReplacedDocs(D, u, p, links) == {d \in D : d.path # p /\ d.uid # u} \cup {[uid |-> u, path |-> p, links |-> links]}
ReplacedLinks(R, u, p, links) ==
    {r \in R : r.uid # u} \cup {[uid |-> u, path |-> p, target |-> t, resolution |-> Unresolved] : t \in links}

\* A document replaces those of its path and its uid.
LEMMA ReplacedIs ==
    ASSUME NEW db, NEW uid, NEW p, NEW links
    PROVE  LET u == UidFor(uid, db.last)
               new == Replaced(db, uid, p, links)
           IN  /\ new.docs = ReplacedDocs(db.docs, u, p, links)
               /\ new.refs = ReplacedLinks(db.refs, u, p, links)
               /\ new.last = IF uid = {} THEN u ELSE db.last
BY DEF Replaced, ReplacedDocs, ReplacedLinks, UidFor

\* It is one of the tables' own, or a new one.
LEMMA UidForFacts ==
    ASSUME NEW l \in Nat, NEW uid, uid \subseteq 1..l
    PROVE  LET u == UidFor(uid, l)
               k == IF uid = {} THEN u ELSE l
           IN  /\ uid # {} => u \in uid
               /\ uid = {} => u = l + 1
               /\ k \in Nat /\ l <= k /\ u \in 1..k
<1>1. CASE uid = {}
    BY <1>1 DEF UidFor
<1>2. CASE uid # {}
    <2>1. PICK u : u = UidFor(uid, l)
        OBVIOUS
    <2>2. u \in uid
        BY <1>2, <2>1, Zenon DEF UidFor
    <2>3. u \in 1..l /\ l <= l
        BY <2>2
    <2> QED
        BY <1>2, <2>1, <2>2, <2>3, Zenon
<1> QED
    BY <1>1, <1>2

\* Replacing a document keeps the tables in order, if the rows that make way and
\* keep their links are counted as displaced.
LEMMA ReplacedOK ==
    ASSUME NEW D, NEW R, NEW l, NEW X, NEW Y, NEW u, NEW k, NEW p \in Paths, NEW links \in Texts,
           TablesOK(D, R, l, X), k \in Nat, l <= k, u \in 1..k, X \subseteq Y,
           \A d \in D : d.path = p /\ d.uid # u => d.uid \in Y
    PROVE  TablesOK(ReplacedDocs(D, u, p, links), ReplacedLinks(R, u, p, links), k, Y)
<1>1. PICK new : new = [uid |-> u, path |-> p, links |-> links]
    OBVIOUS
<1>2. new.uid = u /\ new.path = p /\ new.links = links
    BY <1>1
<1>3. PICK E : E = ReplacedDocs(D, u, p, links)
    OBVIOUS
<1>4. PICK Q : Q = ReplacedLinks(R, u, p, links)
    OBVIOUS
<1>5. \A d : d \in E <=> (d \in D /\ d.path # p /\ d.uid # u) \/ d = new
    BY <1>1, <1>3 DEF ReplacedDocs
<1>6. \A r : r \in Q <=> \/ r \in R /\ r.uid # u
                         \/ \E t \in links : r = [uid |-> u, path |-> p, target |-> t, resolution |-> Unresolved]
    BY <1>4 DEF ReplacedLinks
<1>7. links \subseteq Targets
    BY SearchLinksAssumption
<1>8. D \subseteq Documents(k) /\ R \subseteq Links(k)
    <2>1. 1..l \subseteq 1..k
        BY DEF TablesOK
    <2> QED
        BY <2>1 DEF TablesOK, Documents, Links
<1>9. E \subseteq Documents(k)
    <2>1. new \in Documents(k)
        BY <1>1 DEF Documents
    <2> QED
        BY <1>5, <1>8, <2>1
<1>10. Q \subseteq Links(k)
    <2>1. Unresolved \in Resolutions
        BY DEF Unresolved, Resolution, Resolutions, Kinds, None
    <2>2. \A t \in links : [uid |-> u, path |-> p, target |-> t, resolution |-> Unresolved] \in Links(k)
        BY <1>7, <2>1 DEF Links
    <2> QED
        BY <1>6, <1>8, <2>2
<1>11. Keys(E)
    <2>1. Keys(D)
        BY DEF TablesOK
    <2> QED
        BY <1>2, <1>5, <2>1 DEF Keys
<1>12. LinksOf(E, Q, Y)
    <2>1. LinksOf(D, R, X)
        BY DEF TablesOK
    <2>2. ASSUME NEW r \in Q
          PROVE  \/ r \in R /\ r.uid # u
                 \/ r.uid = u /\ r.path = p /\ r.target \in links
        BY <1>6
    <2>3. ASSUME NEW r \in Q, NEW d \in E, r.uid = d.uid PROVE r.path = d.path /\ r.target \in d.links
        <3>1. CASE d = new
            BY <1>2, <2>2, <2>3, <3>1
        <3>2. CASE d # new
            <4>1. d \in D /\ d.uid # u
                BY <1>5, <3>2
            <4> QED
                BY <2>1, <2>2, <2>3, <4>1 DEF LinksOf
        <3> QED
            BY <3>1, <3>2
    <2>4. ASSUME NEW d \in E, NEW t \in d.links PROVE \E r \in Q : r.uid = d.uid /\ r.path = d.path /\ r.target = t
        <3>1. CASE d = new
            <4>1. PICK r : r = [uid |-> u, path |-> p, target |-> t, resolution |-> Unresolved]
                OBVIOUS
            <4>2. r \in Q /\ r.uid = u /\ r.path = p /\ r.target = t
                BY <1>2, <1>6, <2>4, <3>1, <4>1
            <4> QED
                BY <1>2, <3>1, <4>2
        <3>2. CASE d # new
            <4>1. d \in D /\ d.uid # u
                BY <1>5, <3>2
            <4>2. PICK r \in R : r.uid = d.uid /\ r.path = d.path /\ r.target = t
                BY <2>1, <2>4, <4>1 DEF LinksOf
            <4>3. r \in Q
                BY <1>6, <4>1, <4>2
            <4> QED
                BY <4>2, <4>3
        <3> QED
            BY <3>1, <3>2
    <2>5. ASSUME NEW r \in Q PROVE r.uid \in Y \/ \E d \in E : d.uid = r.uid
        <3>1. CASE r.uid = u
            <4>1. new \in E
                BY <1>5
            <4> QED
                BY <1>2, <3>1, <4>1
        <3>2. CASE r.uid # u
            <4>1. r \in R
                BY <2>2, <3>2
            <4>2. CASE r.uid \in X
                BY <4>2
            <4>3. CASE \E d \in D : d.uid = r.uid
                <5>1. PICK d \in D : d.uid = r.uid
                    BY <4>3
                <5>2. CASE d.path = p
                    BY <3>2, <5>1, <5>2
                <5>3. CASE d.path # p
                    BY <1>5, <3>2, <5>1, <5>3
                <5> QED
                    BY <5>2, <5>3
            <4> QED
                BY <2>1, <4>1, <4>2, <4>3 DEF LinksOf
        <3> QED
            BY <3>1, <3>2
    <2> QED
        BY <2>3, <2>4, <2>5 DEF LinksOf
<1> QED
    BY <1>3, <1>4, <1>9, <1>10, <1>11, <1>12 DEF TablesOK

\* Removing documents with their links keeps the tables in order.
LEMMA RemovedOK ==
    ASSUME NEW db, NEW X, NEW P, TablesOK(db.docs, db.refs, db.last, X)
    PROVE  LET new == Removed(db, P)
           IN  /\ TablesOK(new.docs, new.refs, new.last, X)
               /\ \A d : d \in new.docs <=> d \in db.docs /\ d.path \notin P
               /\ new.refs \subseteq db.refs /\ new.last = db.last
<1>1. PICK new : new = Removed(db, P)
    OBVIOUS
<1>2. PICK U : U = {d.uid : d \in {d \in db.docs : d.path \in P}}
    OBVIOUS
<1>3. /\ new.docs = {d \in db.docs : d.path \notin P} /\ new.refs = {r \in db.refs : r.uid \notin U}
      /\ new.last = db.last
    BY <1>1, <1>2 DEF Removed
<1>4. \A d : d \in new.docs <=> d \in db.docs /\ d.path \notin P
    BY <1>3
<1>5. \A d \in db.docs : d.uid \in U <=> d.path \in P
    BY <1>2 DEF TablesOK, Keys
<1>6. Keys(new.docs)
    BY <1>4 DEF TablesOK, Keys
<1>7. LinksOf(db.docs, db.refs, X)
    BY DEF TablesOK
<1>8. LinksOf(new.docs, new.refs, X)
    <2>1. ASSUME NEW r \in new.refs, NEW d \in new.docs, r.uid = d.uid PROVE r.path = d.path /\ r.target \in d.links
        BY <1>3, <1>4, <1>7, <2>1 DEF LinksOf
    <2>2. ASSUME NEW d \in new.docs, NEW t \in d.links
          PROVE  \E r \in new.refs : r.uid = d.uid /\ r.path = d.path /\ r.target = t
        <3>1. d \in db.docs /\ d.path \notin P
            BY <1>4
        <3>2. PICK r \in db.refs : r.uid = d.uid /\ r.path = d.path /\ r.target = t
            BY <1>7, <2>2, <3>1 DEF LinksOf
        <3>3. r \in new.refs
            BY <1>3, <1>5, <3>1, <3>2
        <3> QED
            BY <3>2, <3>3
    <2>3. ASSUME NEW r \in new.refs PROVE r.uid \in X \/ \E d \in new.docs : d.uid = r.uid
        <3>1. r \in db.refs /\ r.uid \notin U
            BY <1>3
        <3>2. r.uid \in X \/ \E d \in db.docs : d.uid = r.uid
            BY <1>7, <3>1 DEF LinksOf
        <3> QED
            BY <1>4, <1>5, <3>1, <3>2
    <2> QED
        BY <2>1, <2>2, <2>3 DEF LinksOf
<1> QED
    BY <1>1, <1>3, <1>4, <1>6, <1>8 DEF TablesOK

\* Links whose resolutions alone change.
LEMMA ReresolvedOK ==
    ASSUME NEW D, NEW R, NEW l, NEW X, NEW Q, TablesOK(D, R, l, X), Q \subseteq Links(l),
           \A r \in R : \E s \in Q : s.uid = r.uid /\ s.path = r.path /\ s.target = r.target,
           \A s \in Q : \E r \in R : s.uid = r.uid /\ s.path = r.path /\ s.target = r.target
    PROVE  TablesOK(D, Q, l, X)
<1>1. LinksOf(D, R, X)
    BY DEF TablesOK
<1>2. LinksOf(D, Q, X)
    <2>1. ASSUME NEW s \in Q, NEW d \in D, s.uid = d.uid PROVE s.path = d.path /\ s.target \in d.links
        BY <1>1, <2>1 DEF LinksOf
    <2>2. ASSUME NEW d \in D, NEW t \in d.links PROVE \E s \in Q : s.uid = d.uid /\ s.path = d.path /\ s.target = t
        <3>1. PICK r \in R : r.uid = d.uid /\ r.path = d.path /\ r.target = t
            BY <1>1, <2>2 DEF LinksOf
        <3> QED
            BY <3>1
    <2>3. ASSUME NEW s \in Q PROVE s.uid \in X \/ \E d \in D : d.uid = s.uid
        BY <1>1, <2>3 DEF LinksOf
    <2> QED
        BY <2>1, <2>2, <2>3 DEF LinksOf
<1> QED
    BY <1>2 DEF TablesOK

\* The documents' own formulation.
LEMMA LinksOfDocuments ==
    ASSUME LinksOf(docs, refs, displaced)
    PROVE  LinksAreOfDocuments
<1>1. ASSUME NEW d \in docs
      PROVE  {<<r.path, r.target>> : r \in {r \in refs : r.uid = d.uid}} = {d.path} \X d.links
    <2>1. PICK S : S = {<<r.path, r.target>> : r \in {r \in refs : r.uid = d.uid}}
        OBVIOUS
    <2>2. ASSUME NEW s \in S PROVE s \in {d.path} \X d.links
        <3>1. PICK r \in refs : r.uid = d.uid /\ s = <<r.path, r.target>>
            BY <2>1
        <3>2. r.path = d.path /\ r.target \in d.links
            BY <3>1 DEF LinksOf
        <3> QED
            BY <3>1, <3>2
    <2>3. ASSUME NEW s \in {d.path} \X d.links PROVE s \in S
        <3>1. PICK t \in d.links : s = <<d.path, t>>
            OBVIOUS
        <3>2. PICK r \in refs : r.uid = d.uid /\ r.path = d.path /\ r.target = t
            BY DEF LinksOf
        <3> QED
            BY <2>1, <3>1, <3>2
    <2> QED
        BY <2>1, <2>2, <2>3
<1>2. \A r \in refs : r.uid \in displaced \/ \E d \in docs : d.uid = r.uid
    BY DEF LinksOf
<1> QED
    BY <1>1, <1>2 DEF LinksAreOfDocuments

\* The uid that is looked up for a path is that of a document whose path differs
\* at most in case; of the document with that path, if there is one.
LEMMA FindUidFacts ==
    ASSUME NEW D, NEW p
    PROVE  /\ \A v \in FindUid(D, p) : \E d \in D : d.uid = v /\ Normalized(d.path) = Normalized(p)
           /\ \A d \in D : d.path = p => \A v \in FindUid(D, p) : \E e \in D : e.path = p /\ e.uid = v
           /\ \A d \in D : d.path = p => FindUid(D, p) # {}
           /\ \A v : v \in ExactUid(D, p) <=> \E d \in D : d.path = p /\ d.uid = v
<1>1. PICK N : N = {d \in D : Normalized(d.path) = Normalized(p)}
    OBVIOUS
<1>2. FindUid(D, p) = IF ExactUid(D, p) # {} THEN ExactUid(D, p)
                      ELSE IF Cardinality(N) = 1 THEN {d.uid : d \in N} ELSE {}
    BY <1>1, Zenon DEF FindUid
<1>3. \A v : v \in ExactUid(D, p) <=> \E d \in D : d.path = p /\ d.uid = v
    BY DEF ExactUid
<1>4. \A v \in {d.uid : d \in N} : \E d \in D : d.uid = v /\ Normalized(d.path) = Normalized(p)
    BY <1>1
<1>5. ASSUME NEW v \in FindUid(D, p) PROVE \E d \in D : d.uid = v /\ Normalized(d.path) = Normalized(p)
    <2>1. CASE ExactUid(D, p) # {}
        <3>1. v \in ExactUid(D, p)
            BY <1>2, <2>1
        <3> QED
            BY <1>3, <3>1
    <2>2. CASE ExactUid(D, p) = {}
        <3>1. v \in {d.uid : d \in N}
            BY <1>2, <2>2
        <3> QED
            BY <1>4, <3>1
    <2> QED
        BY <2>1, <2>2
<1>6. ASSUME NEW d \in D, d.path = p PROVE FindUid(D, p) = ExactUid(D, p) /\ ExactUid(D, p) # {}
    BY <1>2, <1>3, <1>6
<1> QED
    BY <1>3, <1>5, <1>6

\* One file of a batch.
Written(db, files, n) ==
    IF DocIds[n] \notin DOMAIN files THEN db
    ELSE Replaced(db, [p \in DOMAIN files |-> FindUid(docs, p)][DocIds[n]], DocIds[n], files[DocIds[n]])

\* The first m files of a batch.
Batch(f, files, m) == f = [n \in 0..m |-> IF n = 0 THEN Database ELSE Written(f[n - 1], files, n)]

\* They exist.
LEMMA BatchExists == \A files : \A m \in Nat : \E f : Batch(f, files, m)
<1> SUFFICES ASSUME NEW files PROVE \A m \in Nat : \E f : Batch(f, files, m)
    OBVIOUS
<1>1. PICK T : T = {m \in Nat : ~\E f : Batch(f, files, m)}
    OBVIOUS
<1>2. ASSUME T # {} PROVE FALSE
    <2>1. PICK x \in T : \A y \in T : x <= y
        BY <1>1, <1>2, LeastNatural
    <2>2. x \in Nat /\ ~\E f : Batch(f, files, x)
        BY <1>1
    <2>3. x # 0
        <3>1. ASSUME x = 0 PROVE FALSE
            <4>1. PICK f : f = [n \in 0..0 |-> Database]
                OBVIOUS
            <4>2. Batch(f, files, 0)
                BY <4>1 DEF Batch
            <4> QED
                BY <2>2, <3>1, <4>2
        <3> QED
            BY <3>1
    <2>4. x - 1 \in Nat /\ x - 1 \notin T
        BY <2>1, <2>2, <2>3
    <2>5. PICK f : Batch(f, files, x - 1)
        BY <1>1, <2>4
    <2>6. PICK a : a = Written(f[x - 1], files, x)
        OBVIOUS
    <2>7. PICK g : g = [n \in 0..x |-> IF n = x THEN a ELSE f[n]]
        OBVIOUS
    <2>8. \A n \in 0..x : g[n] = IF n = 0 THEN Database ELSE Written(g[n - 1], files, n)
        <3> SUFFICES ASSUME NEW n \in 0..x PROVE g[n] = IF n = 0 THEN Database ELSE Written(g[n - 1], files, n)
            OBVIOUS
        <3>1. CASE n = x
            <4>1. x - 1 \in 0..x /\ x - 1 # x
                BY <2>2, <2>3
            <4>2. g[n - 1] = f[x - 1] /\ g[n] = a
                BY <2>7, <3>1, <4>1
            <4> QED
                BY <2>3, <2>6, <3>1, <4>2
        <3>2. CASE n # x
            <4>1. n \in 0..(x - 1) /\ (n # 0 => n - 1 \in 0..x /\ n - 1 # x)
                BY <2>2, <3>2
            <4>2. f[n] = IF n = 0 THEN Database ELSE Written(f[n - 1], files, n)
                BY <2>5, <4>1, Zenon DEF Batch
            <4>3. g[n] = f[n] /\ (n # 0 => g[n - 1] = f[n - 1])
                BY <2>7, <3>2, <4>1
            <4> QED
                BY <4>2, <4>3
        <3> QED
            BY <3>1, <3>2
    <2>9. Batch(g, files, x)
        BY <2>7, <2>8 DEF Batch
    <2> QED
        BY <2>2, <2>9
<1> QED
    BY <1>1, <1>2

\* A rebuild writes the whole batch.
LEMMA IndexedIs ==
    ASSUME NEW files
    PROVE  \E f : /\ Indexed(files) = f[Len(DocIds)]
                  /\ \A n \in 0..Len(DocIds) : f[n] = IF n = 0 THEN Database ELSE Written(f[n - 1], files, n)
<1>1. PICK f : f = CHOOSE g : Batch(g, files, Len(DocIds))
    OBVIOUS
<1>2. \E g : Batch(g, files, Len(DocIds))
    <2>1. Len(DocIds) \in Nat
        BY SearchLinksAssumption
    <2> QED
        BY <2>1, BatchExists
<1>3. Batch(f, files, Len(DocIds))
    BY <1>1, <1>2, Zenon
<1>4. Indexed(files) = f[Len(DocIds)]
    BY <1>1, Zenon DEF Indexed, Batch, Written
<1>5. \A n \in 0..Len(DocIds) : f[n] = IF n = 0 THEN Database ELSE Written(f[n - 1], files, n)
    BY <1>3, Zenon DEF Batch
<1> QED
    BY <1>4, <1>5

\* The tables D, R with last uid l, when the files before the n-th are written: the
\* documents of the others are still there as they were.
BatchOK(D, R, l, n) ==
    /\ TablesOK(D, R, l, displaced) /\ lastUid <= l
    /\ \A d \in D : \A m \in 1..Len(DocIds) : m > n /\ d.path = DocIds[m] => d \in docs

\* Writing one more file: it has its own document's uid, so nothing is displaced.
LEMMA WrittenOK ==
    ASSUME NEW db, NEW P \in SUBSET Paths, NEW files \in [P -> Texts], NEW n \in 1..Len(DocIds),
           TablesOK(docs, refs, lastUid, displaced), BatchOK(db.docs, db.refs, db.last, n - 1)
    PROVE  LET new == Written(db, files, n) IN BatchOK(new.docs, new.refs, new.last, n)
<1>1. PICK new : new = Written(db, files, n)
    OBVIOUS
<1>2. Len(DocIds) \in Nat /\ n \in Nat
    BY SearchLinksAssumption
<1>3. CASE DocIds[n] \notin P
    <2>1. new = db
        BY <1>1, <1>3 DEF Written
    <2>2. \A m \in 1..Len(DocIds) : m > n => m > n - 1
        BY <1>2
    <2>3. BatchOK(db.docs, db.refs, db.last, n)
        BY <2>2 DEF BatchOK
    <2> QED
        BY <1>1, <2>1, <2>3
<1>4. CASE DocIds[n] \in P
    <2>1. PICK p \in Paths : p = DocIds[n] /\ p \in P
        BY <1>4
    <2>2. PICK uid : uid = FindUid(docs, p)
        OBVIOUS
    <2>3. PICK links \in Texts : links = files[p]
        BY <2>1
    <2>4. new = Replaced(db, uid, p, links)
        BY <1>1, <2>1, <2>2, <2>3 DEF Written
    <2>5. PICK u : u = UidFor(uid, db.last)
        OBVIOUS
    <2>6. PICK k : k = IF uid = {} THEN u ELSE db.last
        OBVIOUS
    <2>7. /\ new.docs = ReplacedDocs(db.docs, u, p, links)
          /\ new.refs = ReplacedLinks(db.refs, u, p, links) /\ new.last = k
        BY <2>4, <2>5, <2>6, ReplacedIs
    <2>8. TablesOK(db.docs, db.refs, db.last, displaced) /\ lastUid <= db.last /\ db.last \in Nat /\ lastUid \in Nat
        BY DEF BatchOK, TablesOK
    <2>9. uid \subseteq 1..db.last
        <3>1. \A v \in uid : v \in 1..lastUid
            BY <2>2, FindUidFacts DEF TablesOK, Documents
        <3> QED
            BY <2>8, <3>1
    <2>10. /\ uid # {} => u \in uid
           /\ k \in Nat /\ db.last <= k /\ u \in 1..k
        BY <2>5, <2>6, <2>8, <2>9, UidForFacts
    <2>11. ASSUME NEW d \in db.docs, d.path = p PROVE d.uid = u
        <3>1. n \in 1..Len(DocIds) /\ n > n - 1
            BY <1>2
        <3>2. d \in docs
            BY <2>1, <2>11, <3>1 DEF BatchOK
        <3>3. uid # {} /\ \A v \in uid : \E e \in docs : e.path = p /\ e.uid = v
            BY <2>2, <2>11, <3>2, FindUidFacts
        <3>4. PICK e \in docs : e.path = p /\ e.uid = u
            BY <2>10, <3>3
        <3>5. e = d
            BY <2>11, <3>2, <3>4 DEF TablesOK, Keys
        <3> QED
            BY <3>4, <3>5
    <2>12. TablesOK(new.docs, new.refs, new.last, displaced)
        BY <2>7, <2>8, <2>10, <2>11, ReplacedOK
    <2>13. ASSUME NEW d \in new.docs, NEW m \in 1..Len(DocIds), m > n, d.path = DocIds[m] PROVE d \in docs
        <3>1. m \in DOMAIN DocIds /\ n \in DOMAIN DocIds /\ m # n
            BY <1>2, <2>13, SearchLinksAssumption
        <3>2. d.path # p
            BY <2>1, <2>13, <3>1, SearchLinksAssumption DEF IsInjective
        <3>3. d \in db.docs
            BY <2>7, <3>2 DEF ReplacedDocs
        <3>4. m > n - 1
            BY <1>2, <2>13
        <3> QED
            BY <2>13, <3>3, <3>4 DEF BatchOK
    <2>14. lastUid <= new.last
        BY <2>7, <2>8, <2>10
    <2> QED
        BY <1>1, <2>12, <2>13, <2>14 DEF BatchOK
<1> QED
    BY <1>3, <1>4

\* A batch keeps the tables in order.
LEMMA IndexedOK ==
    ASSUME NEW P \in SUBSET Paths, NEW files \in [P -> Texts], TablesOK(docs, refs, lastUid, displaced)
    PROVE  LET new == Indexed(files) IN TablesOK(new.docs, new.refs, new.last, displaced)
<1>1. PICK f : /\ Indexed(files) = f[Len(DocIds)]
               /\ \A n \in 0..Len(DocIds) : f[n] = IF n = 0 THEN Database ELSE Written(f[n - 1], files, n)
    BY IndexedIs
<1>2. Len(DocIds) \in Nat
    BY SearchLinksAssumption
<1>3. PICK T : T = {n \in Nat : n <= Len(DocIds) /\ ~BatchOK(f[n].docs, f[n].refs, f[n].last, n)}
    OBVIOUS
<1>4. ASSUME T # {} PROVE FALSE
    <2>1. PICK x \in T : \A y \in T : x <= y
        BY <1>3, <1>4, LeastNatural
    <2>2. x \in Nat /\ x <= Len(DocIds) /\ ~BatchOK(f[x].docs, f[x].refs, f[x].last, x)
        BY <1>3, <2>1
    <2>3. CASE x = 0
        <3>1. f[x] = Database
            BY <1>1, <1>2, <2>3
        <3>2. f[x].docs = docs /\ f[x].refs = refs /\ f[x].last = lastUid
            BY <3>1 DEF Database
        <3>3. lastUid <= lastUid
            BY DEF TablesOK
        <3>4. BatchOK(docs, refs, lastUid, x)
            BY <3>3 DEF BatchOK
        <3> QED
            BY <2>2, <3>2, <3>4
    <2>4. CASE x # 0
        <3>1. x - 1 \in Nat /\ x - 1 <= Len(DocIds) /\ x \in 1..Len(DocIds) /\ ~(x <= x - 1)
            BY <1>2, <2>2, <2>4
        <3>2. PICK db : db = f[x - 1]
            OBVIOUS
        <3>3. BatchOK(db.docs, db.refs, db.last, x - 1)
            BY <1>3, <2>1, <3>1, <3>2
        <3>4. f[x] = Written(db, files, x)
            <4>1. x \in 0..Len(DocIds)
                BY <3>1
            <4> QED
                BY <1>1, <2>4, <3>2, <4>1
        <3>5. PICK new : new = Written(db, files, x)
            OBVIOUS
        <3>6. BatchOK(new.docs, new.refs, new.last, x)
            BY <3>1, <3>3, <3>5, WrittenOK
        <3> QED
            BY <2>2, <3>4, <3>5, <3>6
    <2> QED
        BY <2>3, <2>4
<1>5. Len(DocIds) \notin T
    BY <1>4
<1>6. BatchOK(f[Len(DocIds)].docs, f[Len(DocIds)].refs, f[Len(DocIds)].last, Len(DocIds))
    BY <1>2, <1>3, <1>5
<1> QED
    BY <1>1, <1>6 DEF BatchOK

-----------------------------------------------------------------------------
(* The jobs.                                                               *)

\* Rows whose uid is within the bound.
LEMMA WithinBound ==
    ASSUME NEW D, NEW R, NEW l, NEW X, TablesOK(D, R, l, X), l <= MaxUid
    PROVE  D \subseteq Documents(MaxUid) /\ \A d \in D : d.uid \in Uids
<1>1. 1..l \subseteq 1..MaxUid
    BY SearchLinksAssumption DEF TablesOK
<1> QED
    BY <1>1 DEF TablesOK, Documents, Uids

\* A job that changes documents of the plan's names only, and writes links of the
\* plan's sources only, leaves no link stale that the plan does not select.
LEMMA JobKeepsResolved ==
    ASSUME NEW sources, NEW resolved, NEW paths, Resolved, ~plan.open,
           plan' = PlanFor(sources, resolved, paths), stale' = stale,
           \A r \in refs' : r \in refs \/ r.uid \in sources,
           \A d : d.path.name \notin {p.name : p \in paths} => (d \in docs <=> d \in docs')
    PROVE  Resolved'
<1>1. plan'.sources = sources /\ plan'.names = {p.name : p \in paths} /\ plan'.open = TRUE
    BY DEF PlanFor
<1>2. ASSUME ~stale, NEW r \in refs', ~Selected(r)' PROVE r.resolution = Resolve(r.path, r.target, docs')
    <2>1. r.uid \notin sources /\ r.target.name \notin {p.name : p \in paths}
        BY <1>1, <1>2 DEF Selected
    <2>2. r \in refs
        BY <2>1
    <2>3. r.resolution = Resolve(r.path, r.target, docs)
        BY <1>2, <2>2 DEF Resolved
    <2>4. PICK path, target : path = r.path /\ target = r.target
        OBVIOUS
    <2>5. PICK D, E : D = docs /\ E = docs'
        OBVIOUS
    <2>6. \A d : d.path.name = target.name => (d \in D <=> d \in E)
        BY <2>1, <2>4, <2>5
    <2>7. Resolve(path, target, D) = Resolve(path, target, E)
        BY <2>6, ResolveByName
    <2> QED
        BY <2>3, <2>4, <2>5, <2>7
<1> QED
    BY <1>1, <1>2 DEF Resolved

\* What is left to show of a job, when its tables are in order.
LEMMA JobKeepsInv ==
    ASSUME NEW sources, NEW resolved, NEW paths, LinksInv, ~plan.open,
           plan' = PlanFor(sources, resolved, paths), stale' = stale,
           TablesOK(docs', refs', lastUid', displaced'), lastUid' <= MaxUid,
           sources \subseteq Uids, resolved \subseteq Uids, displaced' \subseteq Uids,
           \A r \in refs' : r \in refs \/ r.uid \in sources,
           \A d : d.path.name \notin {p.name : p \in paths} => (d \in docs <=> d \in docs')
    PROVE  LinksInv'
<1>1. Resolved'
    BY JobKeepsResolved DEF LinksInv
<1>2. plan'.open = TRUE /\ plan'.sources \cup plan'.resolved \subseteq Uids
    BY DEF PlanFor
<1>3. stale' \in BOOLEAN
    BY Zenon DEF LinksInv
<1> QED
    BY <1>1, <1>2, <1>3 DEF LinksInv

\* The document a file is indexed as: its own, or one of the same name.
LEMMA IndexUid ==
    ASSUME NEW p \in Paths, TablesOK(docs, refs, lastUid, displaced)
    PROVE  LET uid == FindUid(docs, p)
               u == UidFor(uid, lastUid)
           IN  /\ uid \subseteq 1..lastUid
               /\ \A d \in docs : d.path = p => d.uid = u
               /\ \A d \in docs : d.uid = u => d.path.name = p.name
<1>1. PICK uid : uid = FindUid(docs, p)
    OBVIOUS
<1>2. PICK u : u = UidFor(uid, lastUid)
    OBVIOUS
<1>3. uid \subseteq 1..lastUid
    BY <1>1, FindUidFacts DEF TablesOK, Documents
<1>4. lastUid \in Nat /\ (uid # {} => u \in uid) /\ (uid = {} => u = lastUid + 1)
    <2>1. lastUid \in Nat
        BY DEF TablesOK
    <2> QED
        BY <1>2, <1>3, <2>1, UidForFacts
<1>5. ASSUME NEW d \in docs, d.path = p PROVE d.uid = u
    <2>1. uid # {} /\ \A v \in uid : \E e \in docs : e.path = p /\ e.uid = v
        BY <1>1, <1>5, FindUidFacts
    <2>2. PICK e \in docs : e.path = p /\ e.uid = u
        BY <1>4, <2>1
    <2> QED
        BY <1>5, <2>2 DEF TablesOK, Keys
<1>6. ASSUME NEW d \in docs, d.uid = u PROVE d.path.name = p.name
    <2>1. u \in 1..lastUid
        BY <1>6 DEF TablesOK, Documents
    <2>2. u \in uid
        BY <1>4, <2>1
    <2>3. PICK e \in docs : e.uid = u /\ Normalized(e.path) = Normalized(p)
        BY <1>1, <2>2, FindUidFacts
    <2>4. e = d
        BY <1>6, <2>3 DEF TablesOK, Keys
    <2> QED
        BY <2>3, <2>4 DEF Normalized
<1> QED
    BY <1>1, <1>2, <1>3, <1>5, <1>6

\* IndexFile writes under the document's own uid, or one of that name.
LEMMA IndexFileInv ==
    ASSUME NEW p \in Paths, NEW links \in Texts, LinksInv, IndexFile(p, links)
    PROVE  LinksInv'
<1>1. PICK uid, u : uid = FindUid(docs, p) /\ u = UidFor(uid, lastUid)
    OBVIOUS
<1>2. PICK db : db = Replaced(Database, uid, p, links)
    OBVIOUS
<1>3. /\ ~plan.open /\ stale' = stale /\ displaced' = displaced
      /\ db.last <= MaxUid /\ docs' = db.docs /\ refs' = db.refs /\ lastUid' = db.last
      /\ plan' = PlanFor(ExactUid(db.docs, p), {}, {p})
    BY <1>1, <1>2 DEF IndexFile, Commit
<1>4. PICK k : k = IF uid = {} THEN u ELSE lastUid
    OBVIOUS
<1>5. Database.docs = docs /\ Database.refs = refs /\ Database.last = lastUid
    BY DEF Database
<1>6. /\ docs' = ReplacedDocs(docs, u, p, links)
      /\ refs' = ReplacedLinks(refs, u, p, links) /\ lastUid' = k
    <2>1. PICK old : old = Database
        OBVIOUS
    <2>2. /\ db.docs = ReplacedDocs(old.docs, u, p, links)
          /\ db.refs = ReplacedLinks(old.refs, u, p, links) /\ db.last = k
        BY <1>1, <1>2, <1>4, <1>5, <2>1, ReplacedIs
    <2> QED
        BY <1>3, <1>5, <2>1, <2>2
<1>7. TablesOK(docs, refs, lastUid, displaced) /\ lastUid \in Nat
    BY DEF LinksInv, TablesOK
<1>8. /\ uid \subseteq 1..lastUid
      /\ \A d \in docs : d.path = p => d.uid = u
      /\ \A d \in docs : d.uid = u => d.path.name = p.name
    BY <1>1, <1>7, IndexUid
<1>9. k \in Nat /\ lastUid <= k /\ u \in 1..k
    BY <1>1, <1>4, <1>7, <1>8, UidForFacts
<1>10. TablesOK(docs', refs', lastUid', displaced')
    <2>1. PICK D, R, l, X : D = docs /\ R = refs /\ l = lastUid /\ X = displaced
        OBVIOUS
    <2>2. TablesOK(ReplacedDocs(D, u, p, links), ReplacedLinks(R, u, p, links), k, X)
        BY <1>7, <1>8, <1>9, <2>1, ReplacedOK
    <2> QED
        BY <1>3, <1>6, <2>1, <2>2
<1>11. PICK sources : sources = ExactUid(db.docs, p)
    OBVIOUS
<1>12. \A v : v \in sources <=> \E d \in docs' : d.path = p /\ d.uid = v
    BY <1>3, <1>11 DEF ExactUid
<1>13. u \in sources
    <2>1. PICK new : new = [uid |-> u, path |-> p, links |-> links]
        OBVIOUS
    <2>2. new \in docs' /\ new.path = p /\ new.uid = u
        BY <1>6, <2>1 DEF ReplacedDocs
    <2> QED
        BY <1>12, <2>2
<1>14. sources \subseteq Uids
    <2>1. lastUid' <= MaxUid
        BY <1>3
    <2>2. PICK D, R, l, X : D = docs' /\ R = refs' /\ l = lastUid' /\ X = displaced'
        OBVIOUS
    <2>3. \A d \in D : d.uid \in Uids
        BY <1>10, <2>1, <2>2, WithinBound
    <2> QED
        BY <1>12, <2>2, <2>3
<1>15. \A r \in refs' : r \in refs \/ r.uid \in sources
    <2>1. \A r \in refs' : r \in refs \/ r.uid = u
        BY <1>6 DEF ReplacedLinks
    <2> QED
        BY <1>13, <2>1
<1>16. PICK paths : paths = {p}
    OBVIOUS
<1>17. \A d : d.path.name \notin {q.name : q \in paths} => (d \in docs <=> d \in docs')
    <2>1. \A d : d.path.name # p.name => (d \in docs <=> d \in docs')
        BY <1>6, <1>8 DEF ReplacedDocs
    <2> QED
        BY <1>16, <2>1
<1>18. PICK resolved : resolved = {}
    OBVIOUS
<1>19. plan' = PlanFor(sources, resolved, paths) /\ resolved \subseteq Uids
    BY <1>3, <1>11, <1>16, <1>18
<1>20. displaced' \subseteq Uids
    BY <1>3 DEF LinksInv
<1> QED
    BY <1>3, <1>10, <1>14, <1>15, <1>17, <1>19, <1>20, JobKeepsInv

\* RemoveFile takes the document of the path and its links.
LEMMA RemovedInv ==
    ASSUME NEW p \in Paths, NEW paths, p \in paths, LinksInv, ~plan.open,
           Commit(Removed(Database, {p})), plan' = PlanFor({}, ExactUid(docs, p), paths),
           UNCHANGED <<displaced, stale>>
    PROVE  LinksInv'
<1>1. PICK old : old = Database
    OBVIOUS
<1>2. old.docs = docs /\ old.refs = refs /\ old.last = lastUid
    BY <1>1 DEF Database
<1>3. PICK P : P = {p}
    OBVIOUS
<1>4. PICK db : db = Removed(old, P)
    OBVIOUS
<1>5. docs' = db.docs /\ refs' = db.refs /\ lastUid' = db.last /\ db.last <= MaxUid
    BY <1>1, <1>3, <1>4 DEF Commit
<1>6. PICK X : X = displaced
    OBVIOUS
<1>7. TablesOK(old.docs, old.refs, old.last, X) /\ lastUid <= MaxUid /\ displaced \subseteq Uids
    BY <1>2, <1>6 DEF LinksInv
<1>8. /\ TablesOK(db.docs, db.refs, db.last, X)
      /\ \A d : d \in db.docs <=> d \in old.docs /\ d.path \notin P
      /\ db.refs \subseteq old.refs
    BY <1>4, <1>7, RemovedOK
<1>9. TablesOK(docs', refs', lastUid', displaced')
    BY <1>5, <1>6, <1>8
<1>10. PICK resolved : resolved = ExactUid(docs, p)
    OBVIOUS
<1>11. resolved \subseteq Uids
    <2>1. \A d \in old.docs : d.uid \in Uids
        BY <1>2, <1>7, WithinBound
    <2> QED
        BY <1>2, <1>10, <2>1 DEF ExactUid
<1>12. PICK sources : sources = {}
    OBVIOUS
<1>13. \A r \in refs' : r \in refs \/ r.uid \in sources
    BY <1>2, <1>5, <1>8
<1>14. \A d : d.path.name \notin {q.name : q \in paths} => (d \in docs <=> d \in docs')
    <2>1. \A d : d.path.name # p.name => (d \in docs <=> d \in docs')
        BY <1>2, <1>3, <1>5, <1>8
    <2> QED
        BY <2>1
<1>15. /\ plan' = PlanFor(sources, resolved, paths) /\ sources \subseteq Uids
       /\ displaced' \subseteq Uids /\ lastUid' <= MaxUid /\ stale' = stale
    BY <1>5, <1>7, <1>10, <1>12
<1> QED
    BY <1>9, <1>11, <1>13, <1>14, <1>15, JobKeepsInv

\* RenameFile counts as displaced the document whose path it takes.
LEMMA RenameFileInv ==
    ASSUME NEW p \in Paths, NEW q \in Paths, NEW links \in Texts, LinksInv, RenameFile(p, q, links)
    PROVE  LinksInv'
<1>1. PICK old : old = Database
    OBVIOUS
<1>2. old.docs = docs /\ old.refs = refs /\ old.last = lastUid
    BY <1>1 DEF Database
<1>3. PICK P : P = {p}
    OBVIOUS
<1>4. PICK mid : mid = Removed(old, P)
    OBVIOUS
<1>5. PICK uid : uid = ExactUid(docs, p)
    OBVIOUS
<1>6. PICK u, k : u = UidFor(uid, mid.last) /\ k = IF uid = {} THEN u ELSE mid.last
    OBVIOUS
<1>7. PICK db : db = Replaced(mid, uid, q, links)
    OBVIOUS
<1>8. /\ ~plan.open /\ stale' = stale
      /\ db.last <= MaxUid /\ docs' = db.docs /\ refs' = db.refs /\ lastUid' = db.last
      /\ plan' = PlanFor(ExactUid(db.docs, q), uid \cup ExactUid(db.docs, q), {p, q})
      /\ displaced' = displaced \cup (ExactUid(docs, q) \ ExactUid(db.docs, q))
    BY <1>1, <1>3, <1>4, <1>5, <1>7 DEF RenameFile, Commit
<1>9. PICK X : X = displaced
    OBVIOUS
<1>10. TablesOK(old.docs, old.refs, old.last, X) /\ old.last <= MaxUid /\ displaced \subseteq Uids
    BY <1>2, <1>9 DEF LinksInv
<1>11. /\ TablesOK(mid.docs, mid.refs, mid.last, X)
       /\ \A d : d \in mid.docs <=> d \in old.docs /\ d.path \notin P
       /\ mid.refs \subseteq old.refs /\ mid.last = old.last
    BY <1>4, <1>10, RemovedOK
<1>12. /\ db.docs = ReplacedDocs(mid.docs, u, q, links)
       /\ db.refs = ReplacedLinks(mid.refs, u, q, links) /\ db.last = k
    BY <1>6, <1>7, ReplacedIs
<1>13. \A v : v \in uid <=> \E d \in docs : d.path = p /\ d.uid = v
    BY <1>5 DEF ExactUid
<1>14. mid.last \in Nat /\ uid \subseteq 1..mid.last
    <2>1. mid.last \in Nat
        BY <1>11 DEF TablesOK
    <2>2. \A d \in old.docs : d.uid \in 1..old.last
        BY <1>10 DEF TablesOK, Documents
    <2> QED
        BY <1>2, <1>11, <1>13, <2>1, <2>2
<1>15. k \in Nat /\ mid.last <= k /\ u \in 1..k
    BY <1>6, <1>14, UidForFacts
<1>16. PICK new : new = [uid |-> u, path |-> q, links |-> links]
    OBVIOUS
<1>17. new.uid = u /\ new.path = q
    BY <1>16
<1>18. \A d : d \in db.docs <=> (d \in mid.docs /\ d.path # q /\ d.uid # u) \/ d = new
    BY <1>12, <1>16 DEF ReplacedDocs
<1>19. PICK sources : sources = ExactUid(db.docs, q)
    OBVIOUS
<1>20. \A v : v \in sources <=> v = u
    <2>1. \A v : v \in sources <=> \E d \in db.docs : d.path = q /\ d.uid = v
        BY <1>19 DEF ExactUid
    <2>2. \A d \in db.docs : d.path = q => d.uid = u
        BY <1>17, <1>18
    <2>3. new \in db.docs
        BY <1>18
    <2> QED
        BY <1>17, <2>1, <2>2, <2>3
<1>21. PICK Y : Y = displaced'
    OBVIOUS
<1>22. X \subseteq Y /\ \A d \in mid.docs : d.path = q /\ d.uid # u => d.uid \in Y
    <2>1. X \subseteq Y
        BY <1>8, <1>9, <1>21
    <2>2. ASSUME NEW d \in mid.docs, d.path = q, d.uid # u PROVE d.uid \in Y
        <3>1. d \in docs
            BY <1>2, <1>11
        <3>2. d.uid \in ExactUid(docs, q)
            BY <2>2, <3>1 DEF ExactUid
        <3>3. d.uid \notin ExactUid(db.docs, q)
            BY <1>19, <1>20, <2>2
        <3> QED
            BY <1>8, <1>21, <3>2, <3>3
    <2> QED
        BY <2>1, <2>2
<1>23. TablesOK(db.docs, db.refs, db.last, Y)
    <2>1. PICK D, R, l : D = mid.docs /\ R = mid.refs /\ l = mid.last
        OBVIOUS
    <2>2. TablesOK(ReplacedDocs(D, u, q, links), ReplacedLinks(R, u, q, links), k, Y)
        BY <1>11, <1>15, <1>22, <2>1, ReplacedOK
    <2> QED
        BY <1>12, <2>1, <2>2
<1>24. TablesOK(docs', refs', lastUid', displaced')
    BY <1>8, <1>21, <1>23
<1>25. \A d \in old.docs : d.uid \in Uids
    BY <1>10, WithinBound
<1>26. u \in Uids
    BY <1>8, <1>12, <1>15, SearchLinksAssumption DEF Uids
<1>27. PICK resolved : resolved = uid \cup sources
    OBVIOUS
<1>28. sources \subseteq Uids /\ resolved \subseteq Uids
    BY <1>2, <1>13, <1>20, <1>25, <1>26, <1>27
<1>29. displaced' \subseteq Uids
    <2>1. ExactUid(docs, q) \subseteq Uids
        BY <1>2, <1>25 DEF ExactUid
    <2> QED
        BY <1>8, <1>10, <2>1
<1>30. \A r \in refs' : r \in refs \/ r.uid \in sources
    <2>1. \A r \in db.refs : r \in mid.refs \/ r.uid = u
        BY <1>12 DEF ReplacedLinks
    <2> QED
        BY <1>2, <1>8, <1>11, <1>20, <2>1
<1>31. PICK paths : paths = {p, q}
    OBVIOUS
<1>32. \A d : d.path.name \notin {x.name : x \in paths} => (d \in docs <=> d \in docs')
    <2>1. ASSUME NEW d, d.path.name # p.name, d.path.name # q.name PROVE d \in docs <=> d \in docs'
        <3>1. d.path # p /\ d.path # q /\ d # new
            BY <1>17, <2>1
        <3>2. d \in docs <=> d \in mid.docs
            BY <1>2, <1>3, <1>11, <3>1
        <3>3. ASSUME d \in mid.docs PROVE d.uid # u
            <4>1. d \in old.docs
                BY <1>11, <3>3
            <4>2. d.uid \in 1..mid.last
                BY <1>11, <3>3 DEF TablesOK, Documents
            <4>3. u \in uid => d.uid # u
                <5>1. ASSUME u \in uid, d.uid = u PROVE FALSE
                    <6>1. PICK e \in docs : e.path = p /\ e.uid = u
                        BY <1>13, <5>1
                    <6>2. e = d
                        BY <1>2, <1>10, <4>1, <5>1, <6>1 DEF TablesOK, Keys
                    <6> QED
                        BY <3>1, <6>1, <6>2
                <5> QED
                    BY <5>1
            <4>4. u \notin uid => u = mid.last + 1
                BY <1>6, <1>14, UidForFacts
            <4> QED
                BY <1>14, <4>2, <4>3, <4>4
        <3> QED
            BY <1>8, <1>18, <3>1, <3>2, <3>3
    <2> QED
        BY <1>31, <2>1
<1>33. plan' = PlanFor(sources, resolved, paths) /\ lastUid' <= MaxUid
    BY <1>8, <1>19, <1>27, <1>31
<1> QED
    BY <1>8, <1>24, <1>28, <1>29, <1>30, <1>32, <1>33, JobKeepsInv

\* A link that is resolved again is the same link.
LEMMA SameLink ==
    ASSUME NEW l, NEW r \in Links(l), NEW v \in Resolutions, NEW s, s = [r EXCEPT !.resolution = v]
    PROVE  s \in Links(l) /\ s.uid = r.uid /\ s.path = r.path /\ s.target = r.target /\ s.resolution = v
BY DEF Links

\* Reresolve gives each link that is selected its resolution.
LEMMA ReresolveInv ==
    ASSUME LinksInv, Reresolve
    PROVE  LinksInv'
<1>1. PICK D, R, l, X : D = docs /\ R = refs /\ l = lastUid /\ X = displaced
    OBVIOUS
<1>2. PICK Q : Q = refs'
    OBVIOUS
<1>3. /\ plan.open /\ plan' = NoPlan
      /\ docs' = docs /\ lastUid' = lastUid /\ displaced' = displaced /\ stale' = stale
      /\ refs' = {IF Selected(r) THEN [r EXCEPT !.resolution = Resolve(r.path, r.target, docs)] ELSE r : r \in refs}
    BY DEF Reresolve
<1>4. TablesOK(D, R, l, X) /\ l <= MaxUid
    BY <1>1 DEF LinksInv
<1>5. D \subseteq Documents(MaxUid)
    BY <1>4, WithinBound
<1>6. R \subseteq Links(l)
    BY <1>4 DEF TablesOK
<1>7. ASSUME NEW r \in R, NEW s,
             s = IF Selected(r) THEN [r EXCEPT !.resolution = Resolve(r.path, r.target, docs)] ELSE r
      PROVE  /\ s \in Links(l) /\ s.uid = r.uid /\ s.path = r.path /\ s.target = r.target
             /\ ~stale => s.resolution = Resolve(s.path, s.target, docs)
    <2>1. CASE Selected(r)
        <3>1. PICK v : v = Resolve(r.path, r.target, D)
            OBVIOUS
        <3>2. PICK path, target : path = r.path /\ target = r.target
            OBVIOUS
        <3>3. path \in Paths
            BY <1>6, <3>2 DEF Links
        <3>4. v \in Resolutions
            BY <1>5, <3>1, <3>2, <3>3, ResolveType
        <3>5. s = [r EXCEPT !.resolution = v]
            BY <1>1, <1>7, <2>1, <3>1
        <3>6. s \in Links(l) /\ s.uid = r.uid /\ s.path = r.path /\ s.target = r.target /\ s.resolution = v
            BY <1>6, <3>4, <3>5, SameLink
        <3> QED
            BY <1>1, <3>1, <3>6
    <2>2. CASE ~Selected(r)
        <3>1. s = r
            BY <1>7, <2>2
        <3>2. ~stale => r.resolution = Resolve(r.path, r.target, docs)
            BY <1>1, <2>2 DEF LinksInv, Resolved
        <3> QED
            BY <1>6, <3>1, <3>2
    <2> QED
        BY <2>1, <2>2
<1>8. ASSUME NEW s \in Q
      PROVE  \E r \in R : /\ s \in Links(l) /\ s.uid = r.uid /\ s.path = r.path /\ s.target = r.target
                          /\ ~stale => s.resolution = Resolve(s.path, s.target, docs)
    <2>1. PICK r \in R : s = IF Selected(r) THEN [r EXCEPT !.resolution = Resolve(r.path, r.target, docs)] ELSE r
        BY <1>1, <1>2, <1>3, Zenon
    <2> QED
        BY <1>7, <2>1
<1>9. ASSUME NEW r \in R PROVE \E s \in Q : s.uid = r.uid /\ s.path = r.path /\ s.target = r.target
    <2>1. PICK s : s = IF Selected(r) THEN [r EXCEPT !.resolution = Resolve(r.path, r.target, docs)] ELSE r
        OBVIOUS
    <2>2. s \in Q
        BY <1>1, <1>2, <1>3, <2>1, Zenon
    <2> QED
        BY <1>7, <2>1, <2>2
<1>10. TablesOK(D, Q, l, X)
    <2>1. Q \subseteq Links(l)
        BY <1>8
    <2>2. \A s \in Q : \E r \in R : s.uid = r.uid /\ s.path = r.path /\ s.target = r.target
        BY <1>8
    <2> QED
        BY <1>4, <1>9, <2>1, <2>2, ReresolvedOK
<1>11. TablesOK(docs', refs', lastUid', displaced') /\ lastUid' <= MaxUid
    BY <1>1, <1>2, <1>3, <1>4, <1>10
<1>12. Resolved'
    BY <1>2, <1>3, <1>8 DEF Resolved
<1>13. plan'.open = FALSE /\ plan'.sources \cup plan'.resolved \subseteq Uids
    BY <1>3 DEF NoPlan
<1>14. displaced' \subseteq Uids /\ stale' \in BOOLEAN
    BY <1>3, Zenon DEF LinksInv
<1> QED
    BY <1>11, <1>12, <1>13, <1>14 DEF LinksInv

\* FailReresolve leaves the tables as they are.
LEMMA FailReresolveInv ==
    ASSUME LinksInv, FailReresolve
    PROVE  LinksInv'
<1>1. /\ plan' = NoPlan /\ stale' = TRUE
      /\ docs' = docs /\ refs' = refs /\ lastUid' = lastUid /\ displaced' = displaced
    BY DEF FailReresolve
<1>2. plan'.open = FALSE /\ plan'.sources \cup plan'.resolved \subseteq Uids
    BY <1>1 DEF NoPlan
<1>3. Resolved'
    BY <1>1 DEF Resolved
<1>4. TablesOK(docs', refs', lastUid', displaced') /\ lastUid' <= MaxUid /\ displaced' \subseteq Uids
    BY <1>1 DEF LinksInv
<1> QED
    BY <1>1, <1>2, <1>3, <1>4 DEF LinksInv

\* A rebuild that fails leaves the tables of its batch.
LEMMA FailRebuildInv ==
    ASSUME NEW P \in SUBSET Paths, LinksInv, FailRebuild(P)
    PROVE  LinksInv'
<1>1. PICK files \in [P -> Texts] : Commit(Indexed(files))
    BY DEF FailRebuild
<1>2. plan' = plan /\ stale' = TRUE /\ displaced' = displaced
    BY DEF FailRebuild
<1>3. PICK db : db = Indexed(files)
    OBVIOUS
<1>4. docs' = db.docs /\ refs' = db.refs /\ lastUid' = db.last /\ db.last <= MaxUid
    BY <1>1, <1>3 DEF Commit
<1>5. TablesOK(db.docs, db.refs, db.last, displaced)
    BY <1>3, IndexedOK DEF LinksInv
<1>6. TablesOK(docs', refs', lastUid', displaced') /\ lastUid' <= MaxUid
    BY <1>2, <1>4, <1>5
<1>7. Resolved'
    BY <1>2 DEF Resolved
<1>8. /\ plan'.open \in BOOLEAN /\ plan'.sources \cup plan'.resolved \subseteq Uids
      /\ displaced' \subseteq Uids
    BY <1>2, Zenon DEF LinksInv
<1> QED
    BY <1>2, <1>6, <1>7, <1>8 DEF LinksInv

\* Rebuild resolves every link.
LEMMA RebuildInv ==
    ASSUME NEW P \in SUBSET Paths, LinksInv, Rebuild(P)
    PROVE  LinksInv'
<1>1. PICK files \in [P -> Texts] :
        LET db == Removed(Indexed(files), Paths \ P)
        IN  Commit([db EXCEPT !.refs = {[r EXCEPT !.resolution = Resolve(r.path, r.target, db.docs)] : r \in @}])
    BY DEF Rebuild
<1>2. ~plan.open /\ plan' = plan /\ stale' = FALSE /\ displaced' = displaced
    BY DEF Rebuild
<1>3. PICK mid : mid = Indexed(files)
    OBVIOUS
<1>4. PICK S : S = Paths \ P
    OBVIOUS
<1>5. PICK db : db = Removed(mid, S)
    OBVIOUS
<1>6. PICK D, R, l, X : D = db.docs /\ R = db.refs /\ l = db.last /\ X = displaced
    OBVIOUS
<1>7. PICK Q : Q = {[r EXCEPT !.resolution = Resolve(r.path, r.target, D)] : r \in R}
    OBVIOUS
<1>8. docs' = D /\ refs' = Q /\ lastUid' = l /\ l <= MaxUid
    <2>1. PICK new : new = [db EXCEPT !.refs = {[r EXCEPT !.resolution = Resolve(r.path, r.target, db.docs)] : r \in @}]
        OBVIOUS
    <2>2. Commit(new)
        BY <1>1, <1>3, <1>4, <1>5, <2>1, Zenon
    <2>3. PICK U : U = {d.uid : d \in {d \in mid.docs : d.path \in S}}
        OBVIOUS
    <2>4. db = [docs |-> {d \in mid.docs : d.path \notin S}, refs |-> {r \in mid.refs : r.uid \notin U},
                last |-> mid.last]
        BY <1>5, <2>3, Zenon DEF Removed
    <2>5. new = [db EXCEPT !.refs = Q]
        BY <1>6, <1>7, <2>1, Zenon
    <2>6. new.docs = D /\ new.refs = Q /\ new.last = l
        BY <1>6, <2>4, <2>5
    <2> QED
        BY <2>2, <2>6 DEF Commit
<1>9. TablesOK(mid.docs, mid.refs, mid.last, X)
    BY <1>3, <1>6, IndexedOK DEF LinksInv
<1>10. TablesOK(D, R, l, X)
    BY <1>5, <1>6, <1>9, RemovedOK
<1>11. D \subseteq Documents(MaxUid)
    BY <1>8, <1>10, WithinBound
<1>12. R \subseteq Links(l)
    BY <1>10 DEF TablesOK
<1>13. ASSUME NEW r \in R, NEW s, s = [r EXCEPT !.resolution = Resolve(r.path, r.target, D)]
       PROVE  /\ s \in Links(l) /\ s.uid = r.uid /\ s.path = r.path /\ s.target = r.target
              /\ s.resolution = Resolve(s.path, s.target, D)
    <2>1. PICK v, path, target : v = Resolve(r.path, r.target, D) /\ path = r.path /\ target = r.target
        OBVIOUS
    <2>2. path \in Paths
        BY <1>12, <2>1 DEF Links
    <2>3. v \in Resolutions
        BY <1>11, <2>1, <2>2, ResolveType
    <2>4. s \in Links(l) /\ s.uid = r.uid /\ s.path = r.path /\ s.target = r.target /\ s.resolution = v
        BY <1>12, <1>13, <2>1, <2>3, SameLink
    <2> QED
        BY <2>1, <2>4
<1>14. ASSUME NEW s \in Q
       PROVE  \E r \in R : /\ s \in Links(l) /\ s.uid = r.uid /\ s.path = r.path /\ s.target = r.target
                           /\ s.resolution = Resolve(s.path, s.target, D)
    <2>1. PICK r \in R : s = [r EXCEPT !.resolution = Resolve(r.path, r.target, D)]
        BY <1>7, Zenon
    <2> QED
        BY <1>13, <2>1
<1>15. ASSUME NEW r \in R PROVE \E s \in Q : s.uid = r.uid /\ s.path = r.path /\ s.target = r.target
    <2>1. PICK s : s = [r EXCEPT !.resolution = Resolve(r.path, r.target, D)]
        OBVIOUS
    <2>2. s \in Q
        BY <1>7, <2>1, Zenon
    <2> QED
        BY <1>13, <2>1, <2>2
<1>16. TablesOK(D, Q, l, X)
    <2>1. Q \subseteq Links(l)
        BY <1>14
    <2>2. \A s \in Q : \E r \in R : s.uid = r.uid /\ s.path = r.path /\ s.target = r.target
        BY <1>14
    <2> QED
        BY <1>10, <1>15, <2>1, <2>2, ReresolvedOK
<1>17. TablesOK(docs', refs', lastUid', displaced') /\ lastUid' <= MaxUid
    BY <1>2, <1>6, <1>8, <1>16
<1>18. Resolved'
    BY <1>8, <1>14 DEF Resolved
<1>19. /\ plan'.open \in BOOLEAN /\ plan'.sources \cup plan'.resolved \subseteq Uids
       /\ displaced' \subseteq Uids
    BY <1>2, Zenon DEF LinksInv
<1> QED
    BY <1>2, <1>17, <1>18, <1>19 DEF LinksInv

-----------------------------------------------------------------------------
(* The theorems.                                                           *)

\* LinksInv is an invariant of the search database under every sequence of index,
\* remove, rename and rebuild jobs, whichever of them fail half-way.
THEOREM LinksInvariant == Spec => []LinksInv
<1>1. Init => LinksInv
    <2> SUFFICES ASSUME Init PROVE LinksInv
        OBVIOUS
    <2>1. docs = {} /\ refs = {} /\ lastUid = 0 /\ displaced = {} /\ stale = FALSE /\ plan = NoPlan
        BY DEF Init, None
    <2>2. TablesOK(docs, refs, lastUid, displaced) /\ lastUid <= MaxUid
        BY <2>1, SearchLinksAssumption DEF TablesOK, Keys, LinksOf
    <2>3. plan.open \in BOOLEAN /\ plan.sources \cup plan.resolved \subseteq Uids
        BY <2>1 DEF NoPlan
    <2>4. Resolved
        BY <2>1 DEF Resolved
    <2> QED
        BY <2>1, <2>2, <2>3, <2>4 DEF LinksInv
<1>2. LinksInv /\ [Next]_vars => LinksInv'
    <2> SUFFICES ASSUME LinksInv, [Next]_vars PROVE LinksInv'
        OBVIOUS
    <2>1. ASSUME NEW p \in Paths, NEW links \in Texts, IndexFile(p, links) PROVE LinksInv'
        BY <2>1, IndexFileInv
    <2>2. ASSUME NEW p \in Paths, RemoveFile(p) PROVE LinksInv'
        <3>1. PICK paths : paths = {p}
            OBVIOUS
        <3>2. /\ ~plan.open /\ Commit(Removed(Database, {p})) /\ UNCHANGED <<displaced, stale>>
              /\ p \in paths /\ plan' = PlanFor({}, ExactUid(docs, p), paths)
            BY <2>2, <3>1 DEF RemoveFile
        <3> QED
            BY <3>2, RemovedInv
    <2>3. ASSUME NEW p \in Paths, NEW q \in Paths, NEW links \in Texts, RenameFile(p, q, links) PROVE LinksInv'
        BY <2>3, RenameFileInv
    <2>4. ASSUME NEW p \in Paths, NEW q \in Paths, RenameFileGone(p, q) PROVE LinksInv'
        <3>1. PICK paths : paths = {p, q}
            OBVIOUS
        <3>2. /\ ~plan.open /\ Commit(Removed(Database, {p})) /\ UNCHANGED <<displaced, stale>>
              /\ p \in paths /\ plan' = PlanFor({}, ExactUid(docs, p), paths)
            BY <2>4, <3>1 DEF RenameFileGone
        <3> QED
            BY <3>2, RemovedInv
    <2>5. ASSUME Reresolve PROVE LinksInv'
        BY <2>5, ReresolveInv
    <2>6. ASSUME FailReresolve PROVE LinksInv'
        BY <2>6, FailReresolveInv
    <2>7. ASSUME NEW P \in SUBSET Paths, Rebuild(P) PROVE LinksInv'
        BY <2>7, RebuildInv
    <2>8. ASSUME NEW P \in SUBSET Paths, FailRebuild(P) PROVE LinksInv'
        BY <2>8, FailRebuildInv
    <2>9. ASSUME UNCHANGED vars PROVE LinksInv'
        BY <2>9 DEF vars, LinksInv, Resolved, Selected
    <2> QED
        BY <2>1, <2>2, <2>3, <2>4, <2>5, <2>6, <2>7, <2>8, <2>9 DEF Next
<1> QED
    BY <1>1, <1>2, PTL DEF Spec

\* The tables keep their types and their keys, and the links in wikilink_refs are
\* those of the indexed texts, except the ones of rows a rename displaced.
THEOREM LinksTypeOK == Spec => []TypeOK
<1>1. LinksInv => TypeOK
    <2> SUFFICES ASSUME LinksInv PROVE TypeOK
        OBVIOUS
    <2>1. TablesOK(docs, refs, lastUid, displaced) /\ lastUid <= MaxUid /\ lastUid \in Nat
        BY DEF LinksInv, TablesOK
    <2>2. 1..lastUid \subseteq Uids
        BY <2>1, SearchLinksAssumption DEF Uids
    <2>3. docs \subseteq [uid : Uids, path : Paths, links : Texts]
        BY <2>1, <2>2 DEF TablesOK, Documents
    <2>4. refs \subseteq [uid : Uids, path : Paths, target : Targets,
                          resolution : [kind : Kinds, uid : {None} \cup Uids, distance : Nat]]
        BY <2>1, <2>2 DEF TablesOK, Links, Resolutions
    <2>5. lastUid \in {None} \cup Uids
        BY <2>1, SearchLinksAssumption DEF None, Uids
    <2>6. LinksAreOfDocuments
        BY <2>1, LinksOfDocuments DEF TablesOK
    <2>7. \A d, e \in docs : d.uid = e.uid \/ d.path = e.path => d = e
        BY <2>1 DEF TablesOK, Keys
    <2>8. /\ plan.open \in BOOLEAN /\ plan.sources \cup plan.resolved \subseteq Uids
          /\ displaced \subseteq Uids /\ stale \in BOOLEAN
        BY DEF LinksInv
    <2> QED
        BY <2>3, <2>4, <2>5, <2>6, <2>7, <2>8, Zenon DEF TypeOK
<1> QED
    BY <1>1, LinksInvariant, PTL

\* Resolving again only what the plan selects is enough: between jobs every link
\* has the resolution resolve_all_wikilinks would give it, unless a job failed.
THEOREM LinksResolved == Spec => []LinksAreResolved
<1>1. LinksInv => LinksAreResolved
    BY DEF LinksInv, Resolved, LinksAreResolved
<1> QED
    BY <1>1, LinksInvariant, PTL
=============================================================================
