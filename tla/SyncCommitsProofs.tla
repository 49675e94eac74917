-------------------------- MODULE SyncCommitsProofs --------------------------
(***************************************************************************)
(* Proofs about SyncCommits, for any number of calls in flight, devices,   *)
(* objects, commits and pulling desktops.                                  *)
(*                                                                         *)
(* HistoryInv is inductive.  Only one step writes the history, InsertCommit *)
(* under the workspace row's lock; the lemmas about it carry the proof.    *)
(* PullInv is inductive on top of it: listing the rows after a cursor by   *)
(* server_seq gives the end of the log (SortedIsLog), so what a pull reads *)
(* and replays are parts of the log, which publishing does not disturb.    *)
(***************************************************************************)
EXTENDS SyncCommits, DataFacts, FiniteSetTheorems, TLAPS

\* An empty history satisfies the invariant.
LEMMA InitHistory == Init => HistoryInv
<1> SUFFICES ASSUME Init PROVE HistoryInv
    OBVIOUS
<1> USE CommitsAssumption DEF Init
<1>1. ServerTypeOK
    BY DEF ServerTypeOK, CommitRefs
<1>2. Rows = {}
    BY DEF Rows
<1>3. NumbersBounded /\ CommitsDownloadable
    BY <1>2 DEF NumbersBounded, CommitsDownloadable
<1>4. HistoryLinear
    BY <1>2 DEF HistoryLinear, Expected
<1>5. ServerSeqOrder /\ DeviceSeqOrder /\ ParentsEarlier
    BY DEF ServerSeqOrder, DeviceSeqOrder, ParentsEarlier
<1> QED
    BY <1>1, <1>3, <1>4, <1>5 DEF HistoryInv

\* What InsertCommit does to the rows and the log, when its guards hold.
LEMMA InsertFacts ==
    ASSUME HistoryInv, NEW p \in Params, commits[p.id] = None, InsertCommit(p)
    PROVE  /\ p \in PublishParams
           /\ log' = Append(log, p.id) /\ Len(log') = Len(log) + 1 /\ Len(log) \in Nat
           /\ log'[Len(log')] = p.id
           /\ \A i \in 1 .. Len(log) : /\ log'[i] = log[i] /\ log[i] \in Rows /\ log[i] # p.id
                                       /\ commits'[log[i]] = commits[log[i]]
                                       /\ serverSeq'[log[i]] = serverSeq[log[i]]
           /\ commits'[p.id] = p /\ serverSeq'[p.id] = nextSeq
           /\ Rows' = Rows \cup {p.id}
           /\ \A c \in Rows : commits'[c] = commits[c] /\ serverSeq'[c] = serverSeq[c]
<1> USE CommitsAssumption DEF HistoryInv, ServerTypeOK, InsertCommit
<1>1. p \in PublishParams /\ p.id \in CommitIds
    BY DEF PublishParams
<1>2. log' = Append(log, p.id) /\ Len(log') = Len(log) + 1 /\ Len(log) \in Nat
    BY <1>1
<1>3. log'[Len(log')] = p.id /\ \A i \in 1 .. Len(log) : log'[i] = log[i]
    BY <1>1, <1>2
<1>4. \A i \in 1 .. Len(log) : log[i] \in Rows
    BY DEF HistoryLinear
<1>5. p.id \notin Rows
    BY DEF Rows
<1>6. commits'[p.id] = p /\ serverSeq'[p.id] = nextSeq
    BY <1>1 DEF DrawnSeq
<1>7. \A c \in Rows : commits'[c] = commits[c] /\ serverSeq'[c] = serverSeq[c]
    BY <1>1, <1>5 DEF Rows
<1>8. Rows' = Rows \cup {p.id}
    BY <1>1, <1>6, <1>7 DEF Rows
<1> QED
    BY <1>1, <1>2, <1>3, <1>4, <1>5, <1>6, <1>7, <1>8

\* An accepted commit extends the history and keeps every part of HistoryInv.
LEMMA InsertHistory ==
    ASSUME HistoryInv, NEW r \in Requests, NEW p \in Params, p = req[r].p,
           wsLive, commits[p.id] = None, HeadMatches(p), Acceptable(p),
           InsertCommit(p), req' = [req EXCEPT ![r].pc = "ok"], req[r] # None,
           UNCHANGED <<wsLive, active, avail>>
    PROVE  HistoryInv'
<1> USE CommitsAssumption DEF HistoryInv
<1>f. /\ p \in PublishParams
      /\ Len(log') = Len(log) + 1 /\ Len(log) \in Nat
      /\ log'[Len(log')] = p.id
      /\ \A i \in 1 .. Len(log) : /\ log'[i] = log[i] /\ log[i] \in Rows /\ log[i] # p.id
                                  /\ commits'[log[i]] = commits[log[i]]
                                  /\ serverSeq'[log[i]] = serverSeq[log[i]]
      /\ commits'[p.id] = p /\ serverSeq'[p.id] = nextSeq
      /\ Rows' = Rows \cup {p.id}
      /\ \A c \in Rows : commits'[c] = commits[c] /\ serverSeq'[c] = serverSeq[c]
    BY InsertFacts
<1>0. /\ p \in PublishParams /\ p.id \in CommitIds /\ p.dev \in Devices
      /\ p.seq \in Nat /\ p.kind \in CommitKinds
    BY <1>f DEF PublishParams
<1>l. \A i \in 1 .. Len(log') : i \in 1 .. Len(log) \/ i = Len(log) + 1
    BY <1>f
<1>1. ServerTypeOK'
    <2>0. ServerTypeOK /\ InsertCommit(p) /\ UNCHANGED <<wsLive, active, avail>>
        OBVIOUS
    <2>1. wsLive' \in BOOLEAN /\ active' \subseteq Devices /\ avail' \subseteq Objects
        BY ONLY <2>0 DEF ServerTypeOK
    <2>6. head' \in CommitRefs /\ headVersion' \in Nat /\ nextSeq' \in Nat \ {0}
        BY ONLY <2>0, <1>0 DEF ServerTypeOK, InsertCommit, CommitRefs
    <2>2. /\ commits' \in [CommitIds -> Params \cup {None}]
          /\ serverSeq' \in [CommitIds -> Nat]
          /\ lastSeq' \in [Devices -> Nat]
        BY <1>0 DEF ServerTypeOK, InsertCommit, DrawnSeq
    <2>3. cursor' \in [Devices -> [seen : CommitRefs, checkpoint : CommitRefs]]
        BY ONLY <2>0, <1>0 DEF ServerTypeOK, InsertCommit, CommitRefs
    <2>4. req' \in [Requests -> Calls \cup {None}]
        BY DEF ServerTypeOK, Calls
    <2>5. log' \in Seq(CommitIds)
        BY <1>0 DEF ServerTypeOK, InsertCommit
    <2> QED
        BY <2>1, <2>2, <2>3, <2>4, <2>5, <2>6 DEF ServerTypeOK
<1>2. NumbersBounded'
    <2>1. \A c \in Rows : commits[c] \in PublishParams
        BY DEF Rows, ServerTypeOK
    <2>2. p.seq > lastSeq[p.dev]
        BY DEF Acceptable, SeqFresh
    <2>3. lastSeq' = [lastSeq EXCEPT ![p.dev] = p.seq] /\ nextSeq' = nextSeq + 1
        BY DEF InsertCommit
    <2>4. \A c \in Rows : serverSeq'[c] < nextSeq'
        BY <1>f, <2>3 DEF NumbersBounded, ServerTypeOK, Rows
    <2>5. ASSUME NEW c \in Rows PROVE commits'[c].seq <= lastSeq'[commits'[c].dev]
        <3>1. commits'[c] = commits[c] /\ commits[c].dev \in Devices /\ commits[c].seq \in Nat
            BY <1>f, <2>1 DEF PublishParams
        <3>2. commits[c].seq <= lastSeq[commits[c].dev]
            BY DEF NumbersBounded
        <3>3. lastSeq \in [Devices -> Nat]
            BY DEF ServerTypeOK
        <3> QED
            BY ONLY <1>0, <2>2, <2>3, <3>1, <3>2, <3>3
    <2>6. serverSeq'[p.id] < nextSeq' /\ commits'[p.id].seq <= lastSeq'[commits'[p.id].dev]
        BY <1>f, <1>0, <2>3 DEF ServerTypeOK
    <2> QED
        BY <1>f, <2>4, <2>5, <2>6 DEF NumbersBounded
<1>3. HistoryLinear'
    <2>1. \A i \in 1 .. Len(log') : log'[i] \in Rows'
        BY <1>f, <1>l
    <2>2. ASSUME NEW c \in Rows' PROVE \E i \in 1 .. Len(log') : log'[i] = c
        <3>1. CASE c = p.id
            BY <1>f, <3>1
        <3>2. CASE c \in Rows
            BY <1>f, <3>2 DEF HistoryLinear
        <3> QED
            BY <1>f, <3>1, <3>2
    <2>3. Rows' = {log'[i] : i \in 1 .. Len(log')}
        BY <2>1, <2>2
    <2>4. ASSUME NEW i \in 1 .. Len(log)
          PROVE  /\ commits'[log'[i]].id = log'[i]
                 /\ commits'[log'[i]].expected = IF i = 1 THEN None ELSE log'[i - 1]
        <3>1. i # 1 => i - 1 \in 1 .. Len(log)
            BY <1>f
        <3>2. /\ log'[i] = log[i] /\ commits'[log[i]] = commits[log[i]]
              /\ i # 1 => log'[i - 1] = log[i - 1]
            BY <1>f, <3>1
        <3>3. /\ commits[log[i]].id = log[i]
              /\ commits[log[i]].expected = IF i = 1 THEN None ELSE log[i - 1]
            BY DEF HistoryLinear, Expected
        <3> QED
            BY <3>2, <3>3
    <2>5. head = IF Len(log) + 1 = 1 THEN None ELSE log[Len(log)]
        BY <1>f DEF HistoryLinear, Expected
    <2>6. p.expected = IF Len(log) + 1 = 1 THEN None ELSE log'[Len(log)]
        BY <1>f, <2>5 DEF HeadMatches
    <2>7. \A i \in 1 .. Len(log') :
              /\ commits'[log'[i]].id = log'[i]
              /\ commits'[log'[i]].expected = IF i = 1 THEN None ELSE log'[i - 1]
        BY <1>f, <1>l, <2>4, <2>6
    <2>8. head' = IF Len(log') + 1 = 1 THEN None ELSE log'[Len(log') + 1 - 1]
        BY <1>f DEF InsertCommit
    <2>9. headVersion' = Len(log')
        BY <1>f DEF InsertCommit, HistoryLinear
    <2> QED
        BY <2>3, <2>7, <2>8, <2>9 DEF HistoryLinear, Expected
<1>4. ServerSeqOrder'
    <2>1. \A i \in 1 .. Len(log) : serverSeq[log[i]] < nextSeq
        BY <1>f DEF NumbersBounded
    <2> QED
        BY <1>f, <2>1 DEF ServerSeqOrder
<1>5. DeviceSeqOrder'
    <2>1. ASSUME NEW i \in 1 .. Len(log), commits[log[i]].dev = p.dev
          PROVE  commits[log[i]].seq < p.seq
        <3>1. commits[log[i]].seq <= lastSeq[p.dev]
            BY <1>f, <2>1 DEF NumbersBounded
        <3>2. commits[log[i]] \in PublishParams
            BY <1>f DEF Rows, ServerTypeOK
        <3>3. commits[log[i]].seq \in Nat /\ lastSeq[p.dev] \in Nat
            BY <1>0, <3>2 DEF ServerTypeOK, PublishParams
        <3>4. p.seq > lastSeq[p.dev]
            BY DEF Acceptable, SeqFresh
        <3> QED
            BY <1>0, <3>1, <3>3, <3>4
    <2> QED
        BY <1>f, <2>1 DEF DeviceSeqOrder
<1>6. ParentsEarlier'
    <2>1. \A q \in p.parents : q \in Rows
        BY <1>0 DEF Acceptable, ParentsValid, Rows, PublishParams
    <2>2. \A q \in p.parents : \E j \in 1 .. Len(log) : log[j] = q
        BY <2>1 DEF HistoryLinear
    <2>3. Len(log) > 0 => log[Len(log)] \in p.parents
        <3>1. Len(log) > 0 => p.expected = log[Len(log)] /\ log[Len(log)] # None
            BY <1>f DEF HeadMatches, HistoryLinear, Expected, Rows
        <3> QED
            BY <3>1 DEF Acceptable, ParentsValid
    <2>4. ASSUME NEW i \in 1 .. Len(log)
          PROVE  /\ \A q \in commits'[log'[i]].parents : \E j \in 1 .. i - 1 : log'[j] = q
                 /\ i > 1 => log'[i - 1] \in commits'[log'[i]].parents
        <3>1. i > 1 => i - 1 \in 1 .. Len(log)
            BY <1>f
        <3>2. \A j \in 1 .. i - 1 : j \in 1 .. Len(log)
            BY <1>f
        <3>3. /\ log'[i] = log[i] /\ commits'[log[i]] = commits[log[i]]
              /\ i > 1 => log'[i - 1] = log[i - 1]
              /\ \A j \in 1 .. i - 1 : log'[j] = log[j]
            BY <1>f, <3>1, <3>2
        <3>4. /\ \A q \in commits[log[i]].parents : \E j \in 1 .. i - 1 : log[j] = q
              /\ i > 1 => log[i - 1] \in commits[log[i]].parents
            BY DEF ParentsEarlier
        <3> QED
            BY <3>3, <3>4
    <2>5. /\ \A q \in p.parents : \E j \in 1 .. Len(log) + 1 - 1 : log'[j] = q
          /\ Len(log) + 1 > 1 => log'[Len(log) + 1 - 1] \in p.parents
        BY <1>f, <2>2, <2>3
    <2>6. \A i \in 1 .. Len(log') :
              /\ \A q \in commits'[log'[i]].parents : \E j \in 1 .. i - 1 : log'[j] = q
              /\ i > 1 => log'[i - 1] \in commits'[log'[i]].parents
        <3> SUFFICES ASSUME NEW i \in 1 .. Len(log')
                     PROVE  /\ \A q \in commits'[log'[i]].parents :
                                   \E j \in 1 .. i - 1 : log'[j] = q
                            /\ i > 1 => log'[i - 1] \in commits'[log'[i]].parents
            OBVIOUS
        <3>1. CASE i \in 1 .. Len(log)
            BY <2>4, <3>1
        <3>2. CASE i = Len(log) + 1
            <4>1. commits'[log'[i]] = p
                BY <1>f, <3>2
            <4> QED
                BY <2>5, <3>2, <4>1
        <3> QED
            BY <1>l, <3>1, <3>2
    <2> QED
        BY <2>6 DEF ParentsEarlier
<1>7. CommitsDownloadable'
    <2>1. {p.body} \cup p.refs \subseteq avail
        BY DEF Acceptable, ObjectsValid
    <2> QED
        BY <1>f, <2>1 DEF CommitsDownloadable
<1> QED
    BY <1>1, <1>2, <1>3, <1>4, <1>5, <1>6, <1>7

\* The locked body either inserts the commit or writes nothing but its answer.
LEMMA LockedCases ==
    ASSUME HistoryInv, NEW r \in Requests, PublishLocked(r)
    PROVE  /\ req[r] # None /\ req[r].p \in Params
           /\ \/ /\ wsLive /\ commits[req[r].p.id] = None
                 /\ HeadMatches(req[r].p) /\ Acceptable(req[r].p)
                 /\ InsertCommit(req[r].p) /\ req' = [req EXCEPT ![r].pc = "ok"]
                 /\ UNCHANGED <<wsLive, active, avail>>
              \/ /\ UNCHANGED <<tableVars, nextSeq, wsLive, active, avail>>
                 /\ \E out \in {"ok", "conflict", "refused"} : req' = [req EXCEPT ![r].pc = out]
<1>1. req[r] # None /\ req[r].p \in Params
    BY DEF PublishLocked, At, HistoryInv, ServerTypeOK, Calls
<1>2. CASE wsLive /\ FreshUnderLock(req[r].p) /\ HeadMatches(req[r].p) /\ Acceptable(req[r].p)
    BY <1>1, <1>2 DEF PublishLocked, FreshUnderLock, Reply
<1>3. CASE ~(wsLive /\ FreshUnderLock(req[r].p) /\ HeadMatches(req[r].p) /\ Acceptable(req[r].p))
    BY <1>1, <1>3 DEF PublishLocked, Reply, MatchReply
<1> QED
    BY <1>1, <1>2, <1>3

\* A step that leaves the history alone keeps the invariant.
LEMMA QuietHistory ==
    ASSUME HistoryInv, UNCHANGED tableVars, ServerTypeOK', nextSeq' >= nextSeq,
           wsLive' => wsLive /\ avail \subseteq avail'
    PROVE  HistoryInv'
<1> USE DEF HistoryInv, tableVars
<1>1. Rows' = Rows
    BY DEF Rows
<1>2. NumbersBounded'
    BY <1>1 DEF NumbersBounded, ServerTypeOK, Rows
<1>3. HistoryLinear'
    BY <1>1 DEF HistoryLinear, Expected
<1>4. /\ ServerSeqOrder /\ DeviceSeqOrder /\ ParentsEarlier
      /\ log' = log /\ commits' = commits /\ serverSeq' = serverSeq
    OBVIOUS
<1>6. ServerSeqOrder'
    BY ONLY <1>4 DEF ServerSeqOrder
<1>7. DeviceSeqOrder'
    BY ONLY <1>4 DEF DeviceSeqOrder
<1>8. ParentsEarlier'
    BY ONLY <1>4 DEF ParentsEarlier
<1>5. CommitsDownloadable'
    BY <1>1 DEF CommitsDownloadable
<1> QED
    BY <1>2, <1>3, <1>5, <1>6, <1>7, <1>8

\* Every step keeps HistoryInv.
LEMMA NextHistory == HistoryInv /\ [Next]_vars => HistoryInv'
<1> SUFFICES ASSUME HistoryInv, [Next]_vars PROVE HistoryInv'
    OBVIOUS
<1> USE CommitsAssumption
<1>t. ServerTypeOK
    BY DEF HistoryInv
<1>1. ASSUME NEW r \in Requests, NEW p \in Params, PublishAuthorize(r, p) PROVE HistoryInv'
    BY <1>1, <1>t, QuietHistory DEF PublishAuthorize, ServerTypeOK, Calls, tableVars
<1>2. ASSUME NEW r \in Requests, PublishLookup(r) PROVE HistoryInv'
    BY <1>2, <1>t, QuietHistory DEF PublishLookup, At, Reply, MatchReply, ServerTypeOK, Calls,
                                    tableVars
<1>3. ASSUME NEW r \in Requests, PublishLocked(r) PROVE HistoryInv'
    <2> DEFINE p == req[r].p
    <2>1. CASE UNCHANGED <<tableVars, nextSeq, wsLive, active, avail>>
        <3>1. PICK out \in {"ok", "conflict", "refused"} : req' = [req EXCEPT ![r].pc = out]
            BY <1>3, LockedCases
        <3>2. req' \in [Requests -> Calls \cup {None}]
            BY <1>t, <1>3, <3>1 DEF ServerTypeOK, Calls, PublishLocked, At
        <3>3. ServerTypeOK'
            BY <1>t, <2>1, <3>2 DEF ServerTypeOK, tableVars
        <3> QED
            BY <1>t, <2>1, <3>3, QuietHistory DEF ServerTypeOK
    <2>2. CASE /\ wsLive /\ commits[p.id] = None /\ HeadMatches(p) /\ Acceptable(p)
               /\ InsertCommit(p) /\ req' = [req EXCEPT ![r].pc = "ok"]
               /\ UNCHANGED <<wsLive, active, avail>>
        <3>1. p \in Params /\ req[r] # None
            BY <1>3, LockedCases
        <3> QED
            BY <2>2, <3>1, InsertHistory
    <2> QED
        BY <1>3, <2>1, <2>2, LockedCases
<1>4. ASSUME NEW r \in Requests, PublishAbort(r) PROVE HistoryInv'
    BY <1>4, <1>t, QuietHistory DEF PublishAbort, Reply, ServerTypeOK, Calls, tableVars
<1>5. ASSUME NEW r \in Requests, PublishReturn(r) PROVE HistoryInv'
    BY <1>5, <1>t, QuietHistory DEF PublishReturn, ServerTypeOK, tableVars
<1>6. ASSUME SkipServerSeq PROVE HistoryInv'
    BY <1>6, <1>t, QuietHistory DEF SkipServerSeq, ServerTypeOK, tableVars
<1>7. ASSUME NEW d \in Devices, RegisterDevice(d) PROVE HistoryInv'
    BY <1>7, <1>t, QuietHistory DEF RegisterDevice, ServerTypeOK, tableVars
<1>8. ASSUME NEW o \in Objects, ObjectAvailable(o) PROVE HistoryInv'
    BY <1>8, <1>t, QuietHistory DEF ObjectAvailable, ServerTypeOK, tableVars
<1>9. ASSUME NEW whole \in BOOLEAN, DeleteWorkspace(whole) PROVE HistoryInv'
    <2>1. ServerTypeOK'
        BY <1>9, <1>t DEF DeleteWorkspace, ServerTypeOK, tableVars
    <2>2. ~wsLive'
        BY <1>9, Zenon DEF DeleteWorkspace
    <2>3. UNCHANGED tableVars /\ nextSeq' >= nextSeq
        BY <1>9, <1>t DEF DeleteWorkspace, ServerTypeOK
    <2> QED
        BY <2>1, <2>2, <2>3, QuietHistory
<1>10. CASE UNCHANGED <<wsLive, tableVars, nextSeq, active, avail, req>>
    BY <1>10, <1>t, QuietHistory DEF ServerTypeOK, tableVars
<1>11. ASSUME NEW d \in Readers,
              PullHead(d) \/ PullCheckpoint(d) \/ PullPage(d) \/ PullApply(d) \/ PullFail(d)
       PROVE  UNCHANGED <<wsLive, tableVars, nextSeq, active, avail, req>>
    BY <1>11 DEF PullHead, PullCheckpoint, PullPage, PullApply, PullFail
<1>12. UNCHANGED vars => UNCHANGED <<wsLive, tableVars, nextSeq, active, avail, req>>
    BY DEF vars
<1> QED
    BY <1>1, <1>2, <1>3, <1>4, <1>5, <1>6, <1>7, <1>8, <1>9, <1>10, <1>11, <1>12 DEF Next

\* The invariant holds in every reachable state.
THEOREM HistoryInvariant == Spec => []HistoryInv
BY InitHistory, NextHistory, PTL DEF Spec

\* One linear history, whatever the concurrency, the retries and the aborts of
\* PublishCommit.
THEOREM HistoryLinearAlways == Spec => []HistoryLinear
<1>1. HistoryInv => HistoryLinear
    BY DEF HistoryInv
<1> QED
    BY <1>1, HistoryInvariant, PTL

\* server_seq order is publication order, so paging by it never skips a commit.
THEOREM ServerSeqOrderAlways == Spec => []ServerSeqOrder
<1>1. HistoryInv => ServerSeqOrder
    BY DEF HistoryInv
<1> QED
    BY <1>1, HistoryInvariant, PTL

\* A device's sequence numbers strictly grow along the history.
THEOREM DeviceSeqOrderAlways == Spec => []DeviceSeqOrder
<1>1. HistoryInv => DeviceSeqOrder
    BY DEF HistoryInv
<1> QED
    BY <1>1, HistoryInvariant, PTL

\* Parents are older, and the replaced head is one of them.
THEOREM ParentsEarlierAlways == Spec => []ParentsEarlier
<1>1. HistoryInv => ParentsEarlier
    BY DEF HistoryInv
<1> QED
    BY <1>1, HistoryInvariant, PTL

\* While the workspace lives, what a published commit names can be downloaded.
THEOREM CommitsDownloadableAlways == Spec => []CommitsDownloadable
<1>1. HistoryInv => CommitsDownloadable
    BY DEF HistoryInv
<1> QED
    BY <1>1, HistoryInvariant, PTL

\* A step adds at most one commit at the end and changes no other.
LEMMA NextAppendOnly ==
    ASSUME HistoryInv, [Next]_vars
    PROVE  /\ Len(log) <= Len(log') /\ \A i \in 1 .. Len(log) : log'[i] = log[i]
           /\ \A c \in Rows : commits'[c] = commits[c] /\ serverSeq'[c] = serverSeq[c]
<1>t. Len(log) \in Nat
    BY DEF HistoryInv, ServerTypeOK
<1>1. CASE UNCHANGED tableVars
    BY <1>1, <1>t DEF tableVars
<1>2. ASSUME NEW r \in Requests, PublishLocked(r), InsertCommit(req[r].p),
             commits[req[r].p.id] = None, req[r].p \in Params
      PROVE  /\ Len(log) <= Len(log') /\ \A i \in 1 .. Len(log) : log'[i] = log[i]
             /\ \A c \in Rows : commits'[c] = commits[c] /\ serverSeq'[c] = serverSeq[c]
    BY <1>2, <1>t, InsertFacts
<1>3. ASSUME NEW r \in Requests, PublishLocked(r)
      PROVE  \/ UNCHANGED tableVars
             \/ /\ InsertCommit(req[r].p) /\ commits[req[r].p.id] = None
                /\ req[r].p \in Params
    BY <1>3, LockedCases
<1>4. (\E r \in Requests : PublishLocked(r)) \/ UNCHANGED tableVars
    BY DEF Next, PublishAuthorize, PublishLookup, PublishAbort, PublishReturn, SkipServerSeq,
           RegisterDevice, ObjectAvailable, DeleteWorkspace, PullHead, PullCheckpoint,
           PullPage, PullApply, PullFail, vars
<1> QED
    BY <1>1, <1>2, <1>3, <1>4

\* A published commit is never changed, renumbered or removed.
THEOREM AppendOnlyAlways == Spec => AppendOnly
<1>1. HistoryInv /\ [Next]_vars =>
        [/\ Len(log) <= Len(log') /\ \A i \in 1 .. Len(log) : log'[i] = log[i]
         /\ \A c \in Rows : commits'[c] = commits[c] /\ serverSeq'[c] = serverSeq[c]]_vars
    BY NextAppendOnly
<1> QED
    BY <1>1, HistoryInvariant, PTL DEF Spec, AppendOnly

-----------------------------------------------------------------------------
(* SyncCommits implements SyncLog.                                         *)

\* The abstract log and its last commit, in terms of the tables.
LEMMA MappedLog ==
    ASSUME HistoryInv
    PROVE  /\ LogOf \in Seq(Params) /\ Len(LogOf) = Len(log)
           /\ \A i \in 1 .. Len(log) : LogOf[i] = commits[log[i]] /\ LogOf[i].id = log[i]
           /\ Abstract!LastId = head
           /\ \A c \in CommitIds : Abstract!Published(c) <=> commits[c] # None
<1> USE CommitsAssumption DEF HistoryInv, ServerTypeOK
<1>1. \A i \in 1 .. Len(log) : log[i] \in Rows /\ commits[log[i]] \in Params
    BY DEF HistoryLinear, Rows
<1>2. LogOf \in [1 .. Len(log) -> Params]
    BY <1>1 DEF LogOf
<1>3. LogOf \in Seq(Params) /\ Len(LogOf) = Len(log)
    BY <1>2
<1>4. \A i \in 1 .. Len(log) : LogOf[i] = commits[log[i]] /\ LogOf[i].id = log[i]
    BY DEF LogOf, HistoryLinear
<1>5. Abstract!LastId = head
    <2>1. CASE Len(log) = 0
        <3>1. LogOf = <<>>
            BY <1>3, <2>1
        <3> QED
            BY <2>1, <3>1 DEF Abstract!LastId, HistoryLinear, Expected
    <2>2. CASE Len(log) # 0
        <3>1. LogOf # <<>> /\ Len(log) \in 1 .. Len(log)
            BY <1>3, <2>2
        <3>2. LogOf[Len(LogOf)].id = log[Len(log)]
            BY <1>3, <1>4, <3>1
        <3>3. head = log[Len(log)]
            BY <2>2 DEF HistoryLinear, Expected
        <3> QED
            BY <3>1, <3>2, <3>3 DEF Abstract!LastId
    <2> QED
        BY <2>1, <2>2
<1>6. \A c \in CommitIds : Abstract!Published(c) <=> c \in Rows
    <2>1. \A c : Abstract!Published(c) <=> \E i \in 1 .. Len(log) : log[i] = c
        BY <1>3, <1>4 DEF Abstract!Published
    <2>2. \A c : c \in Rows <=> \E i \in 1 .. Len(log) : log[i] = c
        BY DEF HistoryLinear
    <2> QED
        BY <2>1, <2>2
<1> QED
    BY <1>3, <1>4, <1>5, <1>6 DEF Rows

\* The abstract call of r, and what changing r's entry alone does to the map.
LEMMA MappedCall ==
    ASSUME ServerTypeOK
    PROVE  /\ \A r \in Requests : (CallOf[r] = None) <=> (req[r] = None)
           /\ \A r \in Requests : req[r] # None =>
                 /\ CallOf[r].p = req[r].p
                 /\ req[r].p \in Params
                 /\ CallOf[r].out = IF req[r].pc \in {"lookup", "lock"} THEN "open" ELSE req[r].pc
<1> USE CommitsAssumption DEF ServerTypeOK, CallOf, Outcomes, Calls
<1>1. \A r \in Requests : req[r] # None =>
          [p |-> req[r].p, out |-> IF req[r].pc \in {"lookup", "lock"} THEN "open" ELSE req[r].pc]
             \in [p : Params, out : Outcomes]
    OBVIOUS
<1> QED
    BY <1>1

\* A new answer for r is a new abstract answer for r.
LEMMA MappedAnswer ==
    ASSUME ServerTypeOK, NEW r \in Requests, req[r] # None,
           NEW pc \in {"lookup", "lock", "ok", "conflict", "refused"},
           req' = [req EXCEPT ![r].pc = pc]
    PROVE  CallOf' = [CallOf EXCEPT ![r] =
                [p |-> CallOf[r].p, out |-> IF pc \in {"lookup", "lock"} THEN "open" ELSE pc]]
<1> USE CommitsAssumption DEF ServerTypeOK
<1>1. \A q \in Requests \ {r} : req'[q] = req[q]
    OBVIOUS
<1>a. req[r] \in Calls
    OBVIOUS
<1>b. req'[r] = [req[r] EXCEPT !.pc = pc]
    OBVIOUS
<1>c. req'[r].p = req[r].p /\ req'[r].pc = pc
    BY <1>a, <1>b DEF Calls
<1>d. req'[r] \in Calls
    BY <1>a, <1>b DEF Calls
<1>2. req'[r] # None /\ req'[r].p = req[r].p /\ req'[r].pc = pc
    BY <1>c, <1>d
<1>3. CallOf[r].p = req[r].p
    BY MappedCall
<1> QED
    BY <1>1, <1>2, <1>3 DEF CallOf

\* A step that only answers a call that is still open.
LEMMA AnswerStep ==
    ASSUME HistoryInv, NEW r \in Requests, req[r] # None, req[r].pc \in {"lookup", "lock"},
           NEW out \in {"ok", "conflict", "refused"}, req' = [req EXCEPT ![r].pc = out],
           UNCHANGED <<commits, log>>,
           out = "ok" => commits[req[r].p.id] = req[r].p,
           out = "conflict" => commits[req[r].p.id] = None /\ head # req[r].p.expected
    PROVE  Abstract!LogNext
<1> USE CommitsAssumption
<1>t. ServerTypeOK
    BY DEF HistoryInv
<1> DEFINE p == req[r].p
<1>1. p \in Params /\ p \in PublishParams /\ p.id \in CommitIds
    BY <1>t, MappedCall DEF PublishParams
<1>2. Abstract!IsOpen(r) /\ CallOf[r].p = p
    BY <1>t, MappedCall DEF Abstract!IsOpen
<1>3. Abstract!Answer(r, out)
    BY <1>t, MappedAnswer DEF Abstract!Answer
<1>4. UNCHANGED LogOf
    BY DEF LogOf
<1>5. CASE out = "ok"
    <2>1. p.id \in Rows
        BY <1>1, <1>5 DEF Rows
    <2>2. PICK i \in 1 .. Len(log) : log[i] = p.id
        BY <2>1 DEF HistoryInv, HistoryLinear
    <2>3. LogOf[i] = p /\ i \in 1 .. Len(LogOf)
        BY <1>5, <2>2, MappedLog
    <2>4. Abstract!Repeat(r)
        BY <1>2, <1>3, <1>4, <1>5, <2>3 DEF Abstract!Repeat
    <2> QED
        BY <2>4 DEF Abstract!LogNext
<1>6. CASE out = "conflict"
    <2>1. Abstract!Conflict(r)
        BY <1>1, <1>2, <1>3, <1>4, <1>6, MappedLog DEF Abstract!Conflict
    <2> QED
        BY <2>1 DEF Abstract!LogNext
<1>7. CASE out = "refused"
    <2>1. Abstract!Refuse(r)
        BY <1>2, <1>3, <1>4, <1>7 DEF Abstract!Refuse
    <2> QED
        BY <2>1 DEF Abstract!LogNext
<1> QED
    BY <1>5, <1>6, <1>7

\* Inserting the commit is the abstract append.
LEMMA ExtendStep ==
    ASSUME HistoryInv, HistoryInv', NEW r \in Requests, req[r] # None, req[r].pc = "lock",
           commits[req[r].p.id] = None, HeadMatches(req[r].p), InsertCommit(req[r].p),
           req' = [req EXCEPT ![r].pc = "ok"]
    PROVE  Abstract!LogNext
<1> USE CommitsAssumption
<1>t. ServerTypeOK /\ ServerTypeOK'
    BY DEF HistoryInv
<1> DEFINE p == req[r].p
<1>1. p \in Params /\ p \in PublishParams /\ p.id \in CommitIds
    BY <1>t, MappedCall DEF PublishParams
<1>2. Abstract!IsOpen(r) /\ CallOf[r].p = p
    BY <1>t, MappedCall DEF Abstract!IsOpen
<1>3. Abstract!Answer(r, "ok")
    BY <1>t, MappedAnswer DEF Abstract!Answer
<1>f. /\ Len(log') = Len(log) + 1 /\ Len(log) \in Nat /\ log'[Len(log')] = p.id
      /\ \A i \in 1 .. Len(log) : log'[i] = log[i] /\ commits'[log[i]] = commits[log[i]]
      /\ commits'[p.id] = p
    BY <1>1, InsertFacts
<1>4. /\ LogOf \in Seq(Params) /\ Len(LogOf) = Len(log)
      /\ \A i \in 1 .. Len(log) : LogOf[i] = commits[log[i]]
    BY MappedLog
<1>5. LogOf' = [i \in 1 .. Len(log) + 1 |-> IF i <= Len(log) THEN LogOf[i] ELSE p]
    BY <1>f, <1>4 DEF LogOf
<1>6. Append(LogOf, p) = [i \in 1 .. Len(log) + 1 |-> IF i <= Len(log) THEN LogOf[i] ELSE p]
    BY <1>1, <1>4
<1>7. Abstract!Extend(r)
    <2>1. Abstract!LastId = p.expected /\ ~Abstract!Published(p.id)
        BY <1>1, MappedLog DEF HeadMatches
    <2> QED
        BY <1>2, <1>3, <1>5, <1>6, <2>1 DEF Abstract!Extend
<1> QED
    BY <1>7 DEF Abstract!LogNext

\* The locked body: insertion, or an answer that fits the tables.
LEMMA LockedStep ==
    ASSUME HistoryInv, HistoryInv', NEW r \in Requests, PublishLocked(r)
    PROVE  Abstract!LogNext
<1> DEFINE p == req[r].p
<1>1. req[r] # None /\ req[r].pc = "lock" /\ p \in Params
    BY LockedCases DEF PublishLocked, At
<1>2. CASE wsLive /\ FreshUnderLock(p) /\ HeadMatches(p) /\ Acceptable(p)
    <2>1. InsertCommit(p) /\ req' = [req EXCEPT ![r].pc = "ok"]
        BY <1>2 DEF PublishLocked, Reply
    <2> QED
        BY <1>1, <1>2, <2>1, ExtendStep DEF FreshUnderLock
<1>3. CASE ~(wsLive /\ FreshUnderLock(p) /\ HeadMatches(p) /\ Acceptable(p))
    <2> DEFINE out == IF ~wsLive THEN "refused"
                      ELSE IF ~FreshUnderLock(p) THEN MatchReply(p)
                      ELSE IF ~HeadMatches(p) THEN "conflict"
                      ELSE "refused"
    <2>1. req' = [req EXCEPT ![r].pc = out] /\ UNCHANGED <<commits, log>>
        BY <1>3 DEF PublishLocked, Reply, tableVars
    <2>2. out \in {"ok", "conflict", "refused"}
        BY DEF MatchReply
    <2>3. out = "ok" => commits[p.id] = p
        BY DEF MatchReply
    <2>4. out = "conflict" => commits[p.id] = None /\ head # p.expected
        BY DEF MatchReply, FreshUnderLock, HeadMatches
    <2> HIDE DEF out
    <2> QED
        BY <1>1, <2>1, <2>2, <2>3, <2>4, AnswerStep
<1> QED
    BY <1>2, <1>3

\* Every step of SyncCommits is a step of SyncLog or leaves it unchanged.
LEMMA StepImplementsLog ==
    ASSUME HistoryInv, HistoryInv', [Next]_vars
    PROVE  [Abstract!LogNext]_<<LogOf, CallOf>>
<1> USE CommitsAssumption
<1>t. ServerTypeOK /\ ServerTypeOK'
    BY DEF HistoryInv
<1>1. ASSUME NEW r \in Requests, NEW p \in Params, PublishAuthorize(r, p)
      PROVE  Abstract!LogNext
    <2>1. CallOf[r] = None
        BY <1>1, <1>t, MappedCall DEF PublishAuthorize
    <2>2. [pc |-> "lookup", p |-> p] \in Calls
        BY DEF Calls
    <2>3. CallOf' = [CallOf EXCEPT ![r] = [p |-> p, out |-> "open"]]
        BY <1>1, <1>t, <2>2 DEF PublishAuthorize, CallOf, ServerTypeOK
    <2>4. UNCHANGED LogOf
        BY <1>1 DEF PublishAuthorize, tableVars, LogOf
    <2>5. Abstract!Invoke(r, p)
        BY <2>1, <2>3, <2>4 DEF Abstract!Invoke
    <2> QED
        BY <2>5 DEF Abstract!LogNext
<1>2. ASSUME NEW r \in Requests, PublishLookup(r)
      PROVE  Abstract!LogNext \/ UNCHANGED <<LogOf, CallOf>>
    <2> DEFINE p == req[r].p
    <2>1. req[r] # None /\ req[r].pc = "lookup" /\ UNCHANGED <<commits, log>>
        BY <1>2 DEF PublishLookup, At, tableVars
    <2>2. CASE commits[p.id] = None
        <3>1. req' = [req EXCEPT ![r].pc = "lock"]
            BY <1>2, <2>2 DEF PublishLookup, Reply
        <3>2. CallOf' = [CallOf EXCEPT ![r] = [p |-> CallOf[r].p, out |-> "open"]]
            BY <1>t, <2>1, <3>1, MappedAnswer
        <3>3. CallOf[r] = [p |-> CallOf[r].p, out |-> "open"]
            BY <1>t, <2>1 DEF CallOf, ServerTypeOK
        <3>4. CallOf' = CallOf
            BY <3>2, <3>3 DEF CallOf
        <3>5. LogOf' = LogOf
            BY <2>1 DEF LogOf
        <3> QED
            BY <3>4, <3>5
    <2>3. CASE commits[p.id] # None
        <3>1. req' = [req EXCEPT ![r].pc = MatchReply(p)]
            BY <1>2, <2>3 DEF PublishLookup, Reply
        <3>2. /\ MatchReply(p) \in {"ok", "conflict", "refused"} /\ MatchReply(p) # "conflict"
              /\ MatchReply(p) = "ok" => commits[p.id] = p
            BY DEF MatchReply
        <3> QED
            BY <2>1, <3>1, <3>2, AnswerStep
    <2> QED
        BY <2>2, <2>3
<1>3. ASSUME NEW r \in Requests, PublishAbort(r) PROVE Abstract!LogNext
    BY <1>3, AnswerStep DEF PublishAbort, Reply, tableVars
<1>4. ASSUME NEW r \in Requests, PublishReturn(r) PROVE Abstract!LogNext
    <2>1. CallOf[r] # None
        BY <1>4, <1>t, MappedCall DEF PublishReturn
    <2>2. CallOf' = [CallOf EXCEPT ![r] = None]
        BY <1>4, <1>t DEF PublishReturn, CallOf, ServerTypeOK
    <2>3. UNCHANGED LogOf
        BY <1>4 DEF PublishReturn, tableVars, LogOf
    <2>4. Abstract!Return(r)
        BY <2>1, <2>2, <2>3 DEF Abstract!Return
    <2> QED
        BY <2>4 DEF Abstract!LogNext
<1>5. CASE UNCHANGED <<tableVars, req>>
    BY <1>5 DEF tableVars, LogOf, CallOf
<1>6. \/ UNCHANGED <<tableVars, req>>
      \/ \E r \in Requests : \/ \E p \in Params : PublishAuthorize(r, p)
                            \/ PublishLookup(r) \/ PublishLocked(r)
                            \/ PublishAbort(r) \/ PublishReturn(r)
    BY DEF Next, SkipServerSeq, RegisterDevice, ObjectAvailable, DeleteWorkspace, PullHead,
           PullCheckpoint, PullPage, PullApply, PullFail, vars
<1> QED
    BY <1>1, <1>2, <1>3, <1>4, <1>5, <1>6, LockedStep

\* PublishCommit, with its unlocked lookups, its locked body, its aborts and its
\* lost answers, implements an atomic append to a log.
THEOREM ImplementsLogAlways == Spec => ImplementsLog
<1>1. Init => Abstract!LogInit
    <2>1. Init => LogOf = <<>> /\ CallOf = [r \in Requests |-> None]
        BY DEF Init, LogOf, CallOf
    <2> QED
        BY <2>1 DEF Abstract!LogInit
<1>2. HistoryInv /\ HistoryInv' /\ [Next]_vars => [Abstract!LogNext]_<<LogOf, CallOf>>
    BY StepImplementsLog
<1> QED
    BY <1>1, <1>2, HistoryInvariant, PTL
    DEF Spec, ImplementsLog, Abstract!LogSpec, Abstract!logVars

-----------------------------------------------------------------------------
(* ORDER BY server_seq.                                                    *)

\* No commit is in the history twice.
LEMMA LogFacts ==
    ASSUME HistoryInv
    PROVE  /\ Len(log) \in Nat /\ log \in Seq(CommitIds)
           /\ \A i \in 1 .. Len(log) : log[i] \in Rows /\ log[i] \in CommitIds /\ serverSeq[log[i]] \in Nat
           /\ \A i, j \in 1 .. Len(log) : log[i] = log[j] => i = j
           /\ \A i, j \in 1 .. Len(log) : serverSeq[log[i]] <= serverSeq[log[j]] => i <= j
           /\ \A c \in Rows : \E i \in 1 .. Len(log) : log[i] = c
<1>1. log \in Seq(CommitIds) /\ serverSeq \in [CommitIds -> Nat]
    BY DEF HistoryInv, ServerTypeOK
<1>2. Len(log) \in Nat /\ \A i \in 1 .. Len(log) : log[i] \in CommitIds /\ serverSeq[log[i]] \in Nat
    BY <1>1
<1>3. Rows = {log[i] : i \in 1 .. Len(log)}
    BY DEF HistoryInv, HistoryLinear
<1>4. \A i, j \in 1 .. Len(log) : i < j => serverSeq[log[i]] < serverSeq[log[j]]
    BY DEF HistoryInv, ServerSeqOrder
<1>5. ASSUME NEW i \in 1 .. Len(log), NEW j \in 1 .. Len(log)
      PROVE  /\ log[i] = log[j] => i = j
             /\ serverSeq[log[i]] <= serverSeq[log[j]] => i <= j
    <2>1. i \in Nat /\ j \in Nat /\ serverSeq[log[i]] \in Nat /\ serverSeq[log[j]] \in Nat
        BY <1>2
    <2>2. i < j => serverSeq[log[i]] < serverSeq[log[j]]
        BY <1>4
    <2>3. j < i => serverSeq[log[j]] < serverSeq[log[i]]
        BY <1>4
    <2> QED
        BY <2>1, <2>2, <2>3
<1> QED
    BY <1>1, <1>2, <1>3, <1>5

\* The commits after the k-th.
Later(k) == {log[j] : j \in k + 1 .. Len(log)}

\* Listing them in the order of server_seq gives the end of the history.
LEMMA SortedIsLog ==
    ASSUME HistoryInv, NEW k \in 0 .. Len(log)
    PROVE  /\ InSeqOrder(Later(k)) \in Seq(CommitIds)
           /\ Len(InSeqOrder(Later(k))) = Len(log) - k
           /\ \A i \in 1 .. Len(log) - k : InSeqOrder(Later(k))[i] = log[k + i]
           /\ Cardinality(Later(k)) = Len(log) - k
<1>1. /\ Len(log) \in Nat /\ k \in Nat
      /\ \A i \in 1 .. Len(log) : log[i] \in CommitIds /\ serverSeq[log[i]] \in Nat
      /\ \A i, j \in 1 .. Len(log) : log[i] = log[j] => i = j
      /\ \A i, j \in 1 .. Len(log) : serverSeq[log[i]] <= serverSeq[log[j]] => i <= j
    BY LogFacts
<1>2. PICK m : m = Len(log) - k
    OBVIOUS
<1>3. PICK S : S = Later(k)
    OBVIOUS
<1>4. m \in Nat /\ \A i \in 1 .. m : k + i \in 1 .. Len(log) /\ log[k + i] \in S
    BY <1>1, <1>2, <1>3 DEF Later
<1>5. \A c \in S : \E i \in 1 .. m : log[k + i] = c
    <2> SUFFICES ASSUME NEW c \in S PROVE \E i \in 1 .. m : log[k + i] = c
        OBVIOUS
    <2>1. PICK j \in k + 1 .. Len(log) : c = log[j]
        BY <1>3 DEF Later
    <2>2. j - k \in 1 .. m /\ k + (j - k) = j
        BY <1>1, <1>2
    <2> QED
        BY <2>1, <2>2
<1>6. PICK g : g = [i \in 1 .. m |-> log[k + i]]
    OBVIOUS
<1>7. \A i, j \in 1 .. m : log[k + i] = log[k + j] => i = j
    BY <1>1, <1>4
<1>8. g \in Bijection(1 .. m, S)
    <2>1. g \in [1 .. m -> S] /\ DOMAIN g = 1 .. m /\ \A i \in 1 .. m : g[i] = log[k + i]
        BY <1>4, <1>6
    <2>2. IsInjective(g)
        BY <1>7, <2>1 DEF IsInjective
    <2>3. \A c \in S : \E i \in 1 .. m : g[i] = c
        BY <1>5, <2>1
    <2> QED
        BY <2>1, <2>2, <2>3 DEF Bijection, Injection, Surjection
<1>9. Cardinality(S) = m
    <2>1. IsFiniteSet(1 .. m) /\ Cardinality(1 .. m) = m
        <3>1. 1 \in Int /\ m \in Int
            BY <1>4
        <3>2. IsFiniteSet(1 .. m) /\ Cardinality(1 .. m) = IF 1 > m THEN 0 ELSE m - 1 + 1
            BY <3>1, FS_Interval
        <3> QED
            BY <1>4, <3>2
    <2>2. ExistsBijection(1 .. m, S)
        BY <1>8 DEF ExistsBijection
    <2> QED
        BY <2>1, <2>2, FS_Bijection
<1>10. PICK q : q = InSeqOrder(S)
    OBVIOUS
<1>11. q \in Bijection(1 .. m, S) /\ \A i, j \in DOMAIN q : i < j => serverSeq[q[i]] <= serverSeq[q[j]]
    <2>1. \E s \in Bijection(1 .. m, S) : \A i, j \in DOMAIN s : i < j => serverSeq[s[i]] <= serverSeq[s[j]]
        <3>1. DOMAIN g = 1 .. m /\ \A i \in 1 .. m : g[i] = log[k + i]
            BY <1>6
        <3>2. ASSUME NEW i \in 1 .. m, NEW j \in 1 .. m, i < j PROVE serverSeq[g[i]] <= serverSeq[g[j]]
            <4>1. /\ k + i \in 1 .. Len(log) /\ k + j \in 1 .. Len(log) /\ ~(k + j <= k + i)
                  /\ serverSeq[log[k + i]] \in Nat /\ serverSeq[log[k + j]] \in Nat
                BY <1>1, <1>4, <3>2
            <4>2. ~(serverSeq[log[k + j]] <= serverSeq[log[k + i]])
                BY <1>1, <4>1
            <4> QED
                BY <3>1, <4>1, <4>2
        <3> QED
            BY <1>8, <3>1, <3>2
    <2>2. q = CHOOSE s \in Bijection(1 .. m, S) : \A i, j \in DOMAIN s : i < j => serverSeq[s[i]] <= serverSeq[s[j]]
        BY <1>9, <1>10, Zenon DEF InSeqOrder
    <2> QED
        BY <2>1, <2>2, Zenon
<1>12. /\ q \in [1 .. m -> S] /\ DOMAIN q = 1 .. m /\ (\A i, j \in 1 .. m : q[i] = q[j] => i = j)
       /\ \A c \in S : \E i \in 1 .. m : q[i] = c
    BY <1>11 DEF Bijection, Injection, Surjection, IsInjective
<1>13. PICK T : T = {i \in Nat : i \in 1 .. m /\ q[i] # log[k + i]}
    OBVIOUS
<1>14. ASSUME T # {} PROVE FALSE
    <2>1. PICK x \in T : \A y \in T : x <= y
        BY <1>13, <1>14, LeastNatural
    <2>2. x \in 1 .. m /\ q[x] # log[k + x] /\ q[x] \in S /\ log[k + x] \in S
        BY <1>4, <1>12, <1>13
    <2>3. \A y \in 1 .. m : y < x => q[y] = log[k + y]
        BY <1>13, <2>1, <2>2
    <2>4. PICK j \in 1 .. m : log[k + j] = q[x]
        BY <1>5, <2>2
    <2>5. PICK l \in 1 .. m : q[l] = log[k + x]
        BY <1>12, <2>2
    <2>6. ~(j < x)
        BY <1>12, <2>2, <2>3, <2>4
    <2>7. ~(l < x)
        BY <1>7, <2>2, <2>3, <2>5
    <2>8. x < l
        BY <2>2, <2>5, <2>7
    <2>9. serverSeq[q[x]] <= serverSeq[q[l]]
        BY <1>11, <1>12, <2>2, <2>8
    <2>10. k + j \in 1 .. Len(log) /\ k + x \in 1 .. Len(log)
        BY <1>4, <2>2
    <2>11. k + j <= k + x
        BY <1>1, <2>4, <2>5, <2>9, <2>10
    <2>12. j = x
        BY <1>1, <2>2, <2>6, <2>11
    <2> QED
        BY <2>2, <2>4, <2>12
<1>15. \A i \in 1 .. m : q[i] = log[k + i]
    BY <1>13, <1>14
<1>16. q \in Seq(CommitIds) /\ Len(q) = m
    <2>1. q \in [1 .. m -> CommitIds]
        BY <1>1, <1>4, <1>12, <1>15
    <2>2. q \in Seq(CommitIds)
        BY <1>4, <2>1, SeqDef
    <2>3. Len(q) \in Nat /\ 1 .. Len(q) = 1 .. m
        BY <1>12, <2>2, LenProperties
    <2>4. Len(q) = m
        <3>1. (m # 0 => m \in 1 .. Len(q)) /\ (Len(q) # 0 => Len(q) \in 1 .. m)
            BY <1>4, <2>3
        <3> QED
            BY <1>4, <2>3, <3>1
    <2> QED
        BY <2>2, <2>4
<1> QED
    BY <1>2, <1>3, <1>9, <1>10, <1>15, <1>16

-----------------------------------------------------------------------------
(* The pull.                                                               *)

Pulls == [pc : {"idle", "ckpt", "pages", "apply"}, head : CommitRefs, ckpt : CommitRefs, after : Nat,
          got : Seq(CommitIds), replay : Seq(CommitIds)]

\* A sequence is a part of the history that begins with the i-th commit.
Segment(a, i) ==
    /\ i \in Nat /\ i >= 1 /\ i - 1 + Len(a) <= Len(log)
    /\ \A k \in 1 .. Len(a) : a[k] = log[i - 1 + k]

\* A new desktop begins with the first commit or with a checkpoint.
Beginning(i) == i > 1 => commits[log[i]].kind = "checkpoint"

\* What a pull t has read is a part of the history: the pages one from its
\* beginning, up to the cursor; the replay one that follows the local head h.
PullOK(t, h) ==
    /\ t \in Pulls
    /\ t.pc = "idle" => t = NoPull
    /\ t.pc = "ckpt" => t.got = <<>> /\ t.after = 0
    /\ t.pc = "pages" =>
        /\ Segment(t.got, 1)
        /\ t.after = IF t.got = <<>> THEN 0 ELSE serverSeq[log[Len(t.got)]]
        /\ t.ckpt # None => t.ckpt \in Rows /\ commits[t.ckpt].kind = "checkpoint"
    /\ t.pc = "apply" =>
        /\ t.replay # <<>>
        /\ \E i \in 1 .. Len(log) :
            /\ Segment(t.replay, i)
            /\ IF h = None THEN Beginning(i) ELSE i > 1 /\ h = log[i - 1]

\* What was applied is a part of the history that ends with the local head.
AppliedOK(h, a) ==
    /\ h \in CommitRefs /\ a \in Seq(CommitIds) /\ (h = None <=> a = <<>>)
    /\ a # <<>> => \E i \in 1 .. Len(log) : Segment(a, i) /\ Beginning(i) /\ h = log[i - 1 + Len(a)]

ReaderOK(d) == PullOK(pull[d], localHead[d]) /\ AppliedOK(localHead[d], applied[d])

\* The inductive invariant of the readers.
PullInv ==
    /\ pull \in [Readers -> Pulls] /\ localHead \in [Readers -> CommitRefs] /\ applied \in [Readers -> Seq(CommitIds)]
    /\ \A c \in Rows : serverSeq[c] > 0
    /\ \A d \in Readers : ReaderOK(d)

\* The history so far stays as it is.
HistoryGrows ==
    /\ Len(log') \in Nat /\ Len(log) <= Len(log') /\ \A i \in 1 .. Len(log) : log'[i] = log[i]
    /\ \A c \in Rows : c \in Rows' /\ commits'[c] = commits[c] /\ serverSeq'[c] = serverSeq[c]

\* A part of the history stays one.
LEMMA SegmentStays ==
    ASSUME HistoryInv, HistoryGrows, NEW a \in Seq(CommitIds), NEW i, Segment(a, i)
    PROVE  Segment(a, i)'
<1>1. Len(log) \in Nat /\ Len(log') \in Nat /\ Len(a) \in Nat
    BY LogFacts DEF HistoryGrows
<1>2. \A k \in 1 .. Len(a) : i - 1 + k \in 1 .. Len(log)
    BY <1>1 DEF Segment
<1>3. i \in Nat /\ i >= 1 /\ i - 1 + Len(a) <= Len(log')
    BY <1>1 DEF Segment, HistoryGrows
<1>4. \A k \in 1 .. Len(a) : a[k] = log'[i - 1 + k]
    BY <1>2, Zenon DEF Segment, HistoryGrows
<1> QED
    BY <1>3, <1>4 DEF Segment

\* What a reader has read and applied still is a part of the history.
LEMMA ReaderStays ==
    ASSUME HistoryInv, HistoryGrows, NEW t, NEW h, NEW a, PullOK(t, h), AppliedOK(h, a)
    PROVE  PullOK(t, h)' /\ AppliedOK(h, a)'
<1>1. /\ Len(log) \in Nat /\ Len(log') \in Nat /\ Len(log) <= Len(log')
      /\ \A i \in 1 .. Len(log) : log[i] \in Rows /\ log'[i] = log[i]
      /\ \A c \in Rows : c \in Rows' /\ commits'[c] = commits[c] /\ serverSeq'[c] = serverSeq[c]
    BY LogFacts DEF HistoryGrows
<1>2. t \in Pulls /\ t.got \in Seq(CommitIds) /\ t.replay \in Seq(CommitIds) /\ a \in Seq(CommitIds)
    BY DEF PullOK, AppliedOK, Pulls
<1>3. \A i \in 1 .. Len(log) : i \in 1 .. Len(log') /\ (Beginning(i) => Beginning(i)')
    BY <1>1 DEF Beginning
<1>4. ASSUME t.pc = "pages"
      PROVE  /\ Segment(t.got, 1)'
             /\ t.after = IF t.got = <<>> THEN 0 ELSE serverSeq'[log'[Len(t.got)]]
             /\ t.ckpt # None => t.ckpt \in Rows' /\ commits'[t.ckpt].kind = "checkpoint"
    <2>1. PICK g : g = t.got
        OBVIOUS
    <2>2. Segment(g, 1) /\ g \in Seq(CommitIds) /\ t.after = IF g = <<>> THEN 0 ELSE serverSeq[log[Len(g)]]
        BY <1>2, <1>4, <2>1 DEF PullOK
    <2>3. Segment(g, 1)'
        BY <2>2, SegmentStays
    <2>4. Segment(t.got, 1)'
        BY <2>1, <2>3 DEF Segment
    <2>5. g # <<>> => Len(g) \in 1 .. Len(log)
        BY <1>1, <2>2, EmptySeq DEF Segment
    <2>6. t.after = IF g = <<>> THEN 0 ELSE serverSeq'[log'[Len(g)]]
        BY <1>1, <2>2, <2>5
    <2>7. t.ckpt # None => t.ckpt \in Rows' /\ commits'[t.ckpt].kind = "checkpoint"
        BY <1>1, <1>4 DEF PullOK
    <2> QED
        BY <2>1, <2>4, <2>6, <2>7
<1>5. ASSUME t.pc = "apply"
      PROVE  /\ t.replay # <<>>
             /\ \E i \in 1 .. Len(log') :
                 /\ Segment(t.replay, i)'
                 /\ IF h = None THEN Beginning(i)' ELSE i > 1 /\ h = log'[i - 1]
    <2>1. PICK i \in 1 .. Len(log) :
              Segment(t.replay, i) /\ IF h = None THEN Beginning(i) ELSE i > 1 /\ h = log[i - 1]
        BY <1>5 DEF PullOK
    <2>2. PICK g : g = t.replay
        OBVIOUS
    <2>3. Segment(g, i)'
        BY <1>2, <2>1, <2>2, SegmentStays
    <2>4. Segment(t.replay, i)'
        BY <2>2, <2>3 DEF Segment
    <2>5. i > 1 => i - 1 \in 1 .. Len(log)
        BY <1>1
    <2>6. IF h = None THEN Beginning(i)' ELSE i > 1 /\ h = log'[i - 1]
        BY <1>1, <1>3, <2>1, <2>5
    <2> QED
        BY <1>3, <1>5, <2>4, <2>6 DEF PullOK
<1>6. PullOK(t, h)'
    BY <1>4, <1>5 DEF PullOK
<1>7. ASSUME a # <<>> PROVE \E i \in 1 .. Len(log') : Segment(a, i)' /\ Beginning(i)' /\ h = log'[i - 1 + Len(a)]
    <2>1. PICK i \in 1 .. Len(log) : Segment(a, i) /\ Beginning(i) /\ h = log[i - 1 + Len(a)]
        BY <1>7 DEF AppliedOK
    <2>2. Len(a) \in Nat \ {0}
        BY <1>2, <1>7, EmptySeq
    <2>3. i - 1 + Len(a) \in 1 .. Len(log)
        BY <1>1, <2>1, <2>2 DEF Segment
    <2>4. Segment(a, i)'
        BY <1>2, <2>1, SegmentStays
    <2> QED
        BY <1>1, <1>3, <2>1, <2>3, <2>4
<1>8. AppliedOK(h, a)'
    BY <1>7 DEF AppliedOK
<1> QED
    BY <1>6, <1>8

\* A step that is not a reader's.
LEMMA ServerStep ==
    ASSUME HistoryInv, PullInv, HistoryGrows, \A c \in Rows' : serverSeq'[c] > 0, UNCHANGED readVars
    PROVE  PullInv'
<1>1. UNCHANGED <<pull, localHead, applied>>
    BY DEF readVars
<1>2. ASSUME NEW d \in Readers PROVE ReaderOK(d)'
    <2>1. PICK t : t = pull[d]
        OBVIOUS
    <2>2. PICK h : h = localHead[d]
        OBVIOUS
    <2>3. PICK a : a = applied[d]
        OBVIOUS
    <2>4. PullOK(t, h) /\ AppliedOK(h, a)
        BY <2>1, <2>2, <2>3 DEF PullInv, ReaderOK
    <2>5. PullOK(t, h)' /\ AppliedOK(h, a)'
        BY <2>4, ReaderStays
    <2>6. pull'[d] = t /\ localHead'[d] = h /\ applied'[d] = a
        BY <1>1, <2>1, <2>2, <2>3
    <2> QED
        BY <2>5, <2>6 DEF ReaderOK, PullOK, AppliedOK
<1> QED
    BY <1>1, <1>2 DEF PullInv

\* A step of reader d, which leaves the history.
LEMMA ReaderStep ==
    ASSUME HistoryInv, PullInv, NEW d \in Readers, NEW t, NEW h, NEW a,
           pull' = [pull EXCEPT ![d] = t], localHead' = [localHead EXCEPT ![d] = h], applied' = [applied EXCEPT ![d] = a],
           UNCHANGED <<wsLive, tableVars, nextSeq, active, avail, req>>, PullOK(t, h), AppliedOK(h, a)
    PROVE  PullInv'
<1>1. UNCHANGED <<log, commits, serverSeq>> /\ Rows' = Rows
    BY DEF tableVars, Rows
<1>2. HistoryGrows
    BY <1>1, LogFacts DEF HistoryGrows
<1>3. PullOK(t, h)' /\ AppliedOK(h, a)'
    BY <1>2, ReaderStays
<1>4. t \in Pulls /\ h \in CommitRefs /\ a \in Seq(CommitIds)
    BY DEF PullOK, AppliedOK
<1>5. /\ pull' \in [Readers -> Pulls] /\ localHead' \in [Readers -> CommitRefs]
      /\ applied' \in [Readers -> Seq(CommitIds)]
    BY <1>4 DEF PullInv
<1>6. ASSUME NEW o \in Readers PROVE ReaderOK(o)'
    <2>1. CASE o = d
        <3>1. pull'[o] = t /\ localHead'[o] = h /\ applied'[o] = a
            BY <2>1 DEF PullInv
        <3>2. PullOK(pull[o], localHead[o])'
            BY <1>3, <3>1 DEF PullOK
        <3>3. AppliedOK(localHead[o], applied[o])'
            BY <1>3, <3>1 DEF AppliedOK
        <3> QED
            BY <3>2, <3>3 DEF ReaderOK
    <2>2. CASE o # d
        <3>1. PICK u : u = pull[o]
            OBVIOUS
        <3>2. PICK g : g = localHead[o]
            OBVIOUS
        <3>3. PICK b : b = applied[o]
            OBVIOUS
        <3>4. PullOK(u, g) /\ AppliedOK(g, b)
            BY <3>1, <3>2, <3>3 DEF PullInv, ReaderOK
        <3>5. PullOK(u, g)' /\ AppliedOK(g, b)'
            BY <1>2, <3>4, ReaderStays
        <3>6. pull'[o] = u /\ localHead'[o] = g /\ applied'[o] = b
            BY <2>2, <3>1, <3>2, <3>3 DEF PullInv
        <3>7. PullOK(pull[o], localHead[o])'
            BY <3>5, <3>6 DEF PullOK
        <3>8. AppliedOK(localHead[o], applied[o])'
            BY <3>5, <3>6 DEF AppliedOK
        <3> QED
            BY <3>7, <3>8 DEF ReaderOK
    <2> QED
        BY <2>1, <2>2
<1>7. \A c \in Rows' : serverSeq'[c] > 0
    BY <1>1 DEF PullInv
<1> QED
    BY <1>5, <1>6, <1>7 DEF PullInv

\* No pull.
LEMMA NoPullOK ==
    ASSUME NEW h
    PROVE  PullOK(NoPull, h) /\ NoPull.pc = "idle"
<1>1. NoPull \in Pulls /\ NoPull.pc = "idle"
    BY EmptySeq DEF NoPull, Pulls, CommitRefs
<1> QED
    BY <1>1 DEF PullOK

\* A step of reader d that applies nothing.
LEMMA ReadStep ==
    ASSUME HistoryInv, PullInv, NEW d \in Readers, NEW t, pull' = [pull EXCEPT ![d] = t], PullOK(t, localHead[d]),
           UNCHANGED <<wsLive, tableVars, nextSeq, active, avail, req, localHead, applied>>
    PROVE  PullInv'
<1>1. PICK h : h = localHead[d]
    OBVIOUS
<1>2. PICK a : a = applied[d]
    OBVIOUS
<1>3. localHead' = [localHead EXCEPT ![d] = h] /\ applied' = [applied EXCEPT ![d] = a]
    BY <1>1, <1>2 DEF PullInv
<1>4. PullOK(t, h) /\ AppliedOK(h, a)
    BY <1>1, <1>2 DEF PullInv, ReaderOK
<1>5. UNCHANGED <<wsLive, tableVars, nextSeq, active, avail, req>>
    OBVIOUS
<1> QED
    BY <1>3, <1>4, <1>5, ReaderStep

\* GetHead reads the head.
LEMMA PullHeadInv ==
    ASSUME HistoryInv, PullInv, NEW d \in Readers, PullHead(d)
    PROVE  PullInv'
<1>1. PICK t : t = pull[d]
    OBVIOUS
<1>2. PICK c : c = head
    OBVIOUS
<1>3. PICK u : u = [t EXCEPT !.pc = "ckpt", !.head = c]
    OBVIOUS
<1>4. /\ t.pc = "idle" /\ UNCHANGED <<wsLive, tableVars, nextSeq, active, avail, req, localHead, applied>>
    BY <1>1 DEF PullHead
<1>5. pull' = [pull EXCEPT ![d] = u]
    <2>1. pull' = [pull EXCEPT ![d].pc = "ckpt", ![d].head = head]
        BY DEF PullHead
    <2> QED
        BY <1>1, <1>2, <1>3, <2>1, Zenon
<1>6. t \in Pulls /\ t = NoPull
    BY <1>1, <1>4 DEF PullInv, ReaderOK, PullOK
<1>7. c \in CommitRefs
    BY <1>2 DEF HistoryInv, ServerTypeOK
<1>8. u \in Pulls /\ u.pc = "ckpt" /\ u.got = t.got /\ u.after = t.after
    <2>1. "ckpt" \in {"idle", "ckpt", "pages", "apply"}
        OBVIOUS
    <2> QED
        BY <1>3, <1>6, <1>7, <2>1, Zenon DEF Pulls
<1>9. t.got = <<>> /\ t.after = 0
    BY <1>6 DEF NoPull
<1>10. PullOK(u, localHead[d])
    BY <1>8, <1>9 DEF PullOK
<1> QED
    BY <1>4, <1>5, <1>10, ReadStep

\* The latest checkpoint is one.
LEMMA LatestIsCheckpoint ==
    ASSUME HistoryInv, LatestCheckpoint # None
    PROVE  \E i \in 1 .. Len(log) : LatestCheckpoint = log[i] /\ commits[log[i]].kind = "checkpoint"
<1>1. PICK C : C = {c \in Rows : commits[c].kind = "checkpoint"}
    OBVIOUS
<1>2. C # {} /\ LatestCheckpoint = CHOOSE c \in C : \A e \in C : serverSeq[e] <= serverSeq[c]
    BY <1>1, Zenon DEF LatestCheckpoint
<1>3. /\ Len(log) \in Nat /\ \A i \in 1 .. Len(log) : log[i] \in Rows /\ serverSeq[log[i]] \in Nat
      /\ \A i, j \in 1 .. Len(log) : serverSeq[log[i]] <= serverSeq[log[j]] => i <= j
      /\ \A c \in Rows : \E i \in 1 .. Len(log) : log[i] = c
    BY LogFacts
<1>4. PICK T : T = {x \in Nat : x \in 0 .. Len(log) - 1 /\ log[Len(log) - x] \in C}
    OBVIOUS
<1>5. T # {}
    <2>1. PICK c \in C : TRUE
        BY <1>2
    <2>2. PICK i \in 1 .. Len(log) : log[i] = c
        BY <1>1, <1>3
    <2>3. Len(log) - i \in Nat /\ Len(log) - i \in 0 .. Len(log) - 1 /\ Len(log) - (Len(log) - i) = i
        BY <1>3
    <2> QED
        BY <1>4, <2>1, <2>2, <2>3
<1>6. PICK x \in T : \A y \in T : x <= y
    BY <1>4, <1>5, LeastNatural
<1>7. PICK i : i = Len(log) - x
    OBVIOUS
<1>8. i \in 1 .. Len(log) /\ log[i] \in C
    BY <1>3, <1>4, <1>6, <1>7
<1>9. ASSUME NEW e \in C PROVE serverSeq[e] <= serverSeq[log[i]]
    <2>1. PICK j \in 1 .. Len(log) : log[j] = e
        BY <1>1, <1>3
    <2>2. Len(log) - j \in T
        <3>1. Len(log) - j \in Nat /\ Len(log) - j \in 0 .. Len(log) - 1 /\ Len(log) - (Len(log) - j) = j
            BY <1>3
        <3> QED
            BY <1>4, <2>1, <3>1
    <2>3. x <= Len(log) - j
        BY <1>6, <2>2
    <2>4. j <= i
        BY <1>3, <1>4, <1>6, <1>7, <2>3
    <2>5. serverSeq[log[i]] \in Nat /\ serverSeq[log[j]] \in Nat /\ (serverSeq[log[i]] <= serverSeq[log[j]] => i <= j)
        BY <1>3, <1>8
    <2>6. CASE i = j
        BY <2>1, <2>5, <2>6
    <2>7. CASE i # j
        <3>1. ~(i <= j)
            BY <1>8, <2>4, <2>7
        <3> QED
            BY <2>1, <2>5, <3>1
    <2> QED
        BY <2>6, <2>7
<1>10. \E c \in C : \A e \in C : serverSeq[e] <= serverSeq[c]
    BY <1>8, <1>9
<1>11. LatestCheckpoint \in C
    BY <1>2, <1>10, Zenon
<1> QED
    BY <1>1, <1>3, <1>11

\* GetHead reads the latest checkpoint.
LEMMA PullCheckpointInv ==
    ASSUME HistoryInv, PullInv, NEW d \in Readers, PullCheckpoint(d)
    PROVE  PullInv'
<1>1. PICK t : t = pull[d]
    OBVIOUS
<1>2. PICK c : c = LatestCheckpoint
    OBVIOUS
<1>3. PICK u : u = [t EXCEPT !.pc = "pages", !.ckpt = c]
    OBVIOUS
<1>4. /\ t.pc = "ckpt" /\ UNCHANGED <<wsLive, tableVars, nextSeq, active, avail, req, localHead, applied>>
    BY <1>1 DEF PullCheckpoint
<1>5. pull' = [pull EXCEPT ![d] = u]
    <2>1. pull' = [pull EXCEPT ![d].pc = "pages", ![d].ckpt = LatestCheckpoint]
        BY DEF PullCheckpoint
    <2> QED
        BY <1>1, <1>2, <1>3, <2>1, Zenon
<1>6. t \in Pulls /\ t.got = <<>> /\ t.after = 0
    BY <1>1, <1>4 DEF PullInv, ReaderOK, PullOK
<1>7. c \in CommitRefs /\ (c # None => c \in Rows /\ commits[c].kind = "checkpoint")
    BY <1>2, LatestIsCheckpoint, LogFacts DEF CommitRefs
<1>8. u \in Pulls /\ u.pc = "pages" /\ u.got = t.got /\ u.after = t.after /\ u.ckpt = c
    <2>1. "pages" \in {"idle", "ckpt", "pages", "apply"}
        OBVIOUS
    <2> QED
        BY <1>3, <1>6, <1>7, <2>1, Zenon DEF Pulls
<1>9. Segment(<<>>, 1)
    BY LogFacts, EmptySeq DEF Segment
<1>10. PullOK(u, localHead[d])
    BY <1>6, <1>7, <1>8, <1>9 DEF PullOK
<1> QED
    BY <1>4, <1>5, <1>10, ReadStep

\* A transport error, or the app quits.
LEMMA PullFailInv ==
    ASSUME HistoryInv, PullInv, NEW d \in Readers, PullFail(d)
    PROVE  PullInv'
<1>1. PICK u : u = NoPull
    OBVIOUS
<1>2. PullOK(u, localHead[d])
    BY <1>1, NoPullOK
<1> QED
    BY <1>1, <1>2, ReadStep DEF PullFail

\* A page continues what was read: what ListCommits has after the cursor are the
\* commits that follow.
LEMMA PageFacts ==
    ASSUME HistoryInv, PullInv, NEW g \in Seq(CommitIds), Segment(g, 1), NEW x,
           x = IF g = <<>> THEN 0 ELSE serverSeq[log[Len(g)]]
    PROVE  LET p == Page(x)
               all == g \o p.commits
           IN  /\ p.commits \in Seq(CommitIds)
               /\ all \in Seq(CommitIds) /\ Segment(all, 1)
               /\ p.more => p.next \in Nat /\ all # <<>> /\ p.next = serverSeq[log[Len(all)]]
               /\ ~p.more => Len(all) = Len(log)
<1>1. PICK k : k = Len(g)
    OBVIOUS
<1>2. PICK n : n = Len(log)
    OBVIOUS
<1>3. PICK q : q = After(x)
    OBVIOUS
<1>4. PICK m : m = IF Len(q) > PageSize THEN PageSize ELSE Len(q)
    OBVIOUS
<1>5. PICK b : b = SubSeq(q, 1, m)
    OBVIOUS
<1>6. /\ n \in Nat /\ log \in Seq(CommitIds)
      /\ \A i \in 1 .. n : log[i] \in Rows /\ log[i] \in CommitIds /\ serverSeq[log[i]] \in Nat
      /\ \A i, j \in 1 .. n : serverSeq[log[i]] <= serverSeq[log[j]] => i <= j
      /\ \A c \in Rows : \E i \in 1 .. n : log[i] = c
    BY <1>2, LogFacts
<1>7. k \in 0 .. n /\ k \in Nat /\ (g = <<>> <=> k = 0) /\ \A i \in 1 .. k : g[i] = log[i]
    <2>1. k \in Nat /\ (g # <<>> => k # 0)
        BY <1>1, EmptySeq
    <2>2. k <= n /\ \A i \in 1 .. k : g[i] = log[1 - 1 + i]
        BY <1>1, <1>2, <1>6, <2>1 DEF Segment
    <2>3. g = <<>> => k = 0
        BY <1>1
    <2> QED
        BY <1>6, <2>1, <2>2, <2>3
<1>8. {c \in Rows : serverSeq[c] > x} = Later(k)
    <2>1. ASSUME NEW i \in 1 .. n PROVE serverSeq[log[i]] > x <=> i > k
        <3>1. serverSeq[log[i]] > 0 /\ serverSeq[log[i]] \in Nat
            BY <1>6, <2>1 DEF PullInv
        <3>2. CASE k = 0
            BY <1>7, <3>1, <3>2
        <3>3. CASE k # 0
            <4>1. k \in 1 .. n /\ x = serverSeq[log[k]] /\ x \in Nat
                BY <1>1, <1>6, <1>7, <3>3
            <4>2. (serverSeq[log[i]] <= x => i <= k) /\ (x <= serverSeq[log[i]] => k <= i)
                BY <1>6, <4>1
            <4>3. i = k => serverSeq[log[i]] = x
                BY <4>1
            <4> QED
                BY <1>7, <3>1, <4>1, <4>2, <4>3
        <3> QED
            BY <3>2, <3>3
    <2>2. \A c : c \in Later(k) <=> \E i \in 1 .. n : i > k /\ log[i] = c
        BY <1>2, <1>6, <1>7 DEF Later
    <2>3. \A c \in Rows : serverSeq[c] > x <=> c \in Later(k)
        <3> SUFFICES ASSUME NEW c \in Rows PROVE serverSeq[c] > x <=> c \in Later(k)
            OBVIOUS
        <3>1. PICK i \in 1 .. n : log[i] = c
            BY <1>6
        <3>2. \A j \in 1 .. n : log[j] = c => j = i
            BY <1>2, <3>1, LogFacts
        <3> QED
            BY <2>1, <2>2, <3>1, <3>2
    <2>4. \A c \in Later(k) : c \in Rows
        BY <1>6, <2>2
    <2> QED
        BY <2>3, <2>4
<1>9. q \in Seq(CommitIds) /\ Len(q) = n - k /\ \A i \in 1 .. n - k : q[i] = log[k + i]
    BY <1>2, <1>3, <1>7, <1>8, SortedIsLog DEF After
<1>10. m \in Nat /\ m <= n - k /\ PageSize \in Nat \ {0}
    BY <1>4, <1>6, <1>7, <1>9, CommitsAssumption
<1>11. b \in Seq(CommitIds) /\ Len(b) = m /\ \A i \in 1 .. m : b[i] = log[k + i]
    <2>1. \A i \in 1 .. m : q[i] \in CommitIds
        BY <1>6, <1>7, <1>9, <1>10
    <2>2. /\ b \in Seq(CommitIds) /\ Len(b) = IF 1 <= m THEN m - 1 + 1 ELSE 0
          /\ \A i \in 1 .. (m - 1 + 1) : b[i] = q[1 + i - 1]
        BY <1>5, <1>9, <1>10, <2>1, SubSeqProperties
    <2>3. Len(b) = m
        BY <1>10, <2>2
    <2>4. ASSUME NEW i \in 1 .. m PROVE b[i] = log[k + i]
        <3>1. i \in 1 .. (m - 1 + 1) /\ 1 + i - 1 = i /\ i \in 1 .. n - k
            BY <1>6, <1>7, <1>10
        <3> QED
            BY <1>9, <2>2, <3>1
    <2> QED
        BY <2>2, <2>3, <2>4
<1>12. PICK a : a = g \o b
    OBVIOUS
<1>13. a \in Seq(CommitIds) /\ Len(a) = k + m /\ \A i \in 1 .. k + m : a[i] = log[i]
    <2>1. /\ a \in Seq(CommitIds) /\ Len(a) = k + m
          /\ \A i \in 1 .. k + m : a[i] = IF i <= k THEN g[i] ELSE b[i - k]
        BY <1>1, <1>11, <1>12, ConcatProperties
    <2>2. ASSUME NEW i \in 1 .. k + m PROVE a[i] = log[i]
        <3>1. CASE i <= k
            BY <1>7, <2>1, <3>1
        <3>2. CASE ~(i <= k)
            <4>1. i - k \in 1 .. m /\ k + (i - k) = i
                BY <1>7, <1>10, <3>2
            <4>2. a[i] = b[i - k]
                BY <2>1, <3>2
            <4> QED
                BY <1>11, <4>1, <4>2
        <3> QED
            BY <3>1, <3>2
    <2> QED
        BY <2>1, <2>2
<1>14. Segment(a, 1)
    <2>1. 1 - 1 + Len(a) <= Len(log) /\ \A i \in 1 .. Len(a) : 1 - 1 + i = i
        BY <1>2, <1>6, <1>7, <1>10, <1>13
    <2> QED
        BY <1>13, <2>1 DEF Segment
<1>15. PICK more : more = (Len(q) > PageSize)
    OBVIOUS
<1>16. PICK next : next = IF b = <<>> THEN 0 ELSE serverSeq[Last(b)]
    OBVIOUS
<1>17. Page(x) = [commits |-> b, more |-> more, next |-> next]
    BY <1>3, <1>4, <1>5, <1>15, <1>16, Zenon DEF Page
<1>19. ASSUME more PROVE next \in Nat /\ a # <<>> /\ next = serverSeq[log[Len(a)]]
    <2>1. m = PageSize /\ m # 0 /\ Len(b) # 0
        BY <1>4, <1>10, <1>11, <1>15, <1>19
    <2>2. b # <<>> /\ Last(b) = log[k + m] /\ k + m \in 1 .. n
        BY <1>6, <1>7, <1>10, <1>11, <2>1 DEF Last
    <2>3. a # <<>>
        BY <1>7, <1>10, <1>13, <2>1
    <2> QED
        BY <1>6, <1>13, <1>16, <2>2, <2>3
<1>20. ASSUME ~more PROVE Len(a) = Len(log)
    <2>1. ~(Len(q) > PageSize)
        BY <1>15, <1>20
    <2>2. m = Len(q)
        BY <1>4, <2>1
    <2>3. k + m = n
        BY <1>6, <1>7, <1>9, <2>2
    <2> QED
        BY <1>2, <1>13, <2>3
<1>21. Page(x).commits = b /\ Page(x).more = more /\ Page(x).next = next
    BY <1>17
<1> QED
    BY <1>11, <1>12, <1>13, <1>14, <1>19, <1>20, <1>21

\* The end of what was read from the n-th commit on is a part of the history.
LEMMA EndOfSegment ==
    ASSUME HistoryInv, NEW g \in Seq(CommitIds), Segment(g, 1), NEW n \in 1 .. Len(g)
    PROVE  /\ SubSeq(g, n, Len(g)) \in Seq(CommitIds)
           /\ n \in 1 .. Len(log) /\ Segment(SubSeq(g, n, Len(g)), n)
<1>1. PICK b : b = SubSeq(g, n, Len(g))
    OBVIOUS
<1>2. /\ Len(g) \in Nat /\ Len(log) \in Nat /\ Len(g) <= Len(log)
      /\ \A i \in 1 .. Len(g) : g[i] = log[i] /\ g[i] \in CommitIds
    <2>1. Len(g) \in Nat /\ Len(log) \in Nat /\ \A i \in 1 .. Len(g) : g[i] \in CommitIds
        BY LogFacts
    <2>2. 1 - 1 + Len(g) <= Len(log) /\ \A i \in 1 .. Len(g) : g[i] = log[1 - 1 + i]
        BY DEF Segment
    <2>3. \A i \in 1 .. Len(g) : 1 - 1 + i = i
        BY <2>1
    <2> QED
        BY <2>1, <2>2, <2>3
<1>3. /\ b \in Seq(CommitIds) /\ Len(b) = IF n <= Len(g) THEN Len(g) - n + 1 ELSE 0
      /\ \A i \in 1 .. (Len(g) - n + 1) : b[i] = g[n + i - 1]
    <2>1. \A i \in n .. Len(g) : g[i] \in CommitIds
        BY <1>2
    <2> QED
        BY <1>1, <1>2, <2>1, SubSeqProperties
<1>4. Len(b) = Len(g) - n + 1
    BY <1>2, <1>3
<1>5. ASSUME NEW i \in 1 .. Len(b) PROVE b[i] = log[n - 1 + i]
    <2>1. i \in 1 .. (Len(g) - n + 1) /\ n + i - 1 = n - 1 + i /\ n - 1 + i \in 1 .. Len(g)
        BY <1>2, <1>4
    <2> QED
        BY <1>2, <1>3, <2>1
<1>6. n \in 1 .. Len(log) /\ n - 1 + Len(b) <= Len(log)
    BY <1>2, <1>4
<1> QED
    BY <1>1, <1>3, <1>5, <1>6 DEF Segment

\* The replay that select_replay_commits chooses follows the local head; a new
\* desktop's begins with the checkpoint that was read, or with the first commit.
LEMMA ReplayFacts ==
    ASSUME HistoryInv, NEW d, NEW g \in Seq(CommitIds), Segment(g, 1), Replay(d, g) # <<>>,
           pull[d].ckpt # None => commits[pull[d].ckpt].kind = "checkpoint"
    PROVE  /\ Replay(d, g) \in Seq(CommitIds)
           /\ \E i \in 1 .. Len(log) :
                /\ Segment(Replay(d, g), i)
                /\ IF localHead[d] = None THEN Beginning(i) ELSE i > 1 /\ localHead[d] = log[i - 1]
<1>1. PICK h : h = localHead[d]
    OBVIOUS
<1>2. PICK k : k = pull[d].ckpt
    OBVIOUS
<1>3. PICK from : from = IF h # None THEN h ELSE k
    OBVIOUS
<1>4. PICK start : start = IF from = None THEN 1 ELSE Position(g, from) + (IF h # None THEN 1 ELSE 0)
    OBVIOUS
<1>5. PICK r : r = SubSeq(g, start, Len(g))
    OBVIOUS
<1>6. Replay(d, g) = r /\ (from # None => Contains(g, from)) /\ g # <<>> /\ r # <<>>
    BY <1>1, <1>2, <1>3, <1>4, <1>5 DEF Replay
<1>7. Len(g) \in Nat \ {0} /\ Len(log) \in Nat
    BY <1>6, LogFacts, EmptySeq
<1>8. \A i \in 1 .. Len(g) : g[i] = log[i]
    <2>1. \A i \in 1 .. Len(g) : g[i] = log[1 - 1 + i] /\ 1 - 1 + i = i
        BY <1>7 DEF Segment
    <2> QED
        BY <2>1
<1>9. ASSUME from # None PROVE Position(g, from) \in 1 .. Len(g) /\ from = log[Position(g, from)]
    <2>1. \E i \in 1 .. Len(g) : g[i] = from
        BY <1>6, <1>9 DEF Contains
    <2>2. Position(g, from) \in 1 .. Len(g) /\ g[Position(g, from)] = from
        BY <2>1, Zenon DEF Position
    <2> QED
        BY <1>8, <2>2
<1>10. start \in Nat \ {0}
    BY <1>4, <1>7, <1>9
<1>11. start \in 1 .. Len(g)
    <2>1. CASE Len(g) < start
        <3>1. SubSeq(g, start, Len(g)) = <<>>
            BY <1>7, <1>10, <2>1, SubSeqEmpty
        <3> QED
            BY <1>5, <1>6, <3>1
    <2> QED
        BY <1>7, <1>10, <2>1
<1>12. r \in Seq(CommitIds) /\ start \in 1 .. Len(log) /\ Segment(r, start)
    BY <1>5, <1>11, EndOfSegment
<1>13. IF h = None THEN Beginning(start) ELSE start > 1 /\ h = log[start - 1]
    <2>1. CASE h # None
        <3>1. from = h /\ from # None
            BY <1>3, <2>1
        <3>2. start = Position(g, h) + 1 /\ Position(g, h) \in 1 .. Len(g) /\ h = log[Position(g, h)]
            BY <1>4, <1>9, <2>1, <3>1
        <3>3. start > 1 /\ start - 1 = Position(g, h)
            BY <3>2, <1>7
        <3> QED
            BY <2>1, <3>2, <3>3
    <2>2. CASE h = None /\ k = None
        <3>1. start = 1
            BY <1>3, <1>4, <2>2
        <3> QED
            BY <2>2, <3>1 DEF Beginning
    <2>3. CASE h = None /\ k # None
        <3>1. start = Position(g, k) + 0 /\ Position(g, k) \in 1 .. Len(g) /\ k = log[Position(g, k)]
            BY <1>3, <1>4, <1>9, <2>3
        <3>2. start = Position(g, k)
            BY <1>7, <3>1
        <3>3. commits[k].kind = "checkpoint"
            BY <1>2, <2>3
        <3> QED
            BY <2>3, <3>1, <3>2, <3>3 DEF Beginning
    <2> QED
        BY <2>1, <2>2, <2>3
<1> QED
    BY <1>1, <1>6, <1>12, <1>13

\* ListCommits continues the pages, or the replay is selected, or the pull fails.
LEMMA PullPageInv ==
    ASSUME HistoryInv, PullInv, NEW d \in Readers, PullPage(d)
    PROVE  PullInv'
<1>1. PICK t : t = pull[d]
    OBVIOUS
<1>2. PICK p : p = Page(t.after)
    OBVIOUS
<1>3. PICK got : got = t.got \o p.commits
    OBVIOUS
<1>4. PICK replay : replay = Replay(d, got)
    OBVIOUS
<1>5. /\ t.pc = "pages" /\ UNCHANGED <<wsLive, tableVars, nextSeq, active, avail, req, localHead, applied>>
    BY <1>1 DEF PullPage
<1>6. \E u : /\ pull' = [pull EXCEPT ![d] = u]
             /\ \/ u = NoPull
                \/ p.more /\ u = [t EXCEPT !.after = p.next, !.got = got]
                \/ /\ ~p.more /\ replay # <<>>
                   /\ u = [t EXCEPT !.pc = "apply", !.after = 0, !.got = <<>>, !.replay = replay]
    <2>1. PICK ordered : ordered = \A i \in 1 .. Len(got) - 1 : serverSeq[got[i]] < serverSeq[got[i + 1]]
        OBVIOUS
    <2>2. PICK u : u = IF ~ordered \/ (p.more /\ p.next <= t.after) THEN NoPull
              ELSE IF p.more THEN [t EXCEPT !.after = p.next, !.got = got]
              ELSE IF replay = <<>> THEN NoPull
              ELSE [t EXCEPT !.pc = "apply", !.after = 0, !.got = <<>>, !.replay = replay]
        OBVIOUS
    <2>3. pull' = [pull EXCEPT ![d] = u]
        BY <1>1, <1>2, <1>3, <1>4, <2>1, <2>2, Zenon DEF PullPage
    <2>4. \/ u = NoPull
          \/ p.more /\ u = [t EXCEPT !.after = p.next, !.got = got]
          \/ /\ ~p.more /\ replay # <<>>
             /\ u = [t EXCEPT !.pc = "apply", !.after = 0, !.got = <<>>, !.replay = replay]
        BY <2>2, Zenon
    <2> QED
        BY <2>3, <2>4
<1>7. PICK u : /\ pull' = [pull EXCEPT ![d] = u]
               /\ \/ u = NoPull
                  \/ p.more /\ u = [t EXCEPT !.after = p.next, !.got = got]
                  \/ /\ ~p.more /\ replay # <<>>
                     /\ u = [t EXCEPT !.pc = "apply", !.after = 0, !.got = <<>>, !.replay = replay]
    BY <1>6
<1>8. PICK g : g = t.got
    OBVIOUS
<1>9. /\ t \in Pulls /\ g \in Seq(CommitIds) /\ Segment(g, 1)
      /\ t.after = IF g = <<>> THEN 0 ELSE serverSeq[log[Len(g)]]
      /\ t.ckpt # None => commits[t.ckpt].kind = "checkpoint"
      /\ t.ckpt # None => t.ckpt \in Rows
    BY <1>1, <1>5, <1>8 DEF PullInv, ReaderOK, PullOK, Pulls
<1>10. /\ got \in Seq(CommitIds) /\ Segment(got, 1)
       /\ p.more => p.next \in Nat /\ got # <<>> /\ p.next = serverSeq[log[Len(got)]]
       /\ ~p.more => Len(got) = Len(log)
    <2>1. PICK x : x = t.after
        OBVIOUS
    <2>2. x = IF g = <<>> THEN 0 ELSE serverSeq[log[Len(g)]]
        BY <1>9, <2>1
    <2> QED
        BY <1>2, <1>3, <1>8, <1>9, <2>1, <2>2, PageFacts
<1>11. CASE u = NoPull
    <2>1. PullOK(u, localHead[d])
        BY <1>11, NoPullOK
    <2> QED
        BY <1>5, <1>7, <2>1, ReadStep
<1>12. CASE p.more /\ u = [t EXCEPT !.after = p.next, !.got = got]
    <2>1. PICK next : next = p.next
        OBVIOUS
    <2>2. u = [t EXCEPT !.after = next, !.got = got] /\ next \in Nat
        BY <1>10, <1>12, <2>1
    <2>3. u \in Pulls /\ u.pc = t.pc /\ u.after = next /\ u.got = got /\ u.ckpt = t.ckpt
        BY <1>9, <1>10, <2>2, Zenon DEF Pulls
    <2>4. next = IF got = <<>> THEN 0 ELSE serverSeq[log[Len(got)]]
        BY <1>10, <1>12, <2>1
    <2>5. PullOK(u, localHead[d])
        BY <1>5, <1>9, <1>10, <2>3, <2>4 DEF PullOK
    <2> QED
        BY <1>5, <1>7, <2>5, ReadStep
<1>13. CASE /\ ~p.more /\ replay # <<>>
            /\ u = [t EXCEPT !.pc = "apply", !.after = 0, !.got = <<>>, !.replay = replay]
    <2>1. /\ replay \in Seq(CommitIds)
          /\ \E i \in 1 .. Len(log) :
                /\ Segment(replay, i)
                /\ IF localHead[d] = None THEN Beginning(i) ELSE i > 1 /\ localHead[d] = log[i - 1]
        <3>1. Replay(d, got) # <<>> /\ (pull[d].ckpt # None => commits[pull[d].ckpt].kind = "checkpoint")
            BY <1>1, <1>4, <1>9, <1>13
        <3> QED
            BY <1>4, <1>10, <3>1, ReplayFacts
    <2>2. u \in Pulls /\ u.pc = "apply" /\ u.replay = replay
        <3>1. "apply" \in {"idle", "ckpt", "pages", "apply"} /\ 0 \in Nat /\ <<>> \in Seq(CommitIds)
            BY EmptySeq
        <3> QED
            BY <1>9, <1>13, <2>1, <3>1, Zenon DEF Pulls
    <2>3. PullOK(u, localHead[d])
        BY <1>13, <2>1, <2>2 DEF PullOK
    <2> QED
        BY <1>5, <1>7, <2>3, ReadStep
<1> QED
    BY <1>7, <1>11, <1>12, <1>13

\* A part of the history and the commit that follows it.
LEMMA SegmentGrows ==
    ASSUME HistoryInv, NEW a \in Seq(CommitIds), NEW e \in 1 .. Len(log), Segment(a, e),
           e + Len(a) \in 1 .. Len(log)
    PROVE  LET b == Append(a, log[e + Len(a)])
           IN  /\ b \in Seq(CommitIds) /\ b # <<>> /\ Segment(b, e)
               /\ log[e + Len(a)] = log[e - 1 + Len(b)]
<1>1. PICK n : n = Len(a)
    OBVIOUS
<1>2. PICK c : c = log[e + n]
    OBVIOUS
<1>3. PICK b : b = Append(a, c)
    OBVIOUS
<1>4. n \in Nat /\ Len(log) \in Nat /\ c \in CommitIds
    BY <1>1, <1>2, LogFacts
<1>5. b \in Seq(CommitIds) /\ Len(b) = n + 1 /\ b[n + 1] = c /\ \A k \in 1 .. n : b[k] = a[k]
    BY <1>1, <1>3, <1>4, AppendProperties
<1>6. e - 1 + Len(b) = e + n /\ e + n <= Len(log) /\ Len(b) # 0
    BY <1>1, <1>4, <1>5
<1>7. ASSUME NEW k \in 1 .. Len(b) PROVE b[k] = log[e - 1 + k]
    <2>1. CASE k = n + 1
        <3>1. e - 1 + k = e + n
            BY <1>4, <2>1
        <3> QED
            BY <1>2, <1>5, <2>1, <3>1
    <2>2. CASE k # n + 1
        <3>1. k \in 1 .. n
            BY <1>4, <1>5, <2>2
        <3> QED
            BY <1>1, <1>5, <3>1 DEF Segment
    <2> QED
        BY <2>1, <2>2
<1>8. b # <<>>
    BY <1>5, <1>6
<1> QED
    BY <1>1, <1>2, <1>3, <1>4, <1>5, <1>6, <1>7, <1>8 DEF Segment

\* The next commit of the replay follows the last one applied.
LEMMA PullApplyInv ==
    ASSUME HistoryInv, PullInv, NEW d \in Readers, PullApply(d)
    PROVE  PullInv'
<1>1. PICK t : t = pull[d]
    OBVIOUS
<1>2. PICK r : r = t.replay
    OBVIOUS
<1>3. PICK h : h = localHead[d]
    OBVIOUS
<1>4. PICK a : a = applied[d]
    OBVIOUS
<1>5. PICK c : c = Head(r)
    OBVIOUS
<1>6. PICK rest : rest = Tail(r)
    OBVIOUS
<1>7. PICK u : u = IF rest = <<>> THEN NoPull ELSE [t EXCEPT !.replay = rest]
    OBVIOUS
<1>8. PICK b : b = Append(a, c)
    OBVIOUS
<1>9. /\ t.pc = "apply" /\ UNCHANGED <<wsLive, tableVars, nextSeq, active, avail, req>>
      /\ pull' = [pull EXCEPT ![d] = u] /\ localHead' = [localHead EXCEPT ![d] = c]
      /\ applied' = [applied EXCEPT ![d] = b]
    BY <1>1, <1>2, <1>4, <1>5, <1>6, <1>7, <1>8, Zenon DEF PullApply
<1>10. PullOK(t, h) /\ AppliedOK(h, a)
    BY <1>1, <1>3, <1>4 DEF PullInv, ReaderOK
<1>11. t \in Pulls /\ r \in Seq(CommitIds) /\ r # <<>>
    BY <1>2, <1>9, <1>10 DEF PullOK, Pulls
<1>12. PICK i \in 1 .. Len(log) :
          Segment(r, i) /\ IF h = None THEN Beginning(i) ELSE i > 1 /\ h = log[i - 1]
    BY <1>2, <1>9, <1>10 DEF PullOK
<1>13. /\ Len(log) \in Nat /\ \A j \in 1 .. Len(log) : log[j] \in CommitIds
       /\ \A j, k \in 1 .. Len(log) : log[j] = log[k] => j = k
    BY LogFacts
<1>14. Len(r) \in Nat \ {0} /\ i - 1 + Len(r) <= Len(log) /\ \A k \in 1 .. Len(r) : r[k] = log[i - 1 + k]
    BY <1>11, <1>12, EmptySeq DEF Segment
<1>15. c = log[i] /\ c \in CommitIds /\ c # None
    <2>1. c = r[1]
        BY <1>5, <1>11, HeadTailProperties
    <2>2. 1 \in 1 .. Len(r) /\ i - 1 + 1 = i
        BY <1>14
    <2>3. r[1] = log[i]
        BY <1>14, <2>2
    <2> QED
        BY <1>13, <2>1, <2>3, CommitsAssumption
<1>16. rest \in Seq(CommitIds) /\ Len(rest) = Len(r) - 1 /\ \A k \in 1 .. Len(rest) : rest[k] = r[k + 1]
    BY <1>6, <1>11, HeadTailProperties
<1>17. Segment(rest, i + 1) /\ (rest # <<>> => i + 1 \in 1 .. Len(log))
    <2>1. i + 1 - 1 + Len(rest) <= Len(log) /\ i + 1 \in Nat /\ i + 1 >= 1
        BY <1>13, <1>14, <1>16
    <2>2. ASSUME NEW k \in 1 .. Len(rest) PROVE rest[k] = log[i + 1 - 1 + k]
        <3>1. k + 1 \in 1 .. Len(r) /\ i - 1 + (k + 1) = i + 1 - 1 + k
            BY <1>14, <1>16
        <3> QED
            BY <1>14, <1>16, <3>1
    <2>3. rest # <<>> => Len(rest) # 0
        BY <1>16, EmptySeq
    <2>4. Segment(rest, i + 1)
        BY <2>1, <2>2 DEF Segment
    <2>5. ASSUME rest # <<>> PROVE i + 1 \in 1 .. Len(log)
        <3>1. Len(rest) \in Nat \ {0}
            BY <1>14, <1>16, <2>3, <2>5
        <3> QED
            BY <1>13, <2>1, <3>1
    <2> QED
        BY <2>4, <2>5
<1>18. PullOK(u, c)
    <2>1. CASE rest = <<>>
        BY <1>7, <2>1, NoPullOK
    <2>2. CASE rest # <<>>
        <3>1. u = [t EXCEPT !.replay = rest]
            BY <1>7, <2>2
        <3>2. u \in Pulls /\ u.pc = t.pc /\ u.replay = rest
            BY <1>11, <1>16, <3>1, Zenon DEF Pulls
        <3>3. i + 1 > 1 /\ i + 1 - 1 = i
            BY <1>13
        <3>4. \E k \in 1 .. Len(log) : Segment(rest, k) /\ IF c = None THEN Beginning(k) ELSE k > 1 /\ c = log[k - 1]
            BY <1>15, <1>17, <2>2, <3>3
        <3> QED
            BY <1>9, <2>2, <3>2, <3>4 DEF PullOK
    <2> QED
        BY <2>1, <2>2
<1>19. a \in Seq(CommitIds) /\ (h = None <=> a = <<>>) /\ Len(a) \in Nat
    BY <1>10 DEF AppliedOK
<1>20. \E e \in 1 .. Len(log) : Segment(a, e) /\ Beginning(e) /\ e + Len(a) = i
    <2>1. CASE h = None
        <3>1. Segment(a, i) /\ i + Len(a) = i
            <4>1. Len(a) = 0
                BY <1>19, <2>1
            <4> QED
                BY <1>13, <4>1 DEF Segment
        <3> QED
            BY <1>12, <2>1, <3>1
    <2>2. CASE h # None
        <3>1. PICK e \in 1 .. Len(log) : Segment(a, e) /\ Beginning(e) /\ h = log[e - 1 + Len(a)]
            BY <1>10, <1>19, <2>2 DEF AppliedOK
        <3>2. i > 1 /\ h = log[i - 1]
            BY <1>12, <2>2
        <3>3. e - 1 + Len(a) \in 1 .. Len(log) /\ i - 1 \in 1 .. Len(log)
            <4>1. Len(a) # 0
                BY <1>19, <2>2, EmptySeq
            <4>2. e - 1 + Len(a) <= Len(log)
                BY <3>1 DEF Segment
            <4> QED
                BY <1>13, <1>19, <3>2, <4>1, <4>2
        <3>4. e - 1 + Len(a) = i - 1
            BY <1>13, <3>1, <3>2, <3>3
        <3>5. e + Len(a) = i
            BY <1>13, <1>19, <3>4
        <3> QED
            BY <3>1, <3>5
    <2> QED
        BY <2>1, <2>2
<1>21. PICK e \in 1 .. Len(log) : Segment(a, e) /\ Beginning(e) /\ e + Len(a) = i
    BY <1>20
<1>22. b \in Seq(CommitIds) /\ b # <<>> /\ Segment(b, e) /\ c = log[e - 1 + Len(b)]
    <2>1. e + Len(a) \in 1 .. Len(log) /\ c = log[e + Len(a)]
        BY <1>15, <1>21
    <2> QED
        BY <1>8, <1>19, <1>21, <2>1, SegmentGrows
<1>23. AppliedOK(c, b)
    BY <1>15, <1>21, <1>22 DEF AppliedOK, CommitRefs
<1> QED
    BY <1>9, <1>18, <1>23, ReaderStep

\* A step that is no reader's keeps the invariant.
LEMMA ServerInv ==
    ASSUME HistoryInv, HistoryInv', PullInv, [Next]_vars, UNCHANGED readVars
    PROVE  PullInv'
<1>1. Len(log') \in Nat
    BY DEF HistoryInv, ServerTypeOK
<1>2. /\ Len(log) <= Len(log') /\ \A i \in 1 .. Len(log) : log'[i] = log[i]
      /\ \A c \in Rows : commits'[c] = commits[c] /\ serverSeq'[c] = serverSeq[c]
    BY NextAppendOnly
<1>3. \A c \in Rows : c \in Rows'
    BY <1>2 DEF Rows
<1>4. HistoryGrows
    BY <1>1, <1>2, <1>3 DEF HistoryGrows
<1>5. \A c \in Rows' : serverSeq'[c] > 0
    <2>1. CASE UNCHANGED <<commits, serverSeq>>
        BY <2>1 DEF PullInv, Rows
    <2>2. CASE \E r \in Requests : PublishLocked(r) /\ ~UNCHANGED <<commits, serverSeq>>
        <3>1. PICK r \in Requests : PublishLocked(r) /\ ~UNCHANGED <<commits, serverSeq>>
            BY <2>2
        <3>2. PICK p : p = req[r].p
            OBVIOUS
        <3>3. p \in Params /\ commits[p.id] = None /\ InsertCommit(p)
            <4>1. \/ wsLive /\ FreshUnderLock(p) /\ HeadMatches(p) /\ Acceptable(p) /\ InsertCommit(p)
                  \/ UNCHANGED tableVars
                BY <3>1, <3>2 DEF PublishLocked
            <4>2. InsertCommit(p) /\ FreshUnderLock(p)
                BY <3>1, <4>1 DEF tableVars
            <4>3. p \in Params
                BY <3>1, <3>2, LockedCases
            <4> QED
                BY <4>2, <4>3 DEF FreshUnderLock
        <3>4. /\ Rows' = Rows \cup {p.id} /\ serverSeq'[p.id] = nextSeq
              /\ \A c \in Rows : serverSeq'[c] = serverSeq[c]
            BY <3>3, InsertFacts
        <3>5. nextSeq > 0
            BY DEF HistoryInv, ServerTypeOK
        <3> QED
            BY <3>4, <3>5 DEF PullInv
    <2>3. UNCHANGED <<commits, serverSeq>> \/ \E r \in Requests : PublishLocked(r)
        BY DEF Next, SkipServerSeq, RegisterDevice, ObjectAvailable, DeleteWorkspace, PullHead, tableVars,
               PullCheckpoint, PullPage, PullApply, PullFail, vars, PublishAuthorize, PublishLookup,
               PublishAbort, PublishReturn
    <2> QED
        BY <2>1, <2>2, <2>3
<1> QED
    BY <1>4, <1>5, ServerStep

\* No reader has begun.
LEMMA InitPull == Init => PullInv
<1> SUFFICES ASSUME Init PROVE PullInv
    OBVIOUS
<1>1. Rows = {}
    BY DEF Init, Rows
<1>2. NoPull \in Pulls /\ None \in CommitRefs /\ <<>> \in Seq(CommitIds)
    BY NoPullOK, EmptySeq DEF PullOK, CommitRefs
<1>3. /\ pull \in [Readers -> Pulls] /\ localHead \in [Readers -> CommitRefs]
      /\ applied \in [Readers -> Seq(CommitIds)]
      /\ \A d \in Readers : pull[d] = NoPull /\ localHead[d] = None /\ applied[d] = <<>>
    BY <1>2 DEF Init
<1>4. PullOK(NoPull, None) /\ AppliedOK(None, <<>>)
    BY <1>2, NoPullOK DEF AppliedOK
<1>5. \A d \in Readers : ReaderOK(d)
    BY <1>3, <1>4 DEF ReaderOK
<1> QED
    BY <1>1, <1>3, <1>5 DEF PullInv

\* Every step keeps the invariant of the readers.
LEMMA NextPull == HistoryInv /\ HistoryInv' /\ PullInv /\ [Next]_vars => PullInv'
<1> SUFFICES ASSUME HistoryInv, HistoryInv', PullInv, [Next]_vars PROVE PullInv'
    OBVIOUS
<1>1. CASE UNCHANGED readVars
    BY <1>1, ServerInv
<1>2. CASE \E d \in Readers : PullHead(d) \/ PullCheckpoint(d) \/ PullPage(d) \/ PullApply(d) \/ PullFail(d)
    BY <1>2, PullHeadInv, PullCheckpointInv, PullPageInv, PullApplyInv, PullFailInv
<1>3. \/ UNCHANGED readVars
      \/ \E d \in Readers : PullHead(d) \/ PullCheckpoint(d) \/ PullPage(d) \/ PullApply(d) \/ PullFail(d)
    BY DEF Next, SkipServerSeq, RegisterDevice, ObjectAvailable, DeleteWorkspace, vars,
           PublishAuthorize, PublishLookup, PublishLocked, PublishAbort, PublishReturn
<1> QED
    BY <1>1, <1>2, <1>3

\* The readers' inductive invariant, on top of the server's: what a pull has
\* read and will replay are parts of the history.
THEOREM PullInvariant == Spec => [](HistoryInv /\ PullInv)
<1>1. Init => HistoryInv /\ PullInv
    BY InitHistory, InitPull
<1>2. HistoryInv /\ PullInv /\ [Next]_vars => HistoryInv' /\ PullInv'
    BY NextHistory, NextPull
<1> QED
    BY <1>1, <1>2, PTL DEF Spec

\* Type correctness of the tables, the calls and the pulls.
THEOREM CommitsTypeOK == Spec => []TypeOK
<1>1. HistoryInv /\ PullInv => TypeOK
    BY DEF HistoryInv, PullInv, TypeOK, Pulls
<1> QED
    BY <1>1, PullInvariant, PTL

\* However pages and publishes interleave, a desktop applies a gapless run of
\* the history, from its beginning or a checkpoint, and its local head is the
\* last commit of it.
THEOREM ReplayIsSegmentAlways == Spec => []ReplayIsSegment
<1>1. ASSUME HistoryInv, PullInv PROVE ReplayIsSegment
    <2> SUFFICES ASSUME NEW d \in Readers, applied[d] # <<>>
                 PROVE  /\ localHead[d] = Last(applied[d])
                        /\ \E i \in 1 .. Len(log) :
                            /\ i + Len(applied[d]) - 1 <= Len(log)
                            /\ applied[d] = SubSeq(log, i, i + Len(applied[d]) - 1)
                            /\ i > 1 => commits[applied[d][1]].kind = "checkpoint"
        BY DEF ReplayIsSegment
    <2>1. PICK a : a = applied[d]
        OBVIOUS
    <2>2. PICK i \in 1 .. Len(log) : Segment(a, i) /\ Beginning(i) /\ localHead[d] = log[i - 1 + Len(a)]
        BY <1>1, <2>1 DEF PullInv, ReaderOK, AppliedOK
    <2>3. /\ a \in Seq(CommitIds) /\ Len(a) \in Nat \ {0} /\ Len(log) \in Nat
          /\ \A k \in 1 .. Len(log) : log[k] \in CommitIds
        BY <1>1, <2>1, LogFacts, EmptySeq DEF PullInv
    <2>4. i - 1 + Len(a) <= Len(log) /\ \A k \in 1 .. Len(a) : a[k] = log[i - 1 + k]
        BY <2>2 DEF Segment
    <2>5. localHead[d] = Last(a)
        BY <2>2, <2>3, <2>4 DEF Last
    <2>6. PICK e : e = i + Len(a) - 1
        OBVIOUS
    <2>7. e \in Int /\ e <= Len(log) /\ i <= e /\ e - i + 1 = Len(a)
        BY <2>3, <2>4, <2>6
    <2>8. PICK s : s = SubSeq(log, i, e)
        OBVIOUS
    <2>9. s \in Seq(CommitIds) /\ Len(s) = Len(a) /\ \A k \in 1 .. Len(a) : s[k] = log[i + k - 1]
        <3>1. \A k \in i .. e : log[k] \in CommitIds
            BY <2>3, <2>7
        <3>2. /\ s \in Seq(CommitIds) /\ Len(s) = IF i <= e THEN e - i + 1 ELSE 0
              /\ \A k \in 1 .. (e - i + 1) : s[k] = log[i + k - 1]
            BY <2>7, <2>8, <3>1, SubSeqProperties
        <3> QED
            BY <2>7, <3>2
    <2>10. ASSUME NEW k \in 1 .. Len(a) PROVE a[k] = s[k]
        <3>1. i + k - 1 = i - 1 + k
            BY <2>3
        <3> QED
            BY <2>4, <2>9, <3>1
    <2>11. a = s
        BY <2>3, <2>9, <2>10, SeqEqual
    <2>12. i > 1 => commits[a[1]].kind = "checkpoint"
        <3>1. 1 \in 1 .. Len(a) /\ i - 1 + 1 = i
            BY <2>3
        <3>2. a[1] = log[i]
            BY <2>4, <3>1
        <3> QED
            BY <2>2, <3>2 DEF Beginning
    <2> QED
        BY <2>1, <2>5, <2>6, <2>7, <2>8, <2>11, <2>12
<1> QED
    BY <1>1, PullInvariant, PTL

-----------------------------------------------------------------------------
(* Garbage collection's view of the history.                               *)

\* visitReachableCommits begins with the head and adds the parents.
HeadRow == {head} \cap Rows
WithParents(S) == S \cup ((UNION {commits[c].parents : c \in S}) \cap Rows)

\* The first m rounds.
Rounds(f, m) == f = [n \in 0 .. m |-> IF n = 0 THEN HeadRow ELSE WithParents(f[n - 1])]

\* Two of them agree.
LEMMA RoundsUnique ==
    ASSUME NEW m \in Nat, NEW k \in Nat, NEW f, NEW g, Rounds(f, m), Rounds(g, k)
    PROVE  \A n \in Nat : n <= m /\ n <= k => f[n] = g[n]
<1>1. PICK T : T = {n \in Nat : n <= m /\ n <= k /\ f[n] # g[n]}
    OBVIOUS
<1>2. ASSUME T # {} PROVE FALSE
    <2>1. PICK x \in T : \A y \in T : x <= y
        BY <1>1, <1>2, LeastNatural
    <2>2. x \in Nat /\ x <= m /\ x <= k /\ f[x] # g[x]
        BY <1>1
    <2>3. /\ f[x] = IF x = 0 THEN HeadRow ELSE WithParents(f[x - 1])
          /\ g[x] = IF x = 0 THEN HeadRow ELSE WithParents(g[x - 1])
        <3>1. x \in 0 .. m /\ x \in 0 .. k
            BY <2>2
        <3> QED
            BY <3>1, Zenon DEF Rounds
    <2>4. x # 0
        BY <2>2, <2>3
    <2>5. x - 1 \in Nat /\ x - 1 <= m /\ x - 1 <= k /\ x - 1 \notin T
        BY <2>1, <2>2, <2>4
    <2>6. f[x - 1] = g[x - 1]
        BY <1>1, <2>5
    <2> QED
        BY <2>2, <2>3, <2>4, <2>6
<1> QED
    BY <1>1, <1>2

\* They exist for every number.
LEMMA RoundsExist == \A m \in Nat : \E f : Rounds(f, m)
<1>1. PICK T : T = {m \in Nat : ~\E f : Rounds(f, m)}
    OBVIOUS
<1>2. ASSUME T # {} PROVE FALSE
    <2>1. PICK x \in T : \A y \in T : x <= y
        BY <1>1, <1>2, LeastNatural
    <2>2. x \in Nat /\ ~\E f : Rounds(f, x)
        BY <1>1
    <2>3. x # 0
        <3>1. ASSUME x = 0 PROVE FALSE
            <4>1. PICK f : f = [n \in 0 .. 0 |-> HeadRow]
                OBVIOUS
            <4>2. Rounds(f, 0)
                BY <4>1 DEF Rounds
            <4> QED
                BY <2>2, <3>1, <4>2
        <3> QED
            BY <3>1
    <2>4. x - 1 \in Nat /\ x - 1 \notin T
        BY <2>1, <2>2, <2>3
    <2>5. PICK f : Rounds(f, x - 1)
        BY <1>1, <2>4
    <2>6. PICK a : a = WithParents(f[x - 1])
        OBVIOUS
    <2>7. PICK g : g = [n \in 0 .. x |-> IF n = x THEN a ELSE f[n]]
        OBVIOUS
    <2>8. \A n \in 0 .. x : g[n] = IF n = 0 THEN HeadRow ELSE WithParents(g[n - 1])
        <3> SUFFICES ASSUME NEW n \in 0 .. x PROVE g[n] = IF n = 0 THEN HeadRow ELSE WithParents(g[n - 1])
            OBVIOUS
        <3>1. CASE n = x
            <4>1. x - 1 \in 0 .. x /\ x - 1 # x
                BY <2>2, <2>3
            <4>2. g[n - 1] = f[x - 1] /\ g[n] = a
                BY <2>7, <3>1, <4>1
            <4> QED
                BY <2>3, <2>6, <3>1, <4>2
        <3>2. CASE n # x
            <4>1. n \in 0 .. (x - 1) /\ (n # 0 => n - 1 \in 0 .. x /\ n - 1 # x)
                BY <2>2, <3>2
            <4>2. f[n] = IF n = 0 THEN HeadRow ELSE WithParents(f[n - 1])
                BY <2>5, <4>1, Zenon DEF Rounds
            <4>3. g[n] = f[n] /\ (n # 0 => g[n - 1] = f[n - 1])
                BY <2>7, <3>2, <4>1
            <4> QED
                BY <4>2, <4>3
        <3> QED
            BY <3>1, <3>2
    <2>9. Rounds(g, x)
        BY <2>7, <2>8 DEF Rounds
    <2> QED
        BY <2>2, <2>9
<1> QED
    BY <1>1, <1>2

\* The recursion is well-defined.
LEMMA ReachDefined == \A n \in Nat : Reach[n] = IF n = 0 THEN HeadRow ELSE WithParents(Reach[n - 1])
<1>1. PICK g : g = [m \in Nat |-> (CHOOSE f : Rounds(f, m))[m]]
    OBVIOUS
<1>2. \A m \in Nat : Rounds(CHOOSE f : Rounds(f, m), m)
    BY RoundsExist, Zenon
<1>3. \A n \in Nat : g[n] = IF n = 0 THEN HeadRow ELSE WithParents(g[n - 1])
    <2> SUFFICES ASSUME NEW n \in Nat PROVE g[n] = IF n = 0 THEN HeadRow ELSE WithParents(g[n - 1])
        OBVIOUS
    <2>1. PICK f : f = CHOOSE h : Rounds(h, n)
        OBVIOUS
    <2>2. Rounds(f, n) /\ g[n] = f[n]
        BY <1>1, <1>2, <2>1, Zenon
    <2>3. n \in 0 .. n
        OBVIOUS
    <2>4. f[n] = IF n = 0 THEN HeadRow ELSE WithParents(f[n - 1])
        BY <2>2, <2>3, Zenon DEF Rounds
    <2>5. ASSUME n # 0 PROVE f[n - 1] = g[n - 1]
        <3>1. PICK e : e = CHOOSE h : Rounds(h, n - 1)
            OBVIOUS
        <3>2. n - 1 \in Nat
            BY <2>5
        <3>3. Rounds(e, n - 1) /\ g[n - 1] = e[n - 1]
            BY <1>1, <1>2, <3>1, <3>2, Zenon
        <3>4. f[n - 1] = e[n - 1]
            BY <2>2, <3>2, <3>3, RoundsUnique
        <3> QED
            BY <3>3, <3>4
    <2> QED
        BY <2>2, <2>4, <2>5
<1>4. g = [n \in Nat |-> IF n = 0 THEN HeadRow ELSE WithParents(g[n - 1])]
    BY <1>1, <1>3
<1>5. Reach = [n \in Nat |-> IF n = 0 THEN HeadRow ELSE WithParents(Reach[n - 1])]
    BY <1>4, Zenon DEF Reach, HeadRow, WithParents
<1> QED
    BY <1>5, Zenon

\* n parents away from the head are the last n + 1 commits at least.
LEMMA ReachCovers ==
    ASSUME HistoryInv, NEW n \in Nat
    PROVE  /\ Reach[n] \subseteq Rows
           /\ \A j \in 1 .. Len(log) : j + n >= Len(log) => log[j] \in Reach[n]
<1>1. /\ Len(log) \in Nat /\ \A j \in 1 .. Len(log) : log[j] \in Rows
    BY LogFacts
<1>2. PICK T : T = {x \in Nat : ~(/\ Reach[x] \subseteq Rows
                                 /\ \A j \in 1 .. Len(log) : j + x >= Len(log) => log[j] \in Reach[x])}
    OBVIOUS
<1>3. ASSUME T # {} PROVE FALSE
    <2>1. PICK x \in T : \A y \in T : x <= y
        BY <1>2, <1>3, LeastNatural
    <2>2. x \in Nat /\ ~(/\ Reach[x] \subseteq Rows
                         /\ \A j \in 1 .. Len(log) : j + x >= Len(log) => log[j] \in Reach[x])
        BY <1>2
    <2>3. CASE x = 0
        <3>1. Reach[x] = HeadRow
            BY <2>2, <2>3, ReachDefined
        <3>2. ASSUME NEW j \in 1 .. Len(log), j + x >= Len(log) PROVE log[j] \in Reach[x]
            <4>1. j = Len(log) /\ Len(log) # 0
                BY <1>1, <2>3, <3>2
            <4>2. head = log[j]
                <5>1. Len(log) + 1 # 1 /\ Len(log) + 1 - 1 = Len(log)
                    BY <1>1, <4>1
                <5> QED
                    BY <4>1, <5>1 DEF HistoryInv, HistoryLinear, Expected
            <4> QED
                BY <1>1, <3>1, <4>2 DEF HeadRow
        <3> QED
            BY <2>2, <3>1, <3>2 DEF HeadRow
    <2>4. CASE x # 0
        <3>1. PICK R : R = Reach[x - 1]
            OBVIOUS
        <3>2. Reach[x] = WithParents(R)
            BY <2>2, <2>4, <3>1, ReachDefined
        <3>3. x - 1 \in Nat /\ x - 1 \notin T
            BY <2>1, <2>2, <2>4
        <3>4. R \subseteq Rows /\ \A j \in 1 .. Len(log) : j + (x - 1) >= Len(log) => log[j] \in R
            BY <1>2, <3>1, <3>3
        <3>5. ASSUME NEW j \in 1 .. Len(log), j + x >= Len(log) PROVE log[j] \in Reach[x]
            <4>1. CASE j + (x - 1) >= Len(log)
                BY <3>2, <3>4, <4>1 DEF WithParents
            <4>2. CASE ~(j + (x - 1) >= Len(log))
                <5>1. j + 1 \in 1 .. Len(log) /\ (j + 1) + (x - 1) >= Len(log) /\ j + 1 > 1 /\ j + 1 - 1 = j
                    BY <1>1, <2>2, <2>4, <3>5, <4>2
                <5>2. log[j + 1] \in R
                    BY <3>4, <5>1
                <5>3. log[j] \in commits[log[j + 1]].parents
                    BY <5>1 DEF HistoryInv, ParentsEarlier
                <5>4. log[j] \in UNION {commits[c].parents : c \in R}
                    BY <5>2, <5>3
                <5> QED
                    BY <1>1, <3>2, <5>4 DEF WithParents
            <4> QED
                BY <4>1, <4>2
        <3>6. Reach[x] \subseteq Rows
            BY <3>2, <3>4 DEF WithParents
        <3> QED
            BY <2>2, <3>5, <3>6
    <2> QED
        BY <2>3, <2>4
<1> QED
    BY <1>2, <1>3

\* The head reaches every commit.
LEMMA AllReachable ==
    ASSUME HistoryInv
    PROVE  Reachable = {log[j] : j \in 1 .. Len(log)}
<1>1. Len(log) \in Nat /\ Rows = {log[j] : j \in 1 .. Len(log)}
    BY LogFacts DEF HistoryInv, HistoryLinear
<1>2. 0 \in 0 .. Len(log) /\ Later(0) = Rows
    BY <1>1 DEF Later
<1>3. Cardinality(Rows) = Len(log)
    <2>1. PICK k : k = 0
        OBVIOUS
    <2>2. Cardinality(Later(k)) = Len(log) - k
        BY <1>2, <2>1, SortedIsLog
    <2>3. Len(log) - k = Len(log)
        BY <1>1, <2>1
    <2> QED
        BY <1>2, <2>1, <2>2, <2>3, Zenon
<1>4. Reachable = Reach[Len(log)]
    BY <1>3 DEF Reachable
<1>5. Reachable \subseteq Rows /\ \A j \in 1 .. Len(log) : j + Len(log) >= Len(log) => log[j] \in Reachable
    BY <1>1, <1>4, ReachCovers
<1> QED
    BY <1>1, <1>5

\* What collection would preserve begins with a checkpoint or with the first
\* commit and goes on to the head without a gap.
THEOREM PreservedIsSuffixAlways == Spec => []PreservedIsSuffix
<1>1. ASSUME HistoryInv PROVE PreservedIsSuffix
    <2>1. /\ Len(log) \in Nat /\ log \in Seq(CommitIds)
          /\ \A i \in 1 .. Len(log) : log[i] \in Rows /\ serverSeq[log[i]] \in Nat
          /\ \A i, j \in 1 .. Len(log) : serverSeq[log[i]] <= serverSeq[log[j]] => i <= j
          /\ \A c \in Rows : \E i \in 1 .. Len(log) : log[i] = c
        BY <1>1, LogFacts
    <2>2. CASE LatestCheckpoint = None
        <3>1. Preserved = {log[j] : j \in 1 .. Len(log)}
            BY <1>1, <2>2, AllReachable DEF Preserved
        <3>2. 1 \in 1 .. Len(log) + 1 /\ (1 > Len(log) => log = <<>>)
            BY <2>1, EmptySeq
        <3> QED
            BY <3>1, <3>2 DEF PreservedIsSuffix
    <2>3. CASE LatestCheckpoint # None
        <3>1. PICK i \in 1 .. Len(log) : LatestCheckpoint = log[i] /\ commits[log[i]].kind = "checkpoint"
            BY <1>1, <2>3, LatestIsCheckpoint
        <3>2. Preserved = {c \in Rows : serverSeq[c] >= serverSeq[log[i]]}
            BY <2>3, <3>1 DEF Preserved
        <3>3. ASSUME NEW j \in 1 .. Len(log) PROVE serverSeq[log[j]] >= serverSeq[log[i]] <=> j >= i
            <4>1. /\ serverSeq[log[i]] \in Nat /\ serverSeq[log[j]] \in Nat
                  /\ serverSeq[log[i]] <= serverSeq[log[j]] => i <= j
                  /\ serverSeq[log[j]] <= serverSeq[log[i]] => j <= i
                BY <2>1
            <4>2. i = j => serverSeq[log[i]] = serverSeq[log[j]]
                OBVIOUS
            <4> QED
                BY <2>1, <4>1, <4>2
        <3>4. \A c : c \in Preserved => \E j \in i .. Len(log) : c = log[j]
            <4> SUFFICES ASSUME NEW c \in Preserved PROVE \E j \in i .. Len(log) : c = log[j]
                OBVIOUS
            <4>1. PICK j \in 1 .. Len(log) : log[j] = c
                BY <2>1, <3>2
            <4>2. j >= i
                BY <3>2, <3>3, <4>1
            <4> QED
                BY <2>1, <4>1, <4>2
        <3>5. \A j \in i .. Len(log) : log[j] \in Preserved
            <4> SUFFICES ASSUME NEW j \in i .. Len(log) PROVE log[j] \in Preserved
                OBVIOUS
            <4>1. j \in 1 .. Len(log) /\ j >= i
                BY <2>1
            <4> QED
                BY <2>1, <3>2, <3>3, <4>1
        <3>6. Preserved = {log[j] : j \in i .. Len(log)}
            BY <3>4, <3>5
        <3>7. i \in 1 .. Len(log) + 1 /\ ~(i > Len(log))
            BY <2>1
        <3> QED
            BY <3>1, <3>6, <3>7 DEF PreservedIsSuffix
    <2> QED
        BY <2>2, <2>3
<1> QED
    BY <1>1, HistoryInvariant, PTL
=============================================================================
