-------------------------- MODULE SyncObjectsProofs --------------------------
(***************************************************************************)
(* Proofs about SyncObjects, for any number of workspaces, devices,        *)
(* objects and requests in flight, any limits and either store.            *)
(*                                                                         *)
(* StoreInv is inductive.  It yields AvailableHasBytes, NoLeakedBlob and,  *)
(* with the step relation, RowLifecycle.  On top of it UsageInv is         *)
(* inductive: the usage counters are the sums they stand for, and the      *)
(* limits hold.  What a step does to a sum over any number of rows or      *)
(* workspaces follows from the lemmas on sums of DataFacts.                *)
(***************************************************************************)
EXTENDS SyncObjects, DataFacts

\* No row exists yet, and no request is in flight.
LEMMA InitStore == Init => StoreInv
<1> SUFFICES ASSUME Init PROVE StoreInv
    OBVIOUS
<1>1. RowTypeOK
    BY DEF Init, RowTypeOK, RowStates
<1>2. RowsHaveWorkspace /\ RequestsHaveWorkspace /\ ClosingHoldsRows /\ LocalHasNoPending
    BY DEF Init, RowsHaveWorkspace, RequestsHaveWorkspace, ClosingHoldsRows, LocalHasNoPending
<1>3. UrlsExpireFirst /\ AvailableHasBytes /\ NoLeakedBlob
    BY DEF Init, UrlsExpireFirst, AvailableHasBytes, NoLeakedBlob
<1> QED
    BY <1>1, <1>2, <1>3 DEF StoreInv

\* A batch of garbage collection holds collectable rows of its workspace.
LEMMA BatchIsOrphans ==
    ASSUME NEW w \in Workspaces, NEW D \in OrphanBatches(w), NEW o \in D
    PROVE  /\ o \in Objects /\ objWs[o] = w /\ Lockable(o)
           /\ objState[o] \in {"reserved", "pending", "failed"}
           /\ Expired(o)
BY DEF OrphanBatches, Orphans, RowsOf

\* The fields of an open DeleteAccount.
LEMMA ClosingFields ==
    ASSUME RowTypeOK, closing # None
    PROVE  /\ closing.rows \in SUBSET Objects /\ closing.devs \in SUBSET Devices
           /\ closing.ws \in SUBSET Workspaces /\ closing.uses \in SUBSET Workspaces
           /\ closing.step \in 1 .. 4 /\ closing \in Closings
BY DEF RowTypeOK, Closings

\* ReserveObjectIDs inserts rows of the request's workspace, without a URL.
LEMMA ReserveStore ==
    ASSUME StoreInv, NEW r \in Requests, ReserveObjectIDs(r)
    PROVE  StoreInv'
<1> USE ConstantsAssumption
<1> USE DEF StoreInv, RowTypeOK, RowStates, wsVars, storeVars, useVars
<1>0. PICK B \in (SUBSET {o \in Objects : objState[o] = "unused"}) \ {{}} :
        /\ objState' = [o \in Objects |-> IF o \in B THEN "reserved" ELSE objState[o]]
        /\ objWs' = [o \in Objects |-> IF o \in B THEN auth[r].ws ELSE objWs[o]]
        /\ objDevice' = [o \in Objects |-> IF o \in B THEN auth[r].dev ELSE objDevice[o]]
        /\ objExpires' = [o \in Objects |-> IF o \in B THEN now + PendingAge ELSE objExpires[o]]
    BY DEF ReserveObjectIDs
<1>1. auth[r] \in [ws : Workspaces, dev : Devices \cup {None}]
    BY DEF ReserveObjectIDs
<1>2. RowTypeOK'
    BY <1>0, <1>1 DEF ReserveObjectIDs
<1>3. RowsHaveWorkspace'
    BY <1>0, <1>1 DEF ReserveObjectIDs, RowsHaveWorkspace, RequestsHaveWorkspace
<1>4. RequestsHaveWorkspace'
    BY DEF ReserveObjectIDs, RequestsHaveWorkspace
<1>5. ClosingHoldsRows' /\ LocalHasNoPending'
    BY <1>0, ClosingFields DEF ReserveObjectIDs, ClosingHoldsRows, LocalHasNoPending
<1>6. UrlsExpireFirst'
    BY <1>0, <1>1 DEF ReserveObjectIDs, UrlsExpireFirst
<1>7. AvailableHasBytes' /\ NoLeakedBlob'
    BY <1>0 DEF ReserveObjectIDs, AvailableHasBytes, NoLeakedBlob
<1> QED
    BY <1>2, <1>3, <1>4, <1>5, <1>6, <1>7

\* CreateObjectUploadBatch: the new URL expires with the new row age or before.
LEMMA CreateUploadStore ==
    ASSUME StoreInv, NEW r \in Requests, CreateObjectUploadBatch(r)
    PROVE  StoreInv'
<1> USE ConstantsAssumption
<1> USE DEF StoreInv, RowTypeOK, RowStates, wsVars
<1>a. PICK B \in (SUBSET Objects) \ {{}} :
        \E content \in [B -> Contents] : CreateUploadBatch(r, B, content)
    BY DEF CreateObjectUploadBatch
<1>0. PICK content \in [B -> Contents] : CreateUploadBatch(r, B, content)
    BY <1>a
<1> USE <1>0 DEF CreateUploadBatch
<1>1. \A o \in B : objState[o] \in {"reserved", "pending"} /\ Lockable(o)
    BY DEF Uploadable
<1>2. RowTypeOK'
    BY DEF PendingExpiry
<1>3. RowsHaveWorkspace'
    BY <1>1 DEF RowsHaveWorkspace
<1>4. RequestsHaveWorkspace'
    BY DEF RequestsHaveWorkspace
<1>5. ClosingHoldsRows' /\ LocalHasNoPending'
    BY <1>1, ClosingFields DEF ClosingHoldsRows, LocalHasNoPending
<1>6. UrlsExpireFirst'
    BY <1>1 DEF UrlsExpireFirst, PendingExpiry
<1>7. AvailableHasBytes' /\ NoLeakedBlob'
    BY <1>1 DEF AvailableHasBytes, NoLeakedBlob
<1> QED
    BY <1>2, <1>3, <1>4, <1>5, <1>6, <1>7

\* CompleteObjectUploadBatch: only a row whose bytes were seen becomes available.
LEMMA CompleteStore ==
    ASSUME StoreInv, NEW r \in Requests, CompleteObjectUploadBatch(r)
    PROVE  StoreInv'
<1> USE ConstantsAssumption
<1> USE DEF StoreInv, RowTypeOK, RowStates, wsVars, storeVars
<1>a. PICK B \in (SUBSET Objects) \ {{}} :
        \E content \in [B -> Contents] : CompleteUploadBatch(r, B, content)
    BY DEF CompleteObjectUploadBatch
<1>0. PICK content \in [B -> Contents] : CompleteUploadBatch(r, B, content)
    BY <1>a
<1> DEFINE open == {o \in B : objState[o] = "pending"}
           good == {o \in open : Completable(o, content[o])}
<1>1. /\ objState' = [o \in Objects |-> IF o \in good THEN "available"
                                        ELSE IF o \in open THEN "failed"
                                        ELSE objState[o]]
      /\ objExpires' = [o \in Objects |-> IF o \in good THEN 0 ELSE objExpires[o]]
      /\ auth' = [auth EXCEPT ![r] = None]
      /\ UNCHANGED <<now, wsVars, objWs, objDevice, objMeta, storeVars, closing>>
    BY <1>0 DEF CompleteUploadBatch
<1>2. \A o \in good : o \in open /\ blob[o] = objMeta[o]
    BY DEF Completable
<1>3. \A o \in open : o \in Objects /\ objState[o] = "pending"
    OBVIOUS
<1> HIDE DEF open, good
<1>4. RowTypeOK'
    BY <1>1
<1>5. RowsHaveWorkspace'
    BY <1>1, <1>2, <1>3 DEF RowsHaveWorkspace
<1>6. RequestsHaveWorkspace'
    BY <1>1 DEF RequestsHaveWorkspace
<1>7. ClosingHoldsRows' /\ LocalHasNoPending'
    BY <1>1, ClosingFields DEF ClosingHoldsRows, LocalHasNoPending
<1>8. UrlsExpireFirst'
    BY <1>1, <1>2, <1>3 DEF UrlsExpireFirst
<1>9. AvailableHasBytes' /\ NoLeakedBlob'
    BY <1>1, <1>2, <1>3 DEF AvailableHasBytes, NoLeakedBlob
<1> QED
    BY <1>4, <1>5, <1>6, <1>7, <1>8, <1>9

\* UploadObjectBytesDev: the bytes are written before the row says so.
LEMMA UploadDevStore ==
    ASSUME StoreInv, NEW r \in Requests, UploadObjectBytesDev(r)
    PROVE  StoreInv'
<1> USE ConstantsAssumption
<1> USE DEF StoreInv, RowTypeOK, RowStates, wsVars
<1>0. PICK o \in Objects, content \in Contents, ok \in BOOLEAN : UploadDev(r, o, content, ok)
    BY DEF UploadObjectBytesDev
<1>1. /\ objState[o] \in {"reserved", "pending"}
      /\ blob' = [blob EXCEPT ![o] = content]
      /\ auth' = [auth EXCEPT ![r] = None]
      /\ UNCHANGED <<now, wsState, devWs, revoked, objWs, objDevice, putUntil, provider, closing>>
    BY <1>0 DEF UploadDev
<1>2. CASE ok
    <2>1. /\ objState' = [objState EXCEPT ![o] = "available"]
          /\ objMeta' = [objMeta EXCEPT ![o] = content]
          /\ objExpires' = [objExpires EXCEPT ![o] = 0]
        BY <1>0, <1>2 DEF UploadDev
    <2>2. /\ RowTypeOK' /\ RowsHaveWorkspace' /\ RequestsHaveWorkspace'
          /\ ClosingHoldsRows' /\ LocalHasNoPending'
        BY <1>1, <2>1 DEF RowsHaveWorkspace, RequestsHaveWorkspace,
                          ClosingHoldsRows, LocalHasNoPending
    <2>3. UrlsExpireFirst' /\ AvailableHasBytes' /\ NoLeakedBlob'
        BY <1>1, <2>1 DEF UrlsExpireFirst, AvailableHasBytes, NoLeakedBlob
    <2> QED
        BY <2>2, <2>3
<1>3. CASE ~ok
    <2>1. UNCHANGED <<objState, objMeta, objExpires>>
        BY <1>0, <1>3 DEF UploadDev
    <2>2. /\ RowTypeOK' /\ RowsHaveWorkspace' /\ RequestsHaveWorkspace'
          /\ ClosingHoldsRows' /\ LocalHasNoPending'
        BY <1>1, <2>1 DEF RowsHaveWorkspace, RequestsHaveWorkspace,
                          ClosingHoldsRows, LocalHasNoPending
    <2>3. UrlsExpireFirst' /\ AvailableHasBytes' /\ NoLeakedBlob'
        BY <1>1, <2>1 DEF UrlsExpireFirst, AvailableHasBytes, NoLeakedBlob
    <2> QED
        BY <2>2, <2>3
<1> QED
    BY <1>2, <1>3

\* RunWorkspaceGC: an expired row has no usable URL left, so its bytes stay away.
LEMMA CollectStore ==
    ASSUME StoreInv, NEW r \in Requests, RunWorkspaceGC(r)
    PROVE  StoreInv'
<1> USE ConstantsAssumption
<1> USE DEF StoreInv, RowTypeOK, RowStates, wsVars
<1>1. auth[r].ws \in Workspaces
    BY DEF RunWorkspaceGC
<1>2. PICK D \in OrphanBatches(auth[r].ws) :
        /\ blob' = StoreWithout(D)
        /\ objState' = [o \in Objects |-> IF o \in D THEN "deleted" ELSE objState[o]]
        /\ objExpires' = [o \in Objects |-> IF o \in D THEN 0 ELSE objExpires[o]]
    BY DEF RunWorkspaceGC
<1>3. \A o \in D : /\ o \in Objects /\ Lockable(o) /\ Expired(o)
                   /\ objState[o] \in {"reserved", "pending", "failed"}
    BY <1>1, BatchIsOrphans
<1>4. RowTypeOK'
    BY <1>2 DEF RunWorkspaceGC, StoreWithout
<1>5. RowsHaveWorkspace' /\ RequestsHaveWorkspace'
    BY <1>2, <1>3 DEF RunWorkspaceGC, RowsHaveWorkspace, RequestsHaveWorkspace
<1>6. ClosingHoldsRows' /\ LocalHasNoPending'
    BY <1>2, <1>3, ClosingFields DEF RunWorkspaceGC, ClosingHoldsRows, LocalHasNoPending, Lockable
<1>7. UrlsExpireFirst'
    BY <1>2, <1>3 DEF RunWorkspaceGC, UrlsExpireFirst, Expired
<1>8. AvailableHasBytes' /\ NoLeakedBlob'
    BY <1>2, <1>3 DEF RunWorkspaceGC, AvailableHasBytes, NoLeakedBlob, StoreWithout
<1> QED
    BY <1>4, <1>5, <1>6, <1>7, <1>8

\* A rolled back pass only takes bytes from rows that are not available.
LEMMA AbortCollectStore ==
    ASSUME StoreInv, NEW r \in Requests, AbortWorkspaceGC(r)
    PROVE  StoreInv'
<1> USE ConstantsAssumption
<1> USE DEF StoreInv, RowTypeOK, RowStates, wsVars, rowVars
<1>1. auth[r].ws \in Workspaces
    BY DEF AbortWorkspaceGC
<1>2. PICK D \in OrphanBatches(auth[r].ws) : \E S \in (SUBSET D) \ {{}} : blob' = StoreWithout(S)
    BY DEF AbortWorkspaceGC
<1>3. PICK S \in SUBSET D : blob' = StoreWithout(S)
    BY <1>2
<1>4. \A o \in S : objState[o] \in {"reserved", "pending", "failed"}
    BY <1>1, BatchIsOrphans
<1>5. /\ RowTypeOK' /\ RowsHaveWorkspace' /\ RequestsHaveWorkspace'
      /\ ClosingHoldsRows' /\ LocalHasNoPending'
    BY <1>3 DEF AbortWorkspaceGC, StoreWithout, RowsHaveWorkspace, RequestsHaveWorkspace,
                ClosingHoldsRows, LocalHasNoPending
<1>6. UrlsExpireFirst' /\ AvailableHasBytes' /\ NoLeakedBlob'
    BY <1>3, <1>4 DEF AbortWorkspaceGC, StoreWithout, UrlsExpireFirst, AvailableHasBytes,
                      NoLeakedBlob
<1> QED
    BY <1>5, <1>6

\* RunDeletedWorkspaceCleanup touches rows of deleted workspaces only.
LEMMA CleanupStore ==
    ASSUME StoreInv, NEW W \in SUBSET Workspaces, NEW ok \in BOOLEAN,
           RunDeletedWorkspaceCleanup(W, ok)
    PROVE  StoreInv'
<1> USE ConstantsAssumption
<1> USE DEF StoreInv, RowTypeOK, RowStates
<1> DEFINE rows == {o \in Objects : objWs[o] \in W /\ objState[o] # "purged"}
<1>1. /\ \A w \in W : wsState[w] = "deleted"
      /\ \A o \in rows : Lockable(o)
      /\ blob' = StoreWithout(rows)
      /\ UNCHANGED <<now, devWs, revoked, objWs, objDevice, objMeta, objExpires,
                     putUntil, provider, auth, closing>>
    BY DEF RunDeletedWorkspaceCleanup
<1>2. CASE ok
    <2>1. /\ wsState' = [w \in Workspaces |-> IF w \in W THEN "purged" ELSE wsState[w]]
          /\ objState' = [o \in Objects |-> IF o \in rows THEN "purged" ELSE objState[o]]
        BY <1>2 DEF RunDeletedWorkspaceCleanup
    <2>2. RowTypeOK'
        BY <1>1, <2>1 DEF StoreWithout
    <2>3. RowsHaveWorkspace' /\ RequestsHaveWorkspace'
        BY <1>1, <2>1 DEF RowsHaveWorkspace, RequestsHaveWorkspace
    <2>4. ClosingHoldsRows' /\ LocalHasNoPending'
        BY <1>1, <2>1, ClosingFields DEF ClosingHoldsRows, LocalHasNoPending, Lockable, RowsHaveWorkspace
    <2>5. \A o \in Objects : objState[o] # "unused" /\ wsState'[objWs[o]] = "live" =>
              o \notin rows /\ wsState[objWs[o]] = "live"
        BY <1>1, <2>1 DEF RowsHaveWorkspace
    <2>6. UrlsExpireFirst'
        BY <1>1, <2>1, <2>5 DEF UrlsExpireFirst
    <2>7. AvailableHasBytes' /\ NoLeakedBlob'
        BY <1>1, <2>1, <2>5 DEF AvailableHasBytes, NoLeakedBlob, StoreWithout
    <2> QED
        BY <2>2, <2>3, <2>4, <2>6, <2>7
<1>3. CASE ~ok
    <2>1. UNCHANGED <<wsState, objState>>
        BY <1>3 DEF RunDeletedWorkspaceCleanup
    <2>2. /\ RowTypeOK' /\ RowsHaveWorkspace' /\ RequestsHaveWorkspace'
          /\ ClosingHoldsRows' /\ LocalHasNoPending'
        BY <1>1, <2>1 DEF StoreWithout, RowsHaveWorkspace, RequestsHaveWorkspace,
                          ClosingHoldsRows, LocalHasNoPending
    <2>3. UrlsExpireFirst'
        BY <1>1, <2>1 DEF UrlsExpireFirst
    <2>4. AvailableHasBytes' /\ NoLeakedBlob'
        BY <1>1, <2>1 DEF AvailableHasBytes, NoLeakedBlob, StoreWithout
    <2> QED
        BY <2>2, <2>3, <2>4
<1> QED
    BY <1>2, <1>3

\* DeleteAccount's commit: the workspaces of the rows it marked go with them.
LEMMA CloseStore ==
    ASSUME StoreInv, DeleteAccountCommit
    PROVE  StoreInv'
<1> USE ConstantsAssumption
<1> USE DEF StoreInv, RowTypeOK, RowStates, storeVars
<1>1. /\ closing.rows \in SUBSET Objects /\ closing.devs \in SUBSET Devices
      /\ closing.ws \in SUBSET Workspaces /\ closing # None /\ closing.step = 4
    BY ClosingFields DEF DeleteAccountCommit
<1>2. RowTypeOK'
    BY <1>1 DEF DeleteAccountCommit
<1>3. \A w \in Workspaces : /\ wsState'[w] = "live" => wsState[w] = "live" /\ w \notin closing.ws
                            /\ wsState'[w] = "none" => wsState[w] = "none"
    BY DEF DeleteAccountCommit
<1>4. RowsHaveWorkspace'
    BY <1>1, <1>3 DEF DeleteAccountCommit, RowsHaveWorkspace, ClosingHoldsRows
<1>5. RequestsHaveWorkspace' /\ ClosingHoldsRows' /\ LocalHasNoPending'
    BY <1>3 DEF DeleteAccountCommit, RequestsHaveWorkspace, ClosingHoldsRows, LocalHasNoPending
<1>6. \A o \in closing.rows : objState[o] \in RowStates /\ wsState'[objWs[o]] # "live"
    BY <1>1, <1>3 DEF ClosingHoldsRows, RowsHaveWorkspace
<1>7. \A o \in Objects \ closing.rows :
          /\ objState'[o] = objState[o] /\ objExpires'[o] = objExpires[o]
          /\ objState[o] # "unused" /\ wsState'[objWs[o]] = "live" => wsState[objWs[o]] = "live"
    BY <1>3 DEF DeleteAccountCommit, RowsHaveWorkspace
<1>8. \A o \in closing.rows : objState'[o] = "deleted"
    BY <1>1 DEF DeleteAccountCommit
<1>9. UrlsExpireFirst'
    BY <1>1, <1>6, <1>7, <1>8 DEF DeleteAccountCommit, UrlsExpireFirst
<1>10. AvailableHasBytes' /\ NoLeakedBlob'
    BY <1>6, <1>7, <1>8 DEF DeleteAccountCommit, AvailableHasBytes, NoLeakedBlob
<1> QED
    BY <1>2, <1>4, <1>5, <1>9, <1>10

\* A statement of DeleteAccount before its commit changes nothing others see.
LEMMA StatementStore ==
    ASSUME StoreInv,
           \/ DeleteAccountMark \/ DeleteAccountRevoke
           \/ DeleteAccountSoftDelete \/ DeleteAccountResetWorkspaces
    PROVE  StoreInv'
<1>1. UNCHANGED <<now, wsState, devWs, revoked, objState, objWs, objDevice, objMeta, objExpires,
                  blob, putUntil, provider, auth>>
    BY DEF DeleteAccountMark, DeleteAccountRevoke, DeleteAccountSoftDelete,
           DeleteAccountResetWorkspaces, wsVars, rowVars, storeVars
<1>2. closing' \in Closings /\ ClosingHoldsRows'
    <2>1. CASE DeleteAccountMark
        BY <1>1, <2>1 DEF DeleteAccountMark, ClosingHoldsRows, Closings
    <2>2. CASE DeleteAccountRevoke
        <3>1. closing # None /\ closing \in Closings /\ closing.step = 1
            BY <2>2 DEF DeleteAccountRevoke, StoreInv, RowTypeOK
        <3>2. PICK c, x : c = closing /\ x = {d \in Devices : devWs[d] \in OwnedWorkspaces} \ revoked
            OBVIOUS
        <3>3. x \in SUBSET Devices
            BY <3>2 DEF OwnedWorkspaces
        <3>4. closing' = [c EXCEPT !.step = 2, !.devs = x]
            BY <2>2, <3>2 DEF DeleteAccountRevoke
        <3>5. c \in Closings
            BY <3>1, <3>2
        <3>6. /\ closing' \in Closings /\ closing'.step = 2 /\ closing'.rows = c.rows
              /\ closing'.ws = c.ws
            <4>1. closing' = [step |-> 2, rows |-> c.rows, devs |-> x, ws |-> c.ws, uses |-> c.uses]
                BY <3>4, <3>5 DEF Closings
            <4>2. 2 \in 1 .. 4
                OBVIOUS
            <4> QED
                BY <3>3, <3>5, <4>1, <4>2 DEF Closings
        <3>7. \A o \in c.rows : /\ objState[o] \in RowStates
                                /\ objState[o] # "unused" /\ o \in Objects
                                /\ 2 > 2 /\ wsState[objWs[o]] = "live" => objWs[o] \in c.ws
            <4>1. c.rows \in SUBSET Objects
                BY <3>5 DEF Closings
            <4>2. \A o \in c.rows : /\ objState[o] \in RowStates
                                    /\ c.step > 2 /\ wsState[objWs[o]] = "live" => objWs[o] \in c.ws
                BY <3>1, <3>2, Zenon DEF StoreInv, ClosingHoldsRows
            <4>3. \A o \in c.rows : objWs[o] \in Workspaces
                BY <4>1, <4>2 DEF StoreInv, RowsHaveWorkspace, RowStates
            <4> QED
                BY <3>1, <3>2, <4>1, <4>2, <4>3 DEF RowStates
        <3> QED
            BY <1>1, <3>6, <3>7 DEF ClosingHoldsRows
    <2>3. CASE DeleteAccountSoftDelete
        <3>1. closing # None /\ closing \in Closings /\ closing.step = 2
            BY <2>3 DEF DeleteAccountSoftDelete, StoreInv, RowTypeOK
        <3>2. PICK c, x : c = closing /\ x = {w \in Workspaces : wsState[w] = "live"}
            OBVIOUS
        <3>3. x \in SUBSET Workspaces
            BY <3>2
        <3>4. closing' = [c EXCEPT !.step = 3, !.ws = x]
            BY <2>3, <3>2 DEF DeleteAccountSoftDelete
        <3>5. c \in Closings
            BY <3>1, <3>2
        <3>6. /\ closing' \in Closings /\ closing'.step = 3 /\ closing'.rows = c.rows
              /\ closing'.ws = x
            <4>1. closing' = [step |-> 3, rows |-> c.rows, devs |-> c.devs, ws |-> x, uses |-> c.uses]
                BY <3>4, <3>5 DEF Closings
            <4>2. 3 \in 1 .. 4
                OBVIOUS
            <4> QED
                BY <3>3, <3>5, <4>1, <4>2 DEF Closings
        <3>7. \A o \in c.rows : /\ objState[o] \in RowStates
                                /\ objState[o] # "unused" /\ o \in Objects
                                /\ 3 > 2 /\ wsState[objWs[o]] = "live" => objWs[o] \in x
            <4>1. c.rows \in SUBSET Objects
                BY <3>5 DEF Closings
            <4>2. \A o \in c.rows : /\ objState[o] \in RowStates
                                    /\ c.step > 2 /\ wsState[objWs[o]] = "live" => objWs[o] \in c.ws
                BY <3>1, <3>2, Zenon DEF StoreInv, ClosingHoldsRows
            <4>3. \A o \in c.rows : objWs[o] \in Workspaces
                BY <4>1, <4>2 DEF StoreInv, RowsHaveWorkspace, RowStates
            <4> QED
                BY <3>1, <3>2, <4>1, <4>2, <4>3 DEF RowStates
        <3> QED
            BY <1>1, <3>6, <3>7 DEF ClosingHoldsRows
    <2>4. CASE DeleteAccountResetWorkspaces
        <3>1. closing # None /\ closing \in Closings /\ closing.step = 3
            BY <2>4 DEF DeleteAccountResetWorkspaces, StoreInv, RowTypeOK
        <3>2. PICK c, x : c = closing /\ x = OwnedWorkspaces
            OBVIOUS
        <3>3. x \in SUBSET Workspaces
            BY <3>2 DEF OwnedWorkspaces
        <3>4. closing' = [c EXCEPT !.step = 4, !.uses = x]
            BY <2>4, <3>2 DEF DeleteAccountResetWorkspaces
        <3>5. c \in Closings
            BY <3>1, <3>2
        <3>6. /\ closing' \in Closings /\ closing'.step = 4 /\ closing'.rows = c.rows
              /\ closing'.ws = c.ws
            <4>1. closing' = [step |-> 4, rows |-> c.rows, devs |-> c.devs, ws |-> c.ws, uses |-> x]
                BY <3>4, <3>5 DEF Closings
            <4>2. 4 \in 1 .. 4
                OBVIOUS
            <4> QED
                BY <3>3, <3>5, <4>1, <4>2 DEF Closings
        <3>7. \A o \in c.rows : /\ objState[o] \in RowStates
                                /\ objState[o] # "unused" /\ o \in Objects
                                /\ 4 > 2 /\ wsState[objWs[o]] = "live" => objWs[o] \in c.ws
            <4>1. c.rows \in SUBSET Objects
                BY <3>5 DEF Closings
            <4>2. \A o \in c.rows : /\ objState[o] \in RowStates
                                    /\ c.step > 2 /\ wsState[objWs[o]] = "live" => objWs[o] \in c.ws
                BY <3>1, <3>2, Zenon DEF StoreInv, ClosingHoldsRows
            <4>3. \A o \in c.rows : objWs[o] \in Workspaces
                BY <4>1, <4>2 DEF StoreInv, RowsHaveWorkspace, RowStates
            <4> QED
                BY <3>1, <3>2, <4>1, <4>2, <4>3 DEF RowStates
        <3> QED
            BY <1>1, <3>6, <3>7 DEF ClosingHoldsRows
    <2> QED
        BY <2>1, <2>2, <2>3, <2>4
<1>3. RowTypeOK'
    BY <1>1, <1>2 DEF StoreInv, RowTypeOK
<1>4. RowsHaveWorkspace' /\ RequestsHaveWorkspace' /\ LocalHasNoPending'
    BY <1>1 DEF StoreInv, RowsHaveWorkspace, RequestsHaveWorkspace, LocalHasNoPending
<1>5. UrlsExpireFirst' /\ AvailableHasBytes' /\ NoLeakedBlob'
    BY <1>1 DEF StoreInv, UrlsExpireFirst, AvailableHasBytes, NoLeakedBlob
<1> QED
    BY <1>2, <1>3, <1>4, <1>5 DEF StoreInv

\* Every step of every handler keeps StoreInv.
LEMMA NextStore == StoreInv /\ [Next]_vars => StoreInv'
<1> SUFFICES ASSUME StoreInv, [Next]_vars PROVE StoreInv'
    OBVIOUS
<1> USE ConstantsAssumption
<1> USE DEF StoreInv, RowTypeOK, RowStates, RowsHaveWorkspace, RequestsHaveWorkspace,
            ClosingHoldsRows, LocalHasNoPending, UrlsExpireFirst, AvailableHasBytes, NoLeakedBlob,
            wsVars, rowVars, storeVars, useVars
<1>1. ASSUME NEW w \in Workspaces, CreateWorkspace(w) PROVE StoreInv'
    <2>1. ClosingHoldsRows'
        BY <1>1, ClosingFields DEF CreateWorkspace
    <2>2. RowTypeOK' /\ RowsHaveWorkspace' /\ RequestsHaveWorkspace' /\ LocalHasNoPending'
        BY <1>1 DEF CreateWorkspace
    <2>3. UrlsExpireFirst' /\ AvailableHasBytes' /\ NoLeakedBlob'
        BY <1>1 DEF CreateWorkspace
    <2> QED
        BY <2>1, <2>2, <2>3
<1>2. ASSUME NEW w \in Workspaces, DeleteWorkspace(w) PROVE StoreInv'
    BY <1>2 DEF DeleteWorkspace
<1>3. ASSUME NEW r \in Requests, NEW w \in Workspaces, NEW d \in Devices \cup {None},
             Authorize(r, w, d)
      PROVE  StoreInv'
    BY <1>3 DEF Authorize
<1>4. ASSUME NEW r \in Requests, Reject(r) PROVE StoreInv'
    BY <1>4 DEF Reject
<1>5. ASSUME NEW r \in Requests, NEW d \in Devices, RegisterDevice(r, d) PROVE StoreInv'
    BY <1>5 DEF RegisterDevice
<1>6. ASSUME NEW r \in Requests, RecalculateSyncUsage(r) PROVE StoreInv'
    BY <1>6 DEF RecalculateSyncUsage
<1>7. ASSUME NEW o \in Objects, PutBlob(o) PROVE StoreInv'
    BY <1>7 DEF PutBlob
<1>9. ASSUME DeleteAccountAbort PROVE StoreInv'
    BY <1>9 DEF DeleteAccountAbort
<1>10. ASSUME Tick PROVE StoreInv'
    BY <1>10 DEF Tick
<1>11. CASE UNCHANGED vars
    BY <1>11 DEF vars
<1> HIDE DEF StoreInv, RowTypeOK, RowsHaveWorkspace, RequestsHaveWorkspace,
             ClosingHoldsRows, LocalHasNoPending, UrlsExpireFirst, AvailableHasBytes, NoLeakedBlob
<1> QED
    BY <1>1, <1>2, <1>3, <1>4, <1>5, <1>6, <1>7, <1>9, <1>10, <1>11,
       ReserveStore, CreateUploadStore, CompleteStore, UploadDevStore,
       CollectStore, AbortCollectStore, CleanupStore, CloseStore, StatementStore
    DEF Next

\* The invariant holds in every reachable state.
THEOREM StoreInvariant == Spec => []StoreInv
BY InitStore, NextStore, PTL DEF Spec

\* An available object of a live workspace always has exactly the bytes its row
\* describes, whatever GC pass rolled back and whatever late PUT arrived.
THEOREM AvailableHasBytesAlways == Spec => []AvailableHasBytes
<1>1. StoreInv => AvailableHasBytes
    BY DEF StoreInv
<1> QED
    BY <1>1, StoreInvariant, PTL

\* If URLs expire before rows do, garbage collection never leaves bytes behind
\* for a row it has marked deleted.
THEOREM NoLeakedBlobAlways == Spec => []NoLeakedBlob
<1>1. StoreInv => NoLeakedBlob
    BY DEF StoreInv
<1> QED
    BY <1>1, StoreInvariant, PTL

\* Every step moves every row along its life cycle.
LEMMA NextRowStep == StoreInv /\ [Next]_vars => [\A o \in Objects : RowStep(o)]_vars
<1> SUFFICES ASSUME StoreInv, Next, NEW o \in Objects PROVE RowStep(o)
    BY DEF vars
<1> USE ConstantsAssumption
<1> USE DEF RowStep, Successors, StoreInv, RowTypeOK, RowStates, wsVars, rowVars, storeVars, useVars
<1>1. CASE UNCHANGED <<objState, objWs, objMeta>>
    BY <1>1
<1>2. ASSUME NEW r \in Requests, ReserveObjectIDs(r) PROVE RowStep(o)
    BY <1>2 DEF ReserveObjectIDs
<1>3. ASSUME NEW r \in Requests, CreateObjectUploadBatch(r) PROVE RowStep(o)
    BY <1>3 DEF CreateObjectUploadBatch, CreateUploadBatch, Uploadable
<1>4. ASSUME NEW r \in Requests, CompleteObjectUploadBatch(r) PROVE RowStep(o)
    BY <1>4 DEF CompleteObjectUploadBatch, CompleteUploadBatch
<1>5. ASSUME NEW r \in Requests, UploadObjectBytesDev(r) PROVE RowStep(o)
    BY <1>5 DEF UploadObjectBytesDev, UploadDev, LocalHasNoPending
<1>6. ASSUME NEW r \in Requests, RunWorkspaceGC(r) PROVE RowStep(o)
    <2>1. auth[r].ws \in Workspaces
        BY <1>6 DEF RunWorkspaceGC
    <2>2. PICK D \in OrphanBatches(auth[r].ws) :
            objState' = [p \in Objects |-> IF p \in D THEN "deleted" ELSE objState[p]]
        BY <1>6 DEF RunWorkspaceGC
    <2>3. o \in D => objState[o] \in {"reserved", "pending", "failed"}
        BY <2>1, BatchIsOrphans
    <2> QED
        BY <1>6, <2>2, <2>3 DEF RunWorkspaceGC
<1>7. ASSUME NEW W \in SUBSET Workspaces, NEW ok \in BOOLEAN,
             RunDeletedWorkspaceCleanup(W, ok)
      PROVE  RowStep(o)
    <2>1. objState'[o] # objState[o] => /\ objState'[o] = "purged" /\ objState[o] # "purged"
                                        /\ objWs[o] \in W
        BY <1>7 DEF RunDeletedWorkspaceCleanup
    <2>2. objWs[o] \in W => wsState'[objWs[o]] # "live"
        BY <1>7 DEF RunDeletedWorkspaceCleanup
    <2>3. objState'[o] # objState[o] => objState[o] # "unused"
        BY <1>7, <2>1 DEF RunDeletedWorkspaceCleanup, RowsHaveWorkspace
    <2> QED
        BY <1>7, <2>1, <2>2, <2>3 DEF RunDeletedWorkspaceCleanup
<1>8. ASSUME DeleteAccountCommit PROVE RowStep(o)
    <2>1. o \in closing.rows => objState[o] \in RowStates
        BY <1>8 DEF DeleteAccountCommit, ClosingHoldsRows
    <2>2. o \in closing.rows => wsState'[objWs[o]] # "live"
        BY <1>8, ClosingFields DEF DeleteAccountCommit, RowsHaveWorkspace, ClosingHoldsRows
    <2> QED
        BY <1>8, <2>1, <2>2 DEF DeleteAccountCommit
<1>9. \/ UNCHANGED <<objState, objWs, objMeta>>
      \/ \E r \in Requests : \/ ReserveObjectIDs(r) \/ CreateObjectUploadBatch(r)
                            \/ CompleteObjectUploadBatch(r) \/ UploadObjectBytesDev(r)
                            \/ RunWorkspaceGC(r)
      \/ \E W \in SUBSET Workspaces, ok \in BOOLEAN : RunDeletedWorkspaceCleanup(W, ok)
      \/ DeleteAccountCommit
    BY DEF Next, CreateWorkspace, DeleteWorkspace, Authorize, Reject, RegisterDevice,
           AbortWorkspaceGC, RecalculateSyncUsage, PutBlob, DeleteAccountMark,
           DeleteAccountRevoke, DeleteAccountSoftDelete, DeleteAccountResetWorkspaces,
           DeleteAccountAbort, Tick
<1> QED
    BY <1>1, <1>2, <1>3, <1>4, <1>5, <1>6, <1>7, <1>8, <1>9

\* No late or repeated call revives a collected row, demotes an available one
\* in a live workspace, or changes what an uploaded row describes.
THEOREM RowLifecycleAlways == Spec => RowLifecycle
BY StoreInvariant, NextRowStep, PTL DEF Spec, RowLifecycle

\* The type of the rows, the store and the requests.
THEOREM RowTypes == Spec => []RowTypeOK
<1>1. StoreInv => RowTypeOK
    BY DEF StoreInv
<1> QED
    BY <1>1, StoreInvariant, PTL

-----------------------------------------------------------------------------
(* The usage counters.                                                     *)

\* Objects described by m.
Described(A, m) == A \subseteq Objects /\ \A o \in A : m[o] \in Contents

\* The bytes of described objects, which depend on their descriptors only.
LEMMA BytesFacts ==
    ASSUME NEW A, NEW m, Described(A, m)
    PROVE  /\ Bytes(A, m) \in Nat /\ Cardinality(A) \in Nat /\ IsFiniteSet(A)
           /\ \A n : (\A o \in A : n[o] = m[o]) => Bytes(A, n) = Bytes(A, m)
           /\ \A g : (\A o \in A : g[o] = Size[m[o]]) => Bytes(A, m) = SumFunctionOnSet(g, A)
<1>1. IsFiniteSet(A) /\ Cardinality(A) \in Nat
    BY ConstantsAssumption, FS_Subset, FS_CardinalityType DEF Described
<1>2. PICK f : f = [o \in A |-> Size[m[o]]]
    OBVIOUS
<1>3. f \in [A -> Nat]
    BY <1>2, ConstantsAssumption DEF Described
<1>4. Bytes(A, m) = SumFunction(f)
    BY <1>2 DEF Bytes
<1>5. ASSUME NEW n, \A o \in A : n[o] = m[o] PROVE Bytes(A, n) = Bytes(A, m)
    <2>1. [o \in A |-> Size[n[o]]] = [o \in A |-> Size[m[o]]]
        BY <1>5
    <2> QED
        BY <2>1 DEF Bytes
<1>6. ASSUME NEW g, \A o \in A : g[o] = Size[m[o]] PROVE Bytes(A, m) = SumFunctionOnSet(g, A)
    <2>1. \A o \in A : g[o] = f[o]
        BY <1>2, <1>6
    <2> QED
        BY <1>1, <1>3, <1>4, <2>1, SumFunctionFacts
<1>7. SumFunction(f) \in Nat
    BY <1>1, <1>3, SumFunctionFacts
<1> QED
    BY <1>1, <1>4, <1>5, <1>6, <1>7

\* Bytes and numbers of disjoint sets add up.
LEMMA BytesUnion ==
    ASSUME NEW A, NEW B, NEW m, Described(A, m), Described(B, m), A \cap B = {},
           NEW C, C = A \cup B
    PROVE  /\ Described(C, m)
           /\ Bytes(C, m) = Bytes(A, m) + Bytes(B, m)
           /\ Cardinality(C) = Cardinality(A) + Cardinality(B)
<1>1. Described(A \cup B, m)
    BY DEF Described
<1>2. PICK g : g = [o \in A \cup B |-> Size[m[o]]]
    OBVIOUS
<1>3. \A o \in A \cup B : g[o] = Size[m[o]]
    BY <1>2
<1>4. \A o \in A \cup B : g[o] \in Nat
    BY <1>1, <1>3, ConstantsAssumption DEF Described
<1>5. IsFiniteSet(A) /\ IsFiniteSet(B) /\ Cardinality(A) \in Nat /\ Cardinality(B) \in Nat
    BY BytesFacts
<1>6. SumFunctionOnSet(g, A \cup B) = SumFunctionOnSet(g, A) + SumFunctionOnSet(g, B)
    BY <1>4, <1>5, SumUnion
<1>7. Bytes(A \cup B, m) = SumFunctionOnSet(g, A \cup B)
    BY <1>1, <1>3, BytesFacts
<1>8. Bytes(A, m) = SumFunctionOnSet(g, A) /\ Bytes(B, m) = SumFunctionOnSet(g, B)
    BY <1>3, BytesFacts
<1>9. Cardinality(A \cup B) = Cardinality(A) + Cardinality(B)
    <2>1. Cardinality(A \cup B) = Cardinality(A) + Cardinality(B) - Cardinality(A \cap B)
        BY <1>5, FS_Union
    <2>2. Cardinality(A \cap B) = 0
        BY FS_EmptySet
    <2> QED
        BY <1>5, <2>1, <2>2
<1> QED
    BY <1>1, <1>6, <1>7, <1>8, <1>9

\* Nothing has no bytes.
LEMMA BytesOfNothing == \A m : Bytes({}, m) = 0
<1> SUFFICES ASSUME NEW m PROVE Bytes({}, m) = 0
    OBVIOUS
<1>1. PICK f : f = [o \in {} |-> Size[m[o]]]
    OBVIOUS
<1>2. f \in [{} -> Nat] /\ \A o \in {} : f[o] = 0
    BY <1>1
<1>3. SumFunction(f) = 0
    BY <1>2, FS_EmptySet, SumFunctionFacts
<1> QED
    BY <1>1, <1>3 DEF Bytes

\* The k live workspaces besides w store s bytes and wait for p, as long as they and
\* their counters are as ws and use say.
Besides(w, ws, use, s, p, k) ==
    \A ws2 : \A use2 \in [Workspaces -> Usage] :
        (\A v \in Workspaces \ {w} : /\ ws2[v] = "live" <=> ws[v] = "live"
                                     /\ ws[v] = "live" => use2[v] = use[v])
        => AccountUsage(ws2, use2) =
             IF ws2[w] = "live"
             THEN [storage    |-> s + use2[w].storage,
                   pending    |-> p + use2[w].pending,
                   workspaces |-> k + 1]
             ELSE [storage |-> s, pending |-> p, workspaces |-> k]

\* The account's usage, when only workspace w is told apart from the others.
LEMMA AccountSplit ==
    ASSUME NEW w \in Workspaces, NEW ws, NEW use \in [Workspaces -> Usage]
    PROVE  \E s \in Nat, p \in Nat, k \in Nat : Besides(w, ws, use, s, p, k)
<1>1. PICK L : L = {v \in Workspaces \ {w} : ws[v] = "live"}
    OBVIOUS
<1>2. L \in SUBSET Workspaces /\ w \notin L /\ IsFiniteSet(L) /\ Cardinality(L) \in Nat
    BY <1>1, ConstantsAssumption, FS_Subset, FS_CardinalityType
<1>3. PICK fs, fp : fs = [v \in L |-> use[v].storage] /\ fp = [v \in L |-> use[v].pending]
    OBVIOUS
<1>4. fs \in [L -> Nat] /\ fp \in [L -> Nat]
    BY <1>2, <1>3 DEF Usage
<1>5. SumFunction(fs) \in Nat /\ SumFunction(fp) \in Nat
    BY <1>2, <1>4, SumFunctionFacts
<1>6. ASSUME NEW ws2, NEW use2 \in [Workspaces -> Usage],
             \A v \in Workspaces \ {w} : /\ ws2[v] = "live" <=> ws[v] = "live"
                                         /\ ws[v] = "live" => use2[v] = use[v]
      PROVE  AccountUsage(ws2, use2) =
               IF ws2[w] = "live"
               THEN [storage    |-> SumFunction(fs) + use2[w].storage,
                     pending    |-> SumFunction(fp) + use2[w].pending,
                     workspaces |-> Cardinality(L) + 1]
               ELSE [storage |-> SumFunction(fs), pending |-> SumFunction(fp),
                     workspaces |-> Cardinality(L)]
    <2>1. PICK M : M = {v \in Workspaces : ws2[v] = "live"}
        OBVIOUS
    <2>2. PICK gs, gp : gs = [v \in M |-> use2[v].storage] /\ gp = [v \in M |-> use2[v].pending]
        OBVIOUS
    <2>3. AccountUsage(ws2, use2) = [storage |-> SumFunction(gs), pending |-> SumFunction(gp),
                                     workspaces |-> Cardinality(M)]
        BY <2>1, <2>2, Zenon DEF AccountUsage
    <2>4. CASE ws2[w] # "live"
        <3>1. M = L
            BY <1>1, <1>6, <2>1, <2>4
        <3>2. gs = fs /\ gp = fp
            BY <1>1, <1>3, <1>6, <2>2, <3>1
        <3> QED
            BY <2>3, <2>4, <3>1, <3>2
    <2>5. CASE ws2[w] = "live"
        <3>1. M = L \cup {w}
            BY <1>1, <1>6, <2>1, <2>5
        <3>2. M \in SUBSET Workspaces /\ IsFiniteSet(M) /\ Cardinality(M) = Cardinality(L) + 1
            <4>1. M \in SUBSET Workspaces
                BY <2>1
            <4>2. IsFiniteSet(L \cup {w}) /\ Cardinality(L \cup {w}) = Cardinality(L) + 1
                BY <1>2, FS_AddElement
            <4> QED
                BY <3>1, <4>1, <4>2
        <3>3. gs \in [M -> Nat] /\ gp \in [M -> Nat]
            BY <2>2, <3>2 DEF Usage
        <3>4. SumFunction(gs) = SumFunctionOnSet(gs, M) /\ SumFunction(gp) = SumFunctionOnSet(gp, M)
            BY <3>2, <3>3, SumFunctionFacts
        <3>5. SumFunctionOnSet(gs, M) = gs[w] + SumFunctionOnSet(gs, L)
            BY <1>2, <3>1, <3>3, SumOneMore
        <3>6. SumFunctionOnSet(gp, M) = gp[w] + SumFunctionOnSet(gp, L)
            BY <1>2, <3>1, <3>3, SumOneMore
        <3>7. \A v \in L : gs[v] = fs[v] /\ gp[v] = fp[v]
            BY <1>1, <1>3, <1>6, <2>2, <3>1
        <3>8. SumFunctionOnSet(gs, L) = SumFunction(fs) /\ SumFunctionOnSet(gp, L) = SumFunction(fp)
            BY <1>2, <1>4, <3>7, SumFunctionFacts
        <3>9. gs[w] = use2[w].storage /\ gp[w] = use2[w].pending
            BY <2>2, <3>1
        <3>10. gs[w] \in Nat /\ gp[w] \in Nat
            BY <3>1, <3>3
        <3>11. /\ SumFunction(gs) = SumFunction(fs) + use2[w].storage
               /\ SumFunction(gp) = SumFunction(fp) + use2[w].pending
            BY <1>5, <3>4, <3>5, <3>6, <3>8, <3>9, <3>10
        <3> QED
            BY <2>3, <2>5, <3>2, <3>11
    <2> QED
        BY <2>4, <2>5
<1>7. PICK s \in Nat, p \in Nat, k \in Nat : s = SumFunction(fs) /\ p = SumFunction(fp) /\ k = Cardinality(L)
    BY <1>2, <1>5
<1>8. Besides(w, ws, use, s, p, k)
    BY <1>6, <1>7 DEF Besides
<1> QED
    BY <1>8

\* The rows of workspace w in state s.
InState(w, s) == {o \in Objects : objWs[o] = w /\ objState[o] = s}

\* Counted rows have descriptors.
LEMMA CountedAreDescribed ==
    ASSUME DescribedRows, NEW w
    PROVE  Described(InState(w, "available"), objMeta) /\ Described(InState(w, "pending"), objMeta)
BY DEF DescribedRows, Described, InState

\* The counters of a workspace, from its rows.
LEMMA UsageIs ==
    ASSUME NEW w
    PROVE  WorkspaceUsage(w, objState, objMeta) =
             [storage |-> Bytes(InState(w, "available"), objMeta),
              pending |-> Bytes(InState(w, "pending"), objMeta),
              count   |-> Cardinality(InState(w, "available"))]
BY DEF WorkspaceUsage, InState

\* A step that leaves the counted rows of workspace w alone.
CountedKept(w) ==
    \A o \in Objects :
        /\ \A s \in {"available", "pending"} :
               (objWs'[o] = w /\ objState'[o] = s) <=> (objWs[o] = w /\ objState[o] = s)
        /\ objWs[o] = w /\ objState[o] \in {"available", "pending"} => objMeta'[o] = objMeta[o]

\* It leaves their bytes and their number alone.
LEMMA UsageKept ==
    ASSUME DescribedRows, NEW w, CountedKept(w)
    PROVE  WorkspaceUsage(w, objState, objMeta)' = WorkspaceUsage(w, objState, objMeta)
<1>1. PICK A, P : A = InState(w, "available") /\ P = InState(w, "pending")
    OBVIOUS
<1>2. InState(w, "available")' = A /\ InState(w, "pending")' = P
    BY <1>1 DEF InState, CountedKept
<1>3. PICK m, n : m = objMeta /\ n = objMeta'
    OBVIOUS
<1>4. Described(A, m) /\ Described(P, m)
    BY <1>1, <1>3, CountedAreDescribed
<1>5. (\A o \in A : n[o] = m[o]) /\ (\A o \in P : n[o] = m[o])
    BY <1>1, <1>3 DEF InState, CountedKept
<1>6. Bytes(A, n) = Bytes(A, m) /\ Bytes(P, n) = Bytes(P, m)
    BY <1>4, <1>5, BytesFacts
<1>7. WorkspaceUsage(w, objState, objMeta) =
        [storage |-> Bytes(A, m), pending |-> Bytes(P, m), count |-> Cardinality(A)]
    BY <1>1, <1>3, UsageIs
<1>8. WorkspaceUsage(w, objState, objMeta)' =
        [storage |-> Bytes(A, n), pending |-> Bytes(P, n), count |-> Cardinality(A)]
    BY <1>2, <1>3 DEF WorkspaceUsage, InState, Bytes
<1> QED
    BY <1>6, <1>7, <1>8

\* A recalculation yields counters.
LEMMA UsageType ==
    ASSUME DescribedRows, NEW w
    PROVE  WorkspaceUsage(w, objState, objMeta) \in Usage
<1>1. PICK A, P : A = InState(w, "available") /\ P = InState(w, "pending")
    OBVIOUS
<1>2. Described(A, objMeta) /\ Described(P, objMeta)
    BY <1>1, CountedAreDescribed
<1>3. PICK m : m = objMeta
    OBVIOUS
<1>4. Bytes(A, m) \in Nat /\ Bytes(P, m) \in Nat /\ Cardinality(A) \in Nat
    BY <1>2, <1>3, BytesFacts
<1> QED
    BY <1>1, <1>3, <1>4, UsageIs DEF Usage

\* What the account's usage is, as a type.
LEMMA AccountType ==
    ASSUME NEW ws, NEW use \in [Workspaces -> Usage]
    PROVE  AccountUsage(ws, use) \in [storage : Nat, pending : Nat, workspaces : Nat]
<1>1. PICK L : L = {v \in Workspaces : ws[v] = "live"}
    OBVIOUS
<1>2. L \in SUBSET Workspaces /\ IsFiniteSet(L) /\ Cardinality(L) \in Nat
    BY <1>1, ConstantsAssumption, FS_Subset, FS_CardinalityType
<1>3. PICK fs, fp : fs = [v \in L |-> use[v].storage] /\ fp = [v \in L |-> use[v].pending]
    OBVIOUS
<1>4. fs \in [L -> Nat] /\ fp \in [L -> Nat]
    BY <1>2, <1>3 DEF Usage
<1>5. SumFunction(fs) \in Nat /\ SumFunction(fp) \in Nat
    BY <1>2, <1>4, SumFunctionFacts
<1>6. AccountUsage(ws, use) = [storage |-> SumFunction(fs), pending |-> SumFunction(fp),
                               workspaces |-> Cardinality(L)]
    BY <1>1, <1>3, Zenon DEF AccountUsage
<1> QED
    BY <1>2, <1>5, <1>6

\* An account whose live workspaces and their counters are left alone.
LEMMA AccountKept ==
    ASSUME NEW ws, NEW use, NEW ws2, NEW use2,
           \A v \in Workspaces : /\ ws2[v] = "live" <=> ws[v] = "live"
                                 /\ ws[v] = "live" => use2[v] = use[v]
    PROVE  AccountUsage(ws2, use2) = AccountUsage(ws, use)
<1>1. PICK L : L = {v \in Workspaces : ws[v] = "live"}
    OBVIOUS
<1>2. L = {v \in Workspaces : ws2[v] = "live"}
    BY <1>1
<1>3. /\ [v \in L |-> use2[v].storage] = [v \in L |-> use[v].storage]
      /\ [v \in L |-> use2[v].pending] = [v \in L |-> use[v].pending]
    BY <1>1
<1>4. AccountUsage(ws, use) = [storage |-> SumFunction([v \in L |-> use[v].storage]),
                               pending |-> SumFunction([v \in L |-> use[v].pending]),
                               workspaces |-> Cardinality(L)]
    BY <1>1, Zenon DEF AccountUsage
<1>5. AccountUsage(ws2, use2) = [storage |-> SumFunction([v \in L |-> use2[v].storage]),
                                 pending |-> SumFunction([v \in L |-> use2[v].pending]),
                                 workspaces |-> Cardinality(L)]
    BY <1>2, Zenon DEF AccountUsage
<1> QED
    BY <1>3, <1>4, <1>5

\* An account without a live workspace has nothing.
LEMMA AccountOfNothing ==
    ASSUME NEW ws, NEW use, \A v \in Workspaces : ws[v] # "live"
    PROVE  AccountUsage(ws, use) = NoAccount
<1>1. PICK L : L = {v \in Workspaces : ws[v] = "live"}
    OBVIOUS
<1>2. PICK fs, fp : fs = [v \in L |-> use[v].storage] /\ fp = [v \in L |-> use[v].pending]
    OBVIOUS
<1>3. L = {}
    BY <1>1
<1>4. fs \in [L -> Nat] /\ fp \in [L -> Nat] /\ IsFiniteSet(L) /\ Cardinality(L) = 0
    BY <1>2, <1>3, FS_EmptySet
<1>5. SumFunction(fs) = 0 /\ SumFunction(fp) = 0
    BY <1>3, <1>4, SumFunctionFacts
<1>6. AccountUsage(ws, use) = [storage |-> SumFunction(fs), pending |-> SumFunction(fp),
                               workspaces |-> Cardinality(L)]
    BY <1>1, <1>2, Zenon DEF AccountUsage
<1> QED
    BY <1>4, <1>5, <1>6 DEF NoAccount

\* What a step must show when it touches the counters of one workspace only.
LEMMA OneWorkspace ==
    ASSUME UsageInv, NEW w \in Workspaces, RowTypeOK', DescribedRows',
           wsUse' \in [Workspaces -> Usage],
           acct' \in [storage : Nat, pending : Nat, workspaces : Nat],
           stale' \in BOOLEAN, admitted' \in BOOLEAN, zeroed' = zeroed,
           \A v \in Workspaces \ {w} : /\ wsState'[v] = "live" <=> wsState[v] = "live"
                                       /\ wsUse'[v] = wsUse[v]
                                       /\ wsState[v] = "live" => CountedKept(v),
           wsState'[w] = "live" /\ w \notin zeroed =>
               /\ wsUse'[w] = WorkspaceUsage(w, objState, objMeta)'
               /\ wsUse'[w].pending <= MaxPendingBytes
               /\ wsUse'[w].storage + wsUse'[w].pending <= MaxWorkspaceBytes,
           ~stale' => acct' = AccountUsage(wsState, wsUse)',
           ~admitted' /\ zeroed = {} => WithinAccountLimit'
    PROVE  UsageInv'
<1>1. TypeOK'
    BY DEF UsageInv, TypeOK
<1>2. ASSUME NEW v \in Workspaces \ zeroed, wsState'[v] = "live", v # w
      PROVE  wsUse'[v] = WorkspaceUsage(v, objState, objMeta)'
    <2>1. wsState[v] = "live" /\ wsUse'[v] = wsUse[v] /\ CountedKept(v)
        BY <1>2
    <2>2. wsUse[v] = WorkspaceUsage(v, objState, objMeta)
        BY <2>1 DEF UsageInv, WorkspaceUsageExact
    <2>3. WorkspaceUsage(v, objState, objMeta)' = WorkspaceUsage(v, objState, objMeta)
        BY <2>1, UsageKept DEF UsageInv
    <2> QED
        BY <2>1, <2>2, <2>3
<1>3. WorkspaceUsageExact'
    <2>1. \A v \in Workspaces \ zeroed : wsState'[v] = "live" => wsUse'[v] = WorkspaceUsage(v, objState, objMeta)'
        BY <1>2
    <2> QED
        BY <2>1 DEF WorkspaceUsageExact
<1>4. AccountUsageExact'
    BY DEF AccountUsageExact
<1>5. QuotaRespected'
    <2>1. \A v \in Workspaces \ zeroed : wsState'[v] = "live" =>
              /\ wsUse'[v].pending <= MaxPendingBytes
              /\ wsUse'[v].storage + wsUse'[v].pending <= MaxWorkspaceBytes
        BY DEF UsageInv, QuotaRespected
    <2> QED
        BY <2>1 DEF QuotaRespected
<1> QED
    BY <1>1, <1>3, <1>4, <1>5 DEF UsageInv

\* A step that touches no counter and no counted row of a live workspace.
LEMMA UsageUntouched ==
    ASSUME UsageInv, RowTypeOK', DescribedRows', UNCHANGED useVars,
           \A v \in Workspaces : /\ wsState'[v] = "live" <=> wsState[v] = "live"
                                 /\ wsState[v] = "live" => CountedKept(v)
    PROVE  UsageInv'
<1>1. TypeOK'
    BY DEF UsageInv, TypeOK, useVars
<1>2. ASSUME NEW v \in Workspaces \ zeroed, wsState'[v] = "live"
      PROVE  wsUse'[v] = WorkspaceUsage(v, objState, objMeta)'
    <2>1. wsState[v] = "live" /\ wsUse'[v] = wsUse[v] /\ CountedKept(v)
        BY <1>2 DEF useVars
    <2>2. wsUse[v] = WorkspaceUsage(v, objState, objMeta)
        BY <2>1 DEF UsageInv, WorkspaceUsageExact
    <2>3. WorkspaceUsage(v, objState, objMeta)' = WorkspaceUsage(v, objState, objMeta)
        BY <2>1, UsageKept DEF UsageInv
    <2> QED
        BY <2>1, <2>2, <2>3
<1>3. WorkspaceUsageExact'
    BY <1>2 DEF WorkspaceUsageExact, useVars
<1>4. AccountUsage(wsState, wsUse)' = AccountUsage(wsState, wsUse)
    <2>1. PICK ws, use, ws2, use2 : ws = wsState /\ use = wsUse /\ ws2 = wsState' /\ use2 = wsUse'
        OBVIOUS
    <2>2. AccountUsage(ws2, use2) = AccountUsage(ws, use)
        BY <2>1, AccountKept DEF useVars
    <2> QED
        BY <2>1, <2>2 DEF AccountUsage
<1>5. AccountUsageExact'
    BY <1>4 DEF UsageInv, AccountUsageExact, useVars
<1>6. QuotaRespected'
    <2>1. ~admitted' /\ zeroed = {} => WithinAccountLimit'
        BY <1>4 DEF UsageInv, QuotaRespected, WithinAccountLimit, useVars
    <2>2. \A v \in Workspaces \ zeroed : wsState'[v] = "live" =>
              /\ wsUse'[v].pending <= MaxPendingBytes
              /\ wsUse'[v].storage + wsUse'[v].pending <= MaxWorkspaceBytes
        BY DEF UsageInv, QuotaRespected, useVars
    <2> QED
        BY <2>1, <2>2 DEF QuotaRespected, useVars
<1> QED
    BY <1>1, <1>3, <1>5, <1>6 DEF UsageInv

\* The live workspaces are w, if it is live, and k others with s and p bytes.
Totals(w, s, p, k) ==
    AccountUsage(wsState, wsUse) =
        IF wsState[w] = "live"
        THEN [storage |-> s + wsUse[w].storage, pending |-> p + wsUse[w].pending, workspaces |-> k + 1]
        ELSE [storage |-> s, pending |-> p, workspaces |-> k]

\* The account before and after a step that touches one workspace.
LEMMA AccountStep ==
    ASSUME UsageInv, NEW w \in Workspaces, wsUse' \in [Workspaces -> Usage],
           \A v \in Workspaces \ {w} : /\ wsState'[v] = "live" <=> wsState[v] = "live"
                                       /\ wsUse'[v] = wsUse[v]
    PROVE  \E s \in Nat, p \in Nat, k \in Nat : Totals(w, s, p, k) /\ Totals(w, s, p, k)'
<1>1. PICK ws, use, ws2, use2 : ws = wsState /\ use = wsUse /\ ws2 = wsState' /\ use2 = wsUse'
    OBVIOUS
<1>2. use \in [Workspaces -> Usage] /\ use2 \in [Workspaces -> Usage]
    BY <1>1 DEF UsageInv, TypeOK
<1>3. PICK s \in Nat, p \in Nat, k \in Nat : Besides(w, ws, use, s, p, k)
    BY <1>2, AccountSplit
<1>4. AccountUsage(ws, use) =
        IF ws[w] = "live"
        THEN [storage |-> s + use[w].storage, pending |-> p + use[w].pending, workspaces |-> k + 1]
        ELSE [storage |-> s, pending |-> p, workspaces |-> k]
    BY <1>2, <1>3 DEF Besides
<1>5. \A v \in Workspaces \ {w} : /\ ws2[v] = "live" <=> ws[v] = "live"
                                  /\ ws[v] = "live" => use2[v] = use[v]
    BY <1>1
<1>6. AccountUsage(ws2, use2) =
        IF ws2[w] = "live"
        THEN [storage |-> s + use2[w].storage, pending |-> p + use2[w].pending, workspaces |-> k + 1]
        ELSE [storage |-> s, pending |-> p, workspaces |-> k]
    BY <1>2, <1>3, <1>5 DEF Besides
<1>7. AccountUsage(wsState, wsUse)' = AccountUsage(ws2, use2)
    BY <1>1 DEF AccountUsage
<1>8. Totals(w, s, p, k)
    BY <1>1, <1>4 DEF Totals
<1>9. Totals(w, s, p, k)'
    BY <1>1, <1>6, <1>7 DEF Totals
<1> QED
    BY <1>8, <1>9

\* No row exists yet: every counter is zero.
LEMMA InitUsage == Init => UsageInv
<1> SUFFICES ASSUME Init PROVE UsageInv
    OBVIOUS
<1>1. RowTypeOK
    BY InitStore DEF StoreInv
<1>2. TypeOK
    <2>1. NoUsage \in Usage /\ NoAccount \in [storage : Nat, pending : Nat, workspaces : Nat]
        BY DEF NoUsage, Usage, NoAccount
    <2> QED
        BY <1>1, <2>1 DEF Init, TypeOK
<1>3. \A w \in Workspaces : wsState[w] # "live"
    BY DEF Init
<1>4. DescribedRows /\ WorkspaceUsageExact
    BY <1>3 DEF Init, DescribedRows, WorkspaceUsageExact
<1>5. AccountUsage(wsState, wsUse) = NoAccount
    BY <1>3, AccountOfNothing
<1>6. AccountUsageExact
    BY <1>5 DEF Init, AccountUsageExact
<1>7. QuotaRespected
    <2>1. NoAccount.storage + NoAccount.pending <= MaxAccountBytes
        BY ConstantsAssumption DEF NoAccount
    <2> QED
        BY <1>3, <1>5, <2>1 DEF QuotaRespected, WithinAccountLimit
<1> QED
    BY <1>2, <1>4, <1>6, <1>7 DEF UsageInv

\* CreateWorkspace: a new workspace has no rows, and one more is counted.
LEMMA CreateWorkspaceUsage ==
    ASSUME StoreInv, StoreInv', UsageInv, NEW w \in Workspaces, CreateWorkspace(w)
    PROVE  UsageInv'
<1> USE DEF CreateWorkspace
<1>1. /\ wsState \in [Workspaces -> {"none", "live", "deleted", "purged"}] /\ RowTypeOK'
      /\ wsUse \in [Workspaces -> Usage]
      /\ acct \in [storage : Nat, pending : Nat, workspaces : Nat]
      /\ stale \in BOOLEAN /\ admitted \in BOOLEAN /\ zeroed' = zeroed
    BY DEF StoreInv, RowTypeOK, UsageInv, TypeOK
<1>2. /\ wsUse'[w] = NoUsage /\ wsState'[w] = "live" /\ wsState[w] = "none"
      /\ \A v \in Workspaces \ {w} : wsUse'[v] = wsUse[v] /\ wsState'[v] = wsState[v]
    BY <1>1
<1>3. NoUsage \in Usage /\ NoUsage.storage = 0 /\ NoUsage.pending = 0
    BY DEF NoUsage, Usage
<1>4. wsUse' \in [Workspaces -> Usage]
    BY <1>1, <1>3
<1>5. acct' \in [storage : Nat, pending : Nat, workspaces : Nat]
    BY <1>1
<1>6. DescribedRows' /\ \A v \in Workspaces : CountedKept(v)
    BY DEF UsageInv, DescribedRows, CountedKept, rowVars
<1>7. wsUse'[w] = WorkspaceUsage(w, objState, objMeta)'
    <2>1. InState(w, "available") = {} /\ InState(w, "pending") = {}
        BY <1>2 DEF StoreInv, RowsHaveWorkspace, InState
    <2>2. WorkspaceUsage(w, objState, objMeta) = NoUsage
        <3>1. PICK m : m = objMeta
            OBVIOUS
        <3>2. Bytes({}, m) = 0 /\ Cardinality({}) = 0
            BY BytesOfNothing, FS_EmptySet
        <3> QED
            BY <2>1, <3>1, <3>2, UsageIs DEF NoUsage
    <2>3. WorkspaceUsage(w, objState, objMeta)' = WorkspaceUsage(w, objState, objMeta)
        BY <1>6, UsageKept DEF UsageInv
    <2> QED
        BY <1>2, <2>2, <2>3
<1>12. PICK s \in Nat, p \in Nat, k \in Nat : Totals(w, s, p, k) /\ Totals(w, s, p, k)'
    BY <1>2, <1>4, AccountStep
<1>8. /\ AccountUsage(wsState, wsUse) = [storage |-> s, pending |-> p, workspaces |-> k]
      /\ AccountUsage(wsState, wsUse)' = [storage |-> s, pending |-> p, workspaces |-> k + 1]
    <2>1. s + NoUsage.storage = s /\ p + NoUsage.pending = p
        BY <1>3
    <2> QED
        BY <1>2, <1>12, <2>1 DEF Totals
<1>9. ~stale' => acct' = AccountUsage(wsState, wsUse)'
    <2> SUFFICES ASSUME ~stale PROVE acct' = AccountUsage(wsState, wsUse)'
        OBVIOUS
    <2>1. acct = [storage |-> s, pending |-> p, workspaces |-> k]
        BY <1>8 DEF UsageInv, AccountUsageExact
    <2>2. acct' = [storage |-> s, pending |-> p, workspaces |-> k + 1]
        BY <2>1
    <2> QED
        BY <1>8, <2>2
<1>10. ~admitted' /\ zeroed = {} => WithinAccountLimit'
    BY <1>8 DEF UsageInv, QuotaRespected, WithinAccountLimit
<1>11. wsUse'[w].pending <= MaxPendingBytes /\ wsUse'[w].storage + wsUse'[w].pending <= MaxWorkspaceBytes
    BY <1>2, <1>3, ConstantsAssumption
<1> QED
    BY <1>1, <1>2, <1>4, <1>5, <1>6, <1>7, <1>9, <1>10, <1>11, OneWorkspace

\* DeleteWorkspace: the account is recalculated without the workspace.
LEMMA DeleteWorkspaceUsage ==
    ASSUME StoreInv, StoreInv', UsageInv, NEW w \in Workspaces, DeleteWorkspace(w)
    PROVE  UsageInv'
<1> USE DEF DeleteWorkspace
<1>1. /\ wsState \in [Workspaces -> {"none", "live", "deleted", "purged"}] /\ RowTypeOK'
      /\ wsUse \in [Workspaces -> Usage] /\ wsUse' = wsUse
      /\ admitted \in BOOLEAN /\ admitted' = admitted /\ stale' = FALSE
      /\ zeroed' = zeroed
    BY DEF StoreInv, RowTypeOK, UsageInv, TypeOK
<1>2. wsState'[w] # "live" /\ \A v \in Workspaces \ {w} : wsState'[v] = wsState[v]
    BY <1>1
<1>3. DescribedRows' /\ \A v \in Workspaces : CountedKept(v)
    BY DEF UsageInv, DescribedRows, CountedKept, rowVars
<1>4. acct' = AccountUsage(wsState, wsUse)'
    BY <1>1 DEF AccountUsage
<1>5. acct' \in [storage : Nat, pending : Nat, workspaces : Nat]
    <2>1. PICK ws, use : ws = wsState' /\ use = wsUse
        OBVIOUS
    <2>2. AccountUsage(ws, use) \in [storage : Nat, pending : Nat, workspaces : Nat]
        BY <1>1, <2>1, AccountType
    <2>3. acct' = AccountUsage(ws, use)
        BY <2>1
    <2> QED
        BY <2>2, <2>3
<1>6. PICK s \in Nat, p \in Nat, k \in Nat : Totals(w, s, p, k) /\ Totals(w, s, p, k)'
    BY <1>1, <1>2, AccountStep
<1>7. ~admitted' /\ zeroed = {} => WithinAccountLimit'
    <2> SUFFICES ASSUME ~admitted, zeroed = {} PROVE s + p <= MaxAccountBytes
        BY <1>1, <1>2, <1>6 DEF WithinAccountLimit, Totals
    <2>1. WithinAccountLimit
        BY DEF UsageInv, QuotaRespected
    <2>2. PICK a \in Nat, b \in Nat : a = wsUse[w].storage /\ b = wsUse[w].pending
        BY <1>1 DEF Usage
    <2>3. (s + a) + (p + b) <= MaxAccountBytes \/ s + p <= MaxAccountBytes
        BY <1>6, <2>1, <2>2 DEF WithinAccountLimit, Totals
    <2> QED
        BY <2>3, ConstantsAssumption
<1> QED
    BY <1>1, <1>2, <1>3, <1>4, <1>5, <1>7, OneWorkspace

\* ReserveObjectIDs: a reserved row counts for nothing.
LEMMA ReserveUsage ==
    ASSUME StoreInv, StoreInv', UsageInv, NEW r \in Requests, ReserveObjectIDs(r)
    PROVE  UsageInv'
<1>1. PICK B \in (SUBSET {o \in Objects : objState[o] = "unused"}) \ {{}} :
        /\ objState' = [o \in Objects |-> IF o \in B THEN "reserved" ELSE objState[o]]
        /\ objWs' = [o \in Objects |-> IF o \in B THEN auth[r].ws ELSE objWs[o]]
    BY DEF ReserveObjectIDs
<1>2. UNCHANGED useVars /\ objMeta' = objMeta /\ wsState' = wsState
    BY DEF ReserveObjectIDs, wsVars
<1>3. DescribedRows'
    BY <1>1, <1>2 DEF UsageInv, DescribedRows
<1>4. \A v \in Workspaces : CountedKept(v)
    BY <1>1, <1>2 DEF CountedKept
<1> QED
    BY <1>2, <1>3, <1>4, UsageUntouched DEF StoreInv

\* RunDeletedWorkspaceCleanup: the rows it takes are of no live workspace.
LEMMA CleanupUsage ==
    ASSUME StoreInv, StoreInv', UsageInv, NEW W \in SUBSET Workspaces, NEW ok \in BOOLEAN,
           RunDeletedWorkspaceCleanup(W, ok)
    PROVE  UsageInv'
<1> DEFINE rows == {o \in Objects : objWs[o] \in W /\ objState[o] # "purged"}
<1>1. /\ \A w \in W : wsState[w] = "deleted"
      /\ UNCHANGED useVars /\ objMeta' = objMeta /\ objWs' = objWs
    BY DEF RunDeletedWorkspaceCleanup
<1>2. /\ \A v \in Workspaces : wsState'[v] = IF ok /\ v \in W THEN "purged" ELSE wsState[v]
      /\ \A o \in Objects : objState'[o] = IF ok /\ o \in rows THEN "purged" ELSE objState[o]
    BY DEF RunDeletedWorkspaceCleanup
<1>3. DescribedRows'
    BY <1>1, <1>2 DEF UsageInv, DescribedRows
<1>4. ASSUME NEW v \in Workspaces, wsState[v] = "live" PROVE CountedKept(v)
    <2>1. v \notin W
        BY <1>1, <1>4
    <2>2. \A o \in Objects : objWs[o] = v => objState'[o] = objState[o]
        BY <1>2, <2>1
    <2> QED
        BY <1>1, <2>2 DEF CountedKept
<1>5. \A v \in Workspaces : wsState'[v] = "live" <=> wsState[v] = "live"
    BY <1>1, <1>2
<1> QED
    BY <1>1, <1>3, <1>4, <1>5, UsageUntouched DEF StoreInv

\* A sum over a part of a set is no larger.
LEMMA SumOfFewer ==
    ASSUME NEW L, NEW M, NEW R, IsFiniteSet(L), IsFiniteSet(M), IsFiniteSet(R),
           M \cup R = L, M \cap R = {},
           NEW f \in [L -> Nat], NEW g \in [M -> Nat], \A x \in M : g[x] = f[x]
    PROVE  SumFunction(g) <= SumFunction(f)
<1>1. /\ SumFunction(f) = SumFunctionOnSet(f, L) /\ SumFunction(g) = SumFunctionOnSet(f, M)
      /\ SumFunctionOnSet(f, M \cup R) = SumFunctionOnSet(f, L)
    BY SumFunctionFacts
<1>2. \A x \in M \cup R : f[x] \in Nat
    OBVIOUS
<1>3. SumFunctionOnSet(f, M \cup R) = SumFunctionOnSet(f, M) + SumFunctionOnSet(f, R)
    BY <1>2, SumUnion
<1>4. SumFunctionOnSet(f, M) \in Nat /\ SumFunctionOnSet(f, R) \in Nat
    BY <1>2, SumTake
<1> QED
    BY <1>1, <1>3, <1>4, SMTT(30)

\* Fewer live workspaces, with counters as they were, have no more together.
LEMMA FewerLive ==
    ASSUME NEW ws, NEW ws2, NEW use \in [Workspaces -> Usage], NEW use2 \in [Workspaces -> Usage],
           \A v \in Workspaces : ws2[v] = "live" => ws[v] = "live" /\ use2[v] = use[v]
    PROVE  /\ AccountUsage(ws2, use2).storage <= AccountUsage(ws, use).storage
           /\ AccountUsage(ws2, use2).pending <= AccountUsage(ws, use).pending
<1>1. PICK L, M, R : /\ L = {v \in Workspaces : ws[v] = "live"}
                     /\ M = {v \in Workspaces : ws2[v] = "live"} /\ R = L \ M
    OBVIOUS
<1>2. M \cup R = L /\ M \cap R = {} /\ L \in SUBSET Workspaces /\ IsFiniteSet(L)
      /\ IsFiniteSet(M) /\ IsFiniteSet(R)
    <2>1. M \cup R = L /\ M \cap R = {} /\ L \in SUBSET Workspaces
        BY <1>1
    <2> QED
        BY <2>1, ConstantsAssumption, FS_Subset
<1>3. PICK fs, fp, gs, gp : /\ fs = [v \in L |-> use[v].storage] /\ fp = [v \in L |-> use[v].pending]
                            /\ gs = [v \in M |-> use2[v].storage] /\ gp = [v \in M |-> use2[v].pending]
    OBVIOUS
<1>4. fs \in [L -> Nat] /\ fp \in [L -> Nat] /\ gs \in [M -> Nat] /\ gp \in [M -> Nat]
    BY <1>2, <1>3 DEF Usage
<1>5. \A v \in M : gs[v] = fs[v] /\ gp[v] = fp[v]
    BY <1>1, <1>2, <1>3
<1>6. /\ AccountUsage(ws, use) = [storage |-> SumFunction(fs), pending |-> SumFunction(fp),
                                  workspaces |-> Cardinality(L)]
      /\ AccountUsage(ws2, use2) = [storage |-> SumFunction(gs), pending |-> SumFunction(gp),
                                    workspaces |-> Cardinality(M)]
    BY <1>1, <1>3, Zenon DEF AccountUsage
<1>7. SumFunction(gs) <= SumFunction(fs) /\ SumFunction(gp) <= SumFunction(fp)
    BY <1>2, <1>4, <1>5, SumOfFewer
<1> QED
    BY <1>6, <1>7

\* DeleteAccount's commit: the account row is reset, and with it the counters of the
\* workspaces that existed at its fourth statement.
LEMMA CloseUsage ==
    ASSUME StoreInv, StoreInv', UsageInv, DeleteAccountCommit
    PROVE  UsageInv'
<1>0. /\ wsState \in [Workspaces -> {"none", "live", "deleted", "purged"}]
      /\ wsUse \in [Workspaces -> Usage] /\ zeroed \in SUBSET Workspaces
      /\ closing.ws \in SUBSET Workspaces /\ closing.uses \in SUBSET Workspaces
      /\ closing.rows \in SUBSET Objects /\ closing # None /\ closing.step = 4
    BY ClosingFields DEF DeleteAccountCommit, StoreInv, RowTypeOK, UsageInv, TypeOK
<1>a. PICK left : left = {w \in Workspaces : wsState[w] = "live"} \ closing.ws
    OBVIOUS
<1>b. /\ wsState' = [w \in Workspaces |-> IF w \in closing.ws THEN "deleted" ELSE wsState[w]]
      /\ wsUse' = [w \in Workspaces |-> IF w \in closing.uses THEN NoUsage ELSE wsUse[w]]
      /\ objState' = [o \in Objects |-> IF o \in closing.rows THEN "deleted" ELSE objState[o]]
      /\ objWs' = objWs /\ objMeta' = objMeta
      /\ acct' = NoAccount
      /\ stale' = (left # {}) /\ admitted' = (admitted /\ left # {})
      /\ zeroed' = zeroed \cup (left \cap closing.uses)
    BY <1>a DEF DeleteAccountCommit
<1>1. \A v \in Workspaces : wsState'[v] = "live" <=> v \in left
    BY <1>0, <1>a, <1>b
<1>2. TypeOK'
    <2>1. NoUsage \in Usage /\ NoAccount \in [storage : Nat, pending : Nat, workspaces : Nat]
        BY DEF NoUsage, Usage, NoAccount
    <2>2. wsUse' \in [Workspaces -> Usage]
        BY <1>0, <1>b, <2>1
    <2>3. stale' \in BOOLEAN /\ admitted' \in BOOLEAN
        BY <1>b, Zenon
    <2>4. zeroed' \subseteq Workspaces
        BY <1>0, <1>b
    <2>5. RowTypeOK'
        BY DEF StoreInv
    <2>6. acct' \in [storage : Nat, pending : Nat, workspaces : Nat]
        BY <1>b, <2>1
    <2> QED
        BY <2>2, <2>3, <2>4, <2>5, <2>6, Zenon DEF TypeOK
<1>3. DescribedRows'
    BY <1>0, <1>b DEF UsageInv, DescribedRows
<1>4. ASSUME NEW v \in Workspaces \ zeroed', wsState'[v] = "live"
      PROVE  wsState[v] = "live" /\ v \notin zeroed /\ wsUse'[v] = wsUse[v] /\ v \in left
    <2>1. v \in left /\ v \notin closing.uses
        BY <1>1, <1>4, <1>b
    <2> QED
        BY <1>a, <1>b, <1>4, <2>1
<1>5. WorkspaceUsageExact'
    <2>1. ASSUME NEW v \in Workspaces \ zeroed', wsState'[v] = "live"
          PROVE  wsUse'[v] = WorkspaceUsage(v, objState, objMeta)'
        <3>1. wsState[v] = "live" /\ v \notin zeroed /\ wsUse'[v] = wsUse[v] /\ v \in left
            BY <1>4, <2>1
        <3>2. \A o \in closing.rows : objWs[o] # v
            BY <1>0, <1>a, <3>1 DEF StoreInv, ClosingHoldsRows
        <3>3. CountedKept(v)
            BY <1>0, <1>b, <3>2 DEF CountedKept
        <3>4. WorkspaceUsage(v, objState, objMeta)' = WorkspaceUsage(v, objState, objMeta)
            BY <3>3, UsageKept DEF UsageInv
        <3>5. wsUse[v] = WorkspaceUsage(v, objState, objMeta)
            BY <3>1 DEF UsageInv, WorkspaceUsageExact
        <3> QED
            BY <3>1, <3>4, <3>5
    <2> QED
        BY <2>1 DEF WorkspaceUsageExact
<1>6. PICK ws, use, ws2, use2 : ws = wsState /\ use = wsUse /\ ws2 = wsState' /\ use2 = wsUse'
    OBVIOUS
<1>7. AccountUsage(wsState, wsUse)' = AccountUsage(ws2, use2)
    BY <1>6 DEF AccountUsage
<1>8. left = {} => AccountUsage(wsState, wsUse)' = NoAccount
    BY <1>1, <1>6, <1>7, AccountOfNothing
<1>9. AccountUsageExact'
    BY <1>b, <1>8 DEF AccountUsageExact
<1>10. ~admitted' /\ zeroed' = {} => WithinAccountLimit'
    <2> SUFFICES ASSUME ~admitted', zeroed' = {} PROVE WithinAccountLimit'
        OBVIOUS
    <2>1. CASE left = {}
        <3>1. NoAccount.storage + NoAccount.pending <= MaxAccountBytes
            BY ConstantsAssumption DEF NoAccount
        <3> QED
            BY <1>8, <2>1, <3>1 DEF WithinAccountLimit
    <2>2. CASE left # {}
        <3>1. ~admitted /\ zeroed = {}
            BY <1>b, <2>2, Zenon
        <3>2. WithinAccountLimit
            BY <3>1 DEF UsageInv, QuotaRespected
        <3>3. \A v \in Workspaces : ws2[v] = "live" => ws[v] = "live" /\ use2[v] = use[v]
            BY <1>4, <1>6
        <3>4. use \in [Workspaces -> Usage] /\ use2 \in [Workspaces -> Usage]
            BY <1>0, <1>2, <1>6 DEF TypeOK
        <3>5. PICK a, b : a = AccountUsage(ws, use) /\ b = AccountUsage(ws2, use2)
            OBVIOUS
        <3>6. /\ a \in [storage : Nat, pending : Nat, workspaces : Nat]
              /\ b \in [storage : Nat, pending : Nat, workspaces : Nat]
              /\ b.storage <= a.storage /\ b.pending <= a.pending
            BY <3>3, <3>4, <3>5, AccountType, FewerLive
        <3>7. a.storage + a.pending <= MaxAccountBytes
            BY <1>6, <3>2, <3>5 DEF WithinAccountLimit
        <3>8. b.storage + b.pending <= MaxAccountBytes
            BY <3>6, <3>7, ConstantsAssumption
        <3> QED
            BY <1>7, <3>5, <3>8 DEF WithinAccountLimit
    <2> QED
        BY <2>1, <2>2
<1>11. QuotaRespected'
    <2>1. \A v \in Workspaces \ zeroed' : wsState'[v] = "live" =>
              /\ wsUse'[v].pending <= MaxPendingBytes
              /\ wsUse'[v].storage + wsUse'[v].pending <= MaxWorkspaceBytes
        BY <1>4 DEF UsageInv, QuotaRespected
    <2> QED
        BY <1>10, <2>1 DEF QuotaRespected
<1> QED
    BY <1>2, <1>3, <1>5, <1>9, <1>11 DEF UsageInv

\* Rows of workspace w that are not available are collected (none, in a mere
\* recalculation), and both counters recalculated.
LEMMA RecalculatedUsage ==
    ASSUME UsageInv, RowTypeOK, RowTypeOK', NEW w \in Workspaces, NEW D \in SUBSET Objects,
           \A o \in D : objWs[o] = w /\ objState[o] # "available",
           \A o \in Objects : objState'[o] = IF o \in D THEN "deleted" ELSE objState[o],
           wsState' = wsState, objWs' = objWs, objMeta' = objMeta,
           wsUse' = [wsUse EXCEPT ![w] = WorkspaceUsage(w, objState, objMeta)'],
           acct' = AccountUsage(wsState, wsUse)', stale' = FALSE, admitted' = admitted,
           zeroed' = zeroed
    PROVE  UsageInv'
<1>1. wsUse \in [Workspaces -> Usage] /\ admitted \in BOOLEAN
    BY DEF UsageInv, TypeOK
<1>2. DescribedRows'
    BY DEF UsageInv, DescribedRows
<1>3. PICK u : u = WorkspaceUsage(w, objState, objMeta)'
    OBVIOUS
<1>4. PICK A, P, P2, m : /\ A = InState(w, "available") /\ P = InState(w, "pending")
                         /\ P2 = P \ D /\ m = objMeta
    OBVIOUS
<1>5. InState(w, "available")' = A /\ InState(w, "pending")' = P2
    BY <1>4 DEF InState
<1>6. u = [storage |-> Bytes(A, m), pending |-> Bytes(P2, m), count |-> Cardinality(A)]
    BY <1>3, <1>4, <1>5 DEF WorkspaceUsage, InState, Bytes
<1>7. Described(A, m) /\ Described(P, m) /\ Described(P2, m) /\ Described(P \cap D, m)
    <2>1. Described(A, m) /\ Described(P, m)
        BY <1>4, CountedAreDescribed DEF UsageInv
    <2> QED
        BY <1>4, <2>1 DEF Described
<1>8. /\ Bytes(A, m) \in Nat /\ Bytes(P2, m) \in Nat /\ Cardinality(A) \in Nat
      /\ Bytes(P, m) \in Nat /\ Bytes(P2, m) <= Bytes(P, m)
    <2>1. /\ Bytes(A, m) \in Nat /\ Bytes(P2, m) \in Nat /\ Cardinality(A) \in Nat
          /\ Bytes(P, m) \in Nat /\ Bytes(P \cap D, m) \in Nat
        BY <1>7, BytesFacts
    <2>2. P2 \cup (P \cap D) = P /\ P2 \cap (P \cap D) = {}
        BY <1>4
    <2>3. Bytes(P, m) = Bytes(P2, m) + Bytes(P \cap D, m)
        <3>1. PICK R : R = P \cap D
            OBVIOUS
        <3>2. Described(P2, m) /\ Described(R, m) /\ P2 \cap R = {} /\ P2 \cup R = P
            BY <1>7, <2>2, <3>1
        <3>3. Bytes(P, m) = Bytes(P2, m) + Bytes(R, m)
            BY <3>2, BytesUnion
        <3> QED
            BY <3>1, <3>3
    <2> QED
        BY <2>1, <2>3
<1>9. u \in Usage /\ u.storage = Bytes(A, m) /\ u.pending = Bytes(P2, m)
    BY <1>6, <1>8 DEF Usage
<1>10. wsUse' \in [Workspaces -> Usage] /\ wsUse'[w] = u /\ \A v \in Workspaces \ {w} : wsUse'[v] = wsUse[v]
    BY <1>1, <1>3, <1>9
<1>11. acct' \in [storage : Nat, pending : Nat, workspaces : Nat]
    <2>1. PICK ws, use : ws = wsState' /\ use = wsUse'
        OBVIOUS
    <2>2. AccountUsage(ws, use) \in [storage : Nat, pending : Nat, workspaces : Nat]
        BY <1>10, <2>1, AccountType
    <2>3. acct' = AccountUsage(ws, use)
        BY <2>1 DEF AccountUsage
    <2> QED
        BY <2>2, <2>3
<1>12. \A v \in Workspaces \ {w} : CountedKept(v)
    BY DEF CountedKept
<1>13. wsState[w] = "live" /\ w \notin zeroed => wsUse[w].storage = Bytes(A, m) /\ wsUse[w].pending = Bytes(P, m)
    <2>1. wsState[w] = "live" /\ w \notin zeroed => wsUse[w] = WorkspaceUsage(w, objState, objMeta)
        BY DEF UsageInv, WorkspaceUsageExact
    <2>2. WorkspaceUsage(w, objState, objMeta) =
            [storage |-> Bytes(A, m), pending |-> Bytes(P, m), count |-> Cardinality(A)]
        BY <1>4, UsageIs
    <2> QED
        BY <2>1, <2>2
<1>14. wsState'[w] = "live" /\ w \notin zeroed =>
          /\ wsUse'[w] = WorkspaceUsage(w, objState, objMeta)'
          /\ wsUse'[w].pending <= MaxPendingBytes
          /\ wsUse'[w].storage + wsUse'[w].pending <= MaxWorkspaceBytes
    <2> SUFFICES ASSUME wsState[w] = "live", w \notin zeroed
                 PROVE  u.pending <= MaxPendingBytes /\ u.storage + u.pending <= MaxWorkspaceBytes
        BY <1>3, <1>10
    <2>1. wsUse[w].pending <= MaxPendingBytes /\ wsUse[w].storage + wsUse[w].pending <= MaxWorkspaceBytes
        BY DEF UsageInv, QuotaRespected
    <2> QED
        BY <1>8, <1>9, <1>13, <2>1, ConstantsAssumption
<1>15. PICK s \in Nat, p \in Nat, k \in Nat : Totals(w, s, p, k) /\ Totals(w, s, p, k)'
    BY <1>10, AccountStep
<1>16. ~admitted' /\ zeroed = {} => WithinAccountLimit'
    <2> SUFFICES ASSUME ~admitted, zeroed = {} PROVE WithinAccountLimit'
        OBVIOUS
    <2>1. WithinAccountLimit
        BY DEF UsageInv, QuotaRespected
    <2>2. CASE wsState[w] # "live"
        BY <1>15, <2>1, <2>2 DEF WithinAccountLimit, Totals
    <2>3. CASE wsState[w] = "live"
        <3>1. (s + Bytes(A, m)) + (p + Bytes(P, m)) <= MaxAccountBytes
            BY <1>13, <1>15, <2>1, <2>3 DEF WithinAccountLimit, Totals
        <3>2. (s + Bytes(A, m)) + (p + Bytes(P2, m)) <= MaxAccountBytes
            BY <1>8, <3>1, ConstantsAssumption
        <3> QED
            BY <1>9, <1>10, <1>15, <2>3, <3>2 DEF WithinAccountLimit, Totals
    <2> QED
        BY <2>2, <2>3
<1> QED
    BY <1>1, <1>2, <1>10, <1>11, <1>12, <1>14, <1>16, OneWorkspace

\* RunWorkspaceGC collects no available row.
LEMMA CollectUsage ==
    ASSUME StoreInv, StoreInv', UsageInv, NEW r \in Requests, RunWorkspaceGC(r)
    PROVE  UsageInv'
<1>1. PICK w \in Workspaces : w = auth[r].ws
    BY DEF RunWorkspaceGC, StoreInv, RowTypeOK
<1>2. PICK D \in OrphanBatches(w) :
        LET st == [o \in Objects |-> IF o \in D THEN "deleted" ELSE objState[o]]
            use == [wsUse EXCEPT ![w] = WorkspaceUsage(w, st, objMeta)]
        IN  objState' = st /\ wsUse' = use /\ acct' = AccountUsage(wsState, use) /\ stale' = FALSE
    BY <1>1 DEF RunWorkspaceGC
<1>3. /\ wsState' = wsState /\ objWs' = objWs /\ objMeta' = objMeta
      /\ admitted' = admitted /\ zeroed' = zeroed
    BY DEF RunWorkspaceGC, wsVars
<1>4. D \in SUBSET Objects /\ \A o \in D : objWs[o] = w /\ objState[o] # "available"
    <2>1. \A o \in D : o \in Objects /\ objWs[o] = w /\ objState[o] \in {"reserved", "pending", "failed"}
        BY BatchIsOrphans
    <2> QED
        BY <2>1
<1>5. wsUse' = [wsUse EXCEPT ![w] = WorkspaceUsage(w, objState, objMeta)']
    <2>1. WorkspaceUsage(w, objState, objMeta)' =
            WorkspaceUsage(w, [o \in Objects |-> IF o \in D THEN "deleted" ELSE objState[o]], objMeta)
        BY <1>2, <1>3 DEF WorkspaceUsage, Bytes
    <2> QED
        BY <1>2, <2>1
<1>6. acct' = AccountUsage(wsState, wsUse)'
    BY <1>2, <1>3 DEF AccountUsage
<1>7. \A o \in Objects : objState'[o] = IF o \in D THEN "deleted" ELSE objState[o]
    BY <1>2
<1> QED
    BY <1>2, <1>3, <1>4, <1>5, <1>6, <1>7, RecalculatedUsage DEF StoreInv

\* RecalculateSyncUsage.
LEMMA RecalculateUsage ==
    ASSUME StoreInv, StoreInv', UsageInv, NEW r \in Requests, RecalculateSyncUsage(r)
    PROVE  UsageInv'
<1>1. PICK w \in Workspaces : w = auth[r].ws
    BY DEF RecalculateSyncUsage, StoreInv, RowTypeOK
<1>2. LET use == [wsUse EXCEPT ![w] = WorkspaceUsage(w, objState, objMeta)]
      IN  wsUse' = use /\ acct' = AccountUsage(wsState, use)
    BY <1>1 DEF RecalculateSyncUsage
<1>3. /\ wsState' = wsState /\ objWs' = objWs /\ objMeta' = objMeta /\ objState' = objState
      /\ stale' = FALSE /\ admitted' = admitted /\ zeroed' = zeroed
    BY DEF RecalculateSyncUsage, wsVars, rowVars
<1>4. wsUse' = [wsUse EXCEPT ![w] = WorkspaceUsage(w, objState, objMeta)']
    <2>1. WorkspaceUsage(w, objState, objMeta)' = WorkspaceUsage(w, objState, objMeta)
        BY <1>3 DEF WorkspaceUsage, Bytes
    <2> QED
        BY <1>2, <2>1
<1>5. acct' = AccountUsage(wsState, wsUse)'
    BY <1>2, <1>3 DEF AccountUsage
<1>6. PICK D \in SUBSET Objects : D = {}
    OBVIOUS
<1> QED
    BY <1>3, <1>4, <1>5, <1>6, RecalculatedUsage DEF StoreInv

\* An upload step adds a and b bytes to the counters of workspace w and of the account.
LEMMA MovedUsage ==
    ASSUME UsageInv, RowTypeOK', DescribedRows', NEW w \in Workspaces, NEW u \in Usage,
           NEW a \in Int, NEW b \in Int,
           wsState' = wsState, wsUse' = [wsUse EXCEPT ![w] = u],
           u.storage = wsUse[w].storage + a, u.pending = wsUse[w].pending + b,
           acct' = [storage    |-> acct.storage + a,
                    pending    |-> acct.pending + b,
                    workspaces |-> acct.workspaces],
           acct' \in [storage : Nat, pending : Nat, workspaces : Nat],
           stale' \in BOOLEAN, admitted' \in BOOLEAN, zeroed' = zeroed,
           \A v \in Workspaces \ {w} : CountedKept(v),
           wsState[w] = "live" /\ w \notin zeroed => /\ u = WorkspaceUsage(w, objState, objMeta)'
                                                     /\ u.pending <= MaxPendingBytes
                                                     /\ u.storage + u.pending <= MaxWorkspaceBytes,
           ~stale' => ~stale /\ (wsState[w] # "live" => a = 0 /\ b = 0),
           ~admitted' /\ zeroed = {} =>
               /\ ~admitted
               /\ wsState[w] = "live" =>
                    \/ a + b <= 0
                    \/ ~stale /\ acct.storage + acct.pending + (a + b) <= MaxAccountBytes
    PROVE  UsageInv'
<1>1. wsUse \in [Workspaces -> Usage] /\ acct \in [storage : Nat, pending : Nat, workspaces : Nat]
    BY DEF UsageInv, TypeOK
<1>2. wsUse' \in [Workspaces -> Usage] /\ wsUse'[w] = u /\ \A v \in Workspaces \ {w} : wsUse'[v] = wsUse[v]
    BY <1>1
<1>3. PICK s \in Nat, p \in Nat, k \in Nat : Totals(w, s, p, k) /\ Totals(w, s, p, k)'
    BY <1>2, AccountStep
<1>4. PICK x \in Nat, y \in Nat : x = wsUse[w].storage /\ y = wsUse[w].pending
    BY <1>1 DEF Usage
<1>5. ~stale => acct = AccountUsage(wsState, wsUse)
    BY DEF UsageInv, AccountUsageExact
<1>6. CASE wsState[w] = "live"
    <2>1. AccountUsage(wsState, wsUse) = [storage |-> s + x, pending |-> p + y, workspaces |-> k + 1]
        BY <1>3, <1>4, <1>6 DEF Totals
    <2>2. AccountUsage(wsState, wsUse)' =
            [storage |-> s + (x + a), pending |-> p + (y + b), workspaces |-> k + 1]
        BY <1>2, <1>3, <1>4, <1>6 DEF Totals
    <2>3. ASSUME ~stale' PROVE acct' = AccountUsage(wsState, wsUse)'
        <3>1. acct.storage = s + x /\ acct.pending = p + y /\ acct.workspaces = k + 1
            BY <1>5, <2>1, <2>3
        <3>2. (s + x) + a = s + (x + a) /\ (p + y) + b = p + (y + b)
            OBVIOUS
        <3> QED
            BY <2>2, <3>1, <3>2
    <2>4. ASSUME ~admitted', zeroed = {} PROVE WithinAccountLimit'
        <3>1. WithinAccountLimit
            BY <2>4 DEF UsageInv, QuotaRespected
        <3>2. (s + x) + (p + y) <= MaxAccountBytes
            BY <2>1, <3>1 DEF WithinAccountLimit
        <3>3. a + b <= 0 \/ (s + x) + (p + y) + (a + b) <= MaxAccountBytes
            <4>1. ~stale => acct.storage = s + x /\ acct.pending = p + y
                BY <1>5, <2>1
            <4> QED
                BY <1>6, <2>4, <4>1
        <3>4. (s + (x + a)) + (p + (y + b)) <= MaxAccountBytes
            BY <3>2, <3>3, ConstantsAssumption
        <3> QED
            BY <2>2, <3>4 DEF WithinAccountLimit
    <2> QED
        BY <1>2, <1>6, <2>3, <2>4, OneWorkspace
<1>7. CASE wsState[w] # "live"
    <2>1. AccountUsage(wsState, wsUse)' = AccountUsage(wsState, wsUse)
        BY <1>3, <1>7 DEF Totals
    <2>2. ASSUME ~stale' PROVE acct' = AccountUsage(wsState, wsUse)'
        <3>1. a = 0 /\ b = 0 /\ ~stale
            BY <1>7, <2>2
        <3>2. acct.storage + a = acct.storage /\ acct.pending + b = acct.pending
            BY <1>1, <3>1
        <3>3. acct' = acct
            BY <1>1, <3>2
        <3> QED
            BY <1>5, <2>1, <3>1, <3>3
    <2>3. ASSUME ~admitted', zeroed = {} PROVE WithinAccountLimit'
        <3>1. WithinAccountLimit
            BY <2>3 DEF UsageInv, QuotaRespected
        <3> QED
            BY <2>1, <3>1 DEF WithinAccountLimit
    <2> QED
        BY <1>2, <1>7, <2>2, <2>3, OneWorkspace
<1> QED
    BY <1>6, <1>7

\* CreateObjectUploadBatch: a reserved row is charged, a row asked for again is not.
LEMMA CreateUploadUsage ==
    ASSUME StoreInv, StoreInv', UsageInv, NEW r \in Requests, CreateObjectUploadBatch(r)
    PROVE  UsageInv'
<1>1. PICK w \in Workspaces : w = auth[r].ws
    BY DEF CreateObjectUploadBatch, StoreInv, RowTypeOK
<1>2. PICK B \in (SUBSET Objects) \ {{}} : \E content \in [B -> Contents] : CreateUploadBatch(r, B, content)
    BY DEF CreateObjectUploadBatch
<1>3. PICK content \in [B -> Contents] : CreateUploadBatch(r, B, content)
    BY <1>2
<1>4. PICK N : N = {o \in B : objState[o] = "reserved"}
    OBVIOUS
<1>5. PICK add : add = Bytes(N, content)
    OBVIOUS
<1>6. /\ \A o \in B : o \in RowsOf(w) /\ Uploadable(o, content[o])
      /\ WithinQuota(w, add)
      /\ wsUse' = [wsUse EXCEPT ![w].pending = @ + add]
      /\ acct' = [acct EXCEPT !.pending = @ + add]
      /\ objState' = [o \in Objects |-> IF o \in B THEN "pending" ELSE objState[o]]
      /\ objMeta' = [o \in Objects |-> IF o \in B THEN content[o] ELSE objMeta[o]]
      /\ stale' = (stale \/ (wsState[w] # "live" /\ add > 0))
      /\ admitted' = (admitted \/ (stale /\ wsState[w] = "live" /\ add > 0))
      /\ wsState' = wsState /\ objWs' = objWs /\ zeroed' = zeroed
    BY <1>1, <1>3, <1>4, <1>5 DEF CreateUploadBatch, wsVars
<1>7. \A o \in B : /\ objWs[o] = w /\ objState[o] \in {"reserved", "pending"}
                   /\ objState[o] = "pending" => objMeta[o] = content[o]
    BY <1>6 DEF RowsOf, Uploadable
<1>8. /\ wsUse \in [Workspaces -> Usage] /\ acct \in [storage : Nat, pending : Nat, workspaces : Nat]
      /\ stale \in BOOLEAN /\ admitted \in BOOLEAN
    BY DEF UsageInv, TypeOK
<1>9. Described(N, content)
    BY <1>4 DEF Described
<1>10. add \in Nat
    BY <1>5, <1>9, BytesFacts
<1>11. PICK A, P, m, n : /\ A = InState(w, "available") /\ P = InState(w, "pending")
                         /\ m = objMeta /\ n = objMeta'
    OBVIOUS
<1>12. Described(A, m) /\ Described(P, m)
    BY <1>11, CountedAreDescribed DEF UsageInv
<1>13. /\ \A o \in A : n[o] = m[o]
       /\ \A o \in P : n[o] = m[o]
       /\ \A o \in N : n[o] = content[o]
    BY <1>4, <1>6, <1>7, <1>11 DEF InState
<1>14. InState(w, "available")' = A /\ InState(w, "pending")' = P \cup N /\ P \cap N = {}
    <2>1. InState(w, "available")' = A
        BY <1>6, <1>7, <1>11 DEF InState
    <2>2. InState(w, "pending")' = P \cup N
        BY <1>4, <1>6, <1>7, <1>11 DEF InState
    <2>3. P \cap N = {}
        BY <1>4, <1>11 DEF InState
    <2> QED
        BY <2>1, <2>2, <2>3
<1>15. Bytes(A, n) = Bytes(A, m) /\ Bytes(P \cup N, n) = Bytes(P, m) + add
    <2>1. Bytes(A, n) = Bytes(A, m) /\ Bytes(P, n) = Bytes(P, m)
        BY <1>12, <1>13, BytesFacts
    <2>2. Bytes(N, n) = Bytes(N, content)
        BY <1>9, <1>13, BytesFacts
    <2>3. Described(P, n) /\ Described(N, n)
        BY <1>9, <1>12, <1>13 DEF Described
    <2>4. PICK C : C = P \cup N
        OBVIOUS
    <2>5. P \cap N = {}
        BY <1>14
    <2>6. Bytes(C, n) = Bytes(P, n) + Bytes(N, n)
        BY <2>3, <2>4, <2>5, BytesUnion
    <2> QED
        BY <1>5, <2>1, <2>2, <2>4, <2>6
<1>16. WorkspaceUsage(w, objState, objMeta)' =
         [storage |-> Bytes(A, m), pending |-> Bytes(P, m) + add, count |-> Cardinality(A)]
    <2>1. WorkspaceUsage(w, objState, objMeta)' =
            [storage |-> Bytes(A, n), pending |-> Bytes(P \cup N, n), count |-> Cardinality(A)]
        BY <1>11, <1>14 DEF WorkspaceUsage, InState, Bytes
    <2> QED
        BY <1>15, <2>1
<1>17. wsState[w] = "live" /\ w \notin zeroed =>
          wsUse[w] = [storage |-> Bytes(A, m), pending |-> Bytes(P, m), count |-> Cardinality(A)]
    BY <1>11, UsageIs DEF UsageInv, WorkspaceUsageExact
<1>18. PICK old \in Usage : old = wsUse[w]
    BY <1>8
<1>19. PICK u : u = [storage |-> old.storage, pending |-> old.pending + add, count |-> old.count]
    OBVIOUS
<1>20. u \in Usage /\ u.storage = old.storage + 0 /\ u.pending = old.pending + add
    BY <1>10, <1>18, <1>19 DEF Usage
<1>21. wsUse' = [wsUse EXCEPT ![w] = u]
    <2>1. [wsUse[w] EXCEPT !.pending = @ + add] = u
        BY <1>18, <1>19 DEF Usage
    <2> QED
        BY <1>6, <1>8, <2>1
<1>22. /\ acct' = [storage |-> acct.storage + 0, pending |-> acct.pending + add, workspaces |-> acct.workspaces]
       /\ acct' \in [storage : Nat, pending : Nat, workspaces : Nat]
    BY <1>6, <1>8, <1>10
<1>23. \A v \in Workspaces \ {w} : CountedKept(v)
    BY <1>6, <1>7 DEF CountedKept
<1>24. DescribedRows'
    BY <1>6 DEF UsageInv, DescribedRows
<1>25. wsState[w] = "live" /\ w \notin zeroed => /\ u = WorkspaceUsage(w, objState, objMeta)'
                                                 /\ u.pending <= MaxPendingBytes
                                                 /\ u.storage + u.pending <= MaxWorkspaceBytes
    <2>1. wsState[w] = "live" /\ w \notin zeroed => u = WorkspaceUsage(w, objState, objMeta)'
        BY <1>16, <1>17, <1>18, <1>19
    <2>2. old.pending + add <= MaxPendingBytes /\ old.storage + old.pending + add <= MaxWorkspaceBytes
        BY <1>6, <1>18 DEF WithinQuota
    <2>3. u.pending <= MaxPendingBytes /\ u.storage + u.pending <= MaxWorkspaceBytes
        BY <1>10, <1>18, <1>20, <2>2, ConstantsAssumption DEF Usage
    <2> QED
        BY <2>1, <2>3
<1>26. PICK a \in Int, b \in Int : a = 0 /\ b = add
    BY <1>10
<1>27. stale' \in BOOLEAN /\ (~stale' => ~stale /\ (wsState[w] # "live" => a = 0 /\ b = 0))
    <2>1. ~(add > 0) => add = 0
        BY <1>10
    <2>2. stale' \in BOOLEAN
        BY <1>6, Zenon
    <2> QED
        BY <1>6, <1>26, <2>1, <2>2, Zenon
<1>28. /\ admitted' \in BOOLEAN
       /\ ~admitted' /\ zeroed = {} =>
              /\ ~admitted
              /\ wsState[w] = "live" =>
                   \/ a + b <= 0
                   \/ ~stale /\ acct.storage + acct.pending + (a + b) <= MaxAccountBytes
    <2>1. ~(add > 0) => a + b <= 0
        BY <1>10, <1>26
    <2>2. acct.storage + acct.pending + add <= MaxAccountBytes
        BY <1>6 DEF WithinQuota
    <2>3. acct.storage + acct.pending + (a + b) <= MaxAccountBytes
        BY <1>8, <1>10, <1>26, <2>2, ConstantsAssumption
    <2>4. admitted' \in BOOLEAN
        BY <1>6, Zenon
    <2> QED
        BY <1>6, <2>1, <2>3, <2>4, Zenon
<1>29. u.storage = wsUse[w].storage + a /\ u.pending = wsUse[w].pending + b
    BY <1>18, <1>20, <1>26
<1>30. acct' = [storage |-> acct.storage + a, pending |-> acct.pending + b, workspaces |-> acct.workspaces]
    BY <1>22, <1>26
<1> QED
    BY <1>6, <1>20, <1>21, <1>22, <1>23, <1>24, <1>25, <1>27, <1>28, <1>29, <1>30, MovedUsage DEF StoreInv

\* CompleteObjectUploadBatch: what is done moves from pending to stored, what failed is
\* given back.
LEMMA CompleteUsage ==
    ASSUME StoreInv, StoreInv', UsageInv, NEW r \in Requests, CompleteObjectUploadBatch(r)
    PROVE  UsageInv'
<1>1. PICK w \in Workspaces : w = auth[r].ws
    BY DEF CompleteObjectUploadBatch, StoreInv, RowTypeOK
<1>2. PICK B \in (SUBSET Objects) \ {{}} : \E content \in [B -> Contents] : CompleteUploadBatch(r, B, content)
    BY DEF CompleteObjectUploadBatch
<1>3. PICK content \in [B -> Contents] : CompleteUploadBatch(r, B, content)
    BY <1>2
<1>4. PICK O : O = {o \in B : objState[o] = "pending"}
    OBVIOUS
<1>5. PICK G : G = {o \in O : Completable(o, content[o])}
    OBVIOUS
<1>6. PICK m : m = objMeta
    OBVIOUS
<1>7. PICK left, done, num : left = Bytes(O, m) /\ done = Bytes(G, m) /\ num = Cardinality(G)
    OBVIOUS
<1>8. /\ \A o \in B : o \in RowsOf(w)
      /\ left <= acct.pending /\ left <= wsUse[w].pending
      /\ wsUse' = [wsUse EXCEPT ![w] = [storage |-> @.storage + done,
                                        pending |-> @.pending - left,
                                        count   |-> @.count + num]]
      /\ acct' = [acct EXCEPT !.storage = @ + done, !.pending = @ - left]
      /\ objState' = [o \in Objects |-> IF o \in G THEN "available"
                                        ELSE IF o \in O THEN "failed"
                                        ELSE objState[o]]
      /\ stale' = (stale \/ (wsState[w] # "live" /\ O # {}))
      /\ wsState' = wsState /\ objWs' = objWs /\ objMeta' = objMeta /\ admitted' = admitted
      /\ zeroed' = zeroed
    BY <1>1, <1>3, <1>4, <1>5, <1>6, <1>7 DEF CompleteUploadBatch, wsVars, Released, CounterCheck
<1>9. G \subseteq O /\ \A o \in O : o \in Objects /\ objWs[o] = w /\ objState[o] = "pending"
    BY <1>4, <1>5, <1>8 DEF RowsOf
<1>10. /\ wsUse \in [Workspaces -> Usage] /\ acct \in [storage : Nat, pending : Nat, workspaces : Nat]
       /\ stale \in BOOLEAN /\ admitted \in BOOLEAN
    BY DEF UsageInv, TypeOK
<1>11. PICK A, P : A = InState(w, "available") /\ P = InState(w, "pending")
    OBVIOUS
<1>12. Described(A, m) /\ Described(P, m)
    BY <1>6, <1>11, CountedAreDescribed DEF UsageInv
<1>13. O \subseteq P /\ A \cap G = {}
    BY <1>9, <1>11 DEF InState
<1>14. Described(O, m) /\ Described(G, m) /\ Described(O \ G, m) /\ Described(P \ O, m)
    BY <1>9, <1>12, <1>13 DEF Described
<1>15. /\ left \in Nat /\ done \in Nat /\ num \in Nat /\ Bytes(O \ G, m) \in Nat
       /\ Bytes(P, m) \in Nat /\ Bytes(P \ O, m) \in Nat
       /\ Bytes(A, m) \in Nat /\ Cardinality(A) \in Nat
    BY <1>7, <1>12, <1>14, BytesFacts
<1>16. done <= left
    <2>1. PICK F : F = O \ G
        OBVIOUS
    <2>2. G \cup F = O /\ G \cap F = {}
        BY <1>9, <2>1
    <2>3. Bytes(O, m) = Bytes(G, m) + Bytes(F, m)
        <3>1. Described(G, m) /\ Described(F, m)
            BY <1>14, <2>1
        <3> QED
            BY <2>2, <3>1, BytesUnion
    <2>4. left = done + Bytes(F, m) /\ Bytes(F, m) \in Nat
        BY <1>7, <1>15, <2>1, <2>3
    <2> QED
        BY <1>15, <2>4
<1>17. Bytes(P, m) = Bytes(P \ O, m) + left
    <2>1. PICK R : R = P \ O
        OBVIOUS
    <2>2. R \cup O = P /\ R \cap O = {}
        BY <1>13, <2>1
    <2>3. Bytes(P, m) = Bytes(R, m) + Bytes(O, m)
        <3>1. Described(R, m) /\ Described(O, m)
            BY <1>14, <2>1
        <3> QED
            BY <2>2, <3>1, BytesUnion
    <2> QED
        BY <1>7, <2>1, <2>3
<1>18. Bytes(A \cup G, m) = Bytes(A, m) + done /\ Cardinality(A \cup G) = Cardinality(A) + num
    <2>1. PICK C : C = A \cup G
        OBVIOUS
    <2>2. Described(A, m) /\ Described(G, m) /\ A \cap G = {}
        BY <1>12, <1>13, <1>14
    <2>3. Bytes(C, m) = Bytes(A, m) + Bytes(G, m) /\ Cardinality(C) = Cardinality(A) + Cardinality(G)
        BY <2>1, <2>2, BytesUnion
    <2> QED
        BY <1>7, <2>1, <2>3
<1>19. InState(w, "available")' = A \cup G /\ InState(w, "pending")' = P \ O
    <2>1. InState(w, "available")' = A \cup G
        BY <1>8, <1>9, <1>11 DEF InState
    <2>2. InState(w, "pending")' = P \ O
        BY <1>8, <1>9, <1>11 DEF InState
    <2> QED
        BY <2>1, <2>2
<1>20. WorkspaceUsage(w, objState, objMeta)' =
         [storage |-> Bytes(A, m) + done, pending |-> Bytes(P \ O, m), count |-> Cardinality(A) + num]
    <2>1. WorkspaceUsage(w, objState, objMeta)' =
            [storage |-> Bytes(A \cup G, m), pending |-> Bytes(P \ O, m), count |-> Cardinality(A \cup G)]
        BY <1>6, <1>8, <1>19 DEF WorkspaceUsage, InState, Bytes
    <2> QED
        BY <1>18, <2>1
<1>21. wsState[w] = "live" /\ w \notin zeroed =>
          wsUse[w] = [storage |-> Bytes(A, m), pending |-> Bytes(P, m), count |-> Cardinality(A)]
    BY <1>6, <1>11, UsageIs DEF UsageInv, WorkspaceUsageExact
<1>22. PICK old \in Usage : old = wsUse[w]
    BY <1>10
<1>23. PICK u : u = [storage |-> old.storage + done, pending |-> old.pending - left, count |-> old.count + num]
    OBVIOUS
<1>24. PICK a \in Int, b \in Int : a = done /\ b = 0 - left
    BY <1>15
<1>25. u \in Usage /\ u.storage = wsUse[w].storage + a /\ u.pending = wsUse[w].pending + b
    <2>1. old.storage \in Nat /\ old.pending \in Nat /\ old.count \in Nat /\ left <= old.pending
        BY <1>8, <1>22 DEF Usage
    <2>2. old.storage + done \in Nat /\ old.pending - left \in Nat /\ old.count + num \in Nat
        BY <1>15, <2>1
    <2>3. u \in Usage
        BY <1>23, <2>2 DEF Usage
    <2>4. u.storage = old.storage + a /\ u.pending = old.pending + b
        BY <1>15, <1>23, <1>24, <2>1
    <2> QED
        BY <1>22, <2>3, <2>4
<1>26. wsUse' = [wsUse EXCEPT ![w] = u]
    BY <1>8, <1>22, <1>23
<1>27. /\ acct' = [storage |-> acct.storage + a, pending |-> acct.pending + b, workspaces |-> acct.workspaces]
       /\ acct' \in [storage : Nat, pending : Nat, workspaces : Nat]
    <2>1. acct' = [storage |-> acct.storage + done, pending |-> acct.pending - left,
                   workspaces |-> acct.workspaces]
        BY <1>8, <1>10
    <2>2. /\ acct.storage + done \in Nat /\ acct.pending - left \in Nat
          /\ acct.storage + done = acct.storage + a /\ acct.pending - left = acct.pending + b
        BY <1>8, <1>10, <1>15, <1>24
    <2> QED
        BY <1>10, <2>1, <2>2
<1>28. \A v \in Workspaces \ {w} : CountedKept(v)
    BY <1>8, <1>9 DEF CountedKept
<1>29. DescribedRows'
    BY <1>8, <1>9 DEF UsageInv, DescribedRows
<1>30. wsState[w] = "live" /\ w \notin zeroed => /\ u = WorkspaceUsage(w, objState, objMeta)'
                                                 /\ u.pending <= MaxPendingBytes
                                                 /\ u.storage + u.pending <= MaxWorkspaceBytes
    <2> SUFFICES ASSUME wsState[w] = "live", w \notin zeroed
                 PROVE  /\ u = WorkspaceUsage(w, objState, objMeta)'
                        /\ u.pending <= MaxPendingBytes
                        /\ u.storage + u.pending <= MaxWorkspaceBytes
        OBVIOUS
    <2>1. old.storage = Bytes(A, m) /\ old.pending = Bytes(P, m) /\ old.count = Cardinality(A)
        BY <1>21, <1>22
    <2>2. old.pending - left = Bytes(P \ O, m)
        BY <1>15, <1>17, <2>1
    <2>3. u = WorkspaceUsage(w, objState, objMeta)'
        BY <1>20, <1>23, <2>1, <2>2
    <2>4. old.pending <= MaxPendingBytes /\ old.storage + old.pending <= MaxWorkspaceBytes
        BY <1>22 DEF UsageInv, QuotaRespected
    <2>5. u.pending = old.pending - left /\ u.storage = old.storage + done
        BY <1>23
    <2>6. old.pending - left <= MaxPendingBytes
        BY <1>15, <1>22, <2>4, ConstantsAssumption DEF Usage
    <2>7. (old.storage + done) + (old.pending - left) <= MaxWorkspaceBytes
        BY <1>15, <1>16, <1>22, <2>4, ConstantsAssumption DEF Usage
    <2> QED
        BY <2>3, <2>5, <2>6, <2>7
<1>31. stale' \in BOOLEAN /\ (~stale' => ~stale /\ (wsState[w] # "live" => a = 0 /\ b = 0))
    <2>1. ASSUME O = {} PROVE a = 0 /\ b = 0
        <3>1. left = 0
            BY <1>7, <2>1, BytesOfNothing
        <3>2. done = 0
            BY <1>15, <1>16, <3>1
        <3> QED
            BY <1>24, <3>1, <3>2
    <2>2. stale' \in BOOLEAN
        BY <1>8, Zenon
    <2> QED
        BY <1>8, <2>1, <2>2, Zenon
<1>32. /\ admitted' \in BOOLEAN
       /\ ~admitted' /\ zeroed = {} =>
              /\ ~admitted
              /\ wsState[w] = "live" =>
                   \/ a + b <= 0
                   \/ ~stale /\ acct.storage + acct.pending + (a + b) <= MaxAccountBytes
    <2>1. a + b <= 0
        BY <1>15, <1>16, <1>24
    <2> QED
        BY <1>8, <1>10, <2>1, Zenon
<1> QED
    BY <1>8, <1>25, <1>26, <1>27, <1>28, <1>29, <1>30, <1>31, <1>32, MovedUsage DEF StoreInv

\* The local store has nothing pending.
LEMMA LocalPending ==
    ASSUME StoreInv, UsageInv, provider = "local"
    PROVE  /\ \A v \in Workspaces \ zeroed : wsState[v] = "live" => wsUse[v].pending = 0
           /\ zeroed = {} => AccountUsage(wsState, wsUse).pending = 0
<1>1. ASSUME NEW v \in Workspaces \ zeroed, wsState[v] = "live" PROVE wsUse[v].pending = 0
    <2>1. InState(v, "pending") = {}
        BY DEF InState, StoreInv, LocalHasNoPending
    <2>2. PICK m : m = objMeta
        OBVIOUS
    <2>3. Bytes({}, m) = 0
        BY BytesOfNothing
    <2>4. wsUse[v] = WorkspaceUsage(v, objState, objMeta)
        BY <1>1 DEF UsageInv, WorkspaceUsageExact
    <2> QED
        BY <2>1, <2>2, <2>3, <2>4, UsageIs
<1> SUFFICES ASSUME zeroed = {} PROVE AccountUsage(wsState, wsUse).pending = 0
    BY <1>1
<1>2. PICK L : L = {v \in Workspaces : wsState[v] = "live"}
    OBVIOUS
<1>3. L \in SUBSET Workspaces /\ IsFiniteSet(L)
    BY <1>2, ConstantsAssumption, FS_Subset
<1>4. PICK f : f = [v \in L |-> wsUse[v].pending]
    OBVIOUS
<1>5. f \in [L -> Nat] /\ \A v \in L : f[v] = 0
    BY <1>1, <1>2, <1>4
<1>6. SumFunction(f) = 0
    BY <1>3, <1>5, SumFunctionFacts
<1>7. AccountUsage(wsState, wsUse).pending = SumFunction(f)
    BY <1>2, <1>4 DEF AccountUsage
<1> QED
    BY <1>1, <1>6, <1>7

\* The bytes of one object.
LEMMA BytesOfOne ==
    ASSUME NEW o, NEW m, Described({o}, m)
    PROVE  Bytes({o}, m) = Size[m[o]] /\ Cardinality({o}) = 1
<1>1. PICK g : g = [p \in {o} |-> Size[m[p]]]
    OBVIOUS
<1>2. g[o] = Size[m[o]] /\ g[o] \in Nat
    BY <1>1, ConstantsAssumption DEF Described
<1>3. Bytes({o}, m) = SumFunctionOnSet(g, {o})
    <2>1. \A p \in {o} : g[p] = Size[m[p]]
        BY <1>1
    <2> QED
        BY <2>1, BytesFacts
<1>4. PICK E : E = {}
    OBVIOUS
<1>5. IsFiniteSet(E) /\ o \notin E /\ E \cup {o} = {o} /\ \A y \in E \cup {o} : g[y] \in Nat
    BY <1>2, <1>4, FS_EmptySet
<1>6. SumFunctionOnSet(g, E \cup {o}) = g[o] + SumFunctionOnSet(g, E)
    BY <1>5, SumOneMore
<1>7. SumFunctionOnSet(g, E) = 0
    BY <1>4, <1>5, SumStep
<1>8. Cardinality({o}) = 1
    BY FS_Singleton
<1> QED
    BY <1>2, <1>3, <1>5, <1>6, <1>7, <1>8

\* UploadObjectBytesDev: a reserved row becomes available and is charged.
LEMMA UploadDevUsage ==
    ASSUME StoreInv, StoreInv', UsageInv, NEW r \in Requests, UploadObjectBytesDev(r)
    PROVE  UsageInv'
<1>1. PICK w \in Workspaces : w = auth[r].ws
    BY DEF UploadObjectBytesDev, StoreInv, RowTypeOK
<1>2. PICK o \in Objects, content \in Contents, ok \in BOOLEAN : UploadDev(r, o, content, ok)
    BY DEF UploadObjectBytesDev
<1>3. PICK size \in Nat : size = Size[content] /\ size # 0
    BY ConstantsAssumption
<1>4. /\ provider = "local" /\ DevQuota(w, size) /\ o \in RowsOf(w)
      /\ objState[o] \in {"reserved", "pending"}
      /\ wsState' = wsState /\ objWs' = objWs /\ zeroed' = zeroed
    BY <1>1, <1>2, <1>3 DEF UploadDev, wsVars, useVars
<1>5. objWs[o] = w /\ objState[o] = "reserved"
    BY <1>4 DEF RowsOf, StoreInv, LocalHasNoPending
<1>6. CASE ~ok
    <2>1. UNCHANGED <<objState, objMeta, useVars>>
        BY <1>2, <1>6 DEF UploadDev
    <2>2. DescribedRows' /\ \A v \in Workspaces : CountedKept(v)
        BY <1>4, <2>1 DEF UsageInv, DescribedRows, CountedKept
    <2> QED
        BY <1>4, <2>1, <2>2, UsageUntouched DEF StoreInv
<1>7. CASE ok
    <2>1. /\ objState' = [objState EXCEPT ![o] = "available"]
          /\ objMeta' = [objMeta EXCEPT ![o] = content]
          /\ wsUse' = [wsUse EXCEPT ![w].storage = @ + size, ![w].count = @ + 1]
          /\ acct' = [acct EXCEPT !.storage = @ + size]
          /\ stale' = (stale \/ wsState[w] # "live")
          /\ admitted' = (admitted \/ (stale /\ wsState[w] = "live"))
        BY <1>1, <1>2, <1>3, <1>7 DEF UploadDev
    <2>2. objState \in [Objects -> RowStates \cup {"unused", "deleted", "purged"}]
          /\ objMeta \in [Objects -> Contents \cup {None}]
        BY DEF StoreInv, RowTypeOK
    <2>3. /\ objState'[o] = "available" /\ objMeta'[o] = content
          /\ \A p \in Objects \ {o} : objState'[p] = objState[p] /\ objMeta'[p] = objMeta[p]
        BY <2>1, <2>2
    <2>4. /\ wsUse \in [Workspaces -> Usage] /\ acct \in [storage : Nat, pending : Nat, workspaces : Nat]
          /\ stale \in BOOLEAN /\ admitted \in BOOLEAN
        BY DEF UsageInv, TypeOK
    <2>5. PICK A, P, S, m, n : /\ A = InState(w, "available") /\ P = InState(w, "pending")
                               /\ S = {o} /\ m = objMeta /\ n = objMeta'
        OBVIOUS
    <2>6. Described(A, m) /\ Described(P, m)
        BY <2>5, CountedAreDescribed DEF UsageInv
    <2>7. o \notin A /\ o \notin P
        BY <1>5, <2>5 DEF InState
    <2>8. (\A p \in A : n[p] = m[p]) /\ (\A p \in P : n[p] = m[p]) /\ n[o] = content
        BY <2>3, <2>5, <2>7 DEF InState
    <2>9. Described(A, n) /\ Described(S, n) /\ A \cap S = {}
        BY <2>5, <2>6, <2>7, <2>8 DEF Described
    <2>10. Bytes(A, n) = Bytes(A, m) /\ Bytes(P, n) = Bytes(P, m)
        BY <2>6, <2>8, BytesFacts
    <2>11. Bytes(S, n) = size /\ Cardinality(S) = 1
        BY <1>3, <2>5, <2>8, <2>9, BytesOfOne
    <2>12. Bytes(A \cup S, n) = Bytes(A, m) + size /\ Cardinality(A \cup S) = Cardinality(A) + 1
        <3>1. PICK C : C = A \cup S
            OBVIOUS
        <3>2. Bytes(C, n) = Bytes(A, n) + Bytes(S, n) /\ Cardinality(C) = Cardinality(A) + Cardinality(S)
            BY <2>9, <3>1, BytesUnion
        <3> QED
            BY <2>10, <2>11, <3>1, <3>2
    <2>13. InState(w, "available")' = A \cup S /\ InState(w, "pending")' = P
        BY <1>4, <1>5, <2>3, <2>5 DEF InState
    <2>14. WorkspaceUsage(w, objState, objMeta)' =
             [storage |-> Bytes(A, m) + size, pending |-> Bytes(P, m), count |-> Cardinality(A) + 1]
        <3>1. WorkspaceUsage(w, objState, objMeta)' =
                [storage |-> Bytes(A \cup S, n), pending |-> Bytes(P, n), count |-> Cardinality(A \cup S)]
            BY <2>5, <2>13 DEF WorkspaceUsage, InState, Bytes
        <3> QED
            BY <2>10, <2>12, <3>1
    <2>15. wsState[w] = "live" /\ w \notin zeroed =>
             wsUse[w] = [storage |-> Bytes(A, m), pending |-> Bytes(P, m), count |-> Cardinality(A)]
        BY <2>5, UsageIs DEF UsageInv, WorkspaceUsageExact
    <2>16. PICK old \in Usage : old = wsUse[w]
        BY <2>4
    <2>17. PICK u : u = [storage |-> old.storage + size, pending |-> old.pending, count |-> old.count + 1]
        OBVIOUS
    <2>18. PICK a \in Int, b \in Int : a = size /\ b = 0
        OBVIOUS
    <2>19. u \in Usage /\ u.storage = wsUse[w].storage + a /\ u.pending = wsUse[w].pending + b
        <3>1. old.storage \in Nat /\ old.pending \in Nat /\ old.count \in Nat
            BY DEF Usage
        <3>2. u \in Usage
            BY <2>17, <3>1 DEF Usage
        <3> QED
            BY <2>16, <2>17, <2>18, <3>1, <3>2
    <2>20. wsUse' = [wsUse EXCEPT ![w] = u]
        <3>1. u = [old EXCEPT !.storage = @ + size, !.count = @ + 1]
            <4>1. PICK x, y : x = old.storage + size /\ y = old.count + 1
                OBVIOUS
            <4>2. PICK e : e = [old EXCEPT !.storage = x, !.count = y]
                OBVIOUS
            <4>3. e = [storage |-> x, pending |-> old.pending, count |-> y]
                BY <4>2 DEF Usage
            <4> QED
                BY <2>17, <4>1, <4>2, <4>3
        <3>2. /\ wsUse'[w] = u /\ \A v \in Workspaces \ {w} : wsUse'[v] = wsUse[v]
              /\ wsUse' = [v \in Workspaces |-> wsUse'[v]]
            BY <2>1, <2>4, <2>16, <3>1
        <3> QED
            BY <2>4, <3>2
    <2>21. /\ acct' = [storage |-> acct.storage + a, pending |-> acct.pending + b, workspaces |-> acct.workspaces]
           /\ acct' \in [storage : Nat, pending : Nat, workspaces : Nat]
        BY <2>1, <2>4, <2>18
    <2>22. \A v \in Workspaces \ {w} : CountedKept(v)
        BY <1>4, <1>5, <2>3 DEF CountedKept
    <2>23. DescribedRows'
        BY <2>3 DEF UsageInv, DescribedRows
    <2>24. wsState[w] = "live" /\ w \notin zeroed => /\ u = WorkspaceUsage(w, objState, objMeta)'
                                                     /\ u.pending <= MaxPendingBytes
                                                     /\ u.storage + u.pending <= MaxWorkspaceBytes
        <3> SUFFICES ASSUME wsState[w] = "live", w \notin zeroed
                     PROVE  /\ u = WorkspaceUsage(w, objState, objMeta)'
                            /\ u.pending <= MaxPendingBytes
                            /\ u.storage + u.pending <= MaxWorkspaceBytes
            OBVIOUS
        <3>1. u = WorkspaceUsage(w, objState, objMeta)'
            BY <2>14, <2>15, <2>16, <2>17
        <3>2. u.pending = 0
            BY <1>4, <2>16, <2>17, LocalPending
        <3>3. u.storage <= MaxWorkspaceBytes /\ u.storage \in Nat
            BY <1>4, <2>16, <2>17, <2>19 DEF DevQuota, Usage
        <3> QED
            BY <3>1, <3>2, <3>3, ConstantsAssumption
    <2>25. stale' \in BOOLEAN /\ (~stale' => ~stale /\ (wsState[w] # "live" => a = 0 /\ b = 0))
        BY <2>1, Zenon
    <2>26. /\ admitted' \in BOOLEAN
           /\ ~admitted' /\ zeroed = {} =>
              /\ ~admitted
              /\ wsState[w] = "live" =>
                   \/ a + b <= 0
                   \/ ~stale /\ acct.storage + acct.pending + (a + b) <= MaxAccountBytes
        <3>1. ASSUME ~stale, zeroed = {} PROVE acct.storage + acct.pending + (a + b) <= MaxAccountBytes
            <4>1. acct.pending = 0
                BY <1>4, <3>1, LocalPending DEF UsageInv, AccountUsageExact
            <4>2. acct.storage + size <= MaxAccountBytes
                BY <1>4 DEF DevQuota
            <4> QED
                BY <2>4, <2>18, <4>1, <4>2
        <3>2. admitted' \in BOOLEAN
            BY <2>1, Zenon
        <3> QED
            BY <2>1, <3>1, <3>2, Zenon
    <2> QED
        BY <1>4, <2>19, <2>20, <2>21, <2>22, <2>23, <2>24, <2>25, <2>26, MovedUsage DEF StoreInv
<1> QED
    BY <1>6, <1>7

\* Every step of every handler keeps the counters.
LEMMA NextUsage == StoreInv /\ StoreInv' /\ UsageInv /\ [Next]_vars => UsageInv'
<1> SUFFICES ASSUME StoreInv, StoreInv', UsageInv, [Next]_vars PROVE UsageInv'
    OBVIOUS
<1>1. ASSUME UNCHANGED <<wsState, objState, objWs, objMeta, useVars>> PROVE UsageInv'
    <2>1. DescribedRows' /\ \A v \in Workspaces : CountedKept(v)
        BY <1>1 DEF UsageInv, DescribedRows, CountedKept
    <2> QED
        BY <1>1, <2>1, UsageUntouched DEF StoreInv
<1>2. \/ UNCHANGED <<wsState, objState, objWs, objMeta, useVars>>
      \/ \E w \in Workspaces : CreateWorkspace(w) \/ DeleteWorkspace(w)
      \/ \E r \in Requests : \/ ReserveObjectIDs(r) \/ CreateObjectUploadBatch(r)
                            \/ CompleteObjectUploadBatch(r) \/ UploadObjectBytesDev(r)
                            \/ RunWorkspaceGC(r) \/ RecalculateSyncUsage(r)
      \/ \E W \in SUBSET Workspaces, ok \in BOOLEAN : RunDeletedWorkspaceCleanup(W, ok)
      \/ DeleteAccountCommit
    BY DEF Next, vars, wsVars, rowVars, Authorize, Reject, RegisterDevice, AbortWorkspaceGC,
           PutBlob, DeleteAccountMark, DeleteAccountRevoke, DeleteAccountSoftDelete,
           DeleteAccountResetWorkspaces, DeleteAccountAbort, Tick
<1> QED
    BY <1>1, <1>2, CreateWorkspaceUsage, DeleteWorkspaceUsage, ReserveUsage, CreateUploadUsage,
       CompleteUsage, UploadDevUsage, CollectUsage, RecalculateUsage, CleanupUsage, CloseUsage

\* The counters' invariant holds in every reachable state.
THEOREM UsageInvariant == Spec => []UsageInv
BY InitUsage, NextUsage, StoreInvariant, PTL DEF Spec

\* The counters of a live workspace are what its rows add up to, however presigns,
\* completions, failures, collections and deletions interleave, unless DeleteAccount has
\* reset the counters of a workspace created while it ran.
THEOREM WorkspaceUsageAlways == Spec => []WorkspaceUsageExact
<1>1. UsageInv => WorkspaceUsageExact
    BY DEF UsageInv
<1> QED
    BY <1>1, UsageInvariant, PTL

\* The account row is the sum over its live workspaces, unless a handler authorized
\* before a deletion has run after it, or a workspace was created between two statements
\* of DeleteAccount, and nothing was recalculated since.
THEOREM AccountUsageAlways == Spec => []AccountUsageExact
<1>1. UsageInv => AccountUsageExact
    BY DEF UsageInv
<1> QED
    BY <1>1, UsageInvariant, PTL

\* A workspace never exceeds its limits, and the account does not unless a batch was
\* admitted while the account row had drifted, as long as DeleteAccount has not reset the
\* counters of a workspace created while it ran.
THEOREM QuotaAlways == Spec => []QuotaRespected
<1>1. UsageInv => QuotaRespected
    BY DEF UsageInv
<1> QED
    BY <1>1, UsageInvariant, PTL

\* Every variable keeps its type; no counter becomes negative.
THEOREM ObjectsTypeOK == Spec => []TypeOK
<1>1. UsageInv => TypeOK
    BY DEF UsageInv
<1> QED
    BY <1>1, UsageInvariant, PTL
=============================================================================
