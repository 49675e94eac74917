----------------------------- MODULE SyncObjects -----------------------------
(***************************************************************************)
(* The object side of the sync server (apps/server/internal/sync): the     *)
(* rows of kuku.sync_objects, the bytes behind them in the object store,   *)
(* the usage counters that enforce quota, and the operations that move     *)
(* them: reserve, presign, PUT, complete, garbage collection, workspace    *)
(* and account deletion, cleanup.                                          *)
(*                                                                         *)
(* Every handler is one Postgres transaction at READ COMMITTED.  It first  *)
(* authorizes the workspace and the device WITHOUT a lock, and then waits  *)
(* for SELECT ... FOR UPDATE on the account's usage row.  That wait is the *)
(* only point where other transactions of the account can slip in between  *)
(* two reads that matter, so a handler is two actions here: Authorize      *)
(* remembers what the unlocked reads said, and the locked body runs later, *)
(* on whatever the database holds by then.  A body that meets an error     *)
(* rolls back: that is Reject.  DeleteAccount alone takes the account's    *)
(* row last, so it is one action per statement: every statement sees what  *)
(* was committed before it and locks the rows it changes, and the others   *)
(* see its changes when it commits.                                        *)
(*                                                                         *)
(* One account is modelled: accounts share no row.  Object kinds, ids and  *)
(* storage keys are left out (SyncCommits has the kinds): a request whose  *)
(* kind is wrong only adds another Reject.                                 *)
(***************************************************************************)
EXTENDS Integers, FiniteSets, FiniteSetsExt, Functions

CONSTANTS
    Workspaces,         \* ids of kuku.sync_workspaces
    Devices,            \* ids of kuku.sync_devices
    Objects,            \* object ids; a random id is never handed out twice
    Requests,           \* handlers that can be in flight at the same time
    Contents,           \* ciphertexts: a sha256 and the size that goes with it
    Size,               \* bytes of each ciphertext
    None,               \* SQL NULL, no bytes, no request
    MaxPendingBytes,    \* SyncMaxPendingUploadBytes
    MaxWorkspaceBytes,  \* SyncMaxStorageBytesPerWorkspace
    MaxAccountBytes,    \* SyncMaxTotalStorageBytesPerUser
    MaxBlobBytes,       \* SyncMaxSingleBlobBytes
    MaxWorkspaceCount,  \* SyncMaxWorkspacesPerUser
    PendingAge,         \* SyncMaxPendingUploadAge
    PresignTTL,         \* SyncPresignTTL
    OrphanLimit,        \* rows one GC pass takes (SyncGCOptions.OrphanLimit)
    MaxTime             \* bound on the clock, for model checking

ASSUME ConstantsAssumption ==
    /\ None \notin Workspaces \cup Devices \cup Objects \cup Contents
    /\ IsFiniteSet(Workspaces) /\ IsFiniteSet(Objects)
    /\ Size \in [Contents -> Nat \ {0}]
    /\ MaxPendingBytes \in Nat /\ MaxWorkspaceBytes \in Nat
    /\ MaxAccountBytes \in Nat /\ MaxBlobBytes \in Nat
    /\ MaxWorkspaceCount \in Nat
    /\ PendingAge \in Nat \ {0} /\ PresignTTL \in Nat \ {0}
    /\ OrphanLimit \in Nat \ {0} /\ MaxTime \in Nat

VARIABLES
    now,         \* the clock; 0 stands for a NULL timestamp, so it starts at 1
    wsState,     \* "none", "live", "deleted" (soft) or "purged" (row gone)
    devWs,       \* the workspace a device is registered in, or None
    revoked,     \* devices with revoked_at set
    objState,    \* upload_state; "unused" before the row, "purged" after it
    objWs,       \* workspace_id of the row
    objDevice,   \* created_by_device_id
    objMeta,     \* ciphertext_sha256 and size_bytes; None while reserved
    objExpires,  \* expires_at; 0 is NULL
    blob,        \* what the store holds under the object's key
    putUntil,    \* deadline of the newest presigned PUT URL; 0 if none
    provider,    \* the configured store: "s3" presigns, "local" does not
    wsUse,       \* rows of kuku.sync_usage_workspaces
    acct,        \* the row of kuku.sync_usage_accounts
    auth,        \* what each in-flight request was authorized for, or None
    closing,     \* what an uncommitted DeleteAccount has changed, or None
    stale,       \* history: acct was touched for a workspace already deleted, or
                 \* reset with a live workspace left
    admitted,    \* history: a live workspace was given bytes while acct was stale
    zeroed       \* history: live workspaces whose counters a DeleteAccount reset

wsVars == <<wsState, devWs, revoked>>
rowVars == <<objState, objWs, objDevice, objMeta, objExpires>>
storeVars == <<blob, putUntil, provider>>
useVars == <<wsUse, acct, stale, admitted, zeroed>>
vars == <<now, wsVars, rowVars, storeVars, useVars, auth, closing>>

RowStates == {"reserved", "pending", "available", "failed"}
Usage == [storage : Nat, pending : Nat, count : Nat]
NoUsage == [storage |-> 0, pending |-> 0, count |-> 0]
NoAccount == [storage |-> 0, pending |-> 0, workspaces |-> 0]

\* step: statements done.  rows, devs, ws, uses: the objects, devices,
\* workspaces and usage rows they changed, and so hold locked.
Closings == [step : 1 .. 4, rows : SUBSET Objects, devs : SUBSET Devices,
             ws : SUBSET Workspaces, uses : SUBSET Workspaces]

\* The rows, the store and the requests.
RowTypeOK ==
    /\ now \in Nat
    /\ wsState \in [Workspaces -> {"none", "live", "deleted", "purged"}]
    /\ devWs \in [Devices -> Workspaces \cup {None}]
    /\ revoked \subseteq Devices
    /\ objState \in [Objects -> RowStates \cup {"unused", "deleted", "purged"}]
    /\ objWs \in [Objects -> Workspaces \cup {None}]
    /\ objDevice \in [Objects -> Devices \cup {None}]
    /\ objMeta \in [Objects -> Contents \cup {None}]
    /\ objExpires \in [Objects -> Nat]
    /\ blob \in [Objects -> Contents \cup {None}]
    /\ putUntil \in [Objects -> Nat]
    /\ provider \in {"s3", "local"}
    /\ auth \in [Requests -> [ws : Workspaces, dev : Devices \cup {None}] \cup {None}]
    /\ closing \in Closings \cup {None}

\* Every variable; the counters are never negative, as their CHECK demands.
TypeOK ==
    /\ RowTypeOK
    /\ wsUse \in [Workspaces -> Usage]
    /\ acct \in [storage : Nat, pending : Nat, workspaces : Nat]
    /\ stale \in BOOLEAN /\ admitted \in BOOLEAN /\ zeroed \subseteq Workspaces

-----------------------------------------------------------------------------
(* Sums the SQL computes.                                                  *)

Bytes(S, meta) == SumFunction([o \in S |-> Size[meta[o]]])

\* RecalculateSyncUsageWorkspace, over the rows as st leaves them.
WorkspaceUsage(w, st, meta) ==
    LET In(s) == {o \in Objects : objWs[o] = w /\ st[o] = s}
    IN  [storage |-> Bytes(In("available"), meta),
         pending |-> Bytes(In("pending"), meta),
         count   |-> Cardinality(In("available"))]

\* RecalculateSyncUsageAccount, over the workspaces that ws says are live.
AccountUsage(ws, use) ==
    LET live == {w \in Workspaces : ws[w] = "live"}
    IN  [storage    |-> SumFunction([w \in live |-> use[w].storage]),
         pending    |-> SumFunction([w \in live |-> use[w].pending]),
         workspaces |-> Cardinality(live)]

Expired(o) == objExpires[o] # 0 /\ objExpires[o] <= now

\* Rows another transaction can lock: not changed by an open DeleteAccount.
\* One that waits for such a row holds the account's, for which DeleteAccount
\* will wait: Postgres ends one of the two (Reject or DeleteAccountAbort).
Lockable(o) == closing # None => o \notin closing.rows
WorkspaceLockable(w) == closing # None => w \notin closing.ws
UsageLockable(w) == closing # None => w \notin closing.uses

\* Rows FOR UPDATE sees in workspace w: deleted_at IS NULL.
RowsOf(w) == {o \in Objects : objWs[o] = w /\ objState[o] \in RowStates}

Init ==
    /\ now = 1
    /\ wsState = [w \in Workspaces |-> "none"]
    /\ devWs = [d \in Devices |-> None]
    /\ revoked = {}
    /\ objState = [o \in Objects |-> "unused"]
    /\ objWs = [o \in Objects |-> None]
    /\ objDevice = [o \in Objects |-> None]
    /\ objMeta = [o \in Objects |-> None]
    /\ objExpires = [o \in Objects |-> 0]
    /\ blob = [o \in Objects |-> None]
    /\ putUntil = [o \in Objects |-> 0]
    /\ provider \in {"s3", "local"}
    /\ wsUse = [w \in Workspaces |-> NoUsage]
    /\ acct = NoAccount
    /\ auth = [r \in Requests |-> None]
    /\ closing = None
    /\ stale = FALSE
    /\ admitted = FALSE
    /\ zeroed = {}

-----------------------------------------------------------------------------
(* Workspaces and devices.                                                 *)

\* CreateWorkspace: under the account lock from its first statement.
CreateWorkspace(w) ==
    /\ wsState[w] = "none"
    /\ acct.workspaces < MaxWorkspaceCount
    /\ wsState' = [wsState EXCEPT ![w] = "live"]
    /\ wsUse' = [wsUse EXCEPT ![w] = NoUsage]
    /\ acct' = [acct EXCEPT !.workspaces = @ + 1]
    /\ UNCHANGED <<now, devWs, revoked, rowVars, storeVars, stale, admitted, zeroed, auth, closing>>

\* The unlocked prefix of every handler: authorizeWorkspace, and
\* requireActiveDevice where the handler names a device (d # None).
Authorize(r, w, d) ==
    /\ auth[r] = None
    /\ wsState[w] = "live"
    /\ d # None => devWs[d] = w /\ d \notin revoked
    /\ auth' = [auth EXCEPT ![r] = [ws |-> w, dev |-> d]]
    /\ UNCHANGED <<now, wsVars, rowVars, storeVars, useVars, closing>>

\* An early return, an error or a cancelled context: withTx rolls back.
Reject(r) ==
    /\ auth[r] # None
    /\ auth' = [auth EXCEPT ![r] = None]
    /\ UNCHANGED <<now, wsVars, rowVars, storeVars, useVars, closing>>

RegisterDevice(r, d) ==
    /\ auth[r] # None /\ auth[r].dev = None
    /\ wsState[auth[r].ws] # "purged"          \* the row's foreign key
    /\ devWs[d] = None
    /\ devWs' = [devWs EXCEPT ![d] = auth[r].ws]
    /\ auth' = [auth EXCEPT ![r] = None]
    /\ UNCHANGED <<now, wsState, revoked, rowVars, storeVars, useVars, closing>>

\* Mutant: the account is recalculated before the workspace is marked.
DeleteWorkspaceRecalculatedFirst(w) ==
    /\ wsState[w] # "none" /\ WorkspaceLockable(w)
    /\ wsState' = [wsState EXCEPT ![w] = IF @ = "live" THEN "deleted" ELSE @]
    /\ acct' = AccountUsage(wsState, wsUse)
    /\ stale' = FALSE
    /\ UNCHANGED <<now, devWs, revoked, rowVars, storeVars, wsUse, admitted, zeroed, auth, closing>>

\* DeleteWorkspace: soft delete, then the account recalculated without it.
DeleteWorkspace(w) ==
    LET ws == [wsState EXCEPT ![w] = IF @ = "live" THEN "deleted" ELSE @]
    IN  /\ wsState[w] # "none" /\ WorkspaceLockable(w)
        /\ wsState' = ws
        /\ acct' = AccountUsage(ws, wsUse)
        /\ stale' = FALSE
        /\ UNCHANGED <<now, devWs, revoked, rowVars, storeVars, wsUse, admitted, zeroed, auth, closing>>

-----------------------------------------------------------------------------
(* Uploads.                                                                *)

\* ReserveObjectIDs: fresh rows, one expiry; the account is not locked.
ReserveObjectIDs(r) ==
    /\ auth[r] # None /\ auth[r].dev # None
    /\ wsState[auth[r].ws] # "purged"
    /\ \E B \in (SUBSET {o \in Objects : objState[o] = "unused"}) \ {{}} :
        /\ objState' = [o \in Objects |-> IF o \in B THEN "reserved" ELSE objState[o]]
        /\ objWs' = [o \in Objects |-> IF o \in B THEN auth[r].ws ELSE objWs[o]]
        /\ objDevice' = [o \in Objects |-> IF o \in B THEN auth[r].dev ELSE objDevice[o]]
        /\ objExpires' = [o \in Objects |-> IF o \in B THEN now + PendingAge ELSE objExpires[o]]
    /\ auth' = [auth EXCEPT ![r] = None]
    /\ UNCHANGED <<now, wsVars, objMeta, storeVars, useVars, closing>>

\* Mutant: bytes already promised to other uploads are not counted.
WithinQuotaIgnoringPending(w, add) ==
    /\ wsUse[w].pending + add <= MaxPendingBytes
    /\ acct.storage + add <= MaxAccountBytes
    /\ wsUse[w].storage + wsUse[w].pending + add <= MaxWorkspaceBytes

\* checkUploadBatchQuota.
WithinQuota(w, add) ==
    /\ wsUse[w].pending + add <= MaxPendingBytes
    /\ acct.storage + acct.pending + add <= MaxAccountBytes
    /\ wsUse[w].storage + wsUse[w].pending + add <= MaxWorkspaceBytes

\* Mutant: a failed row may be presigned again.
UploadableAfterFailure(o, content) ==
    /\ Size[content] <= MaxBlobBytes
    /\ \/ objState[o] \in {"reserved", "failed"}
       \/ objState[o] = "pending" /\ objMeta[o] = content /\ ~Expired(o)

\* One object of an upload batch: a reserved row (its age is not looked at),
\* or a pending one that is asked for again with the same descriptor.
Uploadable(o, content) ==
    /\ Size[content] <= MaxBlobBytes
    /\ \/ objState[o] = "reserved"
       \/ objState[o] = "pending" /\ objMeta[o] = content /\ ~Expired(o)

\* Mutant: presigning keeps the expiry of the reservation.
ReservationExpiry(o) == objExpires[o]

\* MarkSyncObjectPending starts the row's age again, with every new URL.
PendingExpiry(o) == now + PendingAge

\* CreateObjectUploadBatch: the locked body, one batch.
CreateUploadBatch(r, B, content) ==
    LET w == auth[r].ws
        add == Bytes({o \in B : objState[o] = "reserved"}, content)
    IN  /\ provider = "s3"
        /\ wsState[w] # "purged" /\ UsageLockable(w)
        /\ \A o \in B : /\ o \in RowsOf(w) /\ Lockable(o)
                        /\ objDevice[o] = auth[r].dev
                        /\ Uploadable(o, content[o])
        /\ WithinQuota(w, add)
        /\ wsUse' = [wsUse EXCEPT ![w].pending = @ + add]
        /\ acct' = [acct EXCEPT !.pending = @ + add]
        /\ objState' = [o \in Objects |-> IF o \in B THEN "pending" ELSE objState[o]]
        /\ objMeta' = [o \in Objects |-> IF o \in B THEN content[o] ELSE objMeta[o]]
        /\ objExpires' = [o \in Objects |-> IF o \in B THEN PendingExpiry(o) ELSE objExpires[o]]
        /\ putUntil' = [o \in Objects |-> IF o \in B THEN now + PresignTTL ELSE putUntil[o]]
        /\ stale' = (stale \/ (wsState[w] # "live" /\ add > 0))
        /\ admitted' = (admitted \/ (stale /\ wsState[w] = "live" /\ add > 0))
        /\ auth' = [auth EXCEPT ![r] = None]
        /\ UNCHANGED <<now, wsVars, objWs, objDevice, blob, provider, zeroed, closing>>

CreateObjectUploadBatch(r) ==
    /\ auth[r] # None /\ auth[r].dev # None
    /\ \E B \in (SUBSET Objects) \ {{}} : \E content \in [B -> Contents] :
           CreateUploadBatch(r, B, content)

\* The client PUTs through a presigned URL.  Key, length and sha256 header
\* are signed, so the store ends with the descriptor the row was given,
\* whatever has happened to the row since.
PutBlob(o) ==
    /\ putUntil[o] > now
    /\ blob' = [blob EXCEPT ![o] = objMeta[o]]
    /\ UNCHANGED <<now, wsVars, rowVars, putUntil, provider, useVars, auth, closing>>

\* Mutant: the store is not asked.
CompletableWithoutHead(o, content) == ~Expired(o) /\ objMeta[o] = content

\* A pending row becomes available only if it is in time, the request names
\* the same descriptor, and HEAD finds exactly that in the store.
Completable(o, content) ==
    /\ ~Expired(o)
    /\ objMeta[o] = content
    /\ blob[o] = objMeta[o]

\* Mutant: failPendingObject does not give the bytes back.
ReleasedWhenDone(open, good) == Bytes(good, objMeta)

\* Pending bytes given back: every pending row of the batch, done or failed.
Released(open, good) == Bytes(open, objMeta)

\* Mutant: the tables have no CHECK.
CounterUnchecked(w, left) == TRUE

\* CHECK (pending_upload_bytes >= 0) of both usage tables.
CounterCheck(w, left) == left <= acct.pending /\ left <= wsUse[w].pending

\* CompleteObjectUploadBatch: the locked body.  Rows that cannot complete
\* are failed one by one (failPendingObject); a row that is already available
\* with the same descriptor is answered again; anything else rolls back.  The
\* counters' CHECK (... >= 0) also rolls back.
CompleteUploadBatch(r, B, content) ==
    LET w == auth[r].ws
        open == {o \in B : objState[o] = "pending"}
        good == {o \in open : Completable(o, content[o])}
        left == Released(open, good)
        done == Bytes(good, objMeta)
    IN  /\ provider = "s3"
        /\ wsState[w] # "purged" /\ UsageLockable(w)
        /\ \A o \in B : /\ o \in RowsOf(w) /\ Lockable(o)
                        /\ objDevice[o] = auth[r].dev
                        /\ \/ objState[o] = "pending"
                           \/ objState[o] = "available" /\ objMeta[o] = content[o]
        /\ CounterCheck(w, left)
        /\ wsUse' = [wsUse EXCEPT ![w] = [storage |-> @.storage + done,
                                          pending |-> @.pending - left,
                                          count   |-> @.count + Cardinality(good)]]
        /\ acct' = [acct EXCEPT !.storage = @ + done, !.pending = @ - left]
        /\ objState' = [o \in Objects |-> IF o \in good THEN "available"
                                          ELSE IF o \in open THEN "failed"
                                          ELSE objState[o]]
        /\ objExpires' = [o \in Objects |-> IF o \in good THEN 0 ELSE objExpires[o]]
        /\ stale' = (stale \/ (wsState[w] # "live" /\ open # {}))
        /\ auth' = [auth EXCEPT ![r] = None]
        /\ UNCHANGED <<now, wsVars, objWs, objDevice, objMeta, storeVars, admitted, zeroed, closing>>

CompleteObjectUploadBatch(r) ==
    /\ auth[r] # None /\ auth[r].dev # None
    /\ \E B \in (SUBSET Objects) \ {{}} : \E content \in [B -> Contents] :
           CompleteUploadBatch(r, B, content)

DevQuota(w, size) ==
    /\ acct.storage + size <= MaxAccountBytes
    /\ wsUse[w].storage + size <= MaxWorkspaceBytes

\* UploadObjectBytesDev, local store only: bytes first, then the row.  When
\* the transaction then fails (ok = FALSE) the bytes stay behind.
UploadDev(r, o, content, ok) ==
    LET w == auth[r].ws
        size == Size[content]
    IN  /\ provider = "local"
        /\ wsState[w] # "purged" /\ UsageLockable(w)
        /\ size <= MaxBlobBytes
        /\ DevQuota(w, size)
        /\ o \in RowsOf(w) /\ Lockable(o)
        /\ objState[o] \in {"reserved", "pending"}
        /\ blob' = [blob EXCEPT ![o] = content]
        /\ auth' = [auth EXCEPT ![r] = None]
        /\ IF ok
           THEN /\ objState' = [objState EXCEPT ![o] = "available"]
                /\ objMeta' = [objMeta EXCEPT ![o] = content]
                /\ objExpires' = [objExpires EXCEPT ![o] = 0]
                /\ wsUse' = [wsUse EXCEPT ![w].storage = @ + size, ![w].count = @ + 1]
                /\ acct' = [acct EXCEPT !.storage = @ + size]
                /\ stale' = (stale \/ wsState[w] # "live")
                /\ admitted' = (admitted \/ (stale /\ wsState[w] = "live"))
                /\ UNCHANGED zeroed
           ELSE UNCHANGED <<objState, objMeta, objExpires, useVars>>
        /\ UNCHANGED <<now, wsVars, objWs, objDevice, putUntil, provider, closing>>

UploadObjectBytesDev(r) ==
    /\ auth[r] # None /\ auth[r].dev # None
    /\ \E o \in Objects, content \in Contents, ok \in BOOLEAN : UploadDev(r, o, content, ok)

-----------------------------------------------------------------------------
(* Garbage collection, recalculation, deletion.                            *)

\* ListExpiredOrphanSyncObjectsForUpdate: never an available row; oldest
\* first, at most OrphanLimit, rows locked elsewhere skipped.
Orphans(w) ==
    {o \in RowsOf(w) : /\ objState[o] \in {"reserved", "pending", "failed"}
                       /\ Expired(o) /\ Lockable(o)}

OrphanBatches(w) ==
    {D \in SUBSET Orphans(w) :
        /\ Cardinality(D) = Min({OrphanLimit, Cardinality(Orphans(w))})
        /\ \A o \in D, p \in Orphans(w) \ D : objExpires[o] <= objExpires[p]}

\* deleteObjectBlob for each object of D; a missing key is not an error.
StoreWithout(D) == [o \in Objects |-> IF o \in D THEN None ELSE blob[o]]

\* RunWorkspaceGC: bytes of each orphan deleted, row marked, both counters
\* recalculated.  With nothing to collect it returns before recalculating.
RunWorkspaceGC(r) ==
    /\ auth[r] # None /\ auth[r].dev = None
    /\ wsState[auth[r].ws] # "purged" /\ UsageLockable(auth[r].ws)
    /\ \E D \in OrphanBatches(auth[r].ws) :
        LET w == auth[r].ws
            st == [o \in Objects |-> IF o \in D THEN "deleted" ELSE objState[o]]
            use == [wsUse EXCEPT ![w] = WorkspaceUsage(w, st, objMeta)]
        IN  /\ D # {}
            /\ blob' = StoreWithout(D)
            /\ objState' = st
            /\ objExpires' = [o \in Objects |-> IF o \in D THEN 0 ELSE objExpires[o]]
            /\ wsUse' = use
            /\ acct' = AccountUsage(wsState, use)
            /\ stale' = FALSE
    /\ auth' = [auth EXCEPT ![r] = None]
    /\ UNCHANGED <<now, wsVars, objWs, objDevice, objMeta, putUntil, provider, admitted, zeroed, closing>>

\* The same pass when a later delete, a statement or the commit fails: the
\* rows roll back, the bytes already deleted do not come back.
AbortWorkspaceGC(r) ==
    /\ auth[r] # None /\ auth[r].dev = None
    /\ UsageLockable(auth[r].ws)
    /\ \E D \in OrphanBatches(auth[r].ws) : \E S \in (SUBSET D) \ {{}} :
           blob' = StoreWithout(S)
    /\ auth' = [auth EXCEPT ![r] = None]
    /\ UNCHANGED <<now, wsVars, rowVars, putUntil, provider, useVars, closing>>

RecalculateSyncUsage(r) ==
    /\ auth[r] # None /\ auth[r].dev = None
    /\ wsState[auth[r].ws] # "purged" /\ UsageLockable(auth[r].ws)
    /\ LET w == auth[r].ws
           use == [wsUse EXCEPT ![w] = WorkspaceUsage(w, objState, objMeta)]
       IN  wsUse' = use /\ acct' = AccountUsage(wsState, use)
    /\ stale' = FALSE
    /\ auth' = [auth EXCEPT ![r] = None]
    /\ UNCHANGED <<now, wsVars, rowVars, storeVars, admitted, zeroed, closing>>

\* RunDeletedWorkspaceCleanup of workspaces W: every blob, then the rows.
\* ok = FALSE: the transaction fails after the bytes are gone.
RunDeletedWorkspaceCleanup(W, ok) ==
    LET rows == {o \in Objects : objWs[o] \in W /\ objState[o] # "purged"}
    IN  /\ W # {} /\ \A w \in W : wsState[w] = "deleted"
        /\ \A o \in rows : Lockable(o)
        /\ blob' = StoreWithout(rows)
        /\ IF ok
           THEN /\ \A w \in W : UsageLockable(w)        \* goes with the workspace
                /\ wsState' = [w \in Workspaces |-> IF w \in W THEN "purged" ELSE wsState[w]]
                /\ objState' = [o \in Objects |-> IF o \in rows THEN "purged" ELSE objState[o]]
           ELSE UNCHANGED <<wsState, objState>>
        /\ UNCHANGED <<now, devWs, revoked, objWs, objDevice, objMeta, objExpires,
                       putUntil, provider, useVars, auth, closing>>

OwnedWorkspaces == {w \in Workspaces : wsState[w] \in {"live", "deleted"}}

\* DeleteAccount (auth service): MarkSyncObjectsDeletedByOwner.
DeleteAccountMark ==
    /\ closing = None
    /\ closing' = [step |-> 1, rows |-> {o \in Objects : objState[o] \in RowStates},
                   devs |-> {}, ws |-> {}, uses |-> {}]
    /\ UNCHANGED <<now, wsVars, rowVars, storeVars, useVars, auth>>

\* RevokeSyncDevicesByOwner.
DeleteAccountRevoke ==
    /\ closing # None /\ closing.step = 1
    /\ closing' = [closing EXCEPT !.step = 2,
                                  !.devs = {d \in Devices : devWs[d] \in OwnedWorkspaces} \ revoked]
    /\ UNCHANGED <<now, wsVars, rowVars, storeVars, useVars, auth>>

\* SoftDeleteSyncWorkspacesByOwner.
DeleteAccountSoftDelete ==
    /\ closing # None /\ closing.step = 2
    /\ closing' = [closing EXCEPT !.step = 3, !.ws = {w \in Workspaces : wsState[w] = "live"}]
    /\ UNCHANGED <<now, wsVars, rowVars, storeVars, useVars, auth>>

\* ResetSyncUsageWorkspacesByOwner: deleted workspaces too, and live ones
\* created since the statement before.
DeleteAccountResetWorkspaces ==
    /\ closing # None /\ closing.step = 3
    /\ closing' = [closing EXCEPT !.step = 4, !.uses = OwnedWorkspaces]
    /\ UNCHANGED <<now, wsVars, rowVars, storeVars, useVars, auth>>

\* ResetSyncUsageAccount, which waits for the account's row, and the commit.
\* A workspace created since the third statement's snapshot stays live.
DeleteAccountCommit ==
    LET left == {w \in Workspaces : wsState[w] = "live"} \ closing.ws
    IN  /\ closing # None /\ closing.step = 4
        /\ objState' = [o \in Objects |-> IF o \in closing.rows THEN "deleted" ELSE objState[o]]
        /\ objExpires' = [o \in Objects |-> IF o \in closing.rows THEN 0 ELSE objExpires[o]]
        /\ revoked' = revoked \cup closing.devs
        /\ wsState' = [w \in Workspaces |-> IF w \in closing.ws THEN "deleted" ELSE wsState[w]]
        /\ wsUse' = [w \in Workspaces |-> IF w \in closing.uses THEN NoUsage ELSE wsUse[w]]
        /\ acct' = NoAccount
        /\ stale' = (left # {})
        /\ admitted' = (admitted /\ left # {})
        /\ zeroed' = zeroed \cup (left \cap closing.uses)
        /\ closing' = None
        /\ UNCHANGED <<now, devWs, objWs, objDevice, objMeta, storeVars, auth>>

\* A deadlock with a handler that holds the account lock, or any error.
DeleteAccountAbort ==
    /\ closing # None
    /\ closing' = None
    /\ UNCHANGED <<now, wsVars, rowVars, storeVars, useVars, auth>>

Tick ==
    /\ now < MaxTime
    /\ now' = now + 1
    /\ UNCHANGED <<wsVars, rowVars, storeVars, useVars, auth, closing>>

Next ==
    \/ \E w \in Workspaces : CreateWorkspace(w) \/ DeleteWorkspace(w)
    \/ \E r \in Requests :
        \/ \E w \in Workspaces, d \in Devices \cup {None} : Authorize(r, w, d)
        \/ Reject(r)
        \/ \E d \in Devices : RegisterDevice(r, d)
        \/ ReserveObjectIDs(r)
        \/ CreateObjectUploadBatch(r)
        \/ CompleteObjectUploadBatch(r)
        \/ UploadObjectBytesDev(r)
        \/ RunWorkspaceGC(r)
        \/ AbortWorkspaceGC(r)
        \/ RecalculateSyncUsage(r)
    \/ \E o \in Objects : PutBlob(o)
    \/ \E W \in SUBSET Workspaces, ok \in BOOLEAN : RunDeletedWorkspaceCleanup(W, ok)
    \/ DeleteAccountMark \/ DeleteAccountRevoke \/ DeleteAccountSoftDelete
    \/ DeleteAccountResetWorkspaces \/ DeleteAccountCommit \/ DeleteAccountAbort
    \/ Tick

Spec == Init /\ [][Next]_vars
-----------------------------------------------------------------------------
(* Properties.                                                             *)

\* The counters of a live workspace are what its rows add up to, after any
\* interleaving of presign, complete, fail, GC and account deletion: quota is
\* enforced on counters that incremental updates keep (AddSyncUsagePendingBytes,
\* CompleteSyncUsageObjectBytes, ReleaseSyncUsagePendingBytes).  A workspace
\* created and filled between the third and the fourth statement of an open
\* DeleteAccount is the exception: it stays live with counters that were reset.
WorkspaceUsageExact ==
    \A w \in Workspaces \ zeroed :
        wsState[w] = "live" => wsUse[w] = WorkspaceUsage(w, objState, objMeta)

\* The account row is the sum over its live workspaces, except after one of two
\* interleavings: a handler authorized before DeleteWorkspace ran its locked body
\* after it, or CreateWorkspace committed between the soft delete and the account
\* reset of an open DeleteAccount.  Every recalculation that runs to its end
\* (DeleteWorkspace, RunWorkspaceGC, RecalculateSyncUsage) removes the drift.
AccountUsageExact == ~stale => acct = AccountUsage(wsState, wsUse)

\* What the live workspaces of the account have together is within its limit, as
\* presign_integration_test.go:257 expects ("want user total storage quota").  The
\* code does not keep it: a complete that fails an upload of a workspace deleted
\* meanwhile takes its bytes off the account row, DeleteWorkspace has taken them
\* off already, and another workspace's next batch is checked against too small a
\* row.
WithinAccountLimit ==
    LET total == AccountUsage(wsState, wsUse)
    IN  total.storage + total.pending <= MaxAccountBytes

\* Concurrent upload batches cannot exceed a limit together, because pending
\* bytes are charged under the account lock when the URL is handed out and
\* moved, not charged again, when the upload completes.  A workspace's limits
\* hold always; what the live workspaces have together exceeds the account's
\* only if a batch was admitted while the account row had drifted.  Neither is
\* promised once DeleteAccount has reset the counters of a workspace it left live.
QuotaRespected ==
    /\ \A w \in Workspaces \ zeroed : wsState[w] = "live" =>
           /\ wsUse[w].pending <= MaxPendingBytes
           /\ wsUse[w].storage + wsUse[w].pending <= MaxWorkspaceBytes
    /\ ~admitted /\ zeroed = {} => WithinAccountLimit

\* An available object of a live workspace has exactly its bytes in the store,
\* although RunWorkspaceGC deletes bytes before its transaction commits and a
\* rolled back pass does not restore them.
AvailableHasBytes ==
    \A o \in Objects :
        objState[o] = "available" /\ wsState[objWs[o]] = "live" => blob[o] = objMeta[o]

\* No bytes outlive a collected row: nobody looks at a deleted row's key again
\* while its workspace lives.  It needs URLs that expire before rows do; the
\* server's configuration does not check that SyncPresignTTL is the smaller.
NoLeakedBlob ==
    PresignTTL <= PendingAge =>
        \A o \in Objects :
            objState[o] = "deleted" /\ wsState[objWs[o]] = "live" => blob[o] = None

\* What keeps the three properties above: a row belongs to a workspace that
\* exists, and so does a request; an open DeleteAccount holds its rows, and their
\* workspaces from its third statement on; the
\* local store presigns nothing; a URL is gone before its row can be collected.
RowsHaveWorkspace ==
    \A o \in Objects :
        IF objState[o] = "unused" THEN objWs[o] = None
        ELSE objWs[o] \in Workspaces /\ wsState[objWs[o]] # "none"

RequestsHaveWorkspace ==
    \A r \in Requests : auth[r] # None => wsState[auth[r].ws] # "none"

ClosingHoldsRows ==
    closing # None =>
        \A o \in closing.rows :
            /\ objState[o] \in RowStates
            /\ closing.step > 2 /\ wsState[objWs[o]] = "live" => objWs[o] \in closing.ws

LocalHasNoPending ==
    provider = "local" => \A o \in Objects : objState[o] # "pending"

UrlsExpireFirst ==
    PresignTTL <= PendingAge =>
        \A o \in Objects :
            /\ objState[o] \in {"unused", "reserved"} => putUntil[o] = 0
            /\ objState[o] \in {"pending", "failed"} => putUntil[o] <= objExpires[o]
            /\ objState[o] = "deleted" /\ wsState[objWs[o]] = "live" => putUntil[o] <= now

StoreInv ==
    /\ RowTypeOK
    /\ RowsHaveWorkspace
    /\ RequestsHaveWorkspace
    /\ ClosingHoldsRows
    /\ LocalHasNoPending
    /\ UrlsExpireFirst
    /\ AvailableHasBytes
    /\ NoLeakedBlob

\* What keeps the counters: a row that is counted has a size.
DescribedRows ==
    \A o \in Objects : objState[o] \in {"pending", "available", "failed"} => objMeta[o] \in Contents

UsageInv ==
    /\ TypeOK
    /\ DescribedRows
    /\ WorkspaceUsageExact
    /\ AccountUsageExact
    /\ QuotaRespected

\* The states a row may move to in one transaction.
Successors(s) ==
    CASE s = "unused"    -> {"reserved"}
      [] s = "reserved"  -> {"pending", "available", "deleted", "purged"}
      [] s = "pending"   -> {"available", "failed", "deleted", "purged"}
      [] s = "failed"    -> {"deleted", "purged"}
      [] s = "available" -> {"deleted", "purged"}
      [] s = "deleted"   -> {"purged"}
      [] s = "purged"    -> {}

RowStep(o) ==
    /\ objState'[o] # objState[o] =>
          /\ objState'[o] \in Successors(objState[o])
          /\ objState[o] = "available" => wsState'[objWs[o]] # "live"
    /\ objState[o] \notin {"unused", "reserved"} =>
          objMeta'[o] = objMeta[o] /\ objWs'[o] = objWs[o]

\* A late or repeated call never revives a failed or collected row, never
\* demotes an available one while its workspace lives, and never changes the
\* descriptor of a row that has left "reserved": a commit that lists an
\* available object can rely on it.
RowLifecycle == [][\A o \in Objects : RowStep(o)]_vars
=============================================================================
