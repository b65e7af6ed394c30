------------------------------ MODULE StagingDisk ------------------------------
(***************************************************************************)
(* What is staged, what the budget believes of it, and who deletes it:       *)
(* resourceBudget and quotaTemp (api/resources.go), the sweeper              *)
(* (staging/sweeper.go with liveUploadIDs of cmd/gftp/main.go), and the two   *)
(* chunk stores (staging/local.go, s3.go), across restarts of the process.    *)
(*                                                                         *)
(* A root is a directory of chunks, a prefix of the bucket, or a temporary    *)
(* file.  UploadStaging has the requests that open and close uploads; here a  *)
(* close is one step, and what matters is what it leaves behind.             *)
(***************************************************************************)
EXTENDS Integers, FiniteSets, Functions

CONSTANTS
  Uploads,     \* upload ids; each is used once
  Temps,       \* temporary files: gftp-zip-*, gftp-copy-*
  Owners,      \* sessions
  Kept,        \* ids in whose directory somebody keeps something else
  NoRoot,
  UploadSize,  \* what an upload reserves, in chunks
  TempSize,    \* bound on the writes to a temporary file
  StagingMax, SessionMax,
  MaxRestarts  \* bound on restarts, for TLC alone

ASSUME StagingDiskAssumption ==
  /\ IsFiniteSet(Uploads) /\ IsFiniteSet(Temps)
  /\ Uploads \cap Temps = {}
  /\ Kept \subseteq Uploads
  /\ NoRoot \notin Uploads \cup Temps
  /\ {UploadSize, TempSize, StagingMax, SessionMax, MaxRestarts} \subseteq Nat

VARIABLES
  sdS3,       \* chunks go to a bucket
  sdBytes,    \* what is there: root -> chunks
  sdStale,    \* directories older than staleAfter
  sdNew,      \* ids that were never given out
  sdUsed,     \* b.used
  sdLeases,   \* leases not given back: root -> [owner, size]
  sdOrphans,  \* b.orphans: what the scan found: root -> size
  sdScanErr,  \* b.scanErr
  sdRemote,   \* b.remoteBytes
  sdFresh,    \* b.remoteChecked is at most a minute ago
  sdActive,   \* b.uploads
  sdOpen,     \* uploads registered with a session: id -> session
  sdPending,  \* h.pendingCleanup
  sdOwner,    \* the sessions: live, expired, gone
  sdSweep,    \* the directory the sweeper has found reclaimable
  sdGivenUp,  \* ids with a PUT that was given up and may still land
  sdUnseen,   \* history: chunks without a lease that no inventory has counted yet
  sdRestarts

sdBudget == <<sdUsed, sdLeases, sdOrphans, sdScanErr, sdRemote, sdFresh>>
sdRest   == <<sdS3, sdRestarts>>
sdvars   == <<sdRest, sdBytes, sdStale, sdNew, sdBudget, sdActive, sdOpen, sdPending,
              sdOwner, sdSweep, sdGivenUp, sdUnseen>>

Roots == Uploads \cup Temps

-----------------------------------------------------------------------------
(* Sums, in chunks.                                                        *)

\* All chunks of all roots, each told from the others by its root and its number.
Chunks(f) == UNION {{r} \X (1..f[r]) : r \in DOMAIN f}

Total(f) == Cardinality(Chunks(f))

Sizes(leases) == [r \in DOMAIN leases |-> leases[r].size]
Promised(leases) == Total(Sizes(leases))
OwnedBy(o) == Promised(Restrict(sdLeases, {r \in DOMAIN sdLeases : sdLeases[r].owner = o}))
Only(f, S) == Restrict(f, DOMAIN f \cap S)
Drop(f, S) == Restrict(f, DOMAIN f \ S)
Put(f, r, v) == [x \in DOMAIN f \cup {r} |-> IF x = r THEN v ELSE f[x]]

\* What is on this machine's disk.
OnDisk == IF sdS3 THEN Only(sdBytes, Temps) ELSE sdBytes

-----------------------------------------------------------------------------
(* The budget.                                                             *)

\* StagedBytes: the chunks in the bucket that no active upload has a lease for.
Inventory == Total(Drop(Only(sdBytes, Uploads), sdActive))

\* What it passes over although the lease is gone: uploads not yet deleted from b.uploads.
PassedOver == Total(Drop(Only(sdBytes, sdActive), DOMAIN sdLeases))

\* newResourceBudget of a process that starts.
Scanned == OnDisk

\* reserve first renews an inventory that is old, and forgets orphans that are gone.
Renews == sdS3 /\ ~sdFresh
RemoteNow == IF Renews THEN Inventory ELSE sdRemote
OrphansNow == Only(sdOrphans, DOMAIN OnDisk)
UsedNow == (sdUsed + RemoteNow + Total(OrphansNow)) - (sdRemote + Total(sdOrphans))

Fits(o, n) ==
  /\ ~sdScanErr
  /\ UsedNow + n <= StagingMax
  /\ OwnedBy(o) + n <= SessionMax

\* A lease of n more for root r.
Lease(r, o, n) ==
  Put(sdLeases, r, [owner |-> o,
                    size  |-> n + (IF r \in DOMAIN sdLeases THEN sdLeases[r].size ELSE 0)])

\* reserve, granted or refused; an inventory that fails refuses and changes nothing.
Reserves(r, o, n) ==
  /\ sdUsed' = UsedNow + (IF Fits(o, n) THEN n ELSE 0)
  /\ sdLeases' = IF Fits(o, n) THEN Lease(r, o, n) ELSE sdLeases
  /\ sdOrphans' = OrphansNow
  /\ sdRemote' = RemoteNow
  /\ sdFresh' = (sdFresh \/ Renews)
  /\ sdUnseen' = IF Renews THEN PassedOver ELSE sdUnseen
  /\ UNCHANGED sdScanErr

\* A lease is given back, once.
Releases(r) ==
  /\ sdUsed' = sdUsed - sdLeases[r].size
  /\ sdLeases' = Drop(sdLeases, {r})
  /\ UNCHANGED <<sdOrphans, sdScanErr, sdRemote, sdFresh>>

-----------------------------------------------------------------------------
(* Actions.                                                                *)

NoLeases == [r \in {} |-> 0]

SDInit ==
  /\ sdS3 \in BOOLEAN
  /\ sdBytes = (IF sdS3 THEN [r \in {} |-> 0] ELSE [r \in Kept |-> 1])
  /\ sdStale = Kept
  /\ sdNew = Uploads \ Kept
  /\ sdUsed = Total(sdBytes) /\ sdOrphans = sdBytes /\ sdScanErr = FALSE
  /\ sdLeases = NoLeases /\ sdRemote = 0 /\ sdFresh = FALSE
  /\ sdActive = {} /\ sdOpen = NoLeases /\ sdPending = {}
  /\ sdOwner = [o \in Owners |-> "live"]
  /\ sdSweep = NoRoot
  /\ sdGivenUp = {} /\ sdUnseen = 0 /\ sdRestarts = 0

\* UploadReserve up to the lease.
SDReserve(id, o) ==
  /\ id \in sdNew /\ sdOwner[o] = "live"
  /\ Reserves(id, o, UploadSize)
  /\ sdNew' = IF Fits(o, UploadSize) THEN sdNew \ {id} ELSE sdNew
  /\ UNCHANGED <<sdRest, sdBytes, sdStale, sdActive, sdOpen, sdPending, sdOwner, sdSweep, sdGivenUp>>

\* Leased, and not yet owned by ownUpload.
Held(id) == id \in Uploads /\ id \in DOMAIN sdLeases /\ id \notin sdActive

\* NewUpload makes the directory; a bucket needs none.  Then ownUpload.
SDCreate(id) ==
  /\ Held(id)
  /\ sdBytes' = IF sdS3 THEN sdBytes ELSE Put(sdBytes, id, 0)
  /\ sdActive' = sdActive \cup {id}
  /\ UNCHANGED <<sdRest, sdStale, sdNew, sdBudget, sdOpen, sdPending, sdOwner, sdSweep, sdGivenUp, sdUnseen>>

SDCreateFails(id) ==
  /\ Held(id) /\ ~sdS3
  /\ Releases(id)
  /\ UNCHANGED <<sdRest, sdBytes, sdStale, sdNew, sdActive, sdOpen, sdPending, sdOwner, sdSweep, sdGivenUp, sdUnseen>>

Unregistered(id) ==
  id \in sdActive \cap DOMAIN sdLeases /\ id \notin DOMAIN sdOpen \cup sdPending

\* PutUpload, whatever has become of the session meanwhile.
SDRegister(id) ==
  /\ Unregistered(id)
  /\ sdOpen' = Put(sdOpen, id, sdLeases[id].owner)
  /\ UNCHANGED <<sdRest, sdBytes, sdStale, sdNew, sdBudget, sdActive, sdPending, sdOwner, sdSweep, sdGivenUp, sdUnseen>>

\* A new chunk.  A request that found its session before it expired still writes.
\* A file made in the directory makes it young again.
SDChunk(id) ==
  /\ id \in DOMAIN sdOpen /\ sdOwner[sdOpen[id]] # "gone"
  /\ sdS3 \/ id \in DOMAIN sdBytes
  /\ LET n == IF id \in DOMAIN sdBytes THEN sdBytes[id] ELSE 0
     IN  n < UploadSize /\ sdBytes' = Put(sdBytes, id, n + 1)
  /\ sdStale' = sdStale \ {id}
  /\ UNCHANGED <<sdRest, sdNew, sdBudget, sdActive, sdOpen, sdPending, sdOwner, sdSweep, sdGivenUp, sdUnseen>>

\* A PUT runs into its timeout or its request is given up: it may land later.
SDGiveUp(id) ==
  /\ sdS3 /\ id \in DOMAIN sdOpen
  /\ sdGivenUp' = sdGivenUp \cup {id}
  /\ UNCHANGED <<sdRest, sdBytes, sdStale, sdNew, sdBudget, sdActive, sdOpen, sdPending, sdOwner, sdSweep, sdUnseen>>

\* External: it does.
SDLands(id) ==
  /\ id \in sdGivenUp
  /\ sdGivenUp' = sdGivenUp \ {id}
  /\ LET n == IF id \in DOMAIN sdBytes THEN sdBytes[id] ELSE 0
     IN  n < UploadSize /\ sdBytes' = Put(sdBytes, id, n + 1)
  /\ sdUnseen' = IF id \in DOMAIN sdLeases THEN sdUnseen ELSE sdUnseen + 1
  /\ UNCHANGED <<sdRest, sdStale, sdNew, sdBudget, sdActive, sdOpen, sdPending, sdOwner, sdSweep>>

\* Cleanup removes everything, or fails after it removed some.
Cleans(id) == sdBytes' = Drop(sdBytes, {id})
CleansSome(id) ==
  IF id \in DOMAIN sdBytes
  THEN \E n \in 0..sdBytes[id] : sdBytes' = Put(sdBytes, id, n)
  ELSE UNCHANGED sdBytes

\* What a Cleanup that reports success leaves: DeleteObjects answers for each key, and the
\* bucket store reads the answer for the whole call only.
LeftBehind(id) == IF sdS3 /\ id \in DOMAIN sdBytes THEN 0..sdBytes[id] ELSE {0}

\* Mutant: the lease is given back although Cleanup has reported an error.
ReleasesAnyway(id) ==
  /\ CleansSome(id)
  /\ Releases(id)
  /\ sdPending' = sdPending \ {id}
  /\ UNCHANGED sdUnseen

\* The first half of the release of an upload that is clean: the budget's.
CleanAndRelease(id) ==
  /\ \E n \in LeftBehind(id) :
       /\ IF n = 0 THEN Cleans(id) ELSE sdBytes' = Put(sdBytes, id, n)
       /\ sdUnseen' = sdUnseen + n
  /\ Releases(id)
  /\ sdPending' = sdPending \ {id}

\* A commit or an eviction ends an upload; what it cannot clean waits for retryCleanup.
SDClose(id) ==
  /\ id \in DOMAIN sdOpen /\ sdOwner[sdOpen[id]] # "gone"
  /\ sdOpen' = Drop(sdOpen, {id})
  /\ \/ CleanAndRelease(id)
     \/ CleansSome(id) /\ sdPending' = sdPending \cup {id} /\ UNCHANGED <<sdBudget, sdUnseen>>
  /\ UNCHANGED <<sdRest, sdStale, sdNew, sdActive, sdOwner, sdSweep, sdGivenUp>>

\* The second half: the upload is deleted from b.uploads, under the mutex once more.
SDForget(id) ==
  /\ id \in sdActive \ DOMAIN sdLeases
  /\ sdActive' = sdActive \ {id}
  /\ UNCHANGED <<sdRest, sdBytes, sdStale, sdNew, sdBudget, sdOpen, sdPending, sdOwner, sdSweep, sdGivenUp, sdUnseen>>

\* AbortUpload that cannot clean leaves the upload as it is.
SDAbortFails(id) ==
  /\ id \in DOMAIN sdOpen /\ sdOwner[sdOpen[id]] = "live"
  /\ CleansSome(id)
  /\ UNCHANGED <<sdRest, sdStale, sdNew, sdBudget, sdActive, sdOpen, sdPending, sdOwner, sdSweep, sdGivenUp, sdUnseen>>

SDRetry(id) ==
  /\ id \in sdPending
  /\ \/ CleanAndRelease(id)
     \/ CleansSome(id) /\ UNCHANGED <<sdBudget, sdPending, sdUnseen>>
  /\ UNCHANGED <<sdRest, sdStale, sdNew, sdActive, sdOpen, sdOwner, sdSweep, sdGivenUp>>

\* A session expires; once its uploads are closed it leaves the store.
SDSessionEnds(o) ==
  /\ \/ sdOwner[o] = "live" /\ sdOwner' = [sdOwner EXCEPT ![o] = "expired"]
     \/ /\ sdOwner[o] = "expired"
        /\ \A id \in DOMAIN sdOpen : sdOpen[id] # o
        /\ sdOwner' = [sdOwner EXCEPT ![o] = "gone"]
  /\ UNCHANGED <<sdRest, sdBytes, sdStale, sdNew, sdBudget, sdActive, sdOpen, sdPending, sdSweep, sdGivenUp, sdUnseen>>

\* Write of a quotaTemp: it leases first, and the disk may be full.
SDTempWrite(t, o) ==
  /\ sdOwner[o] = "live"
  /\ t \in DOMAIN sdLeases => sdLeases[t].owner = o /\ sdLeases[t].size < TempSize
  /\ t \in DOMAIN sdBytes => t \in DOMAIN sdLeases
  /\ Reserves(t, o, 1)
  /\ LET n == IF t \in DOMAIN sdBytes THEN sdBytes[t] ELSE 0
     IN  \E m \in {n, n + 1} : sdBytes' = IF Fits(o, 1) THEN Put(sdBytes, t, m) ELSE sdBytes
  /\ UNCHANGED <<sdRest, sdStale, sdNew, sdActive, sdOpen, sdPending, sdOwner, sdSweep, sdGivenUp>>

\* dispose gives its leases back if the file is gone.  Otherwise nobody tries again.
SDTempDispose(t) ==
  /\ t \in Temps \cap DOMAIN sdLeases
  /\ sdBytes' = Drop(sdBytes, {t})
  /\ Releases(t)
  /\ UNCHANGED <<sdRest, sdStale, sdNew, sdActive, sdOpen, sdPending, sdOwner, sdSweep, sdGivenUp, sdUnseen>>

\* A day passes for a directory, a minute for the inventory.  No request takes a day from
\* NewUpload to PutUpload.
SDAge(id) ==
  /\ ~sdS3 /\ id \in DOMAIN sdBytes /\ id \notin sdStale
  /\ ~Held(id) /\ ~Unregistered(id)
  /\ sdStale' = sdStale \cup {id}
  /\ UNCHANGED <<sdRest, sdBytes, sdNew, sdBudget, sdActive, sdOpen, sdPending, sdOwner, sdSweep, sdGivenUp, sdUnseen>>

SDMinute ==
  /\ sdFresh
  /\ sdFresh' = FALSE
  /\ UNCHANGED <<sdRest, sdBytes, sdStale, sdNew, sdUsed, sdLeases, sdOrphans, sdScanErr, sdRemote,
                 sdActive, sdOpen, sdPending, sdOwner, sdSweep, sdGivenUp, sdUnseen>>

\* liveUploadIDs: Range passes over sessions that are expired.
InUse(id) == id \in DOMAIN sdOpen /\ sdOwner[sdOpen[id]] = "live"

\* Mutant: the age of a directory alone decides.
ReclaimableByAge(id) == id \in sdStale \ Kept

\* isReclaimable.
Reclaimable(id) == id \in sdStale \ Kept /\ ~InUse(id)

\* Sweep comes to an entry, and then deletes it, if it can.
SDSweepPick(id) ==
  /\ ~sdS3 /\ sdSweep = NoRoot
  /\ id \in DOMAIN sdBytes /\ Reclaimable(id)
  /\ sdSweep' = id
  /\ UNCHANGED <<sdRest, sdBytes, sdStale, sdNew, sdBudget, sdActive, sdOpen, sdPending, sdOwner, sdGivenUp, sdUnseen>>

SDSweepDelete ==
  /\ sdSweep # NoRoot
  /\ Cleans(sdSweep) \/ CleansSome(sdSweep)
  /\ sdSweep' = NoRoot
  /\ UNCHANGED <<sdRest, sdStale, sdNew, sdBudget, sdActive, sdOpen, sdPending, sdOwner, sdGivenUp, sdUnseen>>

\* The process stops and starts: newResourceBudget scans, NewSweeper sweeps, the sessions
\* are others.
SDRestart ==
  /\ sdRestarts < MaxRestarts
  /\ sdRestarts' = sdRestarts + 1
  /\ sdOrphans' = Scanned /\ sdUsed' = Total(Scanned)
  /\ sdScanErr' \in BOOLEAN
  /\ sdLeases' = NoLeases /\ sdRemote' = 0 /\ sdFresh' = FALSE
  /\ sdActive' = {} /\ sdOpen' = NoLeases /\ sdPending' = {}
  /\ sdOwner' = [o \in Owners |-> "live"]
  /\ sdSweep' = NoRoot
  /\ UNCHANGED <<sdS3, sdBytes, sdStale, sdNew, sdGivenUp, sdUnseen>>

SDNext ==
  \/ \E id \in Uploads :
       \/ SDCreate(id) \/ SDCreateFails(id) \/ SDRegister(id) \/ SDChunk(id) \/ SDGiveUp(id)
       \/ SDLands(id) \/ SDClose(id) \/ SDForget(id) \/ SDAbortFails(id) \/ SDRetry(id)
       \/ SDAge(id) \/ SDSweepPick(id)
       \/ \E o \in Owners : SDReserve(id, o)
  \/ \E o \in Owners : SDSessionEnds(o) \/ \E t \in Temps : SDTempWrite(t, o)
  \/ \E t \in Temps : SDTempDispose(t)
  \/ SDMinute \/ SDSweepDelete \/ SDRestart

SDSpec == SDInit /\ [][SDNext]_sdvars

-----------------------------------------------------------------------------
(* Properties.                                                             *)

SDTypeOK ==
  /\ DOMAIN sdBytes \subseteq Roots /\ \A r \in DOMAIN sdBytes : sdBytes[r] \in Nat
  /\ sdUsed = Promised(sdLeases) + Total(sdOrphans) + sdRemote
  /\ DOMAIN sdOpen \cup sdPending \subseteq sdActive \cap DOMAIN sdLeases
  /\ \A o \in Owners : OwnedBy(o) <= SessionMax

\* What is staged and nobody has a lease for.
Unleased == Drop(sdBytes, DOMAIN sdLeases)

\* Whenever a lease is granted, all that is promised and all that lies there without a
\* lease fit into the limit together, after a restart, a failed cleanup or a sweep too.
\* Not seen before the next inventory (resourceBudget) are only the bucket's: a chunk that
\* landed after its PUT was given up and its upload was cleaned, and a chunk that was not
\* deleted although the cleanup reported success.
SDRoom ==
  [][(\E r \in DOMAIN sdLeases' :
        r \notin DOMAIN sdLeases \/ sdLeases'[r].size > sdLeases[r].size) =>
       Promised(sdLeases') + Total(Unleased') <= StagingMax + sdUnseen']_sdvars

\* The sweeper deletes nothing that a live session can commit or is about to get, and
\* nothing in a directory somebody else uses (isReclaimable, liveUploadIDs).
SDSpares ==
  [][\A id \in Uploads :
       sdSweep = id /\ sdSweep' = NoRoot /\ ~(sdRestarts' > sdRestarts) =>
         id \notin Kept /\ ~InUse(id) /\ ~Held(id) /\ ~Unregistered(id)]_sdvars

-----------------------------------------------------------------------------
(* The inductive invariant of the proofs.                                  *)

\* More than a root ever has, or is leased, or was found to have.
MostChunks == UploadSize + TempSize + 1

SDShape ==
  /\ sdS3 \in BOOLEAN /\ sdFresh \in BOOLEAN
  /\ DOMAIN sdBytes \subseteq Roots /\ \A r \in DOMAIN sdBytes : sdBytes[r] \in 0..MostChunks
  /\ DOMAIN sdOrphans \subseteq Roots /\ \A r \in DOMAIN sdOrphans : sdOrphans[r] \in 0..MostChunks
  /\ DOMAIN sdLeases \subseteq Roots
  /\ \A r \in DOMAIN sdLeases :
       sdLeases[r].size \in 0..MostChunks /\ sdLeases[r].owner \in Owners
  /\ \A id \in DOMAIN sdOpen : sdOpen[id] \in Owners
  /\ sdOwner \in [Owners -> {"live", "expired", "gone"}]
  /\ sdNew \subseteq Uploads \ Kept /\ sdSweep \in Uploads \cup {NoRoot}
  /\ sdRemote \in Nat /\ sdUnseen \in Nat
  /\ sdActive \subseteq Uploads
  /\ DOMAIN sdOpen \cup sdPending \subseteq sdActive \cap DOMAIN sdLeases

\* An id that is new, or leased with no upload yet, has left nothing anywhere.
SDUntouched ==
  /\ \A id \in sdNew : id \notin DOMAIN sdLeases
  /\ \A id \in Uploads :
       id \in sdNew \/ Held(id) => id \notin DOMAIN sdBytes \cup sdStale \cup sdGivenUp
  /\ \A id \in Uploads : Unregistered(id) => id \notin sdStale
  /\ sdPending \cap DOMAIN sdOpen = {}
  /\ ~sdS3 => sdGivenUp = {}

\* What the sweeper is about to delete is nobody's.
SDSwept ==
  sdSweep \in Uploads =>
    /\ sdSweep \notin Kept \cup sdNew
    /\ ~InUse(sdSweep) /\ ~Held(sdSweep) /\ ~Unregistered(sdSweep)

\* What lies without a lease was found by the scan or counted by the inventory.
UnleasedChunks == Total(Only(Unleased, Uploads))

SDCounted ==
  /\ sdUsed = Promised(sdLeases) + Total(sdOrphans) + sdRemote
  /\ \A o \in Owners : OwnedBy(o) <= SessionMax
  /\ \A r \in DOMAIN OnDisk \ DOMAIN sdLeases :
       r \in DOMAIN sdOrphans /\ sdBytes[r] <= sdOrphans[r]
  /\ sdS3 /\ sdFresh => UnleasedChunks <= sdRemote + sdUnseen
  /\ \A t \in Temps \cap DOMAIN sdBytes \cap DOMAIN sdLeases : sdBytes[t] <= sdLeases[t].size
  /\ \A t \in Temps \cap DOMAIN sdLeases : sdLeases[t].size <= TempSize + 1

SDIInv == SDShape /\ SDUntouched /\ SDSwept /\ SDCounted
=============================================================================
