--------------------------- MODULE UploadStaging ---------------------------
(***************************************************************************)
(* Chunked uploads of the Go backend: reserve, chunk, commit and abort     *)
(* (api/upload.go), the eviction that ends a session (api/session_close.go *)
(* and auth/session.go), the retry of failed cleanups, and the budget of   *)
(* temporary storage (api/resources.go) they all draw on.                  *)
(*                                                                         *)
(* Every HTTP request is a goroutine (Requests); the store's expiry sweep  *)
(* (Janitors) and EvictAll at shutdown (Shutdowns) are goroutines too.     *)
(* A session's transfer lock and an upload's own mutex are explicit, and   *)
(* a handler is split exactly where it waits for one of them or for the    *)
(* network while it holds them.                                            *)
(***************************************************************************)
EXTENDS Integers, FiniteSets

CONSTANTS
  Sessions,         \* sessions open at the start
  Uploads,          \* upload ids; each is a fresh UUID, handed out once
  Chunks,           \* the chunks every upload is made of
  Requests,         \* goroutines serving requests
  Janitors,         \* the goroutine of Store.cleanup
  Shutdowns,        \* the goroutine running EvictAll
  None,             \* no lock holder, no session, no upload
  UploadMaxPending, \* uploads one session may have open
  StagingMax        \* leases the budget can carry (one unit per upload)

Procs == Requests \cup Janitors \cup Shutdowns

ASSUME StagingAssumption ==
  /\ IsFiniteSet(Uploads)
  /\ Requests \cap Janitors = {}
  /\ Requests \cap Shutdowns = {}
  /\ Janitors \cap Shutdowns = {}
  /\ None \notin Procs \cup Sessions \cup Uploads
  /\ UploadMaxPending \in Nat
  /\ StagingMax \in Nat

VARIABLES
  live,           \* sessions present in the store
  expired,        \* sessions past ExpiresAt: no lookup finds them again
  client,         \* whether the session still has its protocol client, open
  transferMu,     \* holder of each session's transfer lock
  table,          \* the uploads registered with each session
  owner,          \* session that reserved each upload
  metaMu,         \* holder of each upload's mutex
  closed,         \* UploadMeta.Closed
  recorded,       \* the keys of UploadMeta.Chunks
  staged,         \* what the chunk store holds of each chunk
  lease,          \* the upload's charge against the budget
  used,           \* resourceBudget.used
  pendingCleanup, \* uploads whose cleanup failed and is retried
  remote,         \* the destination file on the session's server
  answer,         \* what the user was told about each upload
  pc, sess, up,   \* step, session and upload of each goroutine
  consent,        \* overwrite flag of the commit a goroutine is running
  todo,           \* uploads evictSession has still to visit
  victims,        \* sessions EvictAll has still to visit
  late            \* EvictAll's budget has run out

locks    == <<transferMu, metaMu>>
staging  == <<closed, recorded, staged, lease, used, pendingCleanup>>
sessions == <<live, expired, client>>
locals   == <<pc, sess, up, consent, todo>>
sweep    == <<victims, late>>
vars     == <<sessions, locks, table, owner, staging, remote, answer, locals, sweep>>

-----------------------------------------------------------------------------
NoChunks == [c \in Chunks |-> "none"]
Whole(u) == \A c \in Chunks : staged[u][c] = "full"

\* Mutant: trusts meta.Chunks and skips the drain of the staged bytes.
VerifiedByCount(u) == recorded[u] = Chunks

\* Chunks recorded as received, all of them on disk at their full length: the
\* loop over meta.Chunks and the drain of AssembleReader before a commit.
Verified(u) == recorded[u] = Chunks /\ Whole(u)

Init ==
  /\ live = [s \in Sessions |-> TRUE]
  /\ expired = [s \in Sessions |-> FALSE]
  /\ client = [s \in Sessions |-> TRUE]
  /\ transferMu = [s \in Sessions |-> None]
  /\ table = [s \in Sessions |-> {}]
  /\ owner = [u \in Uploads |-> None]
  /\ metaMu = [u \in Uploads |-> None]
  /\ closed = [u \in Uploads |-> FALSE]
  /\ recorded = [u \in Uploads |-> {}]
  /\ staged = [u \in Uploads |-> NoChunks]
  /\ lease = [u \in Uploads |-> "none"]
  /\ used = 0
  /\ pendingCleanup = {}
  /\ remote \in [Sessions -> {"absent", "theirs"}]
  /\ answer = [u \in Uploads |-> "open"]
  /\ pc = [p \in Procs |-> "idle"]
  /\ sess = [p \in Procs |-> None]
  /\ up = [p \in Procs |-> None]
  /\ consent = [p \in Procs |-> FALSE]
  /\ todo = [p \in Procs |-> {}]
  /\ victims = {}
  /\ late = FALSE

-----------------------------------------------------------------------------
(* Locks, and where a goroutine goes next.                                 *)

\* Mutant: nobody waits for the transfer lock.
TransferIgnored(s) == TRUE

\* Mutant: nobody waits for the upload's mutex.
MetaIgnored(u) == TRUE

TransferFree(s) == transferMu[s] = None
MetaFree(u)     == metaMu[u] = None

Goto(p, step) == pc' = [pc EXCEPT ![p] = step]

\* The handler returns: its locals are forgotten.
Return(p) ==
  /\ Goto(p, "idle")
  /\ sess' = [sess EXCEPT ![p] = None]
  /\ up' = [up EXCEPT ![p] = None]
  /\ consent' = [consent EXCEPT ![p] = FALSE]
  /\ UNCHANGED todo

Stay(p, step) == Goto(p, step) /\ UNCHANGED <<sess, up, consent, todo>>

\* EvictAll runs after the server stopped accepting requests; the tickers of the
\* sweep and of the retry stop when it is done.
Stopping == \E h \in Shutdowns : pc[h] # "idle"
Stopped  == \E h \in Shutdowns : pc[h] = "stopped"

\* requireSession found the session for a new request.
Admit(p, s) == pc[p] = "idle" /\ live[s] /\ ~expired[s] /\ ~Stopping

Enter(p, s, u, step) ==
  /\ Goto(p, step)
  /\ sess' = [sess EXCEPT ![p] = s]
  /\ up' = [up EXCEPT ![p] = u]
  /\ UNCHANGED <<todo, sessions, locks, table, owner, staging, remote, answer, sweep>>

-----------------------------------------------------------------------------
(* The budget and the chunk store.                                         *)

\* Every lease is released through a sync.Once: a second call does nothing.
Release(u) ==
  /\ lease' = [lease EXCEPT ![u] = "released"]
  /\ used' = IF lease[u] = "held" THEN used - 1 ELSE used

\* A cleanup that fails may have removed any part of the directory.
Remnant(u) ==
  \E lost \in SUBSET Chunks :
    staged' = [staged EXCEPT ![u] =
                [c \in Chunks |-> IF c \in lost THEN "none" ELSE staged[u][c]]]

CleanedUp(u) ==
  /\ staged' = [staged EXCEPT ![u] = NoChunks]
  /\ Release(u)

\* Mutant: a failed cleanup is logged and forgotten.
DiscardUnretried(u) ==
  /\ closed' = [closed EXCEPT ![u] = TRUE]
  /\ \/ CleanedUp(u)
     \/ Remnant(u) /\ UNCHANGED <<lease, used>>
  /\ UNCHANGED <<recorded, pendingCleanup>>

\* cleanupUpload, and the body of evictSession's loop: the caller holds the mutex.
Discard(u) ==
  /\ closed' = [closed EXCEPT ![u] = TRUE]
  /\ \/ CleanedUp(u) /\ UNCHANGED pendingCleanup
     \/ /\ Remnant(u)
        /\ pendingCleanup' = pendingCleanup \cup {u}
        /\ UNCHANGED <<lease, used>>
  /\ UNCHANGED recorded

Unregister(s, u) == table' = [table EXCEPT ![s] = @ \ {u}]

-----------------------------------------------------------------------------
(* UploadReserve.                                                          *)

StartReserve(p, s) ==
  /\ Admit(p, s)
  /\ Enter(p, s, None, "reserve")
  /\ UNCHANGED consent

TooManyPending(s) == Cardinality(table[s]) >= UploadMaxPending

\* Mutant: the last unit is promised twice.
BudgetFullLate == used > StagingMax

BudgetFull == used >= StagingMax

\* The lock is taken, the checks pass and the budget is charged; NewUpload follows.
\* The probe of the destination is no guard here: a reservation with overwrite skips
\* it, client or no client, and the commit takes a flag of its own.
ReserveLease(p, u) ==
  LET s == sess[p] IN
  /\ pc[p] = "reserve"
  /\ TransferFree(s)
  /\ ~TooManyPending(s)
  /\ ~BudgetFull
  /\ lease[u] = "none"
  /\ transferMu' = [transferMu EXCEPT ![s] = p]
  /\ lease' = [lease EXCEPT ![u] = "held"]
  /\ used' = used + 1
  /\ Goto(p, "register")
  /\ up' = [up EXCEPT ![p] = u]
  /\ UNCHANGED <<sess, consent, todo, sessions, metaMu, table, owner, closed, recorded,
                 staged, pendingCleanup, remote, answer, sweep>>

\* Refused: too many uploads, no room, no client, or a destination that exists
\* or cannot be probed, which can happen to any reservation without overwrite;
\* a probe that loses the connection closes the client.
ReserveRefused(p) ==
  LET s == sess[p] IN
  /\ pc[p] = "reserve"
  /\ TransferFree(s)
  /\ \/ UNCHANGED client
     \/ client[s] /\ ~TooManyPending(s) /\ client' = [client EXCEPT ![s] = FALSE]
  /\ Return(p)
  /\ UNCHANGED <<live, expired, locks, table, owner, staging, remote, answer, sweep>>

\* NewUpload succeeded: the upload is registered with the session it was
\* looked up for, whether or not that session is still in the store.
ReserveRegister(p) ==
  LET s == sess[p]  u == up[p] IN
  /\ pc[p] = "register"
  /\ table' = [table EXCEPT ![s] = @ \cup {u}]
  /\ owner' = [owner EXCEPT ![u] = s]
  /\ transferMu' = [transferMu EXCEPT ![s] = None]
  /\ Return(p)
  /\ UNCHANGED <<sessions, metaMu, staging, remote, answer, sweep>>

\* Mutant: the error path of NewUpload forgets to call the lease.
ReserveFailsLeaks(p) ==
  LET s == sess[p]  u == up[p] IN
  /\ pc[p] = "register"
  /\ lease' = [lease EXCEPT ![u] = "none"]
  /\ transferMu' = [transferMu EXCEPT ![s] = None]
  /\ Return(p)
  /\ UNCHANGED <<sessions, metaMu, table, owner, closed, recorded, staged, used,
                 pendingCleanup, remote, answer, sweep>>

\* NewUpload failed: the lease is given back and no id was ever used.
ReserveFails(p) ==
  LET s == sess[p]  u == up[p] IN
  /\ pc[p] = "register"
  /\ lease' = [lease EXCEPT ![u] = "none"]
  /\ used' = used - 1
  /\ transferMu' = [transferMu EXCEPT ![s] = None]
  /\ Return(p)
  /\ UNCHANGED <<sessions, metaMu, table, owner, closed, recorded, staged,
                 pendingCleanup, remote, answer, sweep>>

-----------------------------------------------------------------------------
(* UploadChunk: only the upload's mutex, never the transfer lock.          *)

StartChunk(p, s, u) ==
  /\ Admit(p, s)
  /\ u \in table[s]
  /\ Enter(p, s, u, "chunk")
  /\ UNCHANGED consent

\* Mutant: Closed is not looked at again once the mutex is held.
ChunkLockUnchecked(p) ==
  LET u == up[p] IN
  /\ pc[p] = "chunk"
  /\ MetaFree(u)
  /\ Stay(p, "write")
  /\ metaMu' = [metaMu EXCEPT ![u] = p]
  /\ UNCHANGED <<sessions, transferMu, table, owner, staging, remote, answer, sweep>>

ChunkLock(p) ==
  LET u == up[p] IN
  /\ pc[p] = "chunk"
  /\ MetaFree(u)
  /\ \/ closed[u] /\ Return(p) /\ UNCHANGED metaMu
     \/ ~closed[u] /\ Stay(p, "write") /\ metaMu' = [metaMu EXCEPT ![u] = p]
  /\ UNCHANGED <<sessions, transferMu, table, owner, staging, remote, answer, sweep>>

\* A write that fails may leave the chunk as it was, truncated or complete; only
\* a write that succeeds is recorded.
ChunkWrite(p, c) ==
  LET u == up[p] IN
  /\ pc[p] = "write"
  /\ \/ /\ staged' = [staged EXCEPT ![u][c] = "full"]
        /\ recorded' = [recorded EXCEPT ![u] = @ \cup {c}]
     \/ /\ \E left \in {staged[u][c], "short", "full"} :
             staged' = [staged EXCEPT ![u][c] = left]
        /\ UNCHANGED recorded
  /\ metaMu' = [metaMu EXCEPT ![u] = None]
  /\ Return(p)
  /\ UNCHANGED <<sessions, transferMu, table, owner, closed, lease, used, pendingCleanup,
                 remote, answer, sweep>>

-----------------------------------------------------------------------------
(* UploadCommit: the transfer lock, then the upload's mutex, both held      *)
(* until the file is on the server and the chunks are gone.                *)

StartCommit(p, s, u) ==
  /\ Admit(p, s)
  /\ client[s]
  /\ owner[u] = s
  /\ Enter(p, s, u, "commit")
  /\ \E overwrite \in BOOLEAN : consent' = [consent EXCEPT ![p] = overwrite]

CommitLock(p) ==
  LET s == sess[p]  u == up[p] IN
  /\ pc[p] = "commit"
  /\ TransferFree(s)
  /\ \/ u \notin table[s] /\ Return(p) /\ UNCHANGED transferMu
     \/ u \in table[s] /\ Stay(p, "verify") /\ transferMu' = [transferMu EXCEPT ![s] = p]
  /\ UNCHANGED <<sessions, metaMu, table, owner, staging, remote, answer, sweep>>

\* Mutant: the probe made when the upload was reserved is believed.
MayCreateUnprobed(p) == TRUE

\* A commit that has probed, and holds both locks; the one of a session.
Committing == {"drain", "send"}
Senders(s) == {p \in Procs : pc[p] \in Committing /\ sess[p] = s}

\* Without consent the destination is probed again, under the lock.
MayCreate(p) == consent[p] \/ (client[sess[p]] /\ remote[sess[p]] = "absent")

\* What the commit's probe could have seen is "theirs" from here on; what others
\* create after it is "raced".
CommitProbe(p) ==
  LET s == sess[p]  u == up[p] IN
  /\ pc[p] = "verify"
  /\ MetaFree(u)
  /\ ~closed[u]
  /\ MayCreate(p)
  /\ metaMu' = [metaMu EXCEPT ![u] = p]
  /\ remote' = [remote EXCEPT ![s] = IF @ = "raced" THEN "theirs" ELSE @]
  /\ Stay(p, "drain")
  /\ UNCHANGED <<sessions, transferMu, table, owner, staging, answer, sweep>>

\* The staged bytes have been read to their end, and are opened again to be sent.
CommitVerify(p) ==
  /\ pc[p] = "drain"
  /\ Verified(up[p])
  /\ Stay(p, "send")
  /\ UNCHANGED <<sessions, locks, table, owner, staging, remote, answer, sweep>>


\* Refused before the chunks are read; they survive for another try.
CommitRefused(p) ==
  LET s == sess[p]  u == up[p] IN
  /\ pc[p] = "verify"
  /\ MetaFree(u)
  /\ \/ UNCHANGED client
     \/ ~consent[p] /\ ~closed[u] /\ client' = [client EXCEPT ![s] = FALSE]
  /\ transferMu' = [transferMu EXCEPT ![s] = None]
  /\ Return(p)
  /\ UNCHANGED <<live, expired, metaMu, table, owner, staging, remote, answer, sweep>>

CommitUnlock(p) ==
  /\ transferMu' = [transferMu EXCEPT ![sess[p]] = None]
  /\ metaMu' = [metaMu EXCEPT ![up[p]] = None]
  /\ Return(p)

\* Chunks are missing, too short, or cannot be read: refused as well.
CommitUnverified(p) ==
  /\ pc[p] = "drain"
  /\ CommitUnlock(p)
  /\ UNCHANGED <<sessions, table, owner, staging, remote, answer, sweep>>

\* The reader streams whatever is staged: a short chunk would pass unnoticed
\* here, a missing one is an error. Only EvictAll closes a client under a running
\* transfer, and QUIT does not end the data connection.
CommitSent(p) ==
  LET s == sess[p]  u == up[p] IN
  /\ pc[p] = "send"
  /\ client[s] \/ late
  /\ \A c \in Chunks : staged[u][c] # "none"
  /\ remote' = [remote EXCEPT ![s] = IF Whole(u) THEN "whole" ELSE "partial"]
  /\ answer' = [answer EXCEPT ![u] = "committed"]
  /\ Discard(u)
  /\ Unregister(s, u)
  /\ CommitUnlock(p)
  /\ UNCHANGED <<sessions, owner, sweep>>

\* What a failed transfer leaves: the file as it was, or the new one in part or
\* whole.  Where the probe saw no file, whatever is there by now may be deleted.
Leavings(p) ==
  {remote[sess[p]], "partial", "whole"}
    \cup (IF consent[p] \/ ~client[sess[p]] THEN {} ELSE {"absent"})

CommitFailed(p) ==
  LET s == sess[p]  u == up[p] IN
  /\ pc[p] = "send"
  /\ \E left \in Leavings(p) : remote' = [remote EXCEPT ![s] = left]
  /\ \E kept \in {client[s], FALSE} : client' = [client EXCEPT ![s] = kept]
  /\ Discard(u)
  /\ Unregister(s, u)
  /\ CommitUnlock(p)
  /\ UNCHANGED <<live, expired, owner, answer, sweep>>

-----------------------------------------------------------------------------
(* UploadAbort: behind the transfer lock, so behind a running commit.      *)

StartAbort(p, s, u) ==
  /\ Admit(p, s)
  /\ owner[u] = s
  /\ Enter(p, s, u, "abort")
  /\ UNCHANGED consent

\* Mutant: the upload is looked up before the wait for the lock, not after.
AbortLockStale(p) ==
  LET s == sess[p] IN
  /\ pc[p] = "abort"
  /\ TransferFree(s)
  /\ Stay(p, "discard")
  /\ transferMu' = [transferMu EXCEPT ![s] = p]
  /\ UNCHANGED <<sessions, metaMu, table, owner, staging, remote, answer, sweep>>

AbortLock(p) ==
  LET s == sess[p]  u == up[p] IN
  /\ pc[p] = "abort"
  /\ TransferFree(s)
  /\ \/ u \notin table[s] /\ Return(p) /\ UNCHANGED transferMu
     \/ u \in table[s] /\ Stay(p, "discard") /\ transferMu' = [transferMu EXCEPT ![s] = p]
  /\ UNCHANGED <<sessions, metaMu, table, owner, staging, remote, answer, sweep>>

AbortDiscard(p) ==
  LET s == sess[p]  u == up[p] IN
  /\ pc[p] = "discard"
  /\ MetaFree(u)
  /\ CleanedUp(u)
  /\ closed' = [closed EXCEPT ![u] = TRUE]
  /\ Unregister(s, u)
  /\ answer' = [answer EXCEPT ![u] = "aborted"]
  /\ transferMu' = [transferMu EXCEPT ![s] = None]
  /\ Return(p)
  /\ UNCHANGED <<sessions, metaMu, owner, recorded, pendingCleanup, remote, sweep>>

\* The cleanup failed: the upload stays open, with what is left of its chunks.
AbortFails(p) ==
  LET s == sess[p]  u == up[p] IN
  /\ pc[p] = "discard"
  /\ MetaFree(u)
  /\ Remnant(u)
  /\ transferMu' = [transferMu EXCEPT ![s] = None]
  /\ Return(p)
  /\ UNCHANGED <<sessions, metaMu, table, owner, closed, recorded, lease, used,
                 pendingCleanup, remote, answer, sweep>>

-----------------------------------------------------------------------------
(* The end of a session: Disconnect, EvictExpired and EvictAll all run      *)
(* evictSession and then drop the session from the store.                  *)

StartDisconnect(p, s) ==
  /\ Admit(p, s)
  /\ Enter(p, s, None, "evict")
  /\ UNCHANGED consent

\* evictSession begins: the client is closed, the uploads are listed.
BeginEvict(p, s) ==
  /\ client' = [client EXCEPT ![s] = FALSE]
  /\ todo' = [todo EXCEPT ![p] = table[s]]
  /\ Goto(p, "evicting")
  /\ UNCHANGED <<up, consent, live, expired, metaMu, table, owner, staging, remote, answer>>

\* Disconnect and EvictAll wait for the transfer lock.
EvictLock(p) ==
  /\ pc[p] = "evict"
  /\ TransferFree(sess[p])
  /\ transferMu' = [transferMu EXCEPT ![sess[p]] = p]
  /\ BeginEvict(p, sess[p])
  /\ UNCHANGED <<sess, sweep>>

\* EvictExpired tries the lock once and leaves a busy session to a later sweep.
StartSweep(j, s) ==
  /\ pc[j] = "idle"
  /\ live[s]
  /\ expired[s]
  /\ ~Stopped
  /\ TransferFree(s)
  /\ transferMu' = [transferMu EXCEPT ![s] = j]
  /\ sess' = [sess EXCEPT ![j] = s]
  /\ BeginEvict(j, s)
  /\ UNCHANGED sweep

\* The next upload of the list, unless a commit removed it in the meantime.
EvictTake(p, u) ==
  /\ pc[p] = "evicting"
  /\ u \in todo[p]
  /\ todo' = [todo EXCEPT ![p] = @ \ {u}]
  /\ IF u \in table[sess[p]]
     THEN Goto(p, "closing") /\ up' = [up EXCEPT ![p] = u]
     ELSE UNCHANGED <<pc, up>>
  /\ UNCHANGED <<sess, consent, sessions, locks, table, owner, staging, remote, answer, sweep>>

EvictDiscard(p) ==
  LET u == up[p] IN
  /\ pc[p] = "closing"
  /\ MetaFree(u)
  /\ Discard(u)
  /\ Unregister(sess[p], u)
  /\ Stay(p, "evicting")
  /\ UNCHANGED <<sessions, locks, owner, remote, answer, sweep>>

EvictUnlock(p) ==
  LET s == sess[p] IN
  /\ pc[p] = "evicting"
  /\ todo[p] = {}
  /\ transferMu' = [transferMu EXCEPT ![s] = IF @ = p THEN None ELSE @]
  /\ Stay(p, "drop")
  /\ UNCHANGED <<sessions, metaMu, table, owner, staging, remote, answer, sweep>>

EvictDrop(p) ==
  /\ pc[p] = "drop"
  /\ live' = [live EXCEPT ![sess[p]] = FALSE]
  /\ IF p \in Shutdowns THEN Stay(p, "sweepall") ELSE Return(p)
  /\ UNCHANGED <<expired, client, locks, table, owner, staging, remote, answer, sweep>>

-----------------------------------------------------------------------------
(* EvictAll.                                                               *)

StartShutdown(h) ==
  /\ pc[h] = "idle"
  /\ victims' = {s \in Sessions : live[s]}
  /\ Stay(h, "sweepall")
  /\ UNCHANGED <<late, sessions, locks, table, owner, staging, remote, answer>>

Deadline ==
  /\ Stopping
  /\ late' = TRUE
  /\ UNCHANGED <<victims, sessions, locks, table, owner, staging, remote, answer, locals>>

ShutdownNext(h, s) ==
  /\ pc[h] = "sweepall"
  /\ ~late
  /\ s \in victims
  /\ victims' = victims \ {s}
  /\ sess' = [sess EXCEPT ![h] = s]
  /\ Goto(h, "evict")
  /\ UNCHANGED <<up, consent, todo, late, sessions, locks, table, owner, staging, remote, answer>>

\* The budget ran out while a transfer kept the lock: evicted all the same.
ShutdownForce(h) ==
  /\ pc[h] = "evict"
  /\ h \in Shutdowns
  /\ late
  /\ ~TransferFree(sess[h])
  /\ BeginEvict(h, sess[h])
  /\ UNCHANGED <<sess, transferMu, sweep>>

ShutdownDone(h) ==
  /\ pc[h] = "sweepall"
  /\ late \/ victims = {}
  /\ Stay(h, "stopped")
  /\ UNCHANGED <<sessions, locks, table, owner, staging, remote, answer, sweep>>

-----------------------------------------------------------------------------
(* The clock, the retry of failed cleanups, and everybody else who writes   *)
(* the destination.                                                        *)

Expire(s) ==
  /\ live[s]
  /\ ~expired[s]
  /\ expired' = [expired EXCEPT ![s] = TRUE]
  /\ UNCHANGED <<live, client, locks, table, owner, staging, remote, answer, locals, sweep>>

RetryCleanup(u) ==
  /\ u \in pendingCleanup
  /\ ~Stopped
  /\ CleanedUp(u)
  /\ pendingCleanup' = pendingCleanup \ {u}
  /\ UNCHANGED <<closed, recorded, sessions, locks, table, owner, remote, answer, locals, sweep>>

RetryFails(u) ==
  /\ u \in pendingCleanup
  /\ ~Stopped
  /\ Remnant(u)
  /\ UNCHANGED <<closed, recorded, lease, used, pendingCleanup, sessions, locks, table, owner,
                 remote, answer, locals, sweep>>

\* Other programs, other sessions and the session's own file operations write or
\* delete the destination whenever they like; no lock of this backend keeps them out.
Foreign(s) ==
  /\ \E left \in {"absent", IF Senders(s) = {} THEN "theirs" ELSE "raced"} :
       remote' = [remote EXCEPT ![s] = left]
  /\ UNCHANGED <<sessions, locks, table, owner, staging, answer, locals, sweep>>

-----------------------------------------------------------------------------
Start(p) ==
  \/ \E s \in Sessions : StartReserve(p, s) \/ StartDisconnect(p, s)
  \/ \E s \in Sessions, u \in Uploads :
       StartChunk(p, s, u) \/ StartCommit(p, s, u) \/ StartAbort(p, s, u)

Handle(p) ==
  \/ \E u \in Uploads : ReserveLease(p, u)
  \/ ReserveRefused(p) \/ ReserveRegister(p) \/ ReserveFails(p)
  \/ ChunkLock(p) \/ (\E c \in Chunks : ChunkWrite(p, c))
  \/ CommitLock(p) \/ CommitProbe(p) \/ CommitRefused(p)
  \/ CommitVerify(p) \/ CommitUnverified(p)
  \/ AbortLock(p) \/ AbortDiscard(p) \/ AbortFails(p)

\* The transfer is the one step whose length the backend does not set.
Transfer(p) == CommitSent(p) \/ CommitFailed(p)

Evict(p) ==
  \/ EvictLock(p)
  \/ \E u \in Uploads : EvictTake(p, u)
  \/ EvictDiscard(p) \/ EvictUnlock(p) \/ EvictDrop(p)

Shutdown(h) ==
  \/ StartShutdown(h) \/ ShutdownForce(h) \/ ShutdownDone(h)
  \/ \E s \in Sessions : ShutdownNext(h, s)

Next ==
  \/ \E p \in Requests : Start(p) \/ Handle(p) \/ Transfer(p)
  \/ \E p \in Procs : Evict(p)
  \/ \E j \in Janitors, s \in Sessions : StartSweep(j, s)
  \/ \E h \in Shutdowns : Shutdown(h)
  \/ Deadline
  \/ \E u \in Uploads : RetryCleanup(u) \/ RetryFails(u)
  \/ \E s \in Sessions : Expire(s) \/ Foreign(s)

Spec == Init /\ [][Next]_vars

(***************************************************************************)
(* Fairness.  A goroutine that can take its next step takes it; the ones    *)
(* blocked on a mutex are served in the end, as sync.Mutex hands itself to *)
(* the longest waiter after a millisecond (strong fairness).  Transfers    *)
(* end: every read and write on a connection has a deadline.  The sweep    *)
(* and the retry run on tickers, and the storage does not fail for ever.   *)
(***************************************************************************)
FairSpec ==
  /\ Spec
  /\ \A p \in Procs : SF_vars(Handle(p) \/ Evict(p)) /\ WF_vars(Transfer(p))
  /\ \A j \in Janitors, s \in Sessions : WF_vars(StartSweep(j, s))
  /\ \A u \in Uploads : WF_vars(RetryCleanup(u))

-----------------------------------------------------------------------------
(* Safety.                                                                 *)

Steps ==
  {"idle", "reserve", "register", "chunk", "write", "commit", "verify", "drain", "send",
   "abort", "discard", "evict", "evicting", "closing", "drop", "sweepall", "stopped"}

TypeOK ==
  /\ live \in [Sessions -> BOOLEAN]
  /\ expired \in [Sessions -> BOOLEAN]
  /\ client \in [Sessions -> BOOLEAN]
  /\ transferMu \in [Sessions -> Procs \cup {None}]
  /\ table \in [Sessions -> SUBSET Uploads]
  /\ owner \in [Uploads -> Sessions \cup {None}]
  /\ metaMu \in [Uploads -> Procs \cup {None}]
  /\ closed \in [Uploads -> BOOLEAN]
  /\ recorded \in [Uploads -> SUBSET Chunks]
  /\ staged \in [Uploads -> [Chunks -> {"none", "short", "full"}]]
  /\ lease \in [Uploads -> {"none", "held", "released"}]
  /\ used \in Nat
  /\ pendingCleanup \in SUBSET Uploads
  /\ remote \in [Sessions -> {"absent", "theirs", "raced", "whole", "partial"}]
  /\ answer \in [Uploads -> {"open", "committed", "aborted"}]
  /\ pc \in [Procs -> Steps]
  /\ sess \in [Procs -> Sessions \cup {None}]
  /\ up \in [Procs -> Uploads \cup {None}]
  /\ consent \in [Procs -> BOOLEAN]
  /\ todo \in [Procs -> SUBSET Uploads]
  /\ victims \in SUBSET Sessions
  /\ late \in BOOLEAN

\* The budget counts every lease that has not been given back, exactly once,
\* although commit, abort, eviction and retry may each release the same one; and
\* it never promises more than it has.
Held == {u \in Uploads : lease[u] = "held"}

BudgetExact == used = Cardinality(Held) /\ used <= StagingMax

\* Bytes on the staging volume are always charged to somebody: no lease is given
\* back while chunks remain, and no late chunk lands in a directory whose lease
\* is gone.
StagedIsCharged ==
  \A u \in Uploads : staged[u] # NoChunks => lease[u] = "held"

\* Concurrent reservations cannot push a session past UploadMaxPending.
PendingBounded ==
  \A s \in Sessions : Cardinality(table[s]) <= UploadMaxPending

\* From the moment a commit checks the chunks until the last of them is sent, nothing
\* (a chunk that arrives late, an abort, an eviction, even a forced one, the retry)
\* changes what it reads.
StreamStable ==
  [][\A p \in Requests :
       pc[p] \in Committing /\ pc'[p] \in Committing =>
         /\ staged'[up[p]] = staged[up[p]]
         /\ closed'[up[p]] = closed[up[p]]]_vars

\* An upload is committed or aborted once: of a commit and an abort that race, one
\* is told the upload is gone.
AnsweredOnce ==
  [][\A u \in Uploads : answer[u] # "open" => answer'[u] = answer[u]]_vars

\* A commit that answers OK has put every byte of the upload on the server, even
\* after a failed re-send truncated a chunk already recorded.
AnsweredMeansStored ==
  [][\A u \in Uploads :
       answer'[u] = "committed" /\ answer[u] # "committed" =>
         remote'[owner[u]] = "whole"]_vars

\* A commit replaces a file that was there when it took the lock and probed only with
\* consent, whatever was true when the upload was reserved; and with consent, whatever
\* fails, it deletes nothing.  A file that others make after the probe is not protected.
UserFileSafe ==
  [][\A p \in Requests :
       LET s == sess[p] IN
       pc[p] \in Committing /\ pc'[p] # pc[p] /\ remote[s] # "absent" =>
         \/ remote'[s] = remote[s]
         \/ IF consent[p] THEN remote'[s] # "absent" ELSE remote[s] = "raced"]_vars

\* Nobody but EvictAll past its deadline closes a client while a commit of another
\* goroutine is using it.
NotSevered ==
  [][\A p \in Requests :
       pc[p] \in Committing /\ pc'[p] \in Committing =>
         late \/ client'[sess[p]] = client[sess[p]]]_vars

-----------------------------------------------------------------------------
(* The handlers implement AtomicUpload.                                     *)

\* How far an upload has come, and what its session is sending.
Outcome ==
  [u \in Uploads |->
     IF answer[u] # "open" THEN answer[u] ELSE IF closed[u] THEN "lost" ELSE "open"]

Sends ==
  [s \in Sessions |-> {[up |-> up[p], over |-> consent[p]] : p \in Senders(s)}]

Atomic == INSTANCE AtomicUpload WITH
  charged <- Held, home <- owner, state <- Outcome, sending <- Sends, file <- remote

\* Whatever races, an upload ends once, in one step: with its whole file on the server
\* and the user told so, with the user told that it is aborted, or lost.  No other
\* upload of the session is sent meanwhile, a file that was there changes with consent
\* only, and room that is taken comes back once, after the end.
ImplementsAtomicUpload == Atomic!Spec

-----------------------------------------------------------------------------
(* The inductive invariant behind the safety properties.                   *)

\* A goroutine past its lookup has a session; one that works on an upload has one.
Placed ==
  \A p \in Procs :
    /\ pc[p] \notin {"idle", "sweepall", "stopped"} => sess[p] \in Sessions
    /\ pc[p] \in {"register", "chunk", "write", "commit", "verify", "drain", "send",
                  "abort", "discard", "closing"} => up[p] \in Uploads

\* The critical sections of the two kinds of lock.
Locked ==
  \A p \in Procs :
    /\ pc[p] \in {"register", "verify", "drain", "send", "discard"} => transferMu[sess[p]] = p
    /\ pc[p] \in {"write", "drain", "send"} => metaMu[up[p]] = p /\ ~closed[up[p]]

\* An upload's life: unknown, charged, registered, answered or closed, released.
Lifecycle ==
  \A u \in Uploads :
    /\ lease[u] = "none" => owner[u] = None
    /\ lease[u] = "released" \/ u \in pendingCleanup => closed[u]
    /\ closed[u] \/ answer[u] # "open" \/ staged[u] # NoChunks => owner[u] # None
    /\ \A s \in Sessions : u \in table[s] => owner[u] = s /\ answer[u] = "open"

\* What a goroutine may still assume of the upload it looked up.
Remembered ==
  \A p \in Procs :
    /\ pc[p] = "register" =>
         /\ owner[up[p]] = None /\ lease[up[p]] = "held"
         /\ \A q \in Procs : pc[q] = "register" /\ up[q] = up[p] => q = p
    /\ pc[p] \in {"chunk", "write", "commit", "abort", "closing"} => owner[up[p]] # None
    /\ pc[p] \in {"verify", "drain", "send", "discard"} =>
         owner[up[p]] = sess[p] /\ answer[up[p]] = "open"

\* What a commit checked before it began to send still holds, of the destination as
\* far as others let it.
Sending ==
  \A p \in Procs :
    /\ pc[p] = "send" => Whole(up[p])
    /\ pc[p] \in Committing /\ ~consent[p] => remote[sess[p]] \in {"absent", "raced"}

\* A reservation that passed its check leaves room for the upload it registers.
RoomKept ==
  \A p \in Procs : pc[p] = "register" => Cardinality(table[sess[p]]) < UploadMaxPending

\* Only what closes an upload takes it from its session's table.
Registered ==
  \A u \in Uploads : owner[u] # None /\ ~closed[u] => u \in table[owner[u]]

IInv ==
  /\ TypeOK /\ Placed /\ Locked /\ Lifecycle /\ Remembered
  /\ StagedIsCharged /\ BudgetExact /\ Sending /\ PendingBounded /\ RoomKept

-----------------------------------------------------------------------------
(* Liveness, under FairSpec.                                               *)

\* A closed upload gives its lease back in the end, even if its cleanup failed.
ClosedIsReleased ==
  \A u \in Uploads : closed[u] ~> lease[u] = "released"



-----------------------------------------------------------------------------
(* What comments in the code promise.                                      *)

\* connect.go: "an explicit disconnect must release staged chunks as well, or they
\* sit on the volume until the 24h sweeper reclaims them". Once a session is gone
\* and none of its requests is left, its uploads hold no lease, unless their
\* cleanup failed and is being retried.
Abandoned(s) == ~live[s] /\ \A p \in Procs : sess[p] # s

GoneMeansReleased ==
  \A s \in Sessions, u \in Uploads :
    Abandoned(s) /\ owner[u] = s => lease[u] = "released" \/ u \in pendingCleanup
=============================================================================
