------------------------ MODULE UploadStagingProofs ------------------------
(***************************************************************************)
(* What holds of UploadStaging for any number of sessions, uploads, chunks *)
(* and goroutines: every safety property its runs check, from the inductive*)
(* invariant IInv.                                                         *)
(*                                                                         *)
(* And that UploadStaging implements AtomicUpload.                          *)
(*                                                                         *)
(* Order: what the helpers do to the variables; one lemma per action, or   *)
(* per family of actions that move alike, for IInv; the action properties  *)
(* and the theorems; the refinement, one lemma per action that shows in it. *)
(***************************************************************************)
EXTENDS UploadStaging, FiniteSetTheorems, TLAPS

\* Bookkeeping that every proof looks through.
USE DEF vars, sessions, locks, staging, locals, sweep, Goto, Committing

-----------------------------------------------------------------------------
(* The helpers.                                                            *)

\* A handler that returns leaves well-typed locals behind.
LEMMA ReturnTypes ==
  ASSUME TypeOK, NEW p \in Procs, Return(p)
  PROVE  /\ pc' \in [Procs -> Steps]
         /\ sess' \in [Procs -> Sessions \cup {None}]
         /\ up' \in [Procs -> Uploads \cup {None}]
         /\ consent' \in [Procs -> BOOLEAN]
         /\ todo' \in [Procs -> SUBSET Uploads]
BY DEF TypeOK, Return, Steps

\* The leases can be counted.
LEMMA HeldFinite == IsFiniteSet(Held)
<1>1. Held \subseteq Uploads BY DEF Held
<1>2. QED BY <1>1, StagingAssumption, FS_Subset

\* A lease that is held is part of the count.
LEMMA HeldCounted ==
  ASSUME TypeOK, BudgetExact, NEW u \in Uploads, lease[u] = "held"
  PROVE  used - 1 \in Nat
<1>1. u \in Held
  BY DEF Held
<1>2. Cardinality(Held) \in Nat /\ Cardinality(Held) # 0
  BY <1>1, HeldFinite, FS_CardinalityType, FS_EmptySet
<1>3. QED  BY <1>2 DEF BudgetExact

\* Release touches one lease and the counter.
LEMMA ReleaseTypes ==
  ASSUME TypeOK, BudgetExact, NEW u \in Uploads, Release(u)
  PROVE  /\ lease' \in [Uploads -> {"none", "held", "released"}]
         /\ used' \in Nat
         /\ lease'[u] = "released"
         /\ \A v \in Uploads \ {u} : lease'[v] = lease[v]
BY HeldCounted DEF TypeOK, Release

\* A cleanup that fails only ever removes chunks, and only of its upload.
LEMMA RemnantTypes ==
  ASSUME TypeOK, NEW u \in Uploads, Remnant(u)
  PROVE  /\ staged' \in [Uploads -> [Chunks -> {"none", "short", "full"}]]
         /\ \A v \in Uploads \ {u} : staged'[v] = staged[v]
         /\ staged[u] = NoChunks => staged'[u] = NoChunks
BY DEF TypeOK, Remnant, NoChunks

\* A cleanup that succeeds empties one upload and ends its lease.
LEMMA CleanedTypes ==
  ASSUME TypeOK, BudgetExact, NEW u \in Uploads, CleanedUp(u)
  PROVE  /\ staged' \in [Uploads -> [Chunks -> {"none", "short", "full"}]]
         /\ lease' \in [Uploads -> {"none", "held", "released"}]
         /\ used' \in Nat
         /\ staged'[u] = NoChunks
         /\ lease'[u] = "released"
         /\ \A v \in Uploads \ {u} : staged'[v] = staged[v] /\ lease'[v] = lease[v]
<1>1. NoChunks \in [Chunks -> {"none", "short", "full"}]
  BY DEF NoChunks
<1>2. QED  BY <1>1, ReleaseTypes DEF TypeOK, CleanedUp

\* Discard closes one upload and leaves the others alone.
LEMMA DiscardTypes ==
  ASSUME TypeOK, BudgetExact, NEW u \in Uploads, Discard(u)
  PROVE  /\ closed' = [closed EXCEPT ![u] = TRUE]
         /\ recorded' = recorded
         /\ staged' \in [Uploads -> [Chunks -> {"none", "short", "full"}]]
         /\ lease' \in [Uploads -> {"none", "held", "released"}]
         /\ used' \in Nat
         /\ pendingCleanup' \in SUBSET Uploads
         /\ pendingCleanup' \subseteq pendingCleanup \cup {u}
         /\ lease'[u] \in {lease[u], "released"}
         /\ \A v \in Uploads \ {u} : staged'[v] = staged[v] /\ lease'[v] = lease[v]
<1>1. CASE CleanedUp(u) /\ UNCHANGED pendingCleanup
  BY <1>1, CleanedTypes DEF TypeOK, Discard
<1>2. CASE /\ Remnant(u)
           /\ pendingCleanup' = pendingCleanup \cup {u}
           /\ UNCHANGED <<lease, used>>
  BY <1>2, RemnantTypes DEF TypeOK, Discard
<1>3. QED  BY <1>1, <1>2 DEF Discard

\* Giving a lease back keeps the count exact, however often it is done.
LEMMA ReleaseExact ==
  ASSUME TypeOK, BudgetExact, NEW u \in Uploads, Release(u), lease[u] # "none" 
  PROVE  BudgetExact'
<1>1. CASE lease[u] = "held"
  <2>1. Held' = Held \ {u} /\ u \in Held
    BY <1>1 DEF TypeOK, Release, Held
  <2>2. Cardinality(Held \ {u}) = Cardinality(Held) - 1
    BY <2>1, HeldFinite, FS_RemoveElement
  <2>3. used' = used - 1
    BY <1>1 DEF Release
  <2>4. Cardinality(Held) \in Nat
    BY HeldFinite, FS_CardinalityType
  <2>5. used - 1 <= StagingMax
    BY <2>4, StagingAssumption DEF BudgetExact
  <2>6. QED  BY <2>1, <2>2, <2>3, <2>5 DEF BudgetExact
<1>2. CASE lease[u] = "released"
  <2>1. Held' = Held
    BY <1>2 DEF TypeOK, Release, Held
  <2>2. used' = used
    BY <1>2 DEF Release
  <2>3. QED  BY <2>1, <2>2 DEF BudgetExact
<1>3. QED  BY <1>1, <1>2 DEF TypeOK

-----------------------------------------------------------------------------
(* The steps.                                                              *)

\* A new request: every Start* action.
LEMMA EnterStep ==
  ASSUME IInv, NEW p \in Procs, NEW s \in Sessions, NEW u \in Uploads \cup {None}, NEW step,
         pc[p] = "idle", Enter(p, s, u, step),
         consent' \in [Procs -> BOOLEAN], \A q \in Procs \ {p} : consent'[q] = consent[q],
         \/ step \in {"reserve", "evict"}
         \/ step \in {"chunk", "commit", "abort"} /\ u \in Uploads /\ owner[u] # None
  PROVE  IInv'
<1>1. TypeOK' /\ Placed'
  BY DEF IInv, TypeOK, Placed, Enter, Steps
<1>2. Locked' /\ Remembered'
  BY DEF IInv, TypeOK, Locked, Remembered, Enter
<1>3. Lifecycle' /\ StagedIsCharged' /\ BudgetExact' /\ PendingBounded'
  BY DEF IInv, Lifecycle, StagedIsCharged, BudgetExact, Held, PendingBounded, Enter
<1>4. Sending' /\ RoomKept'
  BY DEF IInv, TypeOK, Sending, RoomKept, Whole, Enter
<1>5. QED  BY <1>1, <1>2, <1>3, <1>4 DEF IInv

\* A handler that gives up, with or without the transfer lock.
LEMMA LeaveStep ==
  ASSUME IInv, NEW p \in Procs, Return(p), client' \in [Sessions -> BOOLEAN],
         \/ UNCHANGED transferMu
         \/ /\ pc[p] = "verify"
            /\ transferMu' = [transferMu EXCEPT ![sess[p]] = None],
         UNCHANGED <<live, expired, metaMu, table, owner, staging, remote, answer, sweep>>
  PROVE  IInv'
<1>1. TypeOK'
  BY ReturnTypes DEF IInv, TypeOK, Return
<1>2. Placed' /\ Remembered'
  BY DEF IInv, TypeOK, Placed, Remembered, Return
<1>3. Locked'
  <2>1. pc'[p] = "idle"
    BY DEF IInv, TypeOK, Return
  <2>2. \A q \in Procs \ {p} : pc'[q] = pc[q] /\ sess'[q] = sess[q] /\ up'[q] = up[q]
    BY DEF IInv, TypeOK, Return
  <2>3. \A q \in Procs \ {p} :
          pc[q] \in {"register", "verify", "drain", "send", "discard"} => transferMu'[sess[q]] = q
    <3>1. CASE UNCHANGED transferMu
      BY <3>1 DEF IInv, Locked
    <3>2. CASE pc[p] = "verify" /\ transferMu' = [transferMu EXCEPT ![sess[p]] = None]
      <4>1. transferMu[sess[p]] = p
        BY <3>2 DEF IInv, Locked
      <4>2. QED  BY <3>2, <4>1 DEF IInv, TypeOK, Placed, Locked
    <3>3. QED  BY <3>1, <3>2
  <2>4. QED  BY <2>1, <2>2, <2>3 DEF IInv, Locked
<1>4. Lifecycle' /\ StagedIsCharged' /\ BudgetExact' /\ PendingBounded'
  BY DEF IInv, Lifecycle, StagedIsCharged, BudgetExact, Held, PendingBounded
<1>5. Sending' /\ RoomKept'
  BY DEF IInv, TypeOK, Sending, RoomKept, Whole, Return
<1>6. QED  BY <1>1, <1>2, <1>3, <1>4, <1>5 DEF IInv

\* A commit or an abort gets the transfer lock and finds its upload.
LEMMA LockStep ==
  ASSUME IInv, NEW p \in Procs, NEW step \in {"verify", "discard"},
         pc[p] \in {"commit", "abort"}, TransferFree(sess[p]), up[p] \in table[sess[p]],
         Stay(p, step), transferMu' = [transferMu EXCEPT ![sess[p]] = p],
         UNCHANGED <<sessions, metaMu, table, owner, staging, remote, answer, sweep>>
  PROVE  IInv'
<1>1. sess[p] \in Sessions /\ up[p] \in Uploads
  BY DEF IInv, Placed
<1>2. TypeOK' /\ Placed'
  BY <1>1 DEF IInv, TypeOK, Placed, Stay, Steps
<1>3. Locked'
  <2>1. pc'[p] = step /\ sess' = sess /\ up' = up /\ transferMu'[sess[p]] = p
    BY <1>1 DEF IInv, TypeOK, Stay
  <2>2. \A q \in Procs \ {p} :
          /\ pc'[q] = pc[q]
          /\ pc[q] \in {"register", "verify", "drain", "send", "discard"} =>
               transferMu'[sess[q]] = transferMu[sess[q]]
    BY <1>1, StagingAssumption DEF IInv, TypeOK, Placed, Locked, TransferFree, Stay
  <2>3. QED  BY <2>1, <2>2 DEF IInv, Locked
<1>4. Remembered'
  <2>1. owner[up[p]] = sess[p] /\ answer[up[p]] = "open" /\ sess[p] # None
    BY <1>1, StagingAssumption DEF IInv, Lifecycle
  <2>2. QED  BY <1>1, <2>1 DEF IInv, TypeOK, Remembered, Stay
<1>5. Lifecycle' /\ StagedIsCharged' /\ BudgetExact' /\ PendingBounded'
  BY DEF IInv, Lifecycle, StagedIsCharged, BudgetExact, Held, PendingBounded
<1>6. Sending' /\ RoomKept'
  BY DEF IInv, TypeOK, Sending, RoomKept, Whole, Stay
<1>7. QED  BY <1>2, <1>3, <1>4, <1>5, <1>6 DEF IInv

\* UploadReserve up to the lease.
LEMMA ReserveLeaseStep ==
  ASSUME IInv, NEW p \in Requests, NEW u \in Uploads, ReserveLease(p, u)
  PROVE  IInv'
<1>1. p \in Procs /\ sess[p] \in Sessions
  BY DEF IInv, Placed, ReserveLease, Procs
<1>2. TypeOK'
  BY <1>1 DEF IInv, TypeOK, ReserveLease, Steps
<1>3. Placed'
  BY <1>1 DEF IInv, TypeOK, Placed, ReserveLease
<1>4. Locked'
  BY <1>1, StagingAssumption DEF IInv, TypeOK, Placed, Locked, ReserveLease, TransferFree
<1>5. Lifecycle' /\ StagedIsCharged'
  BY DEF IInv, TypeOK, Lifecycle, StagedIsCharged, ReserveLease
<1>6. Remembered'
  <2>1. owner[u] = None /\ \A q \in Procs : pc[q] = "register" => up[q] # u
    BY DEF IInv, Lifecycle, Remembered, ReserveLease
  <2>2. QED  BY <1>1, <2>1 DEF IInv, TypeOK, Placed, Remembered, ReserveLease
<1>7. BudgetExact'
  <2>1. Held' = Held \cup {u} /\ u \notin Held
    BY DEF IInv, TypeOK, Held, ReserveLease
  <2>2. Cardinality(Held \cup {u}) = Cardinality(Held) + 1
    BY <2>1, HeldFinite, FS_AddElement
  <2>3. used' = used + 1 /\ used < StagingMax
    BY StagingAssumption DEF IInv, TypeOK, ReserveLease, BudgetFull
  <2>4. QED  BY <2>1, <2>2, <2>3, StagingAssumption DEF IInv, TypeOK, BudgetExact
<1>8. PendingBounded' /\ RoomKept'
  <2>1. Cardinality(table[sess[p]]) < UploadMaxPending
    <3>1. Cardinality(table[sess[p]]) \in Nat
      BY <1>1, StagingAssumption, FS_Subset, FS_CardinalityType DEF IInv, TypeOK
    <3>2. QED  BY <3>1, StagingAssumption DEF ReserveLease, TooManyPending
  <2>2. QED  BY <1>1, <2>1 DEF IInv, TypeOK, PendingBounded, RoomKept, ReserveLease
<1>9. Sending'
  BY <1>1 DEF IInv, TypeOK, Sending, Whole, ReserveLease
<1>10. QED  BY <1>2, <1>3, <1>4, <1>5, <1>6, <1>7, <1>8, <1>9 DEF IInv

\* UploadReserve registers the upload in the room it found.
LEMMA ReserveRegisterStep ==
  ASSUME IInv, NEW p \in Requests, ReserveRegister(p)
  PROVE  IInv'
<1> DEFINE s == sess[p]
           u == up[p]
<1>1. p \in Procs /\ s \in Sessions /\ u \in Uploads
  BY DEF IInv, Placed, ReserveRegister, Procs
<1>2. /\ owner[u] = None /\ lease[u] = "held" /\ transferMu[s] = p
      /\ Cardinality(table[s]) < UploadMaxPending
      /\ \A q \in Procs : pc[q] = "register" /\ up[q] = u => q = p
  BY <1>1 DEF IInv, Remembered, Locked, RoomKept, ReserveRegister
<1>3. TypeOK'
  <2>1. table' \in [Sessions -> SUBSET Uploads]
    BY <1>1 DEF IInv, TypeOK, ReserveRegister
  <2>2. owner' \in [Uploads -> Sessions \cup {None}]
    BY <1>1 DEF IInv, TypeOK, ReserveRegister
  <2>3. transferMu' \in [Sessions -> Procs \cup {None}]
    BY <1>1 DEF IInv, TypeOK, ReserveRegister
  <2>4. QED  BY <1>1, <2>1, <2>2, <2>3, ReturnTypes DEF IInv, TypeOK, ReserveRegister
<1>4. Placed' /\ Locked'
  BY <1>1, <1>2, StagingAssumption DEF IInv, TypeOK, Placed, Locked, ReserveRegister, Return
<1>5. Lifecycle'
  BY <1>1, <1>2, StagingAssumption DEF IInv, TypeOK, Lifecycle, ReserveRegister
<1>6. Remembered'
  <2>1. pc'[p] = "idle" /\ \A v \in Uploads : owner'[v] = IF v = u THEN s ELSE owner[v]
    BY <1>1 DEF IInv, TypeOK, ReserveRegister, Return
  <2>2. \A q \in Procs \ {p} : pc'[q] = pc[q] /\ up'[q] = up[q] /\ sess'[q] = sess[q]
    BY DEF IInv, TypeOK, ReserveRegister, Return
  <2>3. answer' = answer /\ lease' = lease
    BY DEF ReserveRegister
  <2>4. QED  BY <1>1, <1>2, <2>1, <2>2, <2>3, StagingAssumption DEF IInv, Placed, Remembered
<1>7. StagedIsCharged' /\ BudgetExact'
  BY DEF IInv, StagedIsCharged, BudgetExact, Held, ReserveRegister
<1>8. PendingBounded' /\ RoomKept'
  <2>1. IsFiniteSet(table[s])
    BY <1>1, StagingAssumption, FS_Subset DEF IInv, TypeOK
  <2>2. u \notin table[s]
    BY <1>1, <1>2, StagingAssumption DEF IInv, Lifecycle
  <2>3. Cardinality(table[s] \cup {u}) = Cardinality(table[s]) + 1
    BY <2>1, <2>2, FS_AddElement
  <2>4. Cardinality(table[s] \cup {u}) <= UploadMaxPending
    BY <1>2, <2>1, <2>3, FS_CardinalityType, StagingAssumption
  <2>5. \A t \in Sessions : table'[t] = IF t = s THEN table[s] \cup {u} ELSE table[t]
    BY <1>1 DEF IInv, TypeOK, ReserveRegister
  <2>6. PendingBounded'
    BY <2>4, <2>5 DEF IInv, PendingBounded
  <2>7. pc'[p] = "idle" /\ \A q \in Procs \ {p} : pc'[q] = pc[q] /\ sess'[q] = sess[q]
    BY <1>1 DEF IInv, TypeOK, ReserveRegister, Return
  <2>8. \A q \in Procs \ {p} : pc[q] = "register" => sess[q] \in Sessions \ {s}
    BY <1>2 DEF IInv, Placed, Locked
  <2>9. QED  BY <2>5, <2>6, <2>7, <2>8 DEF IInv, RoomKept
<1>9. Sending'
  BY <1>1 DEF IInv, TypeOK, Sending, Whole, ReserveRegister, Return
<1>10. QED  BY <1>3, <1>4, <1>5, <1>6, <1>7, <1>8, <1>9 DEF IInv

\* UploadReserve gives the lease of an unused id back.
LEMMA ReserveFailsStep ==
  ASSUME IInv, NEW p \in Requests, ReserveFails(p)
  PROVE  IInv'
<1> DEFINE s == sess[p]
           u == up[p]
<1>1. p \in Procs /\ s \in Sessions /\ u \in Uploads
  BY DEF IInv, Placed, ReserveFails, Procs
<1>2. /\ owner[u] = None /\ lease[u] = "held" /\ transferMu[s] = p
      /\ \A q \in Procs : pc[q] = "register" /\ up[q] = u => q = p
  BY <1>1 DEF IInv, Remembered, Locked, ReserveFails
<1>3. TypeOK'
  <2>1. lease' \in [Uploads -> {"none", "held", "released"}] /\ used' \in Nat
    BY <1>1, <1>2, HeldCounted DEF IInv, TypeOK, ReserveFails
  <2>2. transferMu' \in [Sessions -> Procs \cup {None}]
    BY <1>1 DEF IInv, TypeOK, ReserveFails
  <2>3. QED  BY <1>1, <2>1, <2>2, ReturnTypes DEF IInv, TypeOK, ReserveFails
<1>4. Placed' /\ Locked'
  BY <1>1, <1>2, StagingAssumption DEF IInv, TypeOK, Placed, Locked, ReserveFails, Return
<1>5. Lifecycle' /\ Remembered'
  BY <1>1, <1>2, StagingAssumption
     DEF IInv, TypeOK, Placed, Lifecycle, Remembered, ReserveFails, Return
<1>6. StagedIsCharged'
  BY <1>1, <1>2 DEF IInv, TypeOK, Lifecycle, StagedIsCharged, ReserveFails
<1>7. BudgetExact'
  <2>1. Held' = Held \ {u} /\ u \in Held
    BY <1>1, <1>2 DEF IInv, TypeOK, Held, ReserveFails
  <2>2. Cardinality(Held \ {u}) = Cardinality(Held) - 1 /\ Cardinality(Held) \in Nat
    BY <2>1, HeldFinite, FS_RemoveElement, FS_CardinalityType
  <2>3. QED  BY <2>1, <2>2, StagingAssumption DEF IInv, TypeOK, BudgetExact, ReserveFails
<1>8. PendingBounded' /\ RoomKept' /\ Sending'
  BY <1>1 DEF IInv, TypeOK, PendingBounded, RoomKept, Sending, Whole, ReserveFails, Return
<1>9. QED  BY <1>3, <1>4, <1>5, <1>6, <1>7, <1>8 DEF IInv

\* A cleanup that succeeds keeps every staged byte charged.
LEMMA CleanedCharged ==
  ASSUME TypeOK, StagedIsCharged, BudgetExact, NEW u \in Uploads, lease[u] # "none", CleanedUp(u)
  PROVE  StagedIsCharged' /\ BudgetExact'
<1>1. BudgetExact'
  BY ReleaseExact DEF CleanedUp
<1>2. NoChunks' = NoChunks
  BY DEF NoChunks
<1>3. QED  BY <1>1, <1>2, CleanedTypes DEF StagedIsCharged

\* So does Discard, whether or not the cleanup succeeds.
LEMMA DiscardCharged ==
  ASSUME TypeOK, StagedIsCharged, BudgetExact, NEW u \in Uploads, lease[u] # "none", Discard(u)
  PROVE  StagedIsCharged' /\ BudgetExact'
<1>1. CASE CleanedUp(u)
  BY <1>1, CleanedCharged
<1>2. CASE Remnant(u) /\ UNCHANGED <<lease, used>>
  <2>1. NoChunks' = NoChunks
    BY DEF NoChunks
  <2>2. QED  BY <1>2, <2>1, RemnantTypes DEF StagedIsCharged, BudgetExact, Held
<1>3. QED  BY <1>1, <1>2 DEF Discard

\* Unregistering an upload only makes room.
LEMMA TableShrinks ==
  ASSUME TypeOK, PendingBounded, NEW s \in Sessions, NEW u \in Uploads, Unregister(s, u)
  PROVE  /\ table' \in [Sessions -> SUBSET Uploads]
         /\ \A t \in Sessions : /\ table'[t] \subseteq table[t]
                                /\ Cardinality(table'[t]) <= Cardinality(table[t])
                                /\ Cardinality(table[t]) \in Nat /\ Cardinality(table'[t]) \in Nat
         /\ u \notin table'[s]
         /\ PendingBounded'
<1>1. table' \in [Sessions -> SUBSET Uploads] /\ u \notin table'[s]
  BY DEF TypeOK, Unregister
<1>2. ASSUME NEW t \in Sessions
      PROVE  /\ table'[t] \subseteq table[t] /\ Cardinality(table'[t]) <= Cardinality(table[t])
             /\ Cardinality(table[t]) \in Nat /\ Cardinality(table'[t]) \in Nat
  <2>1. table'[t] \subseteq table[t]
    BY DEF TypeOK, Unregister
  <2>2. IsFiniteSet(table[t])
    BY StagingAssumption, FS_Subset DEF TypeOK
  <2>3. QED  BY <2>1, <2>2, FS_Subset, FS_CardinalityType
<1>3. PendingBounded'
  BY <1>2, StagingAssumption DEF PendingBounded
<1>4. QED  BY <1>1, <1>2, <1>3

\* UploadChunk gets the mutex, or finds the upload closed.
LEMMA ChunkLockStep ==
  ASSUME IInv, NEW p \in Requests, ChunkLock(p)
  PROVE  IInv'
<1> DEFINE u == up[p]
<1>1. p \in Procs /\ u \in Uploads
  BY DEF IInv, Placed, ChunkLock, Procs
<1>2. CASE closed[u]
  BY <1>1, <1>2, LeaveStep DEF IInv, TypeOK, ChunkLock
<1>3. CASE ~closed[u]
  <2>1. Stay(p, "write") /\ metaMu[u] = None /\ metaMu' = [metaMu EXCEPT ![u] = p]
    BY <1>3 DEF ChunkLock, MetaFree
  <2>2. UNCHANGED <<sessions, transferMu, table, owner, staging, remote, answer, sweep>>
    BY DEF ChunkLock
  <2>3. TypeOK' /\ Placed'
    BY <1>1, <2>1, <2>2 DEF IInv, TypeOK, Placed, Stay, Steps, ChunkLock
  <2>4. Locked'
    BY <1>1, <1>3, <2>1, <2>2, StagingAssumption DEF IInv, TypeOK, Placed, Locked, Stay
  <2>5. Remembered'
    BY <1>1, <2>1, <2>2 DEF IInv, TypeOK, Remembered, Stay, ChunkLock
  <2>6. Lifecycle' /\ StagedIsCharged' /\ BudgetExact' /\ PendingBounded'
    BY <2>2 DEF IInv, Lifecycle, StagedIsCharged, BudgetExact, Held, PendingBounded
  <2>7. Sending' /\ RoomKept'
    BY <1>1, <2>1, <2>2 DEF IInv, TypeOK, Sending, RoomKept, Whole, Stay
  <2>8. QED  BY <2>3, <2>4, <2>5, <2>6, <2>7 DEF IInv
<1>4. QED  BY <1>1, <1>2, <1>3 DEF IInv, TypeOK

\* UploadChunk writes: the upload is neither being sent nor released.
LEMMA ChunkWriteStep ==
  ASSUME IInv, NEW p \in Requests, NEW c \in Chunks, ChunkWrite(p, c)
  PROVE  IInv'
<1> DEFINE u == up[p]
<1>1. p \in Procs /\ u \in Uploads
  BY DEF IInv, Placed, ChunkWrite, Procs
<1>2. /\ metaMu[u] = p /\ ~closed[u] /\ owner[u] # None
  BY <1>1 DEF IInv, Locked, Remembered, ChunkWrite
<1>3. /\ staged' \in [Uploads -> [Chunks -> {"none", "short", "full"}]]
      /\ \A v \in Uploads \ {u} : staged'[v] = staged[v]
  <2>1. PICK left \in {"none", "short", "full"} : staged' = [staged EXCEPT ![u][c] = left]
    BY <1>1 DEF IInv, TypeOK, ChunkWrite
  <2>2. [staged[u] EXCEPT ![c] = left] \in [Chunks -> {"none", "short", "full"}]
    BY <1>1 DEF IInv, TypeOK
  <2>3. staged' = [staged EXCEPT ![u] = [staged[u] EXCEPT ![c] = left]]
    BY <2>1
  <2>4. QED  BY <1>1, <2>2, <2>3 DEF IInv, TypeOK
<1>4. recorded' \in [Uploads -> SUBSET Chunks] /\ metaMu' \in [Uploads -> Procs \cup {None}]
  <2>1. recorded' \in {recorded, [recorded EXCEPT ![u] = recorded[u] \cup {c}]}
    BY DEF ChunkWrite
  <2>2. recorded \in [Uploads -> SUBSET Chunks]
    BY DEF IInv, TypeOK
  <2>3. recorded' \in [Uploads -> SUBSET Chunks]
    <3>1. recorded[u] \cup {c} \in SUBSET Chunks
      BY <1>1, <2>2
    <3>2. CASE recorded' = [recorded EXCEPT ![u] = recorded[u] \cup {c}]
      BY <1>1, <2>2, <3>1, <3>2
    <3>3. QED  BY <2>1, <2>2, <3>2
  <2>4. metaMu' = [metaMu EXCEPT ![u] = None]
    BY DEF ChunkWrite
  <2>5. metaMu \in [Uploads -> Procs \cup {None}]
    BY DEF IInv, TypeOK
  <2>6. QED  BY <2>3, <2>4, <2>5
<1>5. TypeOK'
  BY <1>1, <1>3, <1>4, ReturnTypes DEF IInv, TypeOK, ChunkWrite
<1>6. Placed' /\ Remembered'
  BY <1>1 DEF IInv, TypeOK, Placed, Remembered, ChunkWrite, Return
<1>7. Locked'
  BY <1>1, <1>2 DEF IInv, TypeOK, Placed, Locked, ChunkWrite, Return
<1>8. Lifecycle' /\ BudgetExact' /\ PendingBounded'
  <2>1. NoChunks' = NoChunks
    BY DEF NoChunks
  <2>2. QED  BY <1>1, <1>2, <1>3, <2>1
             DEF IInv, Lifecycle, BudgetExact, Held, PendingBounded, ChunkWrite
<1>9. StagedIsCharged'
  <2>1. lease[u] = "held"
    BY <1>1, <1>2 DEF IInv, TypeOK, Lifecycle
  <2>2. NoChunks' = NoChunks
    BY DEF NoChunks
  <2>3. QED  BY <1>1, <1>3, <2>1, <2>2 DEF IInv, StagedIsCharged, ChunkWrite
<1>10. Sending' /\ RoomKept'
  <2>1. \A q \in Procs \ {p} : pc[q] \in Committing => up[q] \in Uploads \ {u}
    BY <1>2 DEF IInv, Placed, Locked
  <2>2. pc'[p] = "idle" /\ \A q \in Procs \ {p} : /\ pc'[q] = pc[q] /\ sess'[q] = sess[q]
                                                  /\ up'[q] = up[q] /\ consent'[q] = consent[q]
    BY <1>1 DEF IInv, TypeOK, ChunkWrite, Return
  <2>3. remote' = remote /\ table' = table
    BY DEF ChunkWrite
  <2>4. QED  BY <1>3, <2>1, <2>2, <2>3 DEF IInv, Sending, RoomKept, Whole
<1>11. QED  BY <1>5, <1>6, <1>7, <1>8, <1>9, <1>10 DEF IInv

\* UploadCommit probes the destination: where Sending is established of the file.
LEMMA CommitProbeStep ==
  ASSUME IInv, NEW p \in Requests, CommitProbe(p)
  PROVE  IInv'
<1> DEFINE s == sess[p]
           u == up[p]
<1>1. p \in Procs /\ s \in Sessions /\ u \in Uploads
  BY DEF IInv, Placed, CommitProbe, Procs
<1>2. /\ remote' \in [Sessions -> {"absent", "theirs", "raced", "whole", "partial"}]
      /\ \A t \in Sessions \ {s} : remote'[t] = remote[t]
      /\ consent[p] \/ remote'[s] = "absent"
  BY <1>1 DEF IInv, TypeOK, CommitProbe, MayCreate
<1>3. TypeOK' /\ Placed'
  BY <1>1, <1>2 DEF IInv, TypeOK, Placed, CommitProbe, Stay, Steps
<1>4. Locked'
  BY <1>1, StagingAssumption DEF IInv, TypeOK, Placed, Locked, CommitProbe, Stay, MetaFree
<1>5. Remembered' /\ Lifecycle'
  BY <1>1 DEF IInv, TypeOK, Remembered, Lifecycle, NoChunks, CommitProbe, Stay
<1>6. StagedIsCharged' /\ BudgetExact' /\ PendingBounded' /\ RoomKept'
  BY <1>1 DEF IInv, TypeOK, StagedIsCharged, BudgetExact, Held, PendingBounded, RoomKept,
              NoChunks, CommitProbe, Stay
<1>7. Sending'
  <2>1. \A q \in Procs \ {p} : pc[q] \in Committing => sess[q] \in Sessions \ {s}
    BY <1>1 DEF IInv, Placed, Locked, CommitProbe
  <2>2. /\ pc'[p] = "drain" /\ \A q \in Procs \ {p} : pc'[q] = pc[q]
        /\ UNCHANGED <<sess, up, consent, staged>>
    BY <1>1 DEF IInv, TypeOK, CommitProbe, Stay
  <2>3. QED  BY <1>1, <1>2, <2>1, <2>2 DEF IInv, Sending, Whole
<1>8. QED  BY <1>3, <1>4, <1>5, <1>6, <1>7 DEF IInv

\* UploadCommit has read the staged bytes: where Sending is established of the chunks.
LEMMA CommitVerifyStep ==
  ASSUME IInv, NEW p \in Requests, CommitVerify(p)
  PROVE  IInv'
<1>1. p \in Procs
  BY DEF Procs
<1>2. TypeOK' /\ Placed'
  BY <1>1 DEF IInv, TypeOK, Placed, CommitVerify, Stay, Steps
<1>3. Locked' /\ Remembered'
  BY <1>1 DEF IInv, TypeOK, Locked, Remembered, CommitVerify, Stay
<1>4. Lifecycle' /\ StagedIsCharged' /\ BudgetExact' /\ PendingBounded'
  BY DEF IInv, Lifecycle, StagedIsCharged, BudgetExact, Held, PendingBounded, NoChunks,
         CommitVerify
<1>5. RoomKept' /\ Sending'
  BY <1>1 DEF IInv, TypeOK, RoomKept, Sending, Whole, CommitVerify, Stay, Verified
<1>6. QED  BY <1>2, <1>3, <1>4, <1>5 DEF IInv

\* UploadCommit finds the chunks wanting: both locks are let go, nothing else changes.
LEMMA CommitUnverifiedStep ==
  ASSUME IInv, NEW p \in Requests, CommitUnverified(p)
  PROVE  IInv'
<1> DEFINE s == sess[p]
           u == up[p]
<1>1. p \in Procs /\ s \in Sessions /\ u \in Uploads
  BY DEF IInv, Placed, CommitUnverified, Procs
<1>2. transferMu[s] = p /\ metaMu[u] = p
  BY <1>1 DEF IInv, Locked, CommitUnverified
<1>3. pc'[p] = "idle" /\ \A q \in Procs \ {p} : /\ pc'[q] = pc[q] /\ sess'[q] = sess[q]
                                                /\ up'[q] = up[q] /\ consent'[q] = consent[q]
  BY <1>1 DEF IInv, TypeOK, CommitUnverified, CommitUnlock, Return
<1>4. /\ transferMu' \in [Sessions -> Procs \cup {None}]
      /\ metaMu' \in [Uploads -> Procs \cup {None}]
      /\ \A t \in Sessions \ {s} : transferMu'[t] = transferMu[t]
      /\ \A v \in Uploads \ {u} : metaMu'[v] = metaMu[v]
  BY <1>1 DEF IInv, TypeOK, CommitUnverified, CommitUnlock
<1>5. UNCHANGED <<sessions, table, owner, staging, remote, answer, sweep>> /\ Return(p)
  BY DEF CommitUnverified, CommitUnlock
<1>6. TypeOK'
  BY <1>1, <1>4, <1>5, ReturnTypes DEF IInv, TypeOK
<1>7. Placed' /\ Remembered'
  BY <1>3, <1>5 DEF IInv, Placed, Remembered
<1>8. Locked'
  <2>1. \A q \in Procs \ {p} :
          /\ pc[q] \in {"register", "verify", "drain", "send", "discard"} =>
               sess[q] \in Sessions \ {s}
          /\ pc[q] \in {"write", "drain", "send"} => up[q] \in Uploads \ {u}
    BY <1>1, <1>2 DEF IInv, Placed, Locked
  <2>2. QED  BY <1>3, <1>4, <1>5, <2>1 DEF IInv, Locked
<1>9. Lifecycle' /\ StagedIsCharged' /\ BudgetExact' /\ PendingBounded'
  BY <1>5 DEF IInv, Lifecycle, StagedIsCharged, BudgetExact, Held, PendingBounded, NoChunks
<1>10. RoomKept' /\ Sending'
  BY <1>3, <1>5 DEF IInv, RoomKept, Sending, Whole
<1>11. QED  BY <1>6, <1>7, <1>8, <1>9, <1>10 DEF IInv

\* What the two ends of a transfer have in common.
LEMMA CommitEndStep ==
  ASSUME IInv, NEW p \in Requests, pc[p] = "send",
         remote' \in [Sessions -> {"absent", "theirs", "raced", "whole", "partial"}],
         \A s \in Sessions \ {sess[p]} : remote'[s] = remote[s],
         answer' \in [Uploads -> {"open", "committed", "aborted"}],
         \A u \in Uploads \ {up[p]} : answer'[u] = answer[u],
         client' \in [Sessions -> BOOLEAN],
         Discard(up[p]), Unregister(sess[p], up[p]), CommitUnlock(p),
         UNCHANGED <<live, expired, owner, sweep>>
  PROVE  IInv'
<1> DEFINE s == sess[p]
           u == up[p]
<1>1. p \in Procs /\ s \in Sessions /\ u \in Uploads
  BY DEF IInv, Placed, Procs
<1>2. /\ transferMu[s] = p /\ metaMu[u] = p
      /\ owner[u] = s /\ s # None /\ answer[u] = "open" /\ lease[u] # "none"
  BY <1>1, StagingAssumption DEF IInv, Locked, Remembered, Lifecycle
<1>3. pc'[p] = "idle" /\ \A q \in Procs \ {p} : /\ pc'[q] = pc[q] /\ sess'[q] = sess[q]
                                                /\ up'[q] = up[q] /\ consent'[q] = consent[q]
  BY <1>1 DEF IInv, TypeOK, CommitUnlock, Return
<1>4. /\ transferMu' \in [Sessions -> Procs \cup {None}]
      /\ metaMu' \in [Uploads -> Procs \cup {None}]
      /\ \A t \in Sessions \ {s} : transferMu'[t] = transferMu[t]
      /\ \A v \in Uploads \ {u} : metaMu'[v] = metaMu[v]
  BY <1>1 DEF IInv, TypeOK, CommitUnlock
<1>5. /\ \A q \in Procs \ {p} :
           /\ pc[q] \in {"register", "verify", "drain", "send", "discard"} => sess[q] \in Sessions \ {s}
           /\ pc[q] \in {"write", "drain", "send"} => up[q] \in Uploads \ {u}
  BY <1>1, <1>2 DEF IInv, Placed, Locked
<1>6. /\ closed' \in [Uploads -> BOOLEAN]
      /\ closed'[u] /\ \A v \in Uploads \ {u} : closed'[v] = closed[v]
  <2>1. closed' = [closed EXCEPT ![u] = TRUE]
    BY <1>1, DiscardTypes DEF IInv
  <2>2. QED  BY <1>1, <2>1 DEF IInv, TypeOK
<1>7. TypeOK'
  BY <1>1, <1>4, <1>6, DiscardTypes, TableShrinks, ReturnTypes DEF IInv, TypeOK, CommitUnlock
<1>8. Placed' /\ Locked'
  BY <1>3, <1>4, <1>5, <1>6 DEF IInv, Placed, Locked
<1>9. Lifecycle'
  <2>1. NoChunks' = NoChunks
    BY DEF NoChunks
  <2>2. QED  BY <1>1, <1>2, <1>6, <2>1, DiscardTypes, TableShrinks, SMTT(20) DEF IInv, Lifecycle
<1>10. Remembered'
  <2>1. \A q \in Procs \ {p} : pc[q] = "register" => up[q] \in Uploads \ {u}
    BY <1>1, <1>2 DEF IInv, Placed, Remembered
  <2>2. \A q \in Procs \ {p} : pc[q] \in {"verify", "drain", "send", "discard"} => up[q] \in Uploads \ {u}
    BY <1>1, <1>2, <1>5 DEF IInv, Placed, Remembered
  <2>3. \A v \in Uploads \ {u} : lease'[v] = lease[v]
    BY <1>1, DiscardTypes DEF IInv
  <2>4. QED  BY <1>3, <2>1, <2>2, <2>3 DEF IInv, Remembered
<1>11. StagedIsCharged' /\ BudgetExact'
  BY <1>1, <1>2, DiscardCharged DEF IInv
<1>12. Sending'
  <2>1. \A v \in Uploads \ {u} : staged'[v] = staged[v]
    BY <1>1, DiscardTypes DEF IInv
  <2>2. QED  BY <1>3, <1>5, <2>1 DEF IInv, Sending, Whole
<1>13. PendingBounded' /\ RoomKept'
  BY <1>1, <1>3, <1>5, TableShrinks, StagingAssumption DEF IInv, RoomKept
<1>14. QED  BY <1>7, <1>8, <1>9, <1>10, <1>11, <1>12, <1>13 DEF IInv

\* The transfer succeeded.
LEMMA CommitSentStep ==
  ASSUME IInv, NEW p \in Requests, CommitSent(p)
  PROVE  IInv'
<1>1. sess[p] \in Sessions /\ up[p] \in Uploads
  BY DEF IInv, Placed, CommitSent, Procs
<1>2. QED  BY <1>1, CommitEndStep DEF IInv, TypeOK, CommitSent

\* The transfer failed.
LEMMA CommitFailedStep ==
  ASSUME IInv, NEW p \in Requests, CommitFailed(p)
  PROVE  IInv'
<1>1. sess[p] \in Sessions /\ up[p] \in Uploads
  BY DEF IInv, Placed, CommitFailed, Procs
<1>2. PICK left \in {remote[sess[p]], "partial", "whole", "absent"} :
        remote' = [remote EXCEPT ![sess[p]] = left]
  BY DEF CommitFailed, Leavings
<1>3. PICK kept \in {client[sess[p]], FALSE} : client' = [client EXCEPT ![sess[p]] = kept]
  BY DEF CommitFailed
<1>4. remote' \in [Sessions -> {"absent", "theirs", "raced", "whole", "partial"}]
  BY <1>1, <1>2 DEF IInv, TypeOK
<1>5. client' \in [Sessions -> BOOLEAN]
  BY <1>1, <1>3 DEF IInv, TypeOK
<1>6. QED  BY <1>1, <1>2, <1>4, <1>5, CommitEndStep DEF IInv, TypeOK, CommitFailed

\* UploadAbort cleans up.
LEMMA AbortDiscardStep ==
  ASSUME IInv, NEW p \in Requests, AbortDiscard(p)
  PROVE  IInv'
<1> DEFINE s == sess[p]
           u == up[p]
<1>1. p \in Procs /\ s \in Sessions /\ u \in Uploads
  BY DEF IInv, Placed, Procs, AbortDiscard
<1>2. /\ transferMu[s] = p /\ metaMu[u] = None
      /\ owner[u] = s /\ s # None /\ answer[u] = "open" /\ lease[u] # "none"
  BY <1>1, StagingAssumption DEF IInv, Locked, Remembered, Lifecycle, AbortDiscard, MetaFree
<1>3. CleanedUp(u) /\ Unregister(s, u) /\ Return(p)
  BY DEF AbortDiscard
<1>4. pc'[p] = "idle" /\ \A q \in Procs \ {p} : /\ pc'[q] = pc[q] /\ sess'[q] = sess[q]
                                                /\ up'[q] = up[q] /\ consent'[q] = consent[q]
  BY <1>1, <1>3 DEF IInv, TypeOK, Return
<1>5. /\ transferMu' \in [Sessions -> Procs \cup {None}]
      /\ \A t \in Sessions \ {s} : transferMu'[t] = transferMu[t]
  BY <1>1 DEF IInv, TypeOK, AbortDiscard
<1>6. /\ \A q \in Procs \ {p} :
           /\ pc[q] \in {"register", "verify", "drain", "send", "discard"} => sess[q] \in Sessions \ {s}
           /\ pc[q] \in {"write", "drain", "send"} => up[q] \in Uploads \ {u}
  BY <1>1, <1>2, StagingAssumption DEF IInv, Placed, Locked
<1>7. /\ closed' \in [Uploads -> BOOLEAN]
      /\ closed'[u] /\ \A v \in Uploads \ {u} : closed'[v] = closed[v]
  BY <1>1 DEF IInv, TypeOK, AbortDiscard
<1>8. /\ answer' \in [Uploads -> {"open", "committed", "aborted"}]
      /\ \A v \in Uploads \ {u} : answer'[v] = answer[v]
  BY <1>1 DEF IInv, TypeOK, AbortDiscard
<1>9. TypeOK'
  BY <1>1, <1>3, <1>5, <1>7, <1>8, CleanedTypes, TableShrinks, ReturnTypes
     DEF IInv, TypeOK, AbortDiscard
<1>10. Placed' /\ Locked'
  BY <1>4, <1>5, <1>6, <1>7 DEF IInv, Placed, Locked, AbortDiscard
<1>11. Lifecycle'
  <2>1. NoChunks' = NoChunks /\ owner' = owner /\ pendingCleanup' = pendingCleanup
    BY DEF NoChunks, AbortDiscard
  <2>2. QED  BY <1>1, <1>2, <1>3, <1>7, <1>8, <2>1, CleanedTypes, TableShrinks DEF IInv, Lifecycle
<1>12. Remembered'
  <2>1. \A q \in Procs \ {p} : pc[q] = "register" => up[q] \in Uploads \ {u}
    BY <1>1, <1>2 DEF IInv, Placed, Remembered
  <2>2. \A q \in Procs \ {p} : pc[q] \in {"verify", "drain", "send", "discard"} => up[q] \in Uploads \ {u}
    BY <1>1, <1>2, <1>6 DEF IInv, Placed, Remembered
  <2>3. owner' = owner /\ \A v \in Uploads \ {u} : lease'[v] = lease[v]
    BY <1>1, <1>3, CleanedTypes DEF IInv, AbortDiscard
  <2>4. QED  BY <1>4, <1>8, <2>1, <2>2, <2>3 DEF IInv, Remembered
<1>13. StagedIsCharged' /\ BudgetExact'
  BY <1>1, <1>2, <1>3, CleanedCharged DEF IInv
<1>14. Sending'
  <2>1. remote' = remote /\ \A v \in Uploads \ {u} : staged'[v] = staged[v]
    BY <1>1, <1>3, CleanedTypes DEF IInv, AbortDiscard
  <2>2. QED  BY <1>4, <1>6, <2>1 DEF IInv, Sending, Whole
<1>15. PendingBounded' /\ RoomKept'
  BY <1>1, <1>3, <1>4, <1>6, TableShrinks, StagingAssumption DEF IInv, RoomKept
<1>16. QED  BY <1>9, <1>10, <1>11, <1>12, <1>13, <1>14, <1>15 DEF IInv

\* UploadAbort fails to clean up.
LEMMA AbortFailsStep ==
  ASSUME IInv, NEW p \in Requests, AbortFails(p)
  PROVE  IInv'
<1> DEFINE s == sess[p]
           u == up[p]
<1>1. p \in Procs /\ s \in Sessions /\ u \in Uploads
  BY DEF IInv, Placed, Procs, AbortFails
<1>2. transferMu[s] = p /\ metaMu[u] = None /\ Return(p) /\ Remnant(u)
  BY <1>1 DEF IInv, Locked, AbortFails, MetaFree
<1>3. pc'[p] = "idle" /\ \A q \in Procs \ {p} : /\ pc'[q] = pc[q] /\ sess'[q] = sess[q]
                                                /\ up'[q] = up[q] /\ consent'[q] = consent[q]
  BY <1>1, <1>2 DEF IInv, TypeOK, Return
<1>4. transferMu' \in [Sessions -> Procs \cup {None}]
  BY <1>1 DEF IInv, TypeOK, AbortFails
<1>5. TypeOK'
  BY <1>1, <1>2, <1>4, RemnantTypes, ReturnTypes DEF IInv, TypeOK, AbortFails
<1>6. Placed' /\ Remembered'
  BY <1>3 DEF IInv, Placed, Remembered, AbortFails
<1>7. Locked'
  <2>1. \A t \in Sessions \ {s} : transferMu'[t] = transferMu[t]
    BY <1>1 DEF IInv, TypeOK, AbortFails
  <2>2. QED  BY <1>2, <1>3, <2>1 DEF IInv, Placed, Locked, AbortFails
<1>8. Lifecycle' /\ StagedIsCharged'
  <2>1. NoChunks' = NoChunks
    BY DEF NoChunks
  <2>2. QED  BY <1>1, <1>2, <2>1, RemnantTypes DEF IInv, Lifecycle, StagedIsCharged, AbortFails
<1>9. BudgetExact' /\ PendingBounded'
  BY DEF IInv, BudgetExact, Held, PendingBounded, AbortFails
<1>10. Sending' /\ RoomKept'
  <2>1. \A q \in Procs \ {p} : pc[q] \in Committing => up[q] \in Uploads \ {u}
    BY <1>2, StagingAssumption DEF IInv, Placed, Locked
  <2>2. remote' = remote /\ table' = table /\ \A v \in Uploads \ {u} : staged'[v] = staged[v]
    BY <1>1, <1>2, RemnantTypes DEF IInv, AbortFails
  <2>3. QED  BY <1>3, <2>1, <2>2 DEF IInv, Sending, RoomKept, Whole
<1>11. QED  BY <1>5, <1>6, <1>7, <1>8, <1>9, <1>10 DEF IInv

\* An eviction begins, with the transfer lock or, past the deadline, without it.
LEMMA BeginEvictStep ==
  ASSUME IInv, NEW p \in Procs, NEW s \in Sessions, pc[p] \in {"idle", "evict"},
         BeginEvict(p, s),
         sess' = [sess EXCEPT ![p] = s],
         \/ UNCHANGED transferMu
         \/ TransferFree(s) /\ transferMu' = [transferMu EXCEPT ![s] = p],
         UNCHANGED sweep
  PROVE  IInv'
<1>1. pc'[p] = "evicting" /\ \A q \in Procs \ {p} : pc'[q] = pc[q] /\ sess'[q] = sess[q]
  BY DEF IInv, TypeOK, BeginEvict
<1>2. UNCHANGED <<up, consent, live, expired, metaMu, table, owner, staging, remote, answer>>
  BY DEF BeginEvict
<1>3. TypeOK'
  BY <1>2 DEF IInv, TypeOK, BeginEvict, Steps
<1>4. Placed' /\ Remembered'
  BY <1>1, <1>2 DEF IInv, TypeOK, Placed, Remembered
<1>5. Locked'
  <2>1. \A q \in Procs \ {p} :
          pc[q] \in {"register", "verify", "drain", "send", "discard"} =>
            transferMu'[sess[q]] = transferMu[sess[q]]
    <3>1. CASE TransferFree(s) /\ transferMu' = [transferMu EXCEPT ![s] = p]
      BY <3>1, StagingAssumption DEF IInv, TypeOK, Placed, Locked, TransferFree
    <3>2. QED  BY <3>1
  <2>2. QED  BY <1>1, <1>2, <2>1 DEF IInv, Locked
<1>6. Lifecycle' /\ StagedIsCharged' /\ BudgetExact' /\ PendingBounded'
  BY <1>2 DEF IInv, Lifecycle, StagedIsCharged, BudgetExact, Held, PendingBounded
<1>7. Sending' /\ RoomKept'
  BY <1>1, <1>2 DEF IInv, Sending, RoomKept, Whole
<1>8. QED  BY <1>3, <1>4, <1>5, <1>6, <1>7 DEF IInv

\* evictSession picks the next upload.
LEMMA EvictTakeStep ==
  ASSUME IInv, NEW p \in Procs, NEW u \in Uploads, EvictTake(p, u)
  PROVE  IInv'
<1>1. sess[p] \in Sessions
  BY DEF IInv, Placed, EvictTake
<1>2. todo' \in [Procs -> SUBSET Uploads]
  BY DEF IInv, TypeOK, EvictTake
<1>3. UNCHANGED <<sess, consent, sessions, locks, table, owner, staging, remote, answer, sweep>>
  BY DEF EvictTake
<1>4. /\ \/ pc'[p] = "evicting"
         \/ pc'[p] = "closing" /\ up'[p] = u /\ u \in table[sess[p]]
      /\ \A q \in Procs \ {p} : pc'[q] = pc[q] /\ up'[q] = up[q]
      /\ pc' \in [Procs -> Steps] /\ up' \in [Procs -> Uploads \cup {None}]
  <2>1. CASE u \in table[sess[p]]
    BY <2>1, ZenonT(40) DEF IInv, TypeOK, EvictTake, Steps
  <2>2. CASE u \notin table[sess[p]]
    BY <2>2 DEF IInv, TypeOK, EvictTake
  <2>3. QED  BY <2>1, <2>2
<1>5. TypeOK'
  BY <1>2, <1>3, <1>4 DEF IInv, TypeOK
<1>6. Placed' /\ Locked'
  BY <1>1, <1>3, <1>4 DEF IInv, Placed, Locked
<1>7. Remembered'
  <2>1. u \in table[sess[p]] => owner[u] # None
    BY <1>1, StagingAssumption DEF IInv, Lifecycle
  <2>2. QED  BY <1>3, <1>4, <2>1 DEF IInv, Remembered
<1>8. Lifecycle' /\ StagedIsCharged' /\ BudgetExact' /\ PendingBounded'
  BY <1>3 DEF IInv, Lifecycle, StagedIsCharged, BudgetExact, Held, PendingBounded
<1>9. Sending' /\ RoomKept'
  BY <1>3, <1>4 DEF IInv, Sending, RoomKept, Whole
<1>10. QED  BY <1>5, <1>6, <1>7, <1>8, <1>9 DEF IInv

\* evictSession discards an upload behind its mutex.
LEMMA EvictDiscardStep ==
  ASSUME IInv, NEW p \in Procs, EvictDiscard(p)
  PROVE  IInv'
<1> DEFINE s == sess[p]
           u == up[p]
<1>1. s \in Sessions /\ u \in Uploads
  BY DEF IInv, Placed, EvictDiscard
<1>2. metaMu[u] = None /\ owner[u] # None /\ lease[u] # "none"
  BY <1>1 DEF IInv, Remembered, Lifecycle, EvictDiscard, MetaFree
<1>3. Discard(u) /\ Unregister(s, u)
  BY DEF EvictDiscard
<1>4. UNCHANGED <<sess, up, consent, todo, sessions, locks, owner, remote, answer, sweep>>
  BY DEF EvictDiscard, Stay
<1>5. /\ pc' \in [Procs -> Steps] /\ pc'[p] = "evicting"
      /\ \A q \in Procs \ {p} : pc'[q] = pc[q]
  BY DEF IInv, TypeOK, EvictDiscard, Stay, Steps
<1>6. \A q \in Procs : pc[q] \in {"write", "drain", "send"} => up[q] \in Uploads \ {u}
  BY <1>2, StagingAssumption DEF IInv, Placed, Locked
<1>7. /\ closed' \in [Uploads -> BOOLEAN]
      /\ closed'[u] /\ \A v \in Uploads \ {u} : closed'[v] = closed[v]
  <2>1. closed' = [closed EXCEPT ![u] = TRUE]
    BY <1>1, <1>3, DiscardTypes DEF IInv
  <2>2. QED  BY <1>1, <2>1 DEF IInv, TypeOK
<1>8. TypeOK'
  BY <1>1, <1>3, <1>4, <1>5, <1>7, DiscardTypes, TableShrinks DEF IInv, TypeOK
<1>9. Placed' /\ Locked'
  BY <1>1, <1>4, <1>5, <1>6, <1>7 DEF IInv, Placed, Locked
<1>10. Lifecycle'
  <2>1. NoChunks' = NoChunks
    BY DEF NoChunks
  <2>2. QED  BY <1>1, <1>2, <1>3, <1>4, <1>7, <2>1, DiscardTypes, TableShrinks DEF IInv, Lifecycle
<1>11. Remembered'
  <2>1. \A q \in Procs : pc[q] = "register" => up[q] \in Uploads \ {u}
    BY <1>2 DEF IInv, Placed, Remembered
  <2>2. \A v \in Uploads \ {u} : lease'[v] = lease[v]
    BY <1>1, <1>3, DiscardTypes DEF IInv
  <2>3. QED  BY <1>4, <1>5, <2>1, <2>2 DEF IInv, Remembered
<1>12. StagedIsCharged' /\ BudgetExact'
  BY <1>1, <1>2, <1>3, DiscardCharged DEF IInv
<1>13. Sending'
  <2>1. \A v \in Uploads \ {u} : staged'[v] = staged[v]
    BY <1>1, <1>3, DiscardTypes DEF IInv
  <2>2. QED  BY <1>4, <1>5, <1>6, <2>1 DEF IInv, Sending, Whole
<1>14. PendingBounded' /\ RoomKept'
  BY <1>1, <1>3, <1>4, <1>5, TableShrinks, StagingAssumption DEF IInv, RoomKept, Placed
<1>15. QED  BY <1>8, <1>9, <1>10, <1>11, <1>12, <1>13, <1>14 DEF IInv

\* evictSession is through; a lock of somebody else stays theirs.
LEMMA EvictUnlockStep ==
  ASSUME IInv, NEW p \in Procs, EvictUnlock(p)
  PROVE  IInv'
<1>1. sess[p] \in Sessions
  BY DEF IInv, Placed, EvictUnlock
<1>2. UNCHANGED <<sess, up, consent, todo, sessions, metaMu, table, owner, staging, remote,
                  answer, sweep>>
  BY DEF EvictUnlock, Stay
<1>3. /\ pc' \in [Procs -> Steps] /\ pc'[p] = "drop"
      /\ \A q \in Procs \ {p} : pc'[q] = pc[q]
  BY DEF IInv, TypeOK, EvictUnlock, Stay, Steps
<1>4. /\ transferMu' \in [Sessions -> Procs \cup {None}]
      /\ \A s \in Sessions : transferMu[s] # p => transferMu'[s] = transferMu[s]
  BY <1>1 DEF IInv, TypeOK, EvictUnlock
<1>5. TypeOK' /\ Placed'
  BY <1>1, <1>2, <1>3, <1>4 DEF IInv, TypeOK, Placed
<1>6. Locked' /\ Remembered'
  BY <1>2, <1>3, <1>4 DEF IInv, Placed, Locked, Remembered
<1>7. Lifecycle' /\ StagedIsCharged' /\ BudgetExact' /\ PendingBounded'
  BY <1>2 DEF IInv, Lifecycle, StagedIsCharged, BudgetExact, Held, PendingBounded
<1>8. Sending' /\ RoomKept'
  BY <1>2, <1>3 DEF IInv, Sending, RoomKept, Whole
<1>9. QED  BY <1>5, <1>6, <1>7, <1>8 DEF IInv

\* Steps that move one goroutine outside every critical section.
LEMMA MoveStep ==
  ASSUME IInv, NEW p \in Procs, NEW step \in {"evict", "sweepall", "stopped"},
         pc' = [pc EXCEPT ![p] = step],
         sess' \in [Procs -> Sessions \cup {None}],
         \A q \in Procs \ {p} : sess'[q] = sess[q],
         step = "evict" => sess'[p] \in Sessions,
         live' \in [Sessions -> BOOLEAN], victims' \in SUBSET Sessions,
         UNCHANGED <<up, consent, todo, expired, client, locks, table, owner, staging, remote,
                     answer, late>>
  PROVE  IInv'
<1>1. pc' \in [Procs -> Steps] /\ pc'[p] = step /\ \A q \in Procs \ {p} : pc'[q] = pc[q]
  BY DEF IInv, TypeOK, Steps
<1>2. TypeOK' /\ Placed'
  BY <1>1 DEF IInv, TypeOK, Placed
<1>3. Locked' /\ Remembered'
  BY <1>1 DEF IInv, Locked, Remembered
<1>4. Lifecycle' /\ StagedIsCharged' /\ BudgetExact' /\ PendingBounded'
  BY DEF IInv, Lifecycle, StagedIsCharged, BudgetExact, Held, PendingBounded
<1>5. Sending' /\ RoomKept'
  BY <1>1 DEF IInv, Sending, RoomKept, Whole
<1>6. QED  BY <1>2, <1>3, <1>4, <1>5 DEF IInv

\* The session leaves the store.
LEMMA EvictDropStep ==
  ASSUME IInv, NEW p \in Procs, EvictDrop(p)
  PROVE  IInv'
<1>1. live' \in [Sessions -> BOOLEAN]
  BY DEF IInv, TypeOK, EvictDrop
<1>2. CASE p \in Shutdowns
  BY <1>1, <1>2, MoveStep DEF IInv, TypeOK, EvictDrop, Stay
<1>3. CASE p \notin Shutdowns
  <2>1. /\ Return(p)
        /\ UNCHANGED <<expired, client, locks, table, owner, staging, remote, answer, sweep>>
    BY <1>3 DEF EvictDrop
  <2>2. TypeOK'
    BY <1>1, <2>1, ReturnTypes DEF IInv, TypeOK
  <2>3. pc'[p] = "idle" /\ \A q \in Procs \ {p} : /\ pc'[q] = pc[q] /\ sess'[q] = sess[q]
                                                  /\ up'[q] = up[q] /\ consent'[q] = consent[q]
    BY <2>1 DEF IInv, TypeOK, Return
  <2>4. Placed' /\ Locked' /\ Remembered'
    BY <2>1, <2>3 DEF IInv, Placed, Locked, Remembered
  <2>5. Lifecycle' /\ StagedIsCharged' /\ BudgetExact' /\ PendingBounded'
    BY <2>1 DEF IInv, Lifecycle, StagedIsCharged, BudgetExact, Held, PendingBounded
  <2>6. Sending' /\ RoomKept'
    BY <2>1, <2>3 DEF IInv, Sending, RoomKept, Whole
  <2>7. QED  BY <2>2, <2>4, <2>5, <2>6 DEF IInv
<1>4. QED  BY <1>2, <1>3

\* The retry of a cleanup only works on closed uploads.
LEMMA RetryStep ==
  ASSUME IInv, NEW u \in Uploads, RetryCleanup(u) \/ RetryFails(u)
  PROVE  IInv'
<1>1. closed[u] /\ lease[u] # "none" /\ owner[u] # None
  BY DEF IInv, Lifecycle, RetryCleanup, RetryFails
<1>2. UNCHANGED <<closed, recorded, sessions, locks, table, owner, remote, answer, locals, sweep>>
  BY DEF RetryCleanup, RetryFails
<1>3. \A q \in Procs : pc[q] \in {"register", "drain", "send"} => up[q] \in Uploads \ {u}
  BY <1>1 DEF IInv, Placed, Locked, Remembered
<1>4. NoChunks' = NoChunks
  BY DEF NoChunks
<1>5. CASE RetryCleanup(u)
  <2>1. CleanedUp(u) /\ pendingCleanup' = pendingCleanup \ {u}
    BY <1>5 DEF RetryCleanup
  <2>2. TypeOK'
    BY <1>2, <2>1, CleanedTypes DEF IInv, TypeOK
  <2>3. Placed' /\ Locked' /\ PendingBounded' /\ RoomKept'
    BY <1>2 DEF IInv, Placed, Locked, PendingBounded, RoomKept
  <2>4. Lifecycle' /\ Remembered'
    BY <1>1, <1>2, <1>3, <1>4, <2>1, CleanedTypes DEF IInv, Lifecycle, Remembered
  <2>5. StagedIsCharged' /\ BudgetExact'
    BY <1>1, <2>1, CleanedCharged DEF IInv
  <2>6. Sending'
    BY <1>2, <1>3, <2>1, CleanedTypes DEF IInv, Sending, Whole
  <2>7. QED  BY <2>2, <2>3, <2>4, <2>5, <2>6 DEF IInv
<1>6. CASE RetryFails(u)
  <2>1. Remnant(u) /\ UNCHANGED <<lease, used, pendingCleanup>>
    BY <1>6 DEF RetryFails
  <2>2. TypeOK'
    BY <1>2, <2>1, RemnantTypes DEF IInv, TypeOK
  <2>3. Placed' /\ Locked' /\ PendingBounded' /\ RoomKept' /\ Remembered'
    BY <1>2, <2>1 DEF IInv, Placed, Locked, PendingBounded, RoomKept, Remembered
  <2>4. Lifecycle' /\ StagedIsCharged'
    BY <1>1, <1>2, <1>4, <2>1, RemnantTypes DEF IInv, Lifecycle, StagedIsCharged
  <2>5. BudgetExact'
    BY <2>1 DEF IInv, BudgetExact, Held
  <2>6. Sending'
    BY <1>2, <1>3, <2>1, RemnantTypes DEF IInv, Sending, Whole
  <2>7. QED  BY <2>2, <2>3, <2>4, <2>5, <2>6 DEF IInv
<1>7. QED  BY <1>5, <1>6

\* What others do to the destination is, under a commit, an "absent" or a "raced" file.
LEMMA ForeignStep ==
  ASSUME IInv, NEW s \in Sessions, Foreign(s)
  PROVE  IInv'
<1>1. UNCHANGED <<sessions, locks, table, owner, staging, answer, locals, sweep>>
  BY DEF Foreign
<1>2. /\ remote' \in [Sessions -> {"absent", "theirs", "raced", "whole", "partial"}]
      /\ \A t \in Sessions \ {s} : remote'[t] = remote[t]
      /\ Senders(s) # {} => remote'[s] \in {"absent", "raced"}
  BY DEF IInv, TypeOK, Foreign
<1>3. ASSUME NEW q \in Procs, pc[q] \in Committing, ~consent[q]
      PROVE  remote'[sess[q]] \in {"absent", "raced"}
  <2>1. sess[q] \in Sessions /\ remote[sess[q]] \in {"absent", "raced"}
    BY <1>3 DEF IInv, Placed, Sending
  <2>2. CASE sess[q] = s
    BY <1>2, <1>3, <2>2 DEF Senders
  <2>3. QED  BY <1>2, <2>1, <2>2
<1>4. TypeOK'
  BY <1>1, <1>2 DEF IInv, TypeOK
<1>5. Placed' /\ Locked' /\ Lifecycle' /\ Remembered'
  BY <1>1 DEF IInv, Placed, Locked, Lifecycle, Remembered, NoChunks
<1>6. StagedIsCharged' /\ BudgetExact' /\ PendingBounded' /\ RoomKept'
  BY <1>1 DEF IInv, StagedIsCharged, BudgetExact, Held, PendingBounded, RoomKept, NoChunks
<1>7. Sending'
  BY <1>1, <1>3 DEF IInv, Sending, Whole
<1>8. QED  BY <1>4, <1>5, <1>6, <1>7 DEF IInv

\* A step that changes only what no other conjunct than TypeOK mentions.
LEMMA QuietStep ==
  ASSUME IInv, TypeOK',
         UNCHANGED <<locks, table, owner, staging, remote, answer, locals>>
  PROVE  IInv'
BY DEF IInv, Placed, Locked, Lifecycle, Remembered, StagedIsCharged, BudgetExact, Held, Sending,
       Whole, PendingBounded, RoomKept, NoChunks

\* The initial states satisfy the invariant.
LEMMA InitIInv == Init => IInv
<1> SUFFICES ASSUME Init PROVE IInv
  OBVIOUS
<1>1. NoChunks \in [Chunks -> {"none", "short", "full"}]
  BY DEF NoChunks
<1>2. remote \in [Sessions -> {"absent", "theirs", "raced", "whole", "partial"}]
  BY DEF Init
<1>3. TypeOK
  <2>1. /\ live \in [Sessions -> BOOLEAN] /\ expired \in [Sessions -> BOOLEAN]
        /\ client \in [Sessions -> BOOLEAN] /\ transferMu \in [Sessions -> Procs \cup {None}]
        /\ table \in [Sessions -> SUBSET Uploads]
    BY DEF Init
  <2>2. /\ owner \in [Uploads -> Sessions \cup {None}] /\ metaMu \in [Uploads -> Procs \cup {None}]
        /\ closed \in [Uploads -> BOOLEAN] /\ recorded \in [Uploads -> SUBSET Chunks]
        /\ staged \in [Uploads -> [Chunks -> {"none", "short", "full"}]]
    BY <1>1 DEF Init
  <2>3. /\ lease \in [Uploads -> {"none", "held", "released"}] /\ used \in Nat
        /\ pendingCleanup \in SUBSET Uploads
        /\ answer \in [Uploads -> {"open", "committed", "aborted"}]
    BY DEF Init
  <2>4. /\ pc \in [Procs -> Steps] /\ sess \in [Procs -> Sessions \cup {None}]
        /\ up \in [Procs -> Uploads \cup {None}] /\ consent \in [Procs -> BOOLEAN]
    BY DEF Init, Steps
  <2>5. todo \in [Procs -> SUBSET Uploads] /\ victims \in SUBSET Sessions /\ late \in BOOLEAN
    BY DEF Init
  <2>6. QED  BY <1>2, <2>1, <2>2, <2>3, <2>4, <2>5 DEF TypeOK
<1>4. Placed /\ Locked /\ Remembered /\ Sending /\ RoomKept
  BY DEF Init, Placed, Locked, Remembered, Sending, RoomKept
<1>5. Lifecycle /\ StagedIsCharged
  BY DEF Init, Lifecycle, StagedIsCharged
<1>6. BudgetExact
  <2>1. Held = {} /\ used = 0
    BY DEF Init, Held
  <2>2. QED  BY <2>1, FS_EmptySet, StagingAssumption DEF BudgetExact
<1>7. PendingBounded
  BY FS_EmptySet, StagingAssumption DEF Init, PendingBounded
<1>8. QED  BY <1>3, <1>4, <1>5, <1>6, <1>7 DEF IInv

\* Every step of a request.
LEMMA RequestStep ==
  ASSUME IInv, NEW p \in Requests, Start(p) \/ Handle(p) \/ Transfer(p)
  PROVE  IInv'
<1>1. p \in Procs
  BY DEF Procs
<1>2. CASE Start(p)
  <2>1. ASSUME NEW s \in Sessions, StartReserve(p, s) \/ StartDisconnect(p, s)
        PROVE  IInv'
    BY <1>1, <2>1, EnterStep DEF IInv, TypeOK, StartReserve, StartDisconnect, Admit
  <2>2. ASSUME NEW s \in Sessions, NEW u \in Uploads, StartChunk(p, s, u)
        PROVE  IInv'
    <3>1. owner[u] # None
      BY <2>2, StagingAssumption DEF IInv, Lifecycle, StartChunk
    <3>2. QED  BY <1>1, <2>2, <3>1, EnterStep DEF IInv, TypeOK, StartChunk, Admit
  <2>3. ASSUME NEW s \in Sessions, NEW u \in Uploads, StartCommit(p, s, u)
        PROVE  IInv'
    <3>1. owner[u] # None /\ pc[p] = "idle" /\ Enter(p, s, u, "commit")
      BY <2>3, StagingAssumption DEF StartCommit, Admit
    <3>2. PICK overwrite \in BOOLEAN : consent' = [consent EXCEPT ![p] = overwrite]
      BY <2>3 DEF StartCommit
    <3>3. /\ consent' \in [Procs -> BOOLEAN]
          /\ \A q \in Procs \ {p} : consent'[q] = consent[q]
      BY <1>1, <3>2 DEF IInv, TypeOK
    <3>4. QED  BY <1>1, <3>1, <3>3, EnterStep
  <2>4. ASSUME NEW s \in Sessions, NEW u \in Uploads, StartAbort(p, s, u)
        PROVE  IInv'
    <3>1. owner[u] # None
      BY <2>4, StagingAssumption DEF StartAbort
    <3>2. QED  BY <1>1, <2>4, <3>1, EnterStep DEF IInv, TypeOK, StartAbort, Admit
  <2>5. QED  BY <1>2, <2>1, <2>2, <2>3, <2>4 DEF Start
<1>3. CASE Handle(p)
  <2>1. ASSUME ReserveRefused(p) PROVE IInv'
    <3>1. client' \in [Sessions -> BOOLEAN]
      BY <2>1 DEF IInv, TypeOK, ReserveRefused
    <3>2. QED  BY <1>1, <2>1, <3>1, LeaveStep DEF ReserveRefused
  <2>2. ASSUME CommitRefused(p) PROVE IInv'
    <3>1. client' \in [Sessions -> BOOLEAN]
      BY <2>2 DEF IInv, TypeOK, CommitRefused
    <3>2. QED  BY <1>1, <2>2, <3>1, LeaveStep DEF CommitRefused
  <2>3. ASSUME CommitLock(p) PROVE IInv'
    BY <1>1, <2>3, LeaveStep, LockStep DEF IInv, TypeOK, CommitLock
  <2>4. ASSUME AbortLock(p) PROVE IInv'
    BY <1>1, <2>4, LeaveStep, LockStep DEF IInv, TypeOK, AbortLock
  <2>5. QED  BY <1>3, <2>1, <2>2, <2>3, <2>4, ReserveLeaseStep, ReserveRegisterStep,
                ReserveFailsStep, ChunkLockStep, ChunkWriteStep, CommitProbeStep,
                CommitVerifyStep, CommitUnverifiedStep, AbortDiscardStep, AbortFailsStep DEF Handle
<1>4. CASE Transfer(p)
  BY <1>4, CommitSentStep, CommitFailedStep DEF Transfer
<1>5. QED  BY <1>2, <1>3, <1>4

\* Every step of an eviction.
LEMMA EvictStep ==
  ASSUME IInv, NEW p \in Procs, Evict(p)
  PROVE  IInv'
<1>1. ASSUME EvictLock(p) PROVE IInv'
  <2>1. sess[p] \in Sessions /\ sess' = [sess EXCEPT ![p] = sess[p]]
    BY <1>1 DEF IInv, TypeOK, Placed, EvictLock
  <2>2. QED  BY <1>1, <2>1, BeginEvictStep DEF EvictLock
<1>2. QED  BY <1>1, EvictTakeStep, EvictDiscardStep, EvictUnlockStep, EvictDropStep DEF Evict

\* Every step of EvictAll.
LEMMA ShutdownStep ==
  ASSUME IInv, NEW h \in Shutdowns, Shutdown(h)
  PROVE  IInv'
<1>1. h \in Procs
  BY DEF Procs
<1>2. ASSUME StartShutdown(h) PROVE IInv'
  BY <1>1, <1>2, MoveStep DEF IInv, TypeOK, StartShutdown, Stay
<1>3. ASSUME ShutdownDone(h) PROVE IInv'
  BY <1>1, <1>3, MoveStep DEF IInv, TypeOK, ShutdownDone, Stay
<1>4. ASSUME NEW s \in Sessions, ShutdownNext(h, s) PROVE IInv'
  <2>1. /\ sess' \in [Procs -> Sessions \cup {None}] /\ sess'[h] \in Sessions
        /\ \A q \in Procs \ {h} : sess'[q] = sess[q]
    BY <1>1, <1>4 DEF IInv, TypeOK, ShutdownNext
  <2>2. victims' \in SUBSET Sessions
    BY <1>4 DEF IInv, TypeOK, ShutdownNext
  <2>3. QED  BY <1>1, <1>4, <2>1, <2>2, MoveStep DEF IInv, TypeOK, ShutdownNext
<1>5. ASSUME ShutdownForce(h) PROVE IInv'
  <2>1. sess[h] \in Sessions /\ sess' = [sess EXCEPT ![h] = sess[h]]
    BY <1>1, <1>5 DEF IInv, TypeOK, Placed, ShutdownForce
  <2>2. QED  BY <1>1, <1>5, <2>1, BeginEvictStep DEF ShutdownForce
<1>6. QED  BY <1>2, <1>3, <1>4, <1>5 DEF Shutdown

\* The invariant is inductive.
LEMMA IInvStep == IInv /\ [Next]_vars => IInv'
<1> SUFFICES ASSUME IInv, [Next]_vars PROVE IInv'
  OBVIOUS
<1>1. ASSUME NEW j \in Janitors, NEW s \in Sessions, StartSweep(j, s) PROVE IInv'
  BY <1>1, BeginEvictStep DEF StartSweep, Procs
<1>2. ASSUME Deadline PROVE IInv'
  BY <1>2, QuietStep DEF IInv, TypeOK, Deadline
<1>3. ASSUME NEW s \in Sessions, Expire(s) PROVE IInv'
  BY <1>3, QuietStep DEF IInv, TypeOK, Expire
<1>4. CASE UNCHANGED vars
  BY <1>4, QuietStep DEF IInv, TypeOK
<1>5. QED  BY <1>1, <1>2, <1>3, <1>4, RequestStep, EvictStep, ShutdownStep, RetryStep,
              ForeignStep DEF Next

-----------------------------------------------------------------------------
(* Action properties: what a step does to an upload that is being sent.    *)

\* No step touches the chunks or the Closed flag of an upload being sent.
LEMMA SentStable ==
  ASSUME IInv, [Next]_vars, NEW p \in Requests, pc[p] \in Committing, pc'[p] \in Committing
  PROVE  staged'[up[p]] = staged[up[p]] /\ closed'[up[p]] = closed[up[p]]
<1> DEFINE u == up[p]
           Stable == staged'[u] = staged[u] /\ closed'[u] = closed[u]
<1>1. p \in Procs /\ u \in Uploads
  BY DEF IInv, Placed, Procs
<1>2. metaMu[u] = p /\ metaMu[u] # None /\ ~closed[u]
  BY <1>1, StagingAssumption DEF IInv, Locked
<1>3. ASSUME NEW v \in Uploads \ {u}, Discard(v) PROVE Stable
  BY <1>1, <1>3, DiscardTypes DEF IInv, TypeOK
<1>4. ASSUME NEW q \in Requests, Start(q) \/ Handle(q) \/ Transfer(q) PROVE Stable
  <2>1. q \in Procs
    BY DEF Procs
  <2>2. ASSUME NEW c \in Chunks, ChunkWrite(q, c) PROVE Stable
    <3>1. up[q] \in Uploads \ {u} /\ closed' = closed
      BY <1>2, <2>1, <2>2 DEF IInv, Placed, Locked, ChunkWrite
    <3>2. QED  BY <1>1, <2>2, <3>1 DEF IInv, TypeOK, ChunkWrite
  <2>3. ASSUME CommitSent(q) \/ CommitFailed(q) PROVE Stable
    <3>1. q # p
      BY <1>1, <2>1, <2>3 DEF IInv, TypeOK, CommitSent, CommitFailed, CommitUnlock, Return
    <3>2. up[q] \in Uploads \ {u}
      BY <1>2, <2>1, <2>3, <3>1 DEF IInv, Placed, Locked, CommitSent, CommitFailed
    <3>3. QED  BY <1>3, <2>3, <3>2 DEF CommitSent, CommitFailed
  <2>4. ASSUME AbortDiscard(q) PROVE Stable
    <3>1. up[q] \in Uploads \ {u} /\ CleanedUp(up[q])
      BY <1>2, <2>1, <2>4 DEF IInv, Placed, AbortDiscard, MetaFree
    <3>2. closed'[u] = closed[u]
      BY <1>1, <2>4, <3>1 DEF IInv, TypeOK, AbortDiscard
    <3>3. QED  BY <1>1, <3>1, <3>2, CleanedTypes DEF IInv
  <2>5. ASSUME AbortFails(q) PROVE Stable
    <3>1. up[q] \in Uploads \ {u} /\ Remnant(up[q]) /\ closed' = closed
      BY <1>2, <2>1, <2>5 DEF IInv, Placed, AbortFails, MetaFree
    <3>2. QED  BY <1>1, <3>1, RemnantTypes DEF IInv
  <2>6. CASE Start(q)
    BY <2>6 DEF Start, StartReserve, StartDisconnect, StartChunk, StartCommit, StartAbort, Enter
  <2>7. CASE Handle(q)
    BY <2>2, <2>4, <2>5, <2>7
       DEF Handle, ReserveLease, ReserveRefused, ReserveRegister, ReserveFails, ChunkLock,
           CommitLock, CommitProbe, CommitRefused, CommitVerify, CommitUnverified, AbortLock
  <2>8. QED  BY <1>4, <2>3, <2>6, <2>7 DEF Transfer
<1>5. ASSUME NEW q \in Procs, Evict(q) PROVE Stable
  <2>1. ASSUME EvictDiscard(q) PROVE Stable
    <3>1. up[q] \in Uploads \ {u}
      BY <1>2, <2>1 DEF IInv, Placed, EvictDiscard, MetaFree
    <3>2. QED  BY <1>3, <2>1, <3>1 DEF EvictDiscard
  <2>2. QED  BY <1>5, <2>1 DEF Evict, EvictLock, BeginEvict, EvictTake, EvictUnlock, EvictDrop
<1>6. ASSUME NEW h \in Shutdowns, Shutdown(h) PROVE Stable
  BY <1>6 DEF Shutdown, StartShutdown, ShutdownNext, ShutdownForce, ShutdownDone, BeginEvict
<1>7. ASSUME NEW v \in Uploads, RetryCleanup(v) \/ RetryFails(v) PROVE Stable
  <2>1. v # u
    BY <1>1, <1>2, <1>7 DEF IInv, Lifecycle, RetryCleanup, RetryFails
  <2>2. closed' = closed
    BY <1>7 DEF RetryCleanup, RetryFails
  <2>3. staged'[u] = staged[u]
    BY <1>1, <1>7, <2>1, CleanedTypes, RemnantTypes DEF IInv, RetryCleanup, RetryFails
  <2>4. QED  BY <2>2, <2>3
<1>8. ASSUME NEW j \in Janitors, NEW s \in Sessions, StartSweep(j, s) PROVE Stable
  BY <1>8 DEF StartSweep, BeginEvict
<1>9. ASSUME NEW s \in Sessions, Expire(s) \/ Foreign(s) PROVE Stable
  BY <1>9 DEF Expire, Foreign
<1>10. CASE Deadline
  BY <1>10 DEF Deadline
<1>11. CASE UNCHANGED vars
  BY <1>11
<1>12. QED  BY <1>4, <1>5, <1>6, <1>7, <1>8, <1>9, <1>10, <1>11 DEF Next

\* Only a commit that succeeds and an abort that succeeds answer.
LEMMA AnswerSteps ==
  ASSUME IInv, [Next]_vars
  PROVE  \/ answer' = answer
         \/ \E p \in Requests : CommitSent(p) \/ AbortDiscard(p)
<1> DEFINE Answers == \E p \in Requests : CommitSent(p) \/ AbortDiscard(p)
<1>1. ASSUME NEW p \in Requests, Start(p) \/ Handle(p) \/ Transfer(p)
      PROVE  answer' = answer \/ Answers
  <2>1. CASE Start(p)
    BY <2>1 DEF Start, StartReserve, StartDisconnect, StartChunk, StartCommit, StartAbort, Enter
  <2>2. CASE Handle(p)
    BY <2>2 DEF Handle, ReserveLease, ReserveRefused, ReserveRegister, ReserveFails, ChunkLock,
                ChunkWrite, CommitLock, CommitProbe, CommitRefused, CommitVerify,
                CommitUnverified, AbortLock, AbortFails
  <2>3. CASE Transfer(p)
    BY <2>3 DEF Transfer, CommitFailed
  <2>4. QED  BY <1>1, <2>1, <2>2, <2>3
<1>2. ASSUME NEW p \in Procs, Evict(p) PROVE answer' = answer
  BY <1>2 DEF Evict, EvictLock, BeginEvict, EvictTake, EvictDiscard, EvictUnlock, EvictDrop
<1>3. ASSUME NEW h \in Shutdowns, Shutdown(h) PROVE answer' = answer
  BY <1>3 DEF Shutdown, StartShutdown, ShutdownNext, ShutdownForce, ShutdownDone, BeginEvict
<1>4. ASSUME NEW u \in Uploads, RetryCleanup(u) \/ RetryFails(u) PROVE answer' = answer
  BY <1>4 DEF RetryCleanup, RetryFails
<1>5. ASSUME NEW j \in Janitors, NEW s \in Sessions, StartSweep(j, s) PROVE answer' = answer
  BY <1>5 DEF StartSweep, BeginEvict
<1>6. ASSUME NEW s \in Sessions, Expire(s) \/ Foreign(s) PROVE answer' = answer
  BY <1>6 DEF Expire, Foreign
<1>7. QED  BY <1>1, <1>2, <1>3, <1>4, <1>5, <1>6 DEF Next, Deadline

\* What an answer means, and that it is given once.
LEMMA AnsweredStep ==
  ASSUME IInv, [Next]_vars, NEW u \in Uploads
  PROVE  /\ answer[u] # "open" => answer'[u] = answer[u]
         /\ answer'[u] = "committed" /\ answer[u] # "committed" => remote'[owner[u]] = "whole"
<1>1. ASSUME NEW p \in Requests, CommitSent(p) \/ AbortDiscard(p)
      PROVE  /\ answer[u] # "open" => answer'[u] = answer[u]
             /\ answer'[u] = "committed" /\ answer[u] # "committed" =>
                  remote'[owner[u]] = "whole"
  <2>1. sess[p] \in Sessions /\ up[p] \in Uploads /\ p \in Procs
    BY <1>1 DEF IInv, Placed, CommitSent, AbortDiscard, Procs
  <2>2. owner[up[p]] = sess[p] /\ answer[up[p]] = "open"
    BY <1>1, <2>1 DEF IInv, Remembered, CommitSent, AbortDiscard
  <2>3. CASE CommitSent(p)
    <3>1. Whole(up[p])
      BY <2>1, <2>3 DEF IInv, Sending, CommitSent
    <3>2. QED  BY <2>1, <2>2, <2>3, <3>1 DEF IInv, TypeOK, CommitSent
  <2>4. CASE AbortDiscard(p)
    BY <2>1, <2>2, <2>4 DEF IInv, TypeOK, AbortDiscard
  <2>5. QED  BY <1>1, <2>3, <2>4
<1>2. QED  BY <1>1, AnswerSteps

\* What a goroutine that has probed does next.
LEMMA SendEnds ==
  ASSUME IInv, [Next]_vars, NEW p \in Requests, pc[p] \in Committing
  PROVE  \/ pc'[p] = pc[p]
         \/ CommitVerify(p) \/ CommitUnverified(p) \/ CommitSent(p) \/ CommitFailed(p)
<1> DEFINE Stays == pc'[p] = pc[p]
           Ends  == \/ CommitVerify(p) \/ CommitUnverified(p)
                    \/ CommitSent(p) \/ CommitFailed(p)
<1>1. p \in Procs /\ pc \in [Procs -> Steps]
  BY DEF IInv, TypeOK, Procs
<1>2. ASSUME NEW q \in Requests, Start(q) \/ Handle(q) \/ Transfer(q)
      PROVE  Stays \/ Ends
  <2>1. CASE Start(q)
    BY <1>1, <2>1 DEF Start, StartReserve, StartDisconnect, StartChunk, StartCommit, StartAbort,
                      Enter, Admit
  <2>2. CASE Handle(q)
    BY <1>1, <2>2 DEF Handle, ReserveLease, ReserveRefused, ReserveRegister, ReserveFails,
                      ChunkLock, ChunkWrite, CommitLock, CommitProbe, CommitRefused,
                      CommitVerify, CommitUnverified, CommitUnlock, AbortLock, AbortDiscard,
                      AbortFails, Return, Stay
  <2>3. CASE Transfer(q)
    BY <1>1, <2>3 DEF Transfer, CommitSent, CommitFailed, CommitUnlock, Return
  <2>4. QED  BY <1>2, <2>1, <2>2, <2>3
<1>3. ASSUME NEW q \in Procs, Evict(q) PROVE Stays
  BY <1>1, <1>3 DEF Evict, EvictLock, BeginEvict, EvictTake, EvictDiscard, EvictUnlock, EvictDrop,
                    Stay, Return
<1>4. ASSUME NEW h \in Shutdowns, Shutdown(h) PROVE Stays
  BY <1>1, <1>4 DEF Shutdown, StartShutdown, ShutdownNext, ShutdownForce, ShutdownDone, BeginEvict,
                    Stay
<1>5. ASSUME NEW j \in Janitors, NEW s \in Sessions, StartSweep(j, s) PROVE Stays
  BY <1>1, <1>5 DEF StartSweep, BeginEvict
<1>6. ASSUME NEW u \in Uploads, RetryCleanup(u) \/ RetryFails(u) PROVE Stays
  BY <1>6 DEF RetryCleanup, RetryFails
<1>7. ASSUME NEW s \in Sessions, Expire(s) \/ Foreign(s) PROVE Stays
  BY <1>7 DEF Expire, Foreign
<1>8. QED  BY <1>2, <1>3, <1>4, <1>5, <1>6, <1>7 DEF Next, Deadline

\* What the steps of a commit do to a file that was there.
LEMMA ReplacedStep ==
  ASSUME IInv, [Next]_vars, NEW p \in Requests,
         pc[p] \in Committing, pc'[p] # pc[p], remote[sess[p]] # "absent"
  PROVE  \/ remote'[sess[p]] = remote[sess[p]]
         \/ IF consent[p] THEN remote'[sess[p]] # "absent" ELSE remote[sess[p]] = "raced"
<1> DEFINE s == sess[p]
<1>1. p \in Procs /\ s \in Sessions /\ consent[p] \in BOOLEAN
  BY DEF IInv, TypeOK, Placed, Procs
<1>2. consent[p] \/ remote[s] = "raced"
  BY <1>1 DEF IInv, Sending
<1>3. CASE CommitSent(p)
  BY <1>1, <1>2, <1>3 DEF IInv, TypeOK, CommitSent
<1>4. CASE CommitFailed(p)
  <2>1. CASE consent[p]
    <3>1. PICK left \in {remote[s], "partial", "whole"} : remote' = [remote EXCEPT ![s] = left]
      BY <2>1, <1>4 DEF CommitFailed, Leavings
    <3>2. QED  BY <1>1, <2>1, <3>1 DEF IInv, TypeOK
  <2>2. QED  BY <1>1, <1>2, <2>1
<1>5. CASE CommitVerify(p) \/ CommitUnverified(p)
  BY <1>5 DEF CommitVerify, CommitUnverified
<1>6. QED  BY <1>3, <1>4, <1>5, SendEnds

\* No step but a forced eviction takes the client of an upload being sent.
LEMMA ClientStable ==
  ASSUME IInv, [Next]_vars, NEW p \in Requests, pc[p] \in Committing, pc'[p] \in Committing
  PROVE  late \/ client'[sess[p]] = client[sess[p]]
<1> DEFINE s == sess[p]
           Stable == client'[s] = client[s]
<1>1. p \in Procs /\ s \in Sessions
  BY DEF IInv, Placed, Procs
<1>2. transferMu[s] = p /\ transferMu[s] # None
  BY <1>1, StagingAssumption DEF IInv, Locked
<1>3. ASSUME NEW q \in Procs, NEW t \in Sessions \ {s}, BeginEvict(q, t) PROVE Stable
  BY <1>1, <1>3 DEF IInv, TypeOK, BeginEvict
<1>4. ASSUME NEW q \in Requests, Start(q) \/ Handle(q) \/ Transfer(q) PROVE Stable
  <2>1. q \in Procs
    BY DEF Procs
  <2>2. ASSUME ReserveRefused(q) PROVE Stable
    <3>1. sess[q] \in Sessions \ {s}
      BY <1>2, <2>1, <2>2 DEF IInv, Placed, ReserveRefused, TransferFree
    <3>2. QED  BY <1>1, <2>2, <3>1 DEF IInv, TypeOK, ReserveRefused
  <2>3. ASSUME CommitRefused(q) PROVE Stable
    <3>1. sess[q] \in Sessions \ {s}
      BY <1>2, <2>1, <2>3 DEF IInv, Placed, Locked, CommitRefused
    <3>2. QED  BY <1>1, <2>3, <3>1 DEF IInv, TypeOK, CommitRefused
  <2>4. ASSUME CommitFailed(q) PROVE Stable
    <3>1. q # p
      BY <1>1, <2>1, <2>4 DEF IInv, TypeOK, CommitFailed, CommitUnlock, Return
    <3>2. sess[q] \in Sessions \ {s}
      BY <1>2, <2>1, <2>4, <3>1 DEF IInv, Placed, Locked, CommitFailed
    <3>3. QED  BY <1>1, <2>4, <3>2 DEF IInv, TypeOK, CommitFailed
  <2>5. CASE Start(q)
    BY <2>5 DEF Start, StartReserve, StartDisconnect, StartChunk, StartCommit, StartAbort, Enter
  <2>6. CASE Handle(q)
    BY <2>2, <2>3, <2>6
       DEF Handle, ReserveLease, ReserveRegister, ReserveFails, ChunkLock, ChunkWrite,
           CommitLock, CommitProbe, CommitVerify, CommitUnverified, AbortLock, AbortDiscard,
           AbortFails
  <2>7. CASE Transfer(q)
    BY <2>4, <2>7 DEF Transfer, CommitSent
  <2>8. QED  BY <1>4, <2>5, <2>6, <2>7
<1>5. ASSUME NEW q \in Procs, Evict(q) PROVE Stable
  <2>1. ASSUME EvictLock(q) PROVE Stable
    <3>1. sess[q] \in Sessions \ {s}
      BY <1>2, <2>1 DEF IInv, Placed, EvictLock, TransferFree
    <3>2. QED  BY <1>3, <2>1, <3>1 DEF EvictLock
  <2>2. QED  BY <1>5, <2>1 DEF Evict, EvictTake, EvictDiscard, EvictUnlock, EvictDrop
<1>6. ASSUME NEW h \in Shutdowns, Shutdown(h) PROVE late \/ Stable
  BY <1>6 DEF Shutdown, StartShutdown, ShutdownNext, ShutdownForce, ShutdownDone
<1>7. ASSUME NEW j \in Janitors, NEW t \in Sessions, StartSweep(j, t) PROVE Stable
  <2>1. t \in Sessions \ {s} /\ j \in Procs
    BY <1>2, <1>7 DEF StartSweep, TransferFree, Procs
  <2>2. QED  BY <1>3, <1>7, <2>1 DEF StartSweep
<1>8. ASSUME NEW u \in Uploads, RetryCleanup(u) \/ RetryFails(u) PROVE Stable
  BY <1>8 DEF RetryCleanup, RetryFails
<1>9. ASSUME NEW t \in Sessions, Expire(t) \/ Foreign(t) PROVE Stable
  BY <1>9 DEF Expire, Foreign
<1>10. QED  BY <1>4, <1>5, <1>6, <1>7, <1>8, <1>9 DEF Next, Deadline

-----------------------------------------------------------------------------
\* The inductive invariant holds in every reachable state.
THEOREM IInvHolds == Spec => []IInv
BY InitIInv, IInvStep, PTL DEF Spec

\* Every variable keeps its type, for any number of sessions, uploads and goroutines.
THEOREM TypeCorrect == Spec => []TypeOK
<1>1. IInv => TypeOK
  BY DEF IInv
<1>2. QED  BY <1>1, IInvHolds, PTL

\* Whatever commit, abort, eviction, sweep and retry do to an upload, its lease is
\* charged while bytes are staged (api/resources.go, api/session_close.go).
THEOREM ChargedHolds == Spec => []StagedIsCharged
<1>1. IInv => StagedIsCharged
  BY DEF IInv
<1>2. QED  BY <1>1, IInvHolds, PTL

\* resourceBudget.used is the number of leases held: nothing is released twice,
\* and the limit is kept.
THEOREM BudgetHolds == Spec => []BudgetExact
<1>1. IInv => BudgetExact
  BY DEF IInv
<1>2. QED  BY <1>1, IInvHolds, PTL

\* No interleaving of reservations takes a session past UploadMaxPending.
THEOREM PendingHolds == Spec => []PendingBounded
<1>1. IInv => PendingBounded
  BY DEF IInv
<1>2. QED  BY <1>1, IInvHolds, PTL

\* The chunks of an upload do not change while a commit streams them.
THEOREM StreamHolds == Spec => StreamStable
<1>1. IInv /\ [Next]_vars =>
        [\A p \in Requests :
           pc[p] \in Committing /\ pc'[p] \in Committing =>
             /\ staged'[up[p]] = staged[up[p]]
             /\ closed'[up[p]] = closed[up[p]]]_vars
  BY SentStable
<1>2. QED  BY <1>1, IInvHolds, PTL DEF Spec, StreamStable

\* Of a commit and an abort that race, one is told that the upload is gone.
THEOREM AnsweredOnceHolds == Spec => AnsweredOnce
<1>1. IInv /\ [Next]_vars =>
        [\A u \in Uploads : answer[u] # "open" => answer'[u] = answer[u]]_vars
  BY AnsweredStep
<1>2. QED  BY <1>1, IInvHolds, PTL DEF Spec, AnsweredOnce

\* A commit that answers OK stored every byte of the upload.
THEOREM AnsweredStoredHolds == Spec => AnsweredMeansStored
<1>1. IInv /\ [Next]_vars =>
        [\A u \in Uploads :
           answer'[u] = "committed" /\ answer[u] # "committed" =>
             remote'[owner[u]] = "whole"]_vars
  BY AnsweredStep
<1>2. QED  BY <1>1, IInvHolds, PTL DEF Spec, AnsweredMeansStored

\* A commit touches a file that was there when it probed (api/upload.go) only with consent,
\* and with consent removes nothing; a file that others make after the probe is excepted.
THEOREM UserFileHolds == Spec => UserFileSafe
<1>1. IInv /\ [Next]_vars =>
        [\A p \in Requests :
           LET s == sess[p] IN
           pc[p] \in Committing /\ pc'[p] # pc[p] /\ remote[s] # "absent" =>
             \/ remote'[s] = remote[s]
             \/ IF consent[p] THEN remote'[s] # "absent" ELSE remote[s] = "raced"]_vars
  BY ReplacedStep
<1>2. QED  BY <1>1, IInvHolds, PTL DEF Spec, UserFileSafe

\* Only EvictAll past its deadline closes a client under a running commit.
THEOREM NotSeveredHolds == Spec => NotSevered
<1>1. IInv /\ [Next]_vars =>
        [\A p \in Requests :
           pc[p] \in Committing /\ pc'[p] \in Committing =>
             late \/ client'[sess[p]] = client[sess[p]]]_vars
  BY ClientStable
<1>2. QED  BY <1>1, IInvHolds, PTL DEF Spec, NotSevered

-----------------------------------------------------------------------------
(* The handlers implement AtomicUpload.  The steps that show there are those  *)
(* that change a lease, register or close an upload, begin or end a send, or  *)
(* touch a file; the mapping needs one clause more than IInv, Registered.      *)

LEMMA InitRegistered == Init => Registered
BY StagingAssumption DEF Init, Registered

\* An upload that is taken from the table is closed by the same step.
LEMMA ClosedLeaves ==
  ASSUME IInv, Registered, NEW s \in Sessions, NEW u \in Uploads, Unregister(s, u),
         closed' = [closed EXCEPT ![u] = TRUE], owner' = owner
  PROVE  Registered'
<1>1. \A v \in Uploads \ {u} : closed'[v] = closed[v]
  BY DEF IInv, TypeOK
<1>2. \A t \in Sessions, v \in Uploads \ {u} : v \in table[t] => v \in table'[t]
  BY DEF IInv, TypeOK, Unregister
<1>3. closed'[u]
  BY DEF IInv, TypeOK
<1>4. QED  BY <1>1, <1>2, <1>3 DEF IInv, TypeOK, Registered

\* Every step keeps an open upload in the table of its session.
LEMMA RegisteredStep == IInv /\ Registered /\ [Next]_vars => Registered'
<1> SUFFICES ASSUME IInv, Registered, [Next]_vars PROVE Registered'
  OBVIOUS
<1>1. ASSUME UNCHANGED <<table, owner, closed>> PROVE Registered'
  BY <1>1 DEF Registered
<1>2. ASSUME NEW p \in Requests, Start(p) \/ Handle(p) \/ Transfer(p) PROVE Registered'
  <2>1. p \in Procs
    BY DEF Procs
  <2>2. CASE Start(p)
    BY <1>1, <2>2 DEF Start, StartReserve, StartDisconnect, StartChunk, StartCommit, StartAbort,
                      Enter
  <2>3. ASSUME ReserveRegister(p) PROVE Registered'
    <3>1. sess[p] \in Sessions /\ up[p] \in Uploads
      BY <2>1, <2>3 DEF IInv, Placed, ReserveRegister
    <3>2. QED  BY <2>3, <3>1 DEF IInv, TypeOK, Registered, ReserveRegister
  <2>4. ASSUME AbortDiscard(p) PROVE Registered'
    <3>1. sess[p] \in Sessions /\ up[p] \in Uploads
      BY <2>1, <2>4 DEF IInv, Placed, AbortDiscard
    <3>2. QED  BY <2>4, <3>1, ClosedLeaves DEF AbortDiscard
  <2>5. CASE Handle(p)
    BY <1>1, <2>3, <2>4, <2>5
       DEF Handle, ReserveLease, ReserveRefused, ReserveFails, ChunkLock, ChunkWrite, CommitLock,
           CommitProbe, CommitRefused, CommitVerify, CommitUnverified, CommitUnlock, AbortLock,
           AbortFails
  <2>6. CASE Transfer(p)
    <3>1. sess[p] \in Sessions /\ up[p] \in Uploads
      BY <2>1, <2>6 DEF IInv, Placed, Transfer, CommitSent, CommitFailed
    <3>2. Unregister(sess[p], up[p]) /\ Discard(up[p]) /\ owner' = owner
      BY <2>6 DEF Transfer, CommitSent, CommitFailed
    <3>3. QED  BY <3>1, <3>2, ClosedLeaves DEF Discard
  <2>7. QED  BY <1>2, <2>2, <2>5, <2>6
<1>3. ASSUME NEW p \in Procs, Evict(p) PROVE Registered'
  <2>1. ASSUME EvictDiscard(p) PROVE Registered'
    <3>1. sess[p] \in Sessions /\ up[p] \in Uploads
      BY <2>1 DEF IInv, Placed, EvictDiscard
    <3>2. QED  BY <2>1, <3>1, ClosedLeaves DEF EvictDiscard, Discard
  <2>2. QED  BY <1>1, <1>3, <2>1
             DEF Evict, EvictLock, BeginEvict, EvictTake, EvictUnlock, EvictDrop
<1>4. ASSUME NEW h \in Shutdowns, Shutdown(h) PROVE Registered'
  BY <1>1, <1>4 DEF Shutdown, StartShutdown, ShutdownNext, ShutdownForce, ShutdownDone, BeginEvict
<1>5. ASSUME NEW u \in Uploads, RetryCleanup(u) \/ RetryFails(u) PROVE Registered'
  BY <1>1, <1>5 DEF RetryCleanup, RetryFails
<1>6. ASSUME NEW j \in Janitors, NEW s \in Sessions, StartSweep(j, s) PROVE Registered'
  BY <1>1, <1>6 DEF StartSweep, BeginEvict
<1>7. ASSUME NEW s \in Sessions, Expire(s) \/ Foreign(s) PROVE Registered'
  BY <1>1, <1>7 DEF Expire, Foreign
<1>8. QED  BY <1>1, <1>2, <1>3, <1>4, <1>5, <1>6, <1>7 DEF Next, Deadline

-----------------------------------------------------------------------------
(* How the mapped variables move.                                          *)

\* A step that moves nobody into or out of a send does not show in Sends.
LEMMA SendsKept ==
  ASSUME \A q \in Procs :
           /\ pc'[q] \in Committing <=> pc[q] \in Committing
           /\ pc[q] \in Committing => sess'[q] = sess[q] /\ up'[q] = up[q] /\ consent'[q] = consent[q]
  PROVE  Sends' = Sends
<1>1. \A s : Senders(s)' = Senders(s)
  BY DEF Senders
<1>2. \A s : \A q \in Senders(s) : up'[q] = up[q] /\ consent'[q] = consent[q]
  BY DEF Senders
<1>3. ASSUME NEW s \in Sessions
      PROVE  {[up |-> up[p], over |-> consent[p]] : p \in Senders(s)}'
               = {[up |-> up[p], over |-> consent[p]] : p \in Senders(s)}
  BY <1>1, <1>2
<1>4. QED  BY <1>3 DEF Sends

\* A goroutine that neither is nor will be sending moves unseen.
LEMMA AsideKept ==
  ASSUME NEW p \in Procs, pc[p] \notin Committing, pc'[p] \notin Committing,
         \A q \in Procs \ {p} : /\ pc'[q] = pc[q] /\ sess'[q] = sess[q]
                                /\ up'[q] = up[q] /\ consent'[q] = consent[q]
  PROVE  Sends' = Sends
BY SendsKept

\* An upload that is neither answered nor closed by a step has not moved.
LEMMA OutcomeKept ==
  ASSUME UNCHANGED <<answer, closed>>
  PROVE  Outcome' = Outcome
BY DEF Outcome

\* The leases held are read from the leases.
LEMMA HeldKept ==
  ASSUME lease' = lease
  PROVE  Held' = Held
BY DEF Held

\* The transfer lock lets a session send one upload at a time.
LEMMA SendAlone ==
  ASSUME IInv, NEW p \in Procs, pc[p] \in Committing
  PROVE  /\ Sends[sess[p]] = {[up |-> up[p], over |-> consent[p]]}
         /\ \A q \in Procs \ {p} : pc[q] \in Committing => sess[q] # sess[p]
<1>1. sess[p] \in Sessions
  BY DEF IInv, Placed
<1>2. \A q \in Procs \ {p} : pc[q] \in Committing => sess[q] # sess[p]
  BY DEF IInv, Locked
<1>3. Senders(sess[p]) = {p}
  BY <1>2 DEF Senders
<1>4. QED  BY <1>1, <1>2, <1>3 DEF Sends

\* A session whose transfer lock is free, or with a goroutine that does something
\* else, is not sending.
LEMMA NotSending ==
  ASSUME IInv, NEW s \in Sessions,
         TransferFree(s) \/ \E p \in Procs : transferMu[s] = p /\ pc[p] \notin Committing
  PROVE  Sends[s] = {}
<1>1. \A q \in Procs : pc[q] \in Committing => transferMu[sess[q]] = q /\ q # None
  BY StagingAssumption DEF IInv, Locked
<1>2. Senders(s) = {}
  BY <1>1 DEF Senders, TransferFree
<1>3. QED  BY <1>2 DEF Sends

\* What a session is sending is read from its senders.
LEMMA SendsAre ==
  /\ Sends = [s \in Sessions |-> Sends[s]]
  /\ \A s \in Sessions :
       /\ Sends[s] = {[up |-> up[q], over |-> consent[q]] : q \in Senders(s)}
       /\ Senders(s) = {} <=> Sends[s] = {}
BY DEF Sends

\* A goroutine that returns from a send leaves its session without one.
LEMMA SendOver ==
  ASSUME IInv, NEW p \in Procs, pc[p] \in Committing, Return(p)
  PROVE  Sends' = [Sends EXCEPT ![sess[p]] = {}]
<1> DEFINE s == sess[p]
<1>1. s \in Sessions
  BY DEF IInv, Placed
<1>2. pc'[p] = "idle" /\ \A q \in Procs \ {p} : /\ pc'[q] = pc[q] /\ sess'[q] = sess[q]
                                                /\ up'[q] = up[q] /\ consent'[q] = consent[q]
  BY DEF IInv, TypeOK, Return
<1>3. \A t \in Sessions : t = s => Senders(t)' = {}
  BY <1>1, <1>2, SendAlone DEF Senders
<1>4. \A t \in Sessions \ {s} : Senders(t)' = Senders(t)
  BY <1>1, <1>2 DEF Senders
<1>5. \A t \in Sessions : Sends'[t] = {[up |-> up'[q], over |-> consent'[q]] : q \in Senders(t)'}
  BY DEF Sends
<1>6. Sends'[s] = {}
  BY <1>1, <1>3, <1>5
<1>7. ASSUME NEW t \in Sessions \ {s} PROVE Sends'[t] = Sends[t]
  <2>1. \A q \in Senders(t) : up'[q] = up[q] /\ consent'[q] = consent[q]
    BY <1>1, <1>2 DEF Senders
  <2>2. Sends'[t] = {[up |-> up[q], over |-> consent[q]] : q \in Senders(t)}
    BY <1>4, <1>5, <2>1
  <2>3. QED  BY <2>2 DEF Sends
<1>8. Sends' = [t \in Sessions |-> Sends'[t]] /\ Sends = [t \in Sessions |-> Sends[t]]
  BY DEF Sends
<1>9. QED  BY <1>1, <1>6, <1>7, <1>8

\* An upload that ends: in one step for everybody, whatever is left to clean up.
LEMMA OutcomeEnds ==
  ASSUME IInv, NEW u \in Uploads, closed' = [closed EXCEPT ![u] = TRUE], NEW how,
         \/ how = "lost" /\ answer[u] = "open" /\ answer' = answer
         \/ how \in {"committed", "aborted"} /\ answer' = [answer EXCEPT ![u] = how]
  PROVE  Outcome' = [Outcome EXCEPT ![u] = how]
<1>1. closed'[u] /\ \A v \in Uploads \ {u} : closed'[v] = closed[v] /\ answer'[v] = answer[v]
  BY DEF IInv, TypeOK
<1>2. answer'[u] = IF how = "lost" THEN "open" ELSE how
  BY DEF IInv, TypeOK
<1>3. \A v \in Uploads : Outcome'[v] = IF answer'[v] # "open" THEN answer'[v]
                                       ELSE IF closed'[v] THEN "lost" ELSE "open"
  BY DEF Outcome
<1>4. Outcome'[u] = how /\ \A v \in Uploads \ {u} : Outcome'[v] = Outcome[v]
  BY <1>1, <1>2, <1>3 DEF Outcome
<1>5. Outcome' = [v \in Uploads |-> Outcome'[v]] /\ Outcome = [v \in Uploads |-> Outcome[v]]
  BY DEF Outcome
<1>6. QED  BY <1>4, <1>5

\* A cleanup gives the room of its upload back, and no other.
LEMMA HeldReleased ==
  ASSUME IInv, NEW u \in Uploads, CleanedUp(u)
  PROVE  Held' = Held \ {u}
BY DEF IInv, TypeOK, CleanedUp, Release, Held

\* Discard gives it back now, or leaves it to the retry.
LEMMA HeldDiscarded ==
  ASSUME IInv, NEW u \in Uploads, Discard(u)
  PROVE  Held' \in {Held, Held \ {u}}
BY HeldReleased, HeldKept DEF Discard

\* AtomicUpload counts as this module does.
LEMMA CountsAlike == \A S : Atomic!Cardinality(S) = Cardinality(S)
BY DEF Cardinality, Atomic!Cardinality

-----------------------------------------------------------------------------
(* The steps that show.                                                    *)

\* Charging the budget takes room that is left.
LEMMA ChargeRefines ==
  ASSUME IInv, NEW p \in Requests, NEW u \in Uploads, ReserveLease(p, u)
  PROVE  Atomic!Charge(u)
<1>1. u \notin Held /\ Held' = Held \cup {u}
  BY DEF IInv, TypeOK, Held, ReserveLease
<1>2. owner[u] = None
  BY DEF IInv, Lifecycle, ReserveLease
<1>3. Cardinality(Held) < StagingMax
  BY HeldFinite, FS_CardinalityType, StagingAssumption
     DEF IInv, BudgetExact, ReserveLease, BudgetFull
<1>4. Sends' = Sends
  <2>1. p \in Procs
    BY DEF Procs
  <2>2. pc'[p] = "register" /\ \A q \in Procs \ {p} : pc'[q] = pc[q] /\ up'[q] = up[q]
    BY <2>1 DEF IInv, TypeOK, ReserveLease
  <2>3. QED  BY <2>1, <2>2, AsideKept DEF ReserveLease
<1>5. UNCHANGED <<owner, answer, closed, remote>>
  BY DEF ReserveLease
<1>6. Outcome' = Outcome
  BY <1>5, OutcomeKept
<1>7. ~Atomic!Known(u)
  BY <1>2 DEF Atomic!Known
<1>8. QED  BY <1>1, <1>3, <1>4, <1>5, <1>6, <1>7, CountsAlike DEF Atomic!Charge

\* The upload that is registered finds the room its session had at the check.
LEMMA OpenRefines ==
  ASSUME IInv, Registered, NEW p \in Requests, ReserveRegister(p)
  PROVE  Atomic!Open(sess[p], up[p]) /\ sess[p] \in Sessions /\ up[p] \in Uploads
<1> DEFINE s == sess[p]
           u == up[p]
<1>1. p \in Procs /\ s \in Sessions /\ u \in Uploads
  BY DEF IInv, Placed, ReserveRegister, Procs
<1>2. u \in Held /\ owner[u] = None /\ Cardinality(table[s]) < UploadMaxPending
  BY <1>1 DEF IInv, Remembered, RoomKept, Held, ReserveRegister
<1>3. Atomic!OpenOf(s) \subseteq table[s]
  BY <1>1, StagingAssumption DEF Atomic!OpenOf, Outcome, IInv, TypeOK, Registered
<1>4. Cardinality(Atomic!OpenOf(s)) < UploadMaxPending
  <2>1. IsFiniteSet(table[s])
    BY <1>1, StagingAssumption, FS_Subset DEF IInv, TypeOK
  <2>2. /\ Cardinality(Atomic!OpenOf(s)) <= Cardinality(table[s])
        /\ Cardinality(Atomic!OpenOf(s)) \in Nat /\ Cardinality(table[s]) \in Nat
    BY <1>3, <2>1, FS_Subset, FS_CardinalityType
  <2>3. QED  BY <1>2, <2>2, StagingAssumption
<1>5. Sends' = Sends
  <2>1. pc'[p] = "idle" /\ \A q \in Procs \ {p} : /\ pc'[q] = pc[q] /\ sess'[q] = sess[q]
                                                  /\ up'[q] = up[q] /\ consent'[q] = consent[q]
    BY <1>1 DEF IInv, TypeOK, ReserveRegister, Return
  <2>2. QED  BY <1>1, <2>1, AsideKept DEF ReserveRegister
<1>6. owner' = [owner EXCEPT ![u] = s] /\ UNCHANGED <<lease, answer, closed, remote>>
  BY DEF ReserveRegister
<1>7. Outcome' = Outcome /\ Held' = Held
  BY <1>6, OutcomeKept, HeldKept
<1>8. ~Atomic!Known(u)
  BY <1>2 DEF Atomic!Known
<1>9. QED  BY <1>1, <1>2, <1>4, <1>5, <1>6, <1>7, <1>8, CountsAlike DEF Atomic!Open

\* Nothing was opened for the room of a reservation that fails.
LEMMA UnopenedRefines ==
  ASSUME IInv, NEW p \in Requests, ReserveFails(p)
  PROVE  Atomic!GiveBack(up[p]) /\ up[p] \in Uploads
<1> DEFINE u == up[p]
<1>1. p \in Procs /\ u \in Uploads
  BY DEF IInv, Placed, ReserveFails, Procs
<1>2. u \in Held /\ owner[u] = None
  BY <1>1 DEF IInv, Remembered, Held, ReserveFails
<1>3. Held' = Held \ {u}
  BY <1>1 DEF IInv, TypeOK, Held, ReserveFails
<1>4. Sends' = Sends
  <2>1. pc'[p] = "idle" /\ \A q \in Procs \ {p} : /\ pc'[q] = pc[q] /\ sess'[q] = sess[q]
                                                  /\ up'[q] = up[q] /\ consent'[q] = consent[q]
    BY <1>1 DEF IInv, TypeOK, ReserveFails, Return
  <2>2. QED  BY <1>1, <2>1, AsideKept DEF ReserveFails
<1>5. UNCHANGED <<owner, answer, closed, remote>>
  BY DEF ReserveFails
<1>6. Outcome' = Outcome
  BY <1>5, OutcomeKept
<1>7. QED  BY <1>1, <1>2, <1>3, <1>4, <1>5, <1>6 DEF Atomic!GiveBack, Atomic!Known

\* A commit begins, with its probe, when nothing else of its session is sent, with consent
\* or to a destination that does not exist.
LEMMA BeginRefines ==
  ASSUME IInv, NEW p \in Requests, CommitProbe(p)
  PROVE  /\ Atomic!Begin(sess[p], up[p], consent[p])
         /\ sess[p] \in Sessions /\ up[p] \in Uploads /\ consent[p] \in BOOLEAN
<1> DEFINE s == sess[p]
           u == up[p]
           c == [up |-> up[p], over |-> consent[p]]
<1>1. p \in Procs /\ s \in Sessions /\ u \in Uploads /\ consent[p] \in BOOLEAN
  BY DEF IInv, TypeOK, Placed, CommitProbe, Procs
<1>2. owner[u] = s /\ answer[u] = "open" /\ ~closed[u] /\ transferMu[s] = p /\ pc[p] = "verify"
  BY <1>1 DEF IInv, Remembered, Locked, CommitProbe
<1>3. Outcome[u] = "open"
  BY <1>1, <1>2 DEF Outcome
<1>4. Sends[s] = {} /\ \A q \in Procs : pc[q] \in Committing => sess[q] # s
  <2>1. Sends[s] = {}
    BY <1>1, <1>2, NotSending
  <2>2. \A q \in Procs : pc[q] \in Committing => transferMu[sess[q]] = q
    BY DEF IInv, Locked
  <2>3. QED  BY <1>2, <2>1, <2>2
<1>5. /\ pc'[p] = "drain" /\ UNCHANGED <<sess, up, consent>>
      /\ \A q \in Procs \ {p} : pc'[q] = pc[q]
  BY <1>1 DEF IInv, TypeOK, CommitProbe, Stay
<1>6. \A t \in Sessions : Senders(t)' = IF t = s THEN {p} ELSE Senders(t)
  BY <1>1, <1>4, <1>5 DEF Senders
<1>7. \A t \in Sessions : Sends'[t] = {[up |-> up[q], over |-> consent[q]] : q \in Senders(t)'}
  BY <1>5 DEF Sends
<1>8. Sends'[s] = {c}
  BY <1>1, <1>6, <1>7
<1>9. \A t \in Sessions \ {s} : Sends'[t] = Sends[t]
  BY <1>6, <1>7 DEF Sends
<1>10. Sends' = [t \in Sessions |-> Sends'[t]] /\ Sends = [t \in Sessions |-> Sends[t]]
  BY DEF Sends
<1>11. Sends' = [Sends EXCEPT ![s] = {c}]
  BY <1>1, <1>8, <1>9, <1>10
<1>12. consent[p] \/ remote[s] = "absent"
  BY DEF CommitProbe, MayCreate
<1>13. /\ UNCHANGED <<lease, owner, answer, closed>>
       /\ remote' = [remote EXCEPT ![s] = IF @ = "raced" THEN "theirs" ELSE @]
  BY DEF CommitProbe
<1>14. Outcome' = Outcome /\ Held' = Held
  BY <1>13, OutcomeKept, HeldKept
<1>15. QED  BY <1>1, <1>2, <1>3, <1>4, <1>11, <1>12, <1>13, <1>14 DEF Atomic!Begin

\* A commit that finds its chunks wanting takes itself back.
LEMMA WithdrawRefines ==
  ASSUME IInv, NEW p \in Requests, CommitUnverified(p)
  PROVE  Atomic!Withdraw(sess[p]) /\ sess[p] \in Sessions
<1>1. p \in Procs /\ sess[p] \in Sessions /\ pc[p] \in Committing
  BY DEF IInv, Placed, CommitUnverified, Procs
<1>2. Sends[sess[p]] # {}
  BY <1>1, SendAlone
<1>3. Sends' = [Sends EXCEPT ![sess[p]] = {}]
  BY <1>1, SendOver DEF CommitUnverified, CommitUnlock
<1>4. UNCHANGED <<lease, owner, answer, closed, remote>>
  BY DEF CommitUnverified
<1>5. QED  BY <1>1, <1>2, <1>3, <1>4, OutcomeKept, HeldKept DEF Atomic!Withdraw

\* The chunks are as they should be: nobody sees that.
LEMMA VerifyHidden ==
  ASSUME IInv, NEW p \in Requests, CommitVerify(p)
  PROVE  UNCHANGED Atomic!vars
<1>1. /\ UNCHANGED <<lease, owner, answer, closed, remote, sess, up, consent>>
      /\ pc[p] = "drain" /\ pc'[p] = "send"
      /\ \A q \in Procs \ {p} : pc'[q] = pc[q]
  BY DEF IInv, TypeOK, CommitVerify, Stay, Procs
<1>2. Sends' = Sends
  BY <1>1, SendsKept
<1>3. QED  BY <1>1, <1>2, OutcomeKept, HeldKept DEF Atomic!vars

\* A transfer that ends closes the upload it sent.
LEMMA EndRefines ==
  ASSUME IInv, NEW p \in Requests, pc[p] = "send", NEW how,
         Discard(up[p]), CommitUnlock(p), owner' = owner,
         \/ how = "lost" /\ answer' = answer
         \/ how = "committed" /\ answer' = [answer EXCEPT ![up[p]] = how]
  PROVE  /\ Atomic!End(sess[p], up[p], consent[p], how)
         /\ sess[p] \in Sessions /\ up[p] \in Uploads /\ consent[p] \in BOOLEAN
<1> DEFINE s == sess[p]
           u == up[p]
<1>1. p \in Procs /\ s \in Sessions /\ u \in Uploads /\ consent[p] \in BOOLEAN
  BY DEF IInv, TypeOK, Placed, Procs
<1>2. answer[u] = "open" /\ ~closed[u]
  BY <1>1 DEF IInv, Remembered, Locked
<1>3. Outcome[u] = "open"
  BY <1>1, <1>2 DEF Outcome
<1>4. Sends[s] = {[up |-> u, over |-> consent[p]]}
  BY <1>1, SendAlone
<1>5. Sends' = [Sends EXCEPT ![s] = {}]
  BY <1>1, SendOver DEF CommitUnlock
<1>6. Outcome' = [Outcome EXCEPT ![u] = how]
  BY <1>1, <1>2, OutcomeEnds DEF Discard
<1>7. Held' \in {Held, Held \ {u}}
  BY <1>1, HeldDiscarded
<1>8. QED  BY <1>1, <1>3, <1>4, <1>5, <1>6, <1>7 DEF Atomic!End, Atomic!MayGiveBack

\* A transfer that succeeds has put the whole file on the server.
LEMMA CommitRefines ==
  ASSUME IInv, NEW p \in Requests, CommitSent(p)
  PROVE  /\ Atomic!Commit(sess[p], up[p], consent[p])
         /\ sess[p] \in Sessions /\ up[p] \in Uploads /\ consent[p] \in BOOLEAN
<1>1. p \in Procs /\ Whole(up[p])
  BY DEF IInv, Sending, CommitSent, Procs
<1>2. remote' = [remote EXCEPT ![sess[p]] = "whole"]
  BY <1>1 DEF CommitSent
<1>3. /\ Discard(up[p]) /\ CommitUnlock(p) /\ owner' = owner /\ pc[p] = "send"
      /\ answer' = [answer EXCEPT ![up[p]] = "committed"]
  BY DEF CommitSent
<1>4. QED  BY <1>2, <1>3, EndRefines DEF Atomic!Commit

\* A transfer that fails leaves the file as it was, or the new one in part or whole, or,
\* without consent, none.
LEMMA FailRefines ==
  ASSUME IInv, NEW p \in Requests, CommitFailed(p)
  PROVE  /\ Atomic!Fail(sess[p], up[p], consent[p])
         /\ sess[p] \in Sessions /\ up[p] \in Uploads /\ consent[p] \in BOOLEAN
<1> DEFINE s == sess[p]
<1>1. \E left \in {remote[s], "partial", "whole"} \cup (IF consent[p] THEN {} ELSE {"absent"}) :
        remote' = [remote EXCEPT ![s] = left]
  BY DEF CommitFailed, Leavings
<1>2. /\ Discard(up[p]) /\ CommitUnlock(p) /\ owner' = owner /\ pc[p] = "send"
      /\ answer' = answer
  BY DEF CommitFailed
<1>3. QED  BY <1>1, <1>2, EndRefines DEF Atomic!Fail

\* An abort ends what no commit is sending, or what a forced eviction has thrown away.
LEMMA AbortRefines ==
  ASSUME IInv, NEW p \in Requests, AbortDiscard(p)
  PROVE  Atomic!Abort(up[p]) /\ up[p] \in Uploads
<1> DEFINE s == sess[p]
           u == up[p]
<1>1. p \in Procs /\ s \in Sessions /\ u \in Uploads
  BY DEF IInv, Placed, AbortDiscard, Procs
<1>2. owner[u] = s /\ answer[u] = "open" /\ transferMu[s] = p
  BY <1>1 DEF IInv, Remembered, Locked, AbortDiscard
<1>3. Outcome[u] \in {"open", "lost"} /\ s # None
  BY <1>1, <1>2, StagingAssumption DEF Outcome
<1>4. Sends[s] = {}
  BY <1>1, <1>2, NotSending DEF AbortDiscard
<1>5. Sends' = Sends
  <2>1. pc'[p] = "idle" /\ \A q \in Procs \ {p} : /\ pc'[q] = pc[q] /\ sess'[q] = sess[q]
                                                  /\ up'[q] = up[q] /\ consent'[q] = consent[q]
    BY <1>1 DEF IInv, TypeOK, AbortDiscard, Return
  <2>2. QED  BY <1>1, <2>1, AsideKept DEF AbortDiscard
<1>6. Held' = Held \ {u}
  BY <1>1, HeldReleased DEF AbortDiscard
<1>7. Outcome' = [Outcome EXCEPT ![u] = "aborted"]
  BY <1>1, OutcomeEnds DEF AbortDiscard
<1>8. UNCHANGED <<owner, remote>>
  BY DEF AbortDiscard
<1>9. QED  BY <1>1, <1>2, <1>3, <1>4, <1>5, <1>6, <1>7, <1>8 DEF Atomic!Abort, Atomic!Known

\* An eviction ends an upload that is open and not being sent; of one that has ended it
\* gives back the room, if that is still taken.
LEMMA EvictRefines ==
  ASSUME IInv, NEW p \in Procs, EvictDiscard(p)
  PROVE  /\ up[p] \in Uploads
         /\ Atomic!Evict(up[p]) \/ Atomic!GiveBack(up[p]) \/ UNCHANGED Atomic!vars
<1> DEFINE u == up[p]
<1>1. u \in Uploads /\ owner[u] # None
  BY DEF IInv, Placed, Remembered, EvictDiscard
<1>2. \A q \in Procs : pc[q] \in Committing => up[q] # u
  BY StagingAssumption DEF IInv, Locked, EvictDiscard, MetaFree, Procs
<1>3. Sends' = Sends
  <2>1. pc'[p] = "evicting" /\ \A q \in Procs \ {p} : pc'[q] = pc[q]
    BY DEF IInv, TypeOK, EvictDiscard, Stay
  <2>2. QED  BY <2>1, AsideKept DEF EvictDiscard, Stay
<1>4. Held' \in {Held, Held \ {u}}
  BY <1>1, HeldDiscarded DEF EvictDiscard
<1>5. closed' = [closed EXCEPT ![u] = TRUE] /\ UNCHANGED <<owner, answer, remote>>
  BY DEF EvictDiscard, Discard
<1>6. CASE Outcome[u] = "open"
  <2>1. answer[u] = "open"
    BY <1>1, <1>6 DEF Outcome
  <2>2. Outcome' = [Outcome EXCEPT ![u] = "lost"]
    BY <1>1, <1>5, <2>1, OutcomeEnds
  <2>3. owner[u] \in Sessions
    BY <1>1 DEF IInv, TypeOK
  <2>4. \A c \in Sends[owner[u]] : c.up # u
    BY <1>2, <2>3 DEF Sends, Senders
  <2>5. QED  BY <1>1, <1>3, <1>4, <1>5, <1>6, <2>2, <2>4
             DEF Atomic!Evict, Atomic!Known, Atomic!MayGiveBack
<1>7. CASE Outcome[u] # "open"
  <2>1. Outcome' = Outcome
    <3>1. \A v \in Uploads \ {u} : closed'[v] = closed[v]
      BY <1>5 DEF IInv, TypeOK
    <3>2. answer[u] # "open" \/ closed[u]
      BY <1>1, <1>7 DEF Outcome
    <3>3. closed'[u]
      BY <1>1, <1>5 DEF IInv, TypeOK
    <3>4. QED  BY <1>5, <3>1, <3>2, <3>3 DEF Outcome
  <2>2. QED  BY <1>1, <1>3, <1>4, <1>5, <1>7, <2>1 DEF Atomic!GiveBack, Atomic!vars
<1>8. QED  BY <1>1, <1>6, <1>7

\* The retry gives back the room of an upload that has ended.
LEMMA RetryRefines ==
  ASSUME IInv, NEW u \in Uploads, RetryCleanup(u)
  PROVE  Atomic!GiveBack(u) \/ UNCHANGED Atomic!vars
<1>1. closed[u]
  BY DEF IInv, Lifecycle, RetryCleanup
<1>2. Outcome[u] # "open"
  BY <1>1 DEF Outcome
<1>3. Held' = Held \ {u}
  BY HeldReleased DEF RetryCleanup
<1>4. UNCHANGED <<owner, answer, closed, remote, pc, sess, up, consent>>
  BY DEF RetryCleanup
<1>5. Sends' = Sends
  BY <1>4, SendsKept
<1>6. QED  BY <1>2, <1>3, <1>4, <1>5, OutcomeKept DEF Atomic!GiveBack, Atomic!vars

\* Everybody else who writes the destination, before, during and after a send.
LEMMA TouchRefines ==
  ASSUME IInv, NEW s \in Sessions, Foreign(s)
  PROVE  Atomic!Touch(s)
<1>1. UNCHANGED <<lease, owner, answer, closed, pc, sess, up, consent>>
  BY DEF Foreign
<1>2. Sends' = Sends
  BY <1>1, SendsKept
<1>3. \E left \in {"absent", IF Sends[s] = {} THEN "theirs" ELSE "raced"} :
        remote' = [remote EXCEPT ![s] = left]
  BY SendsAre DEF Foreign
<1>4. QED  BY <1>1, <1>2, <1>3, OutcomeKept, HeldKept DEF Atomic!Touch

-----------------------------------------------------------------------------
(* The steps that do not, and the theorem.                                  *)

\* A step that leaves the mapped variables alone, and moves one goroutine that is not
\* sending.
LEMMA AsideRefines ==
  ASSUME UNCHANGED <<lease, owner, answer, closed, remote>>, NEW p \in Procs,
         pc[p] \notin Committing, pc'[p] \notin Committing,
         \A q \in Procs \ {p} : /\ pc'[q] = pc[q] /\ sess'[q] = sess[q]
                                /\ up'[q] = up[q] /\ consent'[q] = consent[q]
  PROVE  UNCHANGED Atomic!vars
BY AsideKept, OutcomeKept, HeldKept DEF Atomic!vars

\* A step of no goroutine.
LEMMA StillRefines ==
  ASSUME UNCHANGED <<lease, owner, answer, closed, remote, pc, sess, up, consent>>
  PROVE  UNCHANGED Atomic!vars
BY SendsKept, OutcomeKept, HeldKept DEF Atomic!vars

\* The first steps of a request, the waits for a lock, chunks and refusals.
LEMMA HandlerHidden ==
  ASSUME IInv, NEW p \in Requests,
         \/ Start(p) \/ ReserveRefused(p) \/ ChunkLock(p) \/ CommitLock(p) \/ CommitRefused(p)
         \/ AbortLock(p) \/ AbortFails(p) \/ \E c \in Chunks : ChunkWrite(p, c)
  PROVE  UNCHANGED Atomic!vars
<1>1. p \in Procs
  BY DEF Procs
<1>2. UNCHANGED <<lease, owner, answer, closed, remote>>
  BY DEF Start, StartReserve, StartDisconnect, StartChunk, StartCommit, StartAbort, Enter,
         ReserveRefused, ChunkLock, CommitLock, CommitRefused, AbortLock, AbortFails, ChunkWrite
<1>3. pc[p] \notin Committing /\ pc'[p] \notin Committing
  BY <1>1 DEF IInv, TypeOK, Start, StartReserve, StartDisconnect, StartChunk, StartCommit,
              StartAbort, Enter, Admit, ReserveRefused, ChunkLock, CommitLock, CommitRefused,
              AbortLock, AbortFails, ChunkWrite, Return, Stay
<1>4. \A q \in Procs \ {p} : /\ pc'[q] = pc[q] /\ sess'[q] = sess[q]
                             /\ up'[q] = up[q] /\ consent'[q] = consent[q]
  BY <1>1 DEF IInv, TypeOK, Start, StartReserve, StartDisconnect, StartChunk, StartCommit,
              StartAbort, Enter, ReserveRefused, ChunkLock, CommitLock, CommitRefused,
              AbortLock, AbortFails, ChunkWrite, Return, Stay
<1>5. QED  BY <1>1, <1>2, <1>3, <1>4, AsideRefines

\* What an eviction does besides discarding an upload, and EvictAll between two of them.
LEMMA EvictionHidden ==
  ASSUME IInv, NEW p \in Procs,
         \/ EvictLock(p) \/ EvictUnlock(p) \/ EvictDrop(p) \/ \E u \in Uploads : EvictTake(p, u)
         \/ p \in Shutdowns /\ Shutdown(p)
         \/ p \in Janitors /\ \E s \in Sessions : StartSweep(p, s)
  PROVE  UNCHANGED Atomic!vars
<1>1. UNCHANGED <<lease, owner, answer, closed, remote>>
  BY DEF EvictLock, EvictUnlock, EvictDrop, EvictTake, Shutdown, StartShutdown, ShutdownNext,
         ShutdownForce, ShutdownDone, StartSweep, BeginEvict
<1>2. pc[p] \notin Committing /\ pc'[p] \notin Committing
  BY StagingAssumption
     DEF IInv, TypeOK, EvictLock, EvictUnlock, EvictDrop, EvictTake, Shutdown, StartShutdown,
         ShutdownNext, ShutdownForce, ShutdownDone, StartSweep, BeginEvict, Return, Stay
<1>3. \A q \in Procs \ {p} : /\ pc'[q] = pc[q] /\ sess'[q] = sess[q]
                             /\ up'[q] = up[q] /\ consent'[q] = consent[q]
  BY DEF IInv, TypeOK, EvictLock, EvictUnlock, EvictDrop, EvictTake, Shutdown, StartShutdown,
         ShutdownNext, ShutdownForce, ShutdownDone, StartSweep, BeginEvict, Return, Stay
<1>4. QED  BY <1>1, <1>2, <1>3, AsideRefines

\* Every step maps to a step of AtomicUpload or to none.
LEMMA StepRefines == IInv /\ Registered /\ [Next]_vars => [Atomic!Next]_(Atomic!vars)
<1> SUFFICES ASSUME IInv, Registered, [Next]_vars PROVE [Atomic!Next]_(Atomic!vars)
  OBVIOUS
<1>1. ASSUME NEW p \in Requests, Start(p) \/ Handle(p) \/ Transfer(p)
      PROVE  [Atomic!Next]_(Atomic!vars)
  <2>1. ASSUME NEW u \in Uploads, ReserveLease(p, u) PROVE Atomic!Next
    BY <2>1, ChargeRefines DEF Atomic!Next
  <2>2. CASE ReserveRegister(p)
    BY <2>2, OpenRefines DEF Atomic!Next
  <2>3. CASE ReserveFails(p)
    BY <2>3, UnopenedRefines DEF Atomic!Next
  <2>4. CASE CommitProbe(p) \/ CommitVerify(p) \/ CommitUnverified(p)
    BY <2>4, BeginRefines, VerifyHidden, WithdrawRefines DEF Atomic!Next
  <2>5. CASE AbortDiscard(p)
    BY <2>5, AbortRefines DEF Atomic!Next
  <2>6. CASE CommitSent(p)
    BY <2>6, CommitRefines DEF Atomic!Next
  <2>7. CASE CommitFailed(p)
    BY <2>7, FailRefines DEF Atomic!Next
  <2>8. CASE \/ Start(p) \/ ReserveRefused(p) \/ ChunkLock(p) \/ CommitLock(p)
             \/ CommitRefused(p) \/ AbortLock(p) \/ AbortFails(p)
             \/ \E c \in Chunks : ChunkWrite(p, c)
    BY <2>8, HandlerHidden
  <2>9. QED  BY <1>1, <2>1, <2>2, <2>3, <2>4, <2>5, <2>6, <2>7, <2>8 DEF Handle, Transfer
<1>2. ASSUME NEW p \in Procs, Evict(p) PROVE [Atomic!Next]_(Atomic!vars)
  <2>1. CASE EvictDiscard(p)
    BY <2>1, EvictRefines DEF Atomic!Next
  <2>2. QED  BY <1>2, <2>1, EvictionHidden DEF Evict
<1>3. ASSUME NEW h \in Shutdowns, Shutdown(h) PROVE UNCHANGED Atomic!vars
  BY <1>3, EvictionHidden DEF Procs
<1>4. ASSUME NEW j \in Janitors, NEW s \in Sessions, StartSweep(j, s)
      PROVE  UNCHANGED Atomic!vars
  BY <1>4, EvictionHidden DEF Procs
<1>5. ASSUME NEW u \in Uploads, RetryCleanup(u) PROVE [Atomic!Next]_(Atomic!vars)
  BY <1>5, RetryRefines DEF Atomic!Next
<1>6. ASSUME NEW u \in Uploads, RetryFails(u) PROVE UNCHANGED Atomic!vars
  BY <1>6, StillRefines DEF RetryFails
<1>7. ASSUME NEW s \in Sessions, Foreign(s) PROVE Atomic!Next
  BY <1>7, TouchRefines DEF Atomic!Next
<1>8. CASE Deadline \/ (\E s \in Sessions : Expire(s)) \/ UNCHANGED vars
  BY <1>8, StillRefines DEF Deadline, Expire
<1>9. QED  BY <1>1, <1>2, <1>3, <1>4, <1>5, <1>6, <1>7, <1>8 DEF Next

\* The system starts where AtomicUpload does.
LEMMA InitRefines == Init => Atomic!Init
<1> SUFFICES ASSUME Init PROVE Atomic!Init
  OBVIOUS
<1>1. Held = {} /\ Outcome = [u \in Uploads |-> "open"]
  BY DEF Init, Held, Outcome
<1>2. \A s \in Sessions : Senders(s) = {}
  BY DEF Init, Senders, Procs
<1>3. Sends = [s \in Sessions |-> {}]
  BY <1>2 DEF Sends
<1>4. QED  BY <1>1, <1>3 DEF Init, Atomic!Init

\* An upload that is open is in the table of its session, where the count of UploadReserve
\* (api/upload.go) finds it.
THEOREM RegisteredHolds == Spec => []Registered
BY InitRegistered, RegisteredStep, IInvHolds, PTL DEF Spec

\* The handlers of api/upload.go, the eviction and the retry implement AtomicUpload: what
\* they do in many steps under two locks is, to the user and the operator, one step each.
THEOREM UploadImplements == Spec => ImplementsAtomicUpload
BY InitRefines, StepRefines, IInvHolds, RegisteredHolds, PTL
   DEF Spec, ImplementsAtomicUpload, Atomic!Spec
=============================================================================
