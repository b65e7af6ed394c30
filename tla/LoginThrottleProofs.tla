------------------------- MODULE LoginThrottleProofs -------------------------
(***************************************************************************)
(* Proofs about LoginThrottle, for every set of accounts, addresses and     *)
(* goroutines and every limit: the inductive invariant, one lemma per       *)
(* action, and the safety properties that follow from it.                   *)
(***************************************************************************)
EXTENDS LoginThrottle, FiniteSetTheorems, TLAPS

\* The dials of an account that are not settled are finitely many.
LEMMA OpenFinite ==
  ASSUME NEW a \in Accounts
  PROVE  IsFiniteSet(Open(a)) /\ Cardinality(Open(a)) \in Nat
BY ThrottleAssumption, FS_Subset, FS_CardinalityType DEF Open

\* A dial that is not settled is counted, so its account has a count to lower.
LEMMA OpenCounted ==
  ASSUME NEW a \in Accounts, NEW p \in Open(a)
  PROVE  Cardinality(Open(a)) >= 1
BY OpenFinite, FS_EmptySet

\* A new dial raises the count of its own account by one and no other.
LEMMA OpenAdds ==
  ASSUME TypeOK, NEW p \in Attempts, NEW a \in Accounts, account[p] = None,
         account' = [account EXCEPT ![p] = a], settled' = [settled EXCEPT ![p] = FALSE]
  PROVE  \A b \in Accounts :
           /\ IsFiniteSet(Open(b)')
           /\ Cardinality(Open(b)') =
                IF b = a THEN Cardinality(Open(b)) + 1 ELSE Cardinality(Open(b))
<1> TAKE b \in Accounts
<1>1. None \notin Accounts
  BY ThrottleAssumption DEF Keys
<1>2. p \notin Open(b)
  BY <1>1 DEF Open
<1>3. Open(b)' = IF b = a THEN Open(b) \cup {p} ELSE Open(b)
  BY <1>1 DEF Open, TypeOK
<1> QED BY <1>2, <1>3, OpenFinite, FS_AddElement

\* Settling a dial lowers the count of its own account by one, the first time only.
LEMMA OpenRemoves ==
  ASSUME TypeOK, NEW p \in Attempts, account[p] \in Accounts,
         settled' = [settled EXCEPT ![p] = TRUE],
         account' = account \/ account' = [account EXCEPT ![p] = None]
  PROVE  \A b \in Accounts :
           /\ IsFiniteSet(Open(b)')
           /\ Cardinality(Open(b)') =
                IF b = account[p] /\ ~settled[p]
                THEN Cardinality(Open(b)) - 1 ELSE Cardinality(Open(b))
<1> TAKE b \in Accounts
<1>1. None \notin Accounts
  BY ThrottleAssumption DEF Keys
<1>2. Open(b)' = Open(b) \ {p}
  BY <1>1 DEF Open, TypeOK
<1>3. p \in Open(b) <=> b = account[p] /\ ~settled[p]
  BY DEF Open
<1> QED BY <1>2, <1>3, OpenFinite, FS_RemoveElement

-----------------------------------------------------------------------------
\* What the sets of keys are made of.
LEMMA LeftKeys ==
  ASSUME TypeOK, NEW a \in Accounts, NEW i \in IPs
  PROVE  /\ a \in Keys /\ i \in Keys /\ a # i
         /\ Left(a, i) \subseteq entries
         /\ IsFiniteSet(entries)
         /\ Counted(a, i) \in Nat
         /\ \A k \in entries : k \notin Left(a, i) => Droppable(k) /\ k \in {a, i}
         /\ \A k \in Left(a, i) : k \in {a, i} => ~Droppable(k)
BY ThrottleAssumption, FS_Subset DEF Keys, Left, Stale, Counted, TypeOK

\* The map only shrinks to a set that has a smaller cardinality.
LEMMA Shrinks ==
  ASSUME TypeOK, NEW S \in SUBSET entries
  PROVE  IsFiniteSet(S) /\ Cardinality(S) <= Cardinality(entries)
         /\ Cardinality(S) \in Nat /\ Cardinality(entries) \in Nat
<1>1. IsFiniteSet(entries)
  BY ThrottleAssumption, FS_Subset DEF TypeOK
<1> QED BY <1>1, FS_Subset, FS_CardinalityType

\* An account whose entry may be dropped has no dial left to settle, and its last
\* rejection is a Cooldown ago.
LEMMA DroppedAccount ==
  ASSUME IInv, NEW a \in Accounts, Droppable(a)
  PROVE  /\ \A p \in Attempts : account[p] = a => settled[p]
         /\ ~(streak[a] > 0 /\ now <= lastFail[a] + Cooldown)
<1>1. Cardinality(Open(a)) = 0
  BY DEF IInv, InFlightExact, Droppable
<1>2. Open(a) = {}
  BY <1>1, OpenFinite, FS_EmptySet
<1>3. \A p \in Attempts : account[p] = a => settled[p]
  BY <1>2 DEF Open
<1>4. ~(streak[a] > 0 /\ now <= lastFail[a] + Cooldown)
  <2> SUFFICES ASSUME streak[a] > 0, now <= lastFail[a] + Cooldown PROVE FALSE
    OBVIOUS
  <2>1. a \in entries /\ attempts[a] >= streak[a]
    BY DEF IInv, AccountKept
  <2>2. attempts[a] > 0
    BY <2>1, ThrottleAssumption DEF IInv, TypeOK, Keys
  <2>3. expiresAt[a] = lastFail[a] + Cooldown
    BY <2>1, <2>2 DEF IInv, AccountKept
  <2> QED BY <2>3, ThrottleAssumption DEF IInv, TypeOK, Droppable, Expired, Keys
<1> QED BY <1>3, <1>4

\* The same for the entry of an address.
LEMMA DroppedAddress ==
  ASSUME IInv, NEW i \in IPs, Droppable(i)
  PROVE  ~(burst[i] > 0 /\ now <= lastDial[i] + Cooldown)
BY ThrottleAssumption DEF IInv, TypeOK, AddressKept, Droppable, Expired, Keys

\* Dropping entries that may be dropped detaches no dial that is not settled.
LEMMA DetachKeeps ==
  ASSUME IInv, NEW D \in SUBSET Keys, \A k \in D : Droppable(k)
  PROVE  /\ Detach(D) \in [Attempts -> BOOLEAN]
         /\ \A p \in Attempts : pc[p] # "idle" /\ ~settled[p] =>
              Detach(D)[p] /\ account[p] \in entries \ D
<1>1. Detach(D) \in [Attempts -> BOOLEAN]
  BY DEF Detach, IInv, TypeOK
<1>2. ASSUME NEW p \in Attempts, pc[p] # "idle", ~settled[p]
      PROVE  Detach(D)[p] /\ account[p] \in entries \ D
  <2>1. attached[p] /\ account[p] \in entries /\ account[p] # None
    BY <1>2 DEF IInv, Attached
  <2>2. account[p] \in Accounts
    BY <2>1 DEF IInv, TypeOK
  <2>3. ~Droppable(account[p])
    BY <1>2, <2>2, DroppedAccount
  <2> QED BY <2>1, <2>3 DEF Detach
<1> QED BY <1>1, <1>2

-----------------------------------------------------------------------------
(* One lemma per action.                                                    *)

\* The invariant holds at the start.
LEMMA InitIInv == Init => IInv
<1> SUFFICES ASSUME Init PROVE IInv
  OBVIOUS
<1>1. TypeOK
  BY DEF Init, TypeOK, Keys
<1>2. Attached
  BY DEF Init, Attached
<1>3. InFlightExact
  <2> SUFFICES ASSUME NEW a \in Accounts PROVE Cardinality(Open(a)) = 0
    BY DEF Init, InFlightExact
  <2>1. Open(a) = {}
    BY ThrottleAssumption DEF Init, Open, Keys
  <2> QED BY <2>1, FS_EmptySet
<1>4. AccountKept /\ AddressKept /\ StreakBounded /\ BurstBounded
  BY ThrottleAssumption DEF Init, AccountKept, AddressKept, StreakBounded, BurstBounded
<1>5. EntriesBounded
  BY FS_EmptySet, ThrottleAssumption DEF Init, EntriesBounded
<1> QED BY <1>1, <1>2, <1>3, <1>4, <1>5 DEF IInv

\* An admission keeps the invariant: it starts a new count, or adds to one that
\* was under its limit.
LEMMA AdmitStep ==
  ASSUME IInv, NEW p \in Attempts, NEW a \in Accounts, NEW i \in IPs, Admit(p, a, i)
  PROVE  IInv'
<1> USE DEF Admit
<1>0. TypeOK
  BY DEF IInv
<1>1. /\ a \in Keys /\ i \in Keys /\ a # i /\ Left(a, i) \subseteq entries
      /\ Counted(a, i) \in Nat
      /\ \A k \in entries : k \notin Left(a, i) => Droppable(k) /\ k \in {a, i}
      /\ \A k \in Left(a, i) : k \in {a, i} => ~Droppable(k)
  BY <1>0, LeftKeys
<1>2. /\ Detach(Stale(a, i)) \in [Attempts -> BOOLEAN]
      /\ \A q \in Attempts : pc[q] # "idle" /\ ~settled[q] =>
           Detach(Stale(a, i))[q] /\ account[q] \in Left(a, i)
  BY <1>1, DetachKeeps DEF Stale, Left
<1>3. TypeOK'
  BY <1>0, <1>1, <1>2, ThrottleAssumption DEF TypeOK
<1>4. account[p] = None
  BY DEF IInv, Attached
<1>5. Attached'
  BY <1>0, <1>2, <1>4, ThrottleAssumption DEF Attached, IInv, TypeOK, Keys
<1>6. InFlightExact'
  <2> SUFFICES ASSUME NEW b \in Accounts
               PROVE  Cardinality(Open(b)') = IF b \in entries' THEN inFlight'[b] ELSE 0
    BY DEF InFlightExact
  <2>1. Cardinality(Open(b)') =
          IF b = a THEN Cardinality(Open(b)) + 1 ELSE Cardinality(Open(b))
    BY <1>0, <1>4, OpenAdds
  <2>2. Cardinality(Open(b)) = IF b \in entries THEN inFlight[b] ELSE 0
    BY DEF IInv, InFlightExact
  <2>3. b \in Keys /\ b # i
    BY ThrottleAssumption DEF Keys
  <2>4. CASE b = a
    <3>1. a \in entries /\ a \notin Left(a, i) => inFlight[a] = 0
      BY <1>1 DEF Droppable
    <3> QED BY <2>1, <2>2, <2>3, <2>4, <3>1, <1>0, <1>1 DEF TypeOK
  <2>5. CASE b # a
    <3>1. b \in Left(a, i) <=> b \in entries
      BY <2>3, <2>5, <1>1
    <3> QED BY <2>1, <2>2, <2>3, <2>5, <3>1, <1>0, <1>1 DEF TypeOK
  <2> QED BY <2>4, <2>5
<1>7. AccountKept'
  <2> SUFFICES ASSUME NEW b \in Accounts
               PROVE  /\ b \in entries' => attempts'[b] + inFlight'[b] <= MaxAttempts
                      /\ b \in entries' /\ attempts'[b] > 0 =>
                           expiresAt'[b] = lastFail[b] + Cooldown
                      /\ streak[b] > 0 /\ now <= lastFail[b] + Cooldown =>
                           b \in entries' /\ attempts'[b] >= streak[b]
    BY DEF AccountKept
  <2>1. b \in Keys /\ b # i
    BY ThrottleAssumption DEF Keys
  <2>2. /\ b \in entries => attempts[b] + inFlight[b] <= MaxAttempts
        /\ b \in entries /\ attempts[b] > 0 => expiresAt[b] = lastFail[b] + Cooldown
        /\ streak[b] > 0 /\ now <= lastFail[b] + Cooldown =>
             b \in entries /\ attempts[b] >= streak[b]
    BY DEF IInv, AccountKept
  <2>3. CASE b = a
    <3>1. attempts'[a] = Counted(a, i) /\ a \in entries'
      BY <1>0, <1>1 DEF TypeOK
    <3>2. inFlight'[a] = IF a \in Left(a, i) THEN inFlight[a] + 1 ELSE 1
      BY <1>0, <1>1 DEF TypeOK
    <3>3. expiresAt'[a] =
            IF a \in Left(a, i) /\ ~Expired(a) THEN expiresAt[a] ELSE now + Cooldown
      BY <1>0, <1>1 DEF TypeOK
    <3>4. MaxAttempts >= 1 /\ (a \in Left(a, i) => Counted(a, i) + inFlight[a] < MaxAttempts)
      BY DEF Admissible, UnderLimit
    <3>5. attempts'[a] + inFlight'[a] <= MaxAttempts
      BY <3>1, <3>2, <3>4, <1>0, <1>1, ThrottleAssumption DEF TypeOK, Counted
    <3>6. attempts'[a] > 0 => expiresAt'[a] = lastFail[a] + Cooldown
      BY <3>1, <3>3, <2>2, <2>3, <1>1 DEF Counted
    <3>7. streak[a] > 0 /\ now <= lastFail[a] + Cooldown => attempts'[a] >= streak[a]
      <4> SUFFICES ASSUME streak[a] > 0, now <= lastFail[a] + Cooldown
                   PROVE  attempts'[a] >= streak[a]
        OBVIOUS
      <4>1. a \in entries /\ attempts[a] >= streak[a] /\ attempts[a] > 0
        BY <2>2, <2>3, <1>0, <1>1 DEF TypeOK
      <4>2. a \in Left(a, i)
        BY <4>1, <1>1, DroppedAccount
      <4>3. ~Expired(a)
        BY <4>1, <2>2, <2>3, <1>0, <1>1, ThrottleAssumption DEF Expired, TypeOK
      <4> QED BY <4>1, <4>2, <4>3, <3>1 DEF Counted
    <3> QED BY <2>3, <3>1, <3>5, <3>6, <3>7
  <2>4. CASE b # a
    <3>1. b \in entries' <=> b \in entries
      BY <2>1, <2>4, <1>1
    <3>2. attempts'[b] = attempts[b] /\ inFlight'[b] = inFlight[b] /\ expiresAt'[b] = expiresAt[b]
      BY <2>1, <2>4, <1>0 DEF TypeOK
    <3> QED BY <2>2, <3>1, <3>2
  <2> QED BY <2>3, <2>4
<1>8. AddressKept' /\ BurstBounded'
  <2> SUFFICES ASSUME NEW j \in IPs
               PROVE  /\ j \in entries' => /\ inFlight'[j] = 0
                                           /\ attempts'[j] <= 4 * MaxAttempts
                                           /\ expiresAt'[j] = lastDial'[j] + Cooldown
                      /\ burst'[j] > 0 /\ now <= lastDial'[j] + Cooldown =>
                           j \in entries' /\ attempts'[j] >= burst'[j]
                      /\ burst'[j] <= 4 * MaxAttempts
    BY DEF AddressKept, BurstBounded
  <2>1. j \in Keys /\ j # a
    BY ThrottleAssumption DEF Keys
  <2>2. /\ j \in entries => /\ inFlight[j] = 0
                            /\ attempts[j] <= 4 * MaxAttempts
                            /\ expiresAt[j] = lastDial[j] + Cooldown
        /\ burst[j] > 0 /\ now <= lastDial[j] + Cooldown =>
             j \in entries /\ attempts[j] >= burst[j]
        /\ burst[j] <= 4 * MaxAttempts
    BY DEF IInv, AddressKept, BurstBounded
  <2>3. CASE j = i
    <3>1. i \in entries' /\ attempts'[i] = (IF i \in Left(a, i) THEN attempts[i] + 1 ELSE 1)
      BY <1>0, <1>1 DEF TypeOK
    <3>2. inFlight'[i] = 0 /\ expiresAt'[i] = lastDial'[i] + Cooldown /\ lastDial'[i] = now
      BY <1>0, <1>1, <2>2, <2>3 DEF TypeOK
    <3>3. burst'[i] = IF now <= lastDial[i] + Cooldown THEN burst[i] + 1 ELSE 1
      BY <1>0 DEF TypeOK
    <3>4. attempts'[i] <= 4 * MaxAttempts
      BY <3>1, <1>0, <1>1, ThrottleAssumption DEF Admissible, TypeOK
    <3>5. attempts'[i] >= burst'[i]
      <4>1. CASE burst[i] > 0 /\ now <= lastDial[i] + Cooldown
        <5>1. i \in Left(a, i)
          BY <4>1, <2>2, <2>3, <1>1, DroppedAddress
        <5> QED BY <5>1, <4>1, <3>1, <3>3, <2>2, <2>3, <1>0, <1>1 DEF TypeOK
      <4>2. CASE ~(burst[i] > 0 /\ now <= lastDial[i] + Cooldown)
        BY <4>2, <3>1, <3>3, <1>0, <1>1 DEF TypeOK
      <4> QED BY <4>1, <4>2
    <3> QED BY <2>3, <3>1, <3>2, <3>4, <3>5, <1>3, <1>1, ThrottleAssumption DEF TypeOK
  <2>4. CASE j # i
    <3>1. j \in entries' <=> j \in entries
      BY <2>1, <2>4, <1>1
    <3>2. /\ attempts'[j] = attempts[j] /\ inFlight'[j] = inFlight[j]
          /\ expiresAt'[j] = expiresAt[j]
          /\ burst'[j] = burst[j] /\ lastDial'[j] = lastDial[j]
      BY <2>1, <2>4, <1>0 DEF TypeOK
    <3> QED BY <2>2, <3>1, <3>2
  <2> QED BY <2>3, <2>4
<1>9. EntriesBounded' /\ StreakBounded'
  BY DEF EntriesBounded, Admissible, HasRoom, IInv, StreakBounded
<1> QED BY <1>3, <1>5, <1>6, <1>7, <1>8, <1>9 DEF IInv

\* A refusal keeps the invariant: it only forgets what is over.
LEMMA RefuseStep ==
  ASSUME IInv, NEW p \in Attempts, NEW a \in Accounts, NEW i \in IPs, Refuse(p, a, i)
  PROVE  IInv'
<1> USE DEF Refuse, history
<1>0. TypeOK
  BY DEF IInv
<1>1. /\ a \in Keys /\ i \in Keys /\ a # i /\ Left(a, i) \subseteq entries
      /\ Counted(a, i) \in Nat
      /\ \A k \in entries : k \notin Left(a, i) => Droppable(k) /\ k \in {a, i}
  BY <1>0, LeftKeys
<1>2. /\ attached' \in [Attempts -> BOOLEAN]
      /\ \A q \in Attempts : pc[q] # "idle" /\ ~settled[q] =>
           attached'[q] /\ account[q] \in entries'
  BY <1>1, DetachKeeps DEF Stale, Left
<1>3. TypeOK'
  BY <1>0, <1>1, <1>2 DEF TypeOK
<1>4. \A k \in Keys : attempts'[k] = IF k = a /\ a \in entries' THEN Counted(a, i) ELSE attempts[k]
  BY <1>0, <1>1 DEF TypeOK
<1>5. Attached'
  BY <1>2 DEF IInv, Attached
<1>6. InFlightExact'
  <2> SUFFICES ASSUME NEW b \in Accounts
               PROVE  Cardinality(Open(b)) = IF b \in entries' THEN inFlight[b] ELSE 0
    BY DEF InFlightExact, Open
  <2> QED BY <1>1 DEF IInv, InFlightExact, Droppable
<1>7. AccountKept'
  <2> SUFFICES ASSUME NEW b \in Accounts
               PROVE  /\ b \in entries' => attempts'[b] + inFlight[b] <= MaxAttempts
                      /\ b \in entries' /\ attempts'[b] > 0 =>
                           expiresAt[b] = lastFail[b] + Cooldown
                      /\ streak[b] > 0 /\ now <= lastFail[b] + Cooldown =>
                           b \in entries' /\ attempts'[b] >= streak[b]
    BY DEF AccountKept
  <2>1. b \in Keys
    BY DEF Keys
  <2>2. /\ b \in entries => attempts[b] + inFlight[b] <= MaxAttempts
        /\ b \in entries /\ attempts[b] > 0 => expiresAt[b] = lastFail[b] + Cooldown
        /\ streak[b] > 0 /\ now <= lastFail[b] + Cooldown =>
             b \in entries /\ attempts[b] >= streak[b]
    BY DEF IInv, AccountKept
  <2>3. attempts'[b] <= attempts[b]
    BY <1>0, <1>4, <2>1 DEF TypeOK, Counted
  <2>4. b \in entries' => b \in entries
    BY <1>1
  <2>5. ASSUME streak[b] > 0, now <= lastFail[b] + Cooldown
        PROVE  b \in entries' /\ attempts'[b] >= streak[b]
    <3>1. b \in entries /\ attempts[b] >= streak[b] /\ attempts[b] > 0
      BY <2>2, <2>5, <1>0, <2>1 DEF TypeOK
    <3>2. b \in Left(a, i)
      BY <3>1, <2>5, <1>1, DroppedAccount
    <3>3. ~Expired(b)
      BY <3>1, <2>2, <2>5, <1>0, <2>1, ThrottleAssumption DEF Expired, TypeOK
    <3> QED BY <3>1, <3>2, <3>3, <1>4, <2>1 DEF Counted
  <2> QED BY <2>1, <2>2, <2>3, <2>4, <2>5, <1>0, <1>3, ThrottleAssumption DEF TypeOK
<1>8. AddressKept'
  <2> SUFFICES ASSUME NEW j \in IPs
               PROVE  /\ j \in entries' => /\ inFlight[j] = 0
                                           /\ attempts[j] <= 4 * MaxAttempts
                                           /\ expiresAt[j] = lastDial[j] + Cooldown
                      /\ burst[j] > 0 /\ now <= lastDial[j] + Cooldown =>
                           j \in entries' /\ attempts[j] >= burst[j]
    BY <1>4, ThrottleAssumption DEF AddressKept, Keys
  <2> QED BY <1>1, DroppedAddress DEF IInv, AddressKept
<1>9. EntriesBounded' /\ StreakBounded' /\ BurstBounded'
  BY <1>0, <1>1, <1>3, Shrinks, ThrottleAssumption
     DEF EntriesBounded, IInv, StreakBounded, BurstBounded
<1> QED BY <1>3, <1>5, <1>6, <1>7, <1>8, <1>9 DEF IInv

\* What settle leaves behind, the first time and any other.
LEMMA SettleStep ==
  ASSUME IInv, NEW p \in Attempts, NEW failed \in BOOLEAN, Settle(p, failed),
         pc[p] # "idle"
  PROVE  /\ account[p] \in Accounts /\ account[p] \in Keys
         /\ settled' \in [Attempts -> BOOLEAN]
         /\ ~settled[p] => /\ account[p] \in entries
                           /\ inFlight[account[p]] >= 1
         /\ attempts' \in [Keys -> Nat] /\ inFlight' \in [Keys -> Nat]
         /\ expiresAt' \in [Keys -> Nat]
         /\ \A k \in Keys :
              LET hit == k = account[p] /\ ~settled[p] IN
              /\ inFlight'[k] = IF hit THEN inFlight[k] - 1 ELSE inFlight[k]
              /\ attempts'[k] = IF hit /\ failed THEN attempts[k] + 1 ELSE attempts[k]
              /\ expiresAt'[k] = IF hit /\ failed THEN now + Cooldown ELSE expiresAt[k]
<1>0. TypeOK
  BY DEF IInv
<1>1. account[p] \in Accounts /\ account[p] \in Keys
  BY <1>0 DEF IInv, Attached, TypeOK, Keys
<1>2. ~settled[p] => attached[p] /\ account[p] \in entries
  BY DEF IInv, Attached
<1>3. ~settled[p] => inFlight[account[p]] >= 1
  <2> SUFFICES ASSUME ~settled[p] PROVE inFlight[account[p]] >= 1
    OBVIOUS
  <2>1. p \in Open(account[p])
    BY DEF Open
  <2> QED BY <2>1, <1>1, <1>2, OpenCounted DEF IInv, InFlightExact
<1>4. settled' \in [Attempts -> BOOLEAN]
  BY <1>0 DEF Settle, TypeOK
<1>5. \A k \in Keys :
         LET hit == k = account[p] /\ ~settled[p] IN
         /\ inFlight'[k] = IF hit THEN inFlight[k] - 1 ELSE inFlight[k]
         /\ attempts'[k] = IF hit /\ failed THEN attempts[k] + 1 ELSE attempts[k]
         /\ expiresAt'[k] = IF hit /\ failed THEN now + Cooldown ELSE expiresAt[k]
  BY <1>0, <1>1, <1>2 DEF Settle, TypeOK
<1>6. /\ attempts' \in [Keys -> Nat] /\ inFlight' \in [Keys -> Nat]
      /\ expiresAt' \in [Keys -> Nat]
  BY <1>0, <1>1, <1>2, <1>3, ThrottleAssumption DEF Settle, TypeOK
<1> QED BY <1>1, <1>2, <1>3, <1>4, <1>5, <1>6

\* A failed dial keeps the invariant: it was counted in flight, so its rejection
\* cannot take the account over its limit.
LEMMA DialFailedStep ==
  ASSUME IInv, NEW p \in Attempts, NEW rejected \in BOOLEAN, DialFailed(p, rejected)
  PROVE  IInv'
<1> DEFINE a == account[p]
<1>0. TypeOK /\ pc[p] = "dialing" /\ ~settled[p]
  BY DEF IInv, DialFailed, Attached
<1>1. /\ a \in Accounts /\ a \in Keys /\ a \in entries /\ inFlight[a] >= 1
      /\ settled' \in [Attempts -> BOOLEAN]
      /\ attempts' \in [Keys -> Nat] /\ inFlight' \in [Keys -> Nat]
      /\ expiresAt' \in [Keys -> Nat]
      /\ \A k \in Keys :
           /\ inFlight'[k] = IF k = a THEN inFlight[k] - 1 ELSE inFlight[k]
           /\ attempts'[k] = IF k = a /\ rejected THEN attempts[k] + 1 ELSE attempts[k]
           /\ expiresAt'[k] = IF k = a /\ rejected THEN now + Cooldown ELSE expiresAt[k]
  BY <1>0, SettleStep DEF DialFailed
<1>2. /\ streak' \in [Accounts -> Nat] /\ lastFail' \in [Accounts -> Nat]
      /\ \A b \in Accounts :
           IF b = a /\ rejected
           THEN /\ streak'[b] = IF now <= lastFail[b] + Cooldown THEN streak[b] + 1 ELSE 1
                /\ lastFail'[b] = now
           ELSE streak'[b] = streak[b] /\ lastFail'[b] = lastFail[b]
  BY <1>0, <1>1 DEF DialFailed, TypeOK
<1>3. TypeOK'
  BY <1>0, <1>1, <1>2 DEF TypeOK, DialFailed
<1>4. Attached'
  BY <1>0 DEF IInv, Attached, DialFailed, Settle, TypeOK
<1>5. InFlightExact'
  <2>1. \A b \in Accounts :
          Cardinality(Open(b)') =
            IF b = a THEN Cardinality(Open(b)) - 1 ELSE Cardinality(Open(b))
    <3>1. account' = account /\ settled' = [settled EXCEPT ![p] = TRUE]
      BY DEF DialFailed, Settle
    <3> QED BY <3>1, <1>0, <1>1, OpenRemoves
  <2> QED BY <2>1, <1>0, <1>1 DEF IInv, InFlightExact, DialFailed, Keys, TypeOK
<1>6. AccountKept' /\ StreakBounded'
  <2> SUFFICES ASSUME NEW b \in Accounts
               PROVE  /\ b \in entries => attempts'[b] + inFlight'[b] <= MaxAttempts
                      /\ b \in entries /\ attempts'[b] > 0 =>
                           expiresAt'[b] = lastFail'[b] + Cooldown
                      /\ streak'[b] > 0 /\ now <= lastFail'[b] + Cooldown =>
                           b \in entries /\ attempts'[b] >= streak'[b]
                      /\ streak'[b] <= MaxAttempts
    BY DEF AccountKept, StreakBounded, DialFailed
  <2>1. /\ b \in Keys
        /\ b \in entries => attempts[b] + inFlight[b] <= MaxAttempts
        /\ b \in entries /\ attempts[b] > 0 => expiresAt[b] = lastFail[b] + Cooldown
        /\ streak[b] > 0 /\ now <= lastFail[b] + Cooldown =>
             b \in entries /\ attempts[b] >= streak[b]
        /\ streak[b] <= MaxAttempts
    BY DEF IInv, AccountKept, StreakBounded, Keys
  <2>2. /\ attempts[b] \in Nat /\ inFlight[b] \in Nat /\ streak[b] \in Nat
        /\ now \in Nat /\ lastFail[b] \in Nat /\ MaxAttempts \in Nat /\ Cooldown \in Nat
    BY <1>0, <2>1, ThrottleAssumption DEF TypeOK
  <2>3. CASE b = a /\ rejected
    BY <2>1, <2>2, <2>3, <1>1, <1>2
  <2>4. CASE b = a /\ ~rejected
    BY <2>1, <2>2, <2>4, <1>1, <1>2
  <2>5. CASE b # a
    BY <2>1, <2>2, <2>5, <1>1, <1>2
  <2> QED BY <2>3, <2>4, <2>5
<1>7. AddressKept' /\ BurstBounded' /\ EntriesBounded'
  BY <1>1, ThrottleAssumption
     DEF IInv, AddressKept, BurstBounded, EntriesBounded, DialFailed, Keys
<1> QED BY <1>3, <1>4, <1>5, <1>6, <1>7 DEF IInv

\* The deferred settle(false) keeps the invariant, whether or not it is the first.
LEMMA ReturnStep ==
  ASSUME IInv, NEW p \in Attempts, Return(p)
  PROVE  IInv'
<1> DEFINE a == account[p]
<1>0. TypeOK /\ pc[p] = "returning"
  BY DEF IInv, Return, history
<1>1. /\ a \in Accounts /\ a \in Keys
      /\ ~settled[p] => a \in entries /\ inFlight[a] >= 1
      /\ settled' \in [Attempts -> BOOLEAN]
      /\ attempts' \in [Keys -> Nat] /\ inFlight' \in [Keys -> Nat]
      /\ expiresAt' \in [Keys -> Nat]
      /\ \A k \in Keys :
           /\ inFlight'[k] = IF k = a /\ ~settled[p] THEN inFlight[k] - 1 ELSE inFlight[k]
           /\ attempts'[k] = attempts[k]
           /\ expiresAt'[k] = expiresAt[k]
  BY <1>0, SettleStep DEF Return, history
<1>2. TypeOK'
  BY <1>0, <1>1 DEF TypeOK, Return, history
<1>3. Attached'
  BY <1>0, ThrottleAssumption DEF IInv, Attached, Return, Settle, TypeOK, Keys, history
<1>4. InFlightExact'
  <2>1. \A b \in Accounts :
          Cardinality(Open(b)') =
            IF b = a /\ ~settled[p] THEN Cardinality(Open(b)) - 1 ELSE Cardinality(Open(b))
    BY <1>0, <1>1, OpenRemoves DEF Return, Settle, history
  <2> QED BY <2>1, <1>0, <1>1 DEF IInv, InFlightExact, Return, Keys, TypeOK, history
<1>5. AccountKept'
  <2>1. \A b \in Accounts : inFlight'[b] <= inFlight[b]
    BY <1>0, <1>1 DEF TypeOK, Keys
  <2> QED BY <2>1, <1>0, <1>1, <1>2, ThrottleAssumption DEF IInv, AccountKept, Return, Keys, TypeOK, history
<1>6. AddressKept' /\ StreakBounded' /\ BurstBounded' /\ EntriesBounded'
  BY <1>1, ThrottleAssumption
     DEF IInv, AddressKept, StreakBounded, BurstBounded, EntriesBounded, Return, Keys, history
<1> QED BY <1>2, <1>3, <1>4, <1>5, <1>6 DEF IInv

\* The sweep keeps the invariant: what it drops is over.
LEMMA CleanupStep ==
  ASSUME IInv, Cleanup
  PROVE  IInv'
<1> DEFINE D == {k \in entries : Droppable(k)}
<1>0. TypeOK /\ entries' = entries \ D /\ D \subseteq Keys
  BY DEF IInv, Cleanup, TypeOK, entry, history
<1>1. /\ attached' \in [Attempts -> BOOLEAN]
      /\ \A q \in Attempts : pc[q] # "idle" /\ ~settled[q] =>
           attached'[q] /\ account[q] \in entries'
  BY <1>0, DetachKeeps DEF Cleanup, entry, history
<1>2. TypeOK' /\ Attached'
  BY <1>0, <1>1 DEF IInv, TypeOK, Attached, Cleanup, entry, history
<1>3. InFlightExact'
  BY <1>0 DEF IInv, InFlightExact, Cleanup, Open, Droppable, entry, history
<1>4. AccountKept'
  <2>1. \A a \in Accounts : a \in D => ~(streak[a] > 0 /\ now <= lastFail[a] + Cooldown)
    BY DroppedAccount
  <2> QED BY <2>1, <1>0 DEF IInv, AccountKept, Cleanup, entry, history
<1>5. AddressKept'
  <2>1. \A i \in IPs : i \in D => ~(burst[i] > 0 /\ now <= lastDial[i] + Cooldown)
    BY DroppedAddress
  <2> QED BY <2>1, <1>0 DEF IInv, AddressKept, Cleanup, entry, history
<1>6. EntriesBounded' /\ StreakBounded' /\ BurstBounded'
  BY <1>0, <1>2, Shrinks, ThrottleAssumption
     DEF IInv, EntriesBounded, StreakBounded, BurstBounded, Cleanup, entry, history
<1> QED BY <1>2, <1>3, <1>4, <1>5, <1>6 DEF IInv

\* The clock keeps the invariant.
LEMMA TickStep ==
  ASSUME IInv, Tick
  PROVE  IInv'
<1>1. TypeOK' /\ Attached' /\ InFlightExact'
  BY DEF IInv, Tick, TypeOK, Attached, InFlightExact, Open, entry, caller, history
<1>2. AccountKept' /\ AddressKept'
  BY ThrottleAssumption DEF IInv, Tick, TypeOK, AccountKept, AddressKept, entry, caller, history
<1>3. EntriesBounded' /\ StreakBounded' /\ BurstBounded'
  BY DEF IInv, Tick, EntriesBounded, StreakBounded, BurstBounded, entry, caller, history
<1> QED BY <1>1, <1>2, <1>3 DEF IInv

\* Every step keeps the invariant.
LEMMA IInvStep == IInv /\ [Next]_vars => IInv'
<1> SUFFICES ASSUME IInv, [Next]_vars PROVE IInv'
  OBVIOUS
<1>1. ASSUME NEW p \in Attempts, NEW a \in Accounts, NEW i \in IPs,
             Admit(p, a, i) \/ Refuse(p, a, i)
      PROVE  IInv'
  BY <1>1, AdmitStep, RefuseStep
<1>2. ASSUME NEW p \in Attempts, NEW rejected \in BOOLEAN, DialFailed(p, rejected)
      PROVE  IInv'
  BY <1>2, DialFailedStep
<1>3. ASSUME NEW p \in Attempts, DialEnded(p)
      PROVE  IInv'
  BY <1>3 DEF DialEnded, IInv, TypeOK, Attached, InFlightExact, Open, AccountKept, AddressKept,
              EntriesBounded, StreakBounded, BurstBounded, entry, history
<1>4. ASSUME NEW p \in Attempts, Return(p)
      PROVE  IInv'
  BY <1>4, ReturnStep
<1>5. CASE Cleanup
  BY <1>5, CleanupStep
<1>6. CASE Tick
  BY <1>6, TickStep
<1>7. CASE UNCHANGED vars
  BY <1>7 DEF vars, entry, caller, history, IInv, TypeOK, Attached, InFlightExact, Open,
              AccountKept, AddressKept, EntriesBounded, StreakBounded, BurstBounded
<1> QED BY <1>1, <1>2, <1>3, <1>4, <1>5, <1>6, <1>7 DEF Next

-----------------------------------------------------------------------------
(* The theorems.                                                            *)

\* The invariant holds in every reachable state.
THEOREM IInvHolds == Spec => []IInv
BY InitIInv, IInvStep, PTL DEF Spec

\* The throttle is always of its type; in particular no count goes below zero.
THEOREM TypeCorrect == Spec => []TypeOK
<1>1. IInv => TypeOK
  BY DEF IInv
<1> QED BY <1>1, IInvHolds, PTL

\* However logins interleave, an account is never rejected more than MaxAttempts
\* times in a row without a Cooldown between two of the rejections.
THEOREM StreakHolds == Spec => []StreakBounded
<1>1. IInv => StreakBounded
  BY DEF IInv
<1> QED BY <1>1, IInvHolds, PTL

\* An address never starts more than 4 * MaxAttempts dials in a row.
THEOREM BurstHolds == Spec => []BurstBounded
<1>1. IInv => BurstBounded
  BY DEF IInv
<1> QED BY <1>1, IInvHolds, PTL

\* The in-flight count of an account is exact.
THEOREM InFlightHolds == Spec => []InFlightExact
<1>1. IInv => InFlightExact
  BY DEF IInv
<1> QED BY <1>1, IInvHolds, PTL

\* The map of entries never outgrows its cap.
THEOREM EntriesHold == Spec => []EntriesBounded
<1>1. IInv => EntriesBounded
  BY DEF IInv
<1> QED BY <1>1, IInvHolds, PTL

\* Every lock-out ends: a quiet account is admitted from a quiet address.
THEOREM LockoutHolds == Spec => []LockoutEnds
<1>1. IInv => LockoutEnds
  <2> SUFFICES ASSUME IInv, NEW a \in Accounts, NEW i \in IPs,
                      Quiet(a, i), Open(a) = {}, HasRoom(a, i), MaxAttempts >= 1
               PROVE  Admissible(a, i)
    BY DEF LockoutEnds
  <2>0. TypeOK
    BY DEF IInv
  <2>1. /\ a \in Keys /\ i \in Keys /\ Left(a, i) \subseteq entries
        /\ \A k \in Left(a, i) : k \in {a, i} => ~Droppable(k)
    BY <2>0, LeftKeys
  <2>2. a \in Left(a, i) => inFlight[a] = 0
    BY <2>1, FS_EmptySet DEF IInv, InFlightExact
  <2>3. UnderLimit(a, i)
    <3> SUFFICES ASSUME a \in Left(a, i) PROVE Counted(a, i) + inFlight[a] < MaxAttempts
      BY DEF UnderLimit
    <3>1. ~Expired(a)
      BY <2>1, <2>2 DEF Droppable
    <3>2. attempts[a] = 0
      BY <3>1, <2>0, <2>1, ThrottleAssumption DEF IInv, AccountKept, Quiet, Expired, TypeOK
    <3> QED BY <3>1, <3>2, <2>2, <2>0, ThrottleAssumption DEF Counted, TypeOK
  <2>4. i \notin Left(a, i)
    BY <2>0, <2>1, ThrottleAssumption DEF IInv, AddressKept, Quiet, Expired, Droppable, TypeOK
  <2> QED BY <2>3, <2>4 DEF Admissible
<1> QED BY <1>1, IInvHolds, PTL
=============================================================================
