------------------------ MODULE SessionAdmissionProofs ------------------------
(***************************************************************************)
(* Proofs about SessionAdmission, for every set of sessions, addresses and  *)
(* goroutines and every limit: slots are returned, and the sessions of the  *)
(* store and of every address stay within their limits.                     *)
(***************************************************************************)
EXTENDS SessionAdmission, FiniteSetTheorems, TLAPS

\* Everything that is counted is finite.
LEMMA Finite ==
  ASSUME TypeOK
  PROVE  /\ \A S \in SUBSET stored : IsFiniteSet(S) /\ Cardinality(S) \in Nat
         /\ \A P \in SUBSET Requests : IsFiniteSet(P) /\ Cardinality(P) \in Nat
<1>1. IsFiniteSet(stored)
  BY AdmissionAssumption, FS_Subset DEF TypeOK
<1>2. \A S : IsFiniteSet(S) => \A T \in SUBSET S : IsFiniteSet(T) /\ Cardinality(T) \in Nat
  BY FS_Subset, FS_CardinalityType
<1> QED BY <1>1, <1>2, AdmissionAssumption

\* The names the invariant gives to sets of goroutines and sessions.
LEMMA Parts ==
  ASSUME TypeOK
  PROVE  /\ Opening \in SUBSET Requests
         /\ \A i \in IPs : /\ Unclaimed(i) \in SUBSET Requests
                           /\ KnownAt(i) \in SUBSET stored
                           /\ CreditedAt(i) \in SUBSET KnownAt(i)
BY DEF Opening, Unclaimed, KnownAt, CreditedAt

\* Taking an element away from a set takes one from its size, or none.
LEMMA Removed ==
  ASSUME NEW S, IsFiniteSet(S), NEW x
  PROVE  /\ x \in S => Cardinality(S \ {x}) = Cardinality(S) - 1
         /\ x \notin S => Cardinality(S \ {x}) = Cardinality(S)
         /\ Cardinality(S) \in Nat /\ Cardinality(S \ {x}) \in Nat
<1>1. x \notin S => S \ {x} = S
  OBVIOUS
<1> QED BY <1>1, FS_RemoveElement, FS_CardinalityType

\* A bound that one credited session may exceed by one survives the end of any
\* session: if it was the last credited one, its place is free again.
LEMMA EndBound ==
  ASSUME NEW S, IsFiniteSet(S), NEW C \in SUBSET S, NEW x, NEW n \in Nat, NEW max \in Nat,
         Cardinality(S) + n <= max + (IF C = {} THEN 0 ELSE 1)
  PROVE  Cardinality(S \ {x}) + n <= max + (IF C \ {x} = {} THEN 0 ELSE 1)
<1>1. CASE x \in S
  BY <1>1, Removed
<1>2. CASE x \notin S
  <2>1. S \ {x} = S /\ C \ {x} = C
    BY <1>2
  <2> QED BY <2>1
<1> QED BY <1>1, <1>2

\* None stands for no goroutine, no session and no address.
LEMMA NoneApart == None \notin Sessions /\ None \notin IPs /\ None \notin Requests
BY AdmissionAssumption

-----------------------------------------------------------------------------
(* One lemma per kind of step.                                              *)

\* The invariant holds at the start.
LEMMA InitIInv == Init => IInv
<1> SUFFICES ASSUME Init PROVE IInv
  OBVIOUS
<1>1. TypeOK /\ Placed /\ Fresh /\ SlotsExact
  BY NoneApart DEF Init, TypeOK, Steps, Placed, Fresh, SlotsExact, Holding
<1>2. stored = {} /\ Opening = {}
  BY DEF Init, Opening
<1>3. \A i \in IPs : KnownAt(i) = {} /\ Unclaimed(i) = {}
  BY DEF Init, KnownAt, Unclaimed
<1>4. SessionsBounded
  BY <1>2, FS_EmptySet, AdmissionAssumption DEF SessionsBounded
<1>5. AddressBounded
  BY <1>3, FS_EmptySet, AdmissionAssumption DEF AddressBounded
<1> QED BY <1>1, <1>4, <1>5 DEF IInv

\* The end of a session keeps the limits.
LEMMA EndStep ==
  ASSUME IInv, NEW x, stored' = stored \ {x},
         UNCHANGED <<clientIP, at, pending>>,
         \A p \in Requests :
           \/ pc'[p] = pc[p]
           \/ pc[p] \in {"ending", "using", "freeing"} /\ pc'[p] \in {"ending", "using", "freeing"}
  PROVE  SessionsBounded' /\ AddressBounded'
<1>0. TypeOK
  BY DEF IInv
<1>1. Opening' = Opening /\ Credited' = Credited \ {x}
  BY DEF Opening, Credited, Locked
<1>2. Credited \in SUBSET stored
  BY DEF Credited
<1>3. SessionsBounded'
  BY <1>0, <1>1, <1>2, Finite, Parts, EndBound, AdmissionAssumption DEF IInv, SessionsBounded
<1>4. ASSUME NEW i \in IPs
      PROVE  /\ Unclaimed(i)' = Unclaimed(i) /\ KnownAt(i)' = KnownAt(i) \ {x}
             /\ CreditedAt(i)' = CreditedAt(i) \ {x}
  BY DEF Unclaimed, KnownAt, CreditedAt
<1>5. ASSUME NEW i \in IPs
      PROVE  Cardinality(KnownAt(i)') + Cardinality(Unclaimed(i)')
               <= MaxSessionsPerIP + (IF CreditedAt(i)' = {} THEN 0 ELSE 1)
  <2>1. /\ IsFiniteSet(KnownAt(i)) /\ CreditedAt(i) \in SUBSET KnownAt(i)
        /\ Cardinality(Unclaimed(i)) \in Nat
    BY <1>0, Finite, Parts
  <2>2. Cardinality(KnownAt(i)) + Cardinality(Unclaimed(i))
          <= MaxSessionsPerIP + (IF CreditedAt(i) = {} THEN 0 ELSE 1)
    BY DEF IInv, AddressBounded
  <2>3. Cardinality(KnownAt(i) \ {x}) + Cardinality(Unclaimed(i))
          <= MaxSessionsPerIP + (IF CreditedAt(i) \ {x} = {} THEN 0 ELSE 1)
    BY <2>1, <2>2, EndBound, AdmissionAssumption
  <2> QED BY <1>4, <2>3
<1> QED BY <1>3, <1>5 DEF AddressBounded

\* A step that leaves the store alone, opens nothing and changes who is credited with
\* nothing keeps the limits.
LEMMA MoveStep ==
  ASSUME IInv, stored' = stored, UNCHANGED clientIP,
         Opening' = Opening, Credited' = Credited,
         \A i \in IPs : Unclaimed(i)' = Unclaimed(i) /\ CreditedAt(i)' = CreditedAt(i)
  PROVE  SessionsBounded' /\ AddressBounded'
<1>1. \A i \in IPs : KnownAt(i)' = KnownAt(i)
  BY DEF KnownAt
<1> QED BY <1>1 DEF IInv, SessionsBounded, AddressBounded

\* A reservation keeps the limits: what it may exceed them by is its own credit.
LEMMA ReserveStep ==
  ASSUME IInv, NEW p \in Requests, NEW i \in IPs, NEW s \in Sessions \cup {None},
         NEW step \in {"dialing", "minting"},
         Reserve(p, i, s, step), pc[p] \in {"idle", "found"}, UNCHANGED pending,
         pending[p] = s, pc[p] = "found" => at[p] = i
  PROVE  IInv'
<1> USE DEF Reserve
<1>0. TypeOK /\ Placed
  BY DEF IInv
<1>1. TypeOK' /\ Fresh'
  BY <1>0 DEF TypeOK, Steps, IInv, Fresh, store
<1>2. Placed'
  BY <1>0 DEF Placed, TypeOK, store
<1>3. SlotsExact'
  BY <1>0, NoneApart DEF IInv, SlotsExact, Holding, TypeOK
<1>4. p \notin Opening /\ Opening' = Opening \cup {p}
  BY <1>0 DEF Opening, TypeOK
<1>5. Cardinality(Opening') = Cardinality(Opening) + 1
  BY <1>0, <1>4, Finite, Parts, FS_AddElement
<1>6. Cardinality(Opening) <= Cardinality(Slots)
  <2>1. Opening \subseteq Slots
    BY <1>0 DEF IInv, SlotsExact, Holding, Opening, Slots, Placed
  <2>2. Slots \in SUBSET Requests
    BY <1>0 DEF Slots, TypeOK
  <2> QED BY <2>1, <2>2, <1>0, Finite, FS_Subset
<1>7. Credited \subseteq Credited' /\ (s \in stored => s \in Credited')
  BY <1>0, NoneApart DEF Credited, Locked, TypeOK, store
<1>8. Slots \in SUBSET Requests
  BY <1>0 DEF Slots, TypeOK
<1>9. SessionsBounded'
  <2>1. Cardinality(stored \ {s}) + Cardinality(Slots) < MaxSessions
    BY DEF Room, Counted
  <2>2. CASE s \in stored
    <3>1. Cardinality(stored \ {s}) = Cardinality(stored) - 1 /\ Cardinality(stored) \in Nat
      BY <2>2, <1>0, Finite, Removed
    <3> QED BY <2>1, <2>2, <3>1, <1>0, <1>4, <1>5, <1>6, <1>7, <1>8, Finite, Parts, AdmissionAssumption
            DEF SessionsBounded, store
  <2>3. CASE s \notin stored
    <3>1. Cardinality(stored \ {s}) = Cardinality(stored) /\ Cardinality(stored) \in Nat
      BY <2>3, <1>0, Finite, Removed
    <3> QED BY <2>1, <3>1, <1>0, <1>4, <1>5, <1>6, <1>8, Finite, Parts, AdmissionAssumption
            DEF SessionsBounded, store
  <2> QED BY <2>2, <2>3
<1>10. AddressBounded'
  <2> SUFFICES ASSUME NEW j \in IPs
               PROVE  Cardinality(KnownAt(j)') + Cardinality(Unclaimed(j)')
                        <= MaxSessionsPerIP + (IF CreditedAt(j)' = {} THEN 0 ELSE 1)
    BY DEF AddressBounded
  <2>1. KnownAt(j)' = KnownAt(j)
    BY DEF KnownAt, store
  <2>2. Unclaimed(j)' = IF j = i THEN Unclaimed(j) \cup {p} ELSE Unclaimed(j)
    BY <1>0 DEF Unclaimed, TypeOK, Placed
  <2>3. /\ IsFiniteSet(KnownAt(j)) /\ IsFiniteSet(Unclaimed(j))
        /\ Cardinality(KnownAt(j)) \in Nat /\ Cardinality(Unclaimed(j)) \in Nat
    BY <1>0, Finite, Parts
  <2>4. CreditedAt(j) \subseteq CreditedAt(j)'
    BY <1>0, NoneApart DEF CreditedAt, KnownAt, TypeOK, Placed, store
  <2>5. CASE j = i
    <3>1. p \notin Unclaimed(j)
      BY DEF Unclaimed
    <3>2. Cardinality(Unclaimed(j)') = Cardinality(Unclaimed(j)) + 1
      BY <2>2, <2>3, <2>5, <3>1, FS_AddElement
    <3>3. Cardinality(Unclaimed(j)) <= Cardinality(connecting[j])
      <4>1. Unclaimed(j) \subseteq connecting[j]
        BY DEF IInv, SlotsExact, Holding, Unclaimed
      <4> QED BY <4>1, <1>0, Finite, FS_Subset DEF TypeOK
    <3>4. Known(j, s) = KnownAt(j) \ {s} /\ Cardinality(connecting[j]) \in Nat
      BY <1>0, Finite DEF Known, Counted, KnownAt, TypeOK
    <3>5. Cardinality(KnownAt(j) \ {s}) + Cardinality(connecting[j]) < MaxSessionsPerIP
      BY <2>5, <3>4 DEF Room
    <3>6. CASE s \in KnownAt(j)
      <4>1. s \in CreditedAt(j)'
        BY <2>5, <3>6, <1>0, NoneApart DEF CreditedAt, KnownAt, TypeOK, store
      <4>2. Cardinality(KnownAt(j) \ {s}) = Cardinality(KnownAt(j)) - 1
        BY <3>6, <2>3, Removed
      <4> QED BY <4>1, <4>2, <3>2, <3>3, <3>4, <3>5, <2>1, <2>3, AdmissionAssumption
    <3>7. CASE s \notin KnownAt(j)
      <4>1. Cardinality(KnownAt(j) \ {s}) = Cardinality(KnownAt(j))
        BY <3>7, <2>3, Removed
      <4> QED BY <4>1, <3>2, <3>3, <3>4, <3>5, <2>1, <2>3, AdmissionAssumption
    <3> QED BY <3>6, <3>7
  <2>6. CASE j # i
    BY <2>1, <2>2, <2>3, <2>4, <2>6, AdmissionAssumption DEF IInv, AddressBounded
  <2> QED BY <2>5, <2>6
<1> QED BY <1>1, <1>2, <1>3, <1>9, <1>10 DEF IInv

\* A login that fails keeps the limits: the credit it loses is worth the slot it
\* gives back.
LEMMA DialFailsStep ==
  ASSUME IInv, NEW p \in Requests, DialFails(p)
  PROVE  IInv'
<1> USE DEF DialFails, Free, Forget
<1>0. TypeOK /\ Placed /\ at[p] \in IPs
  BY DEF IInv, Placed
<1>1. TypeOK' /\ Placed' /\ Fresh'
  BY <1>0, NoneApart DEF TypeOK, Steps, Placed, IInv, Fresh, store
<1>2. SlotsExact'
  BY <1>0, NoneApart DEF IInv, SlotsExact, Holding, TypeOK
<1>3. p \in Opening /\ Opening' = Opening \ {p}
  BY <1>0 DEF Opening, TypeOK
<1>4. SessionsBounded'
  <2>1. Cardinality(Opening') = Cardinality(Opening) - 1
    BY <1>0, <1>3, Finite, Parts, Removed
  <2> QED BY <2>1, <1>0, Finite, Parts, AdmissionAssumption DEF IInv, SessionsBounded, store
<1>5. AddressBounded'
  <2> SUFFICES ASSUME NEW j \in IPs
               PROVE  Cardinality(KnownAt(j)') + Cardinality(Unclaimed(j)')
                        <= MaxSessionsPerIP + (IF CreditedAt(j)' = {} THEN 0 ELSE 1)
    BY DEF AddressBounded
  <2>1. KnownAt(j)' = KnownAt(j) /\ Unclaimed(j)' = Unclaimed(j) \ {p}
    BY <1>0, NoneApart DEF KnownAt, Unclaimed, TypeOK, store
  <2>2. /\ IsFiniteSet(Unclaimed(j))
        /\ Cardinality(KnownAt(j)) \in Nat /\ Cardinality(Unclaimed(j)) \in Nat
    BY <1>0, Finite, Parts
  <2>3. CASE j = at[p]
    <3>1. Cardinality(Unclaimed(j)') = Cardinality(Unclaimed(j)) - 1
      BY <2>1, <2>2, <2>3, Removed DEF Unclaimed
    <3> QED BY <3>1, <2>1, <2>2, AdmissionAssumption DEF IInv, AddressBounded
  <2>4. CASE j # at[p]
    <3>1. Unclaimed(j)' = Unclaimed(j)
      BY <2>1, <2>4 DEF Unclaimed
    <3>2. CreditedAt(j) \subseteq CreditedAt(j)'
      BY <2>1, <2>4, <1>0 DEF CreditedAt, TypeOK
    <3>3. Cardinality(KnownAt(j)) + Cardinality(Unclaimed(j))
            <= MaxSessionsPerIP + (IF CreditedAt(j) = {} THEN 0 ELSE 1)
      BY DEF IInv, AddressBounded
    <3>4. KnownAt(j)' = KnownAt(j)
      BY <2>1
    <3> QED BY <3>1, <3>2, <3>3, <3>4, <2>2, AdmissionAssumption
  <2> QED BY <2>3, <2>4
<1> QED BY <1>1, <1>2, <1>4, <1>5 DEF IInv

\* The end of a login keeps the limits: the session it was credited with is gone.
LEMMA ReturnStep ==
  ASSUME IInv, NEW p \in Requests, Return(p)
  PROVE  IInv'
<1> USE DEF Return, Free, Forget
<1>0. TypeOK /\ Placed /\ at[p] \in IPs /\ pending[p] \notin stored
  BY DEF IInv, Placed
<1>1. TypeOK' /\ Placed' /\ Fresh'
  BY <1>0, NoneApart DEF TypeOK, Steps, Placed, IInv, Fresh, store
<1>2. SlotsExact'
  BY <1>0, NoneApart DEF IInv, SlotsExact, Holding, TypeOK
<1>3. Opening' = Opening /\ \A i \in IPs : Unclaimed(i)' = Unclaimed(i)
  BY <1>0 DEF Opening, Unclaimed, TypeOK
<1>4. Credited' = Credited
  BY <1>0, NoneApart DEF Credited, Locked, TypeOK, store
<1>5. \A i \in IPs : CreditedAt(i)' = CreditedAt(i)
  BY <1>0, NoneApart DEF CreditedAt, KnownAt, TypeOK, store
<1> QED BY <1>1, <1>2, <1>3, <1>4, <1>5, MoveStep DEF IInv, store

\* A refused SSOConnect keeps the invariant: it held neither slot nor lock.
LEMMA RefusedStep ==
  ASSUME IInv, NEW p \in Requests, SSOConnectRefused(p)
  PROVE  IInv'
<1> USE DEF SSOConnectRefused, Forget
<1>0. TypeOK /\ Placed
  BY DEF IInv
<1>1. TypeOK' /\ Placed' /\ Fresh'
  BY <1>0 DEF TypeOK, Steps, Placed, IInv, Fresh, store
<1>2. SlotsExact'
  BY <1>0, NoneApart DEF IInv, SlotsExact, Holding, TypeOK
<1>3. Opening' = Opening /\ \A i \in IPs : Unclaimed(i)' = Unclaimed(i)
  BY <1>0 DEF Opening, Unclaimed, TypeOK
<1>4. Credited' = Credited
  BY <1>0, NoneApart DEF Credited, Locked, TypeOK, store
<1>5. \A i \in IPs : CreditedAt(i)' = CreditedAt(i)
  BY <1>0, NoneApart DEF CreditedAt, KnownAt, TypeOK, store
<1> QED BY <1>1, <1>2, <1>3, <1>4, <1>5, MoveStep DEF IInv, store

\* Looking a pending session up keeps the invariant: nothing is credited yet.
LEMMA FindStep ==
  ASSUME IInv, NEW p \in Requests, NEW i \in IPs, NEW s \in Sessions, FindPending(p, i, s)
  PROVE  IInv'
<1> USE DEF FindPending, Live
<1>0. TypeOK /\ Placed
  BY DEF IInv
<1>1. TypeOK' /\ Placed' /\ Fresh'
  BY <1>0, NoneApart DEF TypeOK, Steps, Placed, IInv, Fresh, store
<1>2. SlotsExact'
  BY <1>0 DEF IInv, SlotsExact, Holding, TypeOK
<1>3. Opening' = Opening /\ \A j \in IPs : Unclaimed(j)' = Unclaimed(j)
  BY <1>0 DEF Opening, Unclaimed, TypeOK
<1>4. Credited' = Credited
  BY <1>0, NoneApart DEF Credited, Locked, Placed, TypeOK, store
<1>5. \A j \in IPs : CreditedAt(j)' = CreditedAt(j)
  BY <1>0, NoneApart DEF CreditedAt, KnownAt, Placed, TypeOK, store
<1> QED BY <1>1, <1>2, <1>3, <1>4, <1>5, MoveStep DEF IInv, store

\* A new session keeps the limits: it takes the place of its slot.
LEMMA MintStep ==
  ASSUME IInv, NEW p \in Requests, NEW s \in Sessions, Mint(p, s)
  PROVE  IInv'
<1> USE DEF Mint
<1>0. TypeOK /\ Placed /\ s \notin stored /\ clientIP[s] = None
  BY DEF IInv, TypeOK, Fresh
<1>1. TypeOK' /\ Fresh'
  BY <1>0 DEF TypeOK, Steps, IInv, Fresh
<1>2. Placed'
  BY <1>0, NoneApart DEF Placed, TypeOK
<1>3. SlotsExact'
  BY <1>0 DEF IInv, SlotsExact, Holding, TypeOK
<1>4. p \in Opening /\ Opening' = Opening \ {p}
  BY <1>0 DEF Opening, TypeOK
<1>5. Cardinality(stored') = Cardinality(stored) + 1
  BY <1>0, Finite, FS_AddElement
<1>6. Cardinality(Opening') = Cardinality(Opening) - 1
  BY <1>0, <1>4, Finite, Parts, Removed
<1>7. Credited \subseteq Credited'
  BY <1>0 DEF Credited, Locked, TypeOK
<1>8. SessionsBounded'
  BY <1>0, <1>5, <1>6, <1>7, Finite, Parts, AdmissionAssumption DEF IInv, SessionsBounded
<1>9. \A i \in IPs : KnownAt(i)' = KnownAt(i) /\ Unclaimed(i)' = Unclaimed(i)
  BY <1>0, NoneApart DEF KnownAt, Unclaimed, TypeOK
<1>10. \A i \in IPs : CreditedAt(i)' = CreditedAt(i)
  BY <1>0, <1>9 DEF CreditedAt, TypeOK
<1> QED BY <1>1, <1>2, <1>3, <1>8, <1>9, <1>10 DEF IInv, AddressBounded

\* Making a session known keeps the limits: its slot no longer has to stand for it.
LEMMA ClaimStep ==
  ASSUME IInv, NEW p \in Requests, Claim(p)
  PROVE  IInv'
<1> USE DEF Claim
<1> DEFINE s == mine[p]
           i == at[p]
<1>0. TypeOK /\ Placed /\ i \in IPs /\ s \in Sessions /\ s \in minted /\ clientIP[s] = None
  BY DEF IInv, Placed, TypeOK
<1>1. TypeOK'
  BY <1>0 DEF TypeOK, Steps
<1>2. Placed' /\ Fresh'
  BY <1>0, NoneApart DEF Placed, TypeOK, IInv, Fresh
<1>3. SlotsExact'
  BY <1>0 DEF IInv, SlotsExact, Holding, TypeOK
<1>4. Opening' = Opening /\ Credited' = Credited
  BY <1>0 DEF Opening, Credited, Locked, TypeOK
<1>5. SessionsBounded'
  BY <1>4 DEF IInv, SessionsBounded
<1>6. AddressBounded'
  <2> SUFFICES ASSUME NEW j \in IPs
               PROVE  Cardinality(KnownAt(j)') + Cardinality(Unclaimed(j)')
                        <= MaxSessionsPerIP + (IF CreditedAt(j)' = {} THEN 0 ELSE 1)
    BY DEF AddressBounded
  <2>1. KnownAt(j)' = IF j = i /\ s \in stored THEN KnownAt(j) \cup {s} ELSE KnownAt(j)
    BY <1>0, NoneApart DEF KnownAt, TypeOK
  <2>2. Unclaimed(j)' = Unclaimed(j) \ {p} /\ (j # i => p \notin Unclaimed(j))
    BY <1>0 DEF Unclaimed, TypeOK
  <2>3. /\ IsFiniteSet(KnownAt(j)) /\ IsFiniteSet(Unclaimed(j))
        /\ Cardinality(KnownAt(j)) \in Nat /\ Cardinality(Unclaimed(j)) \in Nat
    BY <1>0, Finite, Parts
  <2>4. CreditedAt(j) \subseteq CreditedAt(j)'
    BY <2>1, <1>0 DEF CreditedAt, TypeOK
  <2>5. CASE j = i
    <3>1. Cardinality(Unclaimed(j)') = Cardinality(Unclaimed(j)) - 1
      BY <2>2, <2>3, <2>5, Removed DEF Unclaimed
    <3>2. Cardinality(KnownAt(j)') <= Cardinality(KnownAt(j)) + 1
          /\ Cardinality(KnownAt(j)') \in Nat
      <4>1. CASE s \in KnownAt(j) \/ s \notin stored
        <5>1. KnownAt(j)' = KnownAt(j)
          BY <2>1, <4>1
        <5> QED BY <5>1, <2>3
      <4>2. CASE s \notin KnownAt(j) /\ s \in stored
        <5>1. KnownAt(j)' = KnownAt(j) \cup {s}
          BY <2>1, <2>5, <4>2
        <5>2. Cardinality(KnownAt(j) \cup {s}) = Cardinality(KnownAt(j)) + 1
          BY <2>3, <4>2, FS_AddElement
        <5> QED BY <5>1, <5>2, <2>3
      <4> QED BY <4>1, <4>2
    <3> QED BY <3>1, <3>2, <2>3, <2>4, AdmissionAssumption DEF IInv, AddressBounded
  <2>6. CASE j # i
    <3>1. KnownAt(j)' = KnownAt(j) /\ Unclaimed(j)' = Unclaimed(j)
      BY <2>1, <2>2, <2>6
    <3> QED BY <3>1, <2>3, <2>4, AdmissionAssumption DEF IInv, AddressBounded
  <2> QED BY <2>5, <2>6
<1> QED BY <1>1, <1>2, <1>3, <1>5, <1>6 DEF IInv

\* Looking the replaced session up keeps the invariant.
LEMMA ReplaceStep ==
  ASSUME IInv, NEW p \in Requests, Replace(p)
  PROVE  IInv'
<1> USE DEF Replace, store
<1>0. TypeOK /\ Placed
  BY DEF IInv
<1>1. TypeOK' /\ Placed' /\ Fresh' /\ SlotsExact'
  BY <1>0 DEF TypeOK, Steps, Placed, IInv, Fresh, SlotsExact, Holding
<1>2. Opening' = Opening /\ Credited' = Credited
  BY <1>0 DEF Opening, Credited, Locked, TypeOK
<1>3. \A i \in IPs : Unclaimed(i)' = Unclaimed(i) /\ CreditedAt(i)' = CreditedAt(i)
  BY <1>0 DEF Unclaimed, CreditedAt, KnownAt, TypeOK
<1> QED BY <1>1, <1>2, <1>3, MoveStep DEF IInv

\* Ending the replaced session and using up the pending one keep the invariant.
LEMMA EndingStep ==
  ASSUME IInv, NEW p \in Requests, EndReplaced(p) \/ UsePending(p)
  PROVE  IInv'
<1> USE DEF EndReplaced, UsePending
<1>0. TypeOK /\ Placed
  BY DEF IInv
<1>1. TypeOK' /\ Placed' /\ Fresh' /\ SlotsExact'
  BY <1>0, NoneApart DEF TypeOK, Steps, Placed, IInv, Fresh, SlotsExact, Holding
<1>2. PICK x : stored' = stored \ {x}
  OBVIOUS
<1>3. \A q \in Requests :
        \/ pc'[q] = pc[q]
        \/ pc[q] \in {"ending", "using", "freeing"} /\ pc'[q] \in {"ending", "using", "freeing"}
  BY <1>0 DEF TypeOK
<1>4. SessionsBounded' /\ AddressBounded'
  BY <1>2, <1>3, EndStep
<1> QED BY <1>1, <1>4 DEF IInv

\* A session that is cancelled, disconnected or swept keeps the invariant.
LEMMA GoneStep ==
  ASSUME IInv, (\E s \in Sessions : SSOCancel(s) \/ Disconnect(s)) \/ SweepDrop
  PROVE  IInv'
<1> USE DEF SSOCancel, Disconnect, SweepDrop, caller
<1>0. TypeOK /\ Placed
  BY DEF IInv
<1>1. PICK x : stored' = stored \ {x}
  OBVIOUS
<1>2. TypeOK' /\ Placed' /\ Fresh' /\ SlotsExact'
  BY <1>0 DEF TypeOK, Placed, IInv, Fresh, SlotsExact, Holding
<1>3. SessionsBounded' /\ AddressBounded'
  BY <1>1, EndStep
<1> QED BY <1>2, <1>3 DEF IInv

\* Time, and a step that changes nothing, keep the invariant.
LEMMA QuietStep ==
  ASSUME IInv, expired' \in SUBSET Sessions, sweeping' \in Sessions \cup {None},
         UNCHANGED <<stored, minted, clientIP, payload, connecting, caller>>
  PROVE  IInv'
BY DEF IInv, TypeOK, Placed, Fresh, SlotsExact, Holding, SessionsBounded, Opening, Credited, Locked,
       AddressBounded, KnownAt, Unclaimed, CreditedAt, caller

\* Every step keeps the invariant.
LEMMA IInvStep == IInv /\ [Next]_vars => IInv'
<1> SUFFICES ASSUME IInv, [Next]_vars PROVE IInv'
  OBVIOUS
<1>0. TypeOK /\ Placed
  BY DEF IInv
<1>1. ASSUME NEW p \in Requests, NEW i \in IPs, Connect(p, i) \/ SSOLogin(p, i)
      PROVE  IInv'
  BY <1>0, <1>1, ReserveStep DEF Connect, SSOLogin, Placed
<1>2. ASSUME NEW p \in Requests, NEW i \in IPs, NEW s \in Sessions, FindPending(p, i, s)
      PROVE  IInv'
  BY <1>2, FindStep
<1>3. ASSUME NEW p \in Requests, SSOConnect(p)
      PROVE  IInv'
  <2>1. at[p] \in IPs /\ pending[p] \in Sessions \cup {None}
    BY <1>0, <1>3 DEF SSOConnect, Placed, TypeOK
  <2> QED BY <2>1, <1>3, ReserveStep DEF SSOConnect
<1>4. ASSUME NEW p \in Requests,
             SSOConnectRefused(p) \/ DialFails(p) \/ Claim(p) \/ Replace(p) \/ Return(p)
      PROVE  IInv'
  BY <1>4, RefusedStep, DialFailsStep, ClaimStep, ReplaceStep, ReturnStep
<1>5. ASSUME NEW p \in Requests, EndReplaced(p) \/ UsePending(p)
      PROVE  IInv'
  BY <1>5, EndingStep
<1>6. ASSUME NEW p \in Requests, NEW s \in Sessions, Mint(p, s)
      PROVE  IInv'
  BY <1>6, MintStep
<1>7. ASSUME (\E s \in Sessions : SSOCancel(s) \/ Disconnect(s)) \/ SweepDrop
      PROVE  IInv'
  BY <1>7, GoneStep
<1>8. ASSUME NEW s \in Sessions, Expire(s) \/ SweepTake(s)
      PROVE  IInv'
  BY <1>0, <1>8, QuietStep DEF Expire, SweepTake, TypeOK, store
<1>9. CASE UNCHANGED vars
  BY <1>0, <1>9, QuietStep DEF vars, store, TypeOK
<1> QED BY <1>1, <1>2, <1>3, <1>4, <1>5, <1>6, <1>7, <1>8, <1>9 DEF Next

-----------------------------------------------------------------------------
(* The theorems.                                                            *)

\* The invariant holds in every reachable state.
THEOREM IInvHolds == Spec => []IInv
BY InitIInv, IInvStep, PTL DEF Spec

\* The store is always of its type.
THEOREM TypeCorrect == Spec => []TypeOK
<1>1. IInv => TypeOK
  BY DEF IInv
<1> QED BY <1>1, IInvHolds, PTL

\* Every slot is given back: the slots of an address are the logins under way from it.
THEOREM SlotsHold == Spec => []SlotsExact
<1>1. IInv => SlotsExact
  BY DEF IInv
<1> QED BY <1>1, IInvHolds, PTL

\* The store never holds more than MaxSessions sessions, but for one that an
\* SSOConnect is about to replace.
THEOREM SessionsHold == Spec => []SessionsBounded
<1>1. IInv => SessionsBounded
  BY DEF IInv
<1> QED BY <1>1, IInvHolds, PTL

\* No address ever holds more than MaxSessionsPerIP sessions, with the same exception.
THEOREM AddressHolds == Spec => []AddressBounded
<1>1. IInv => AddressBounded
  BY DEF IInv
<1> QED BY <1>1, IInvHolds, PTL
=============================================================================
