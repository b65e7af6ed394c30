------------------------------ MODULE DiskProofs ------------------------------
(***************************************************************************)
(* Proofs about what the process keeps on its own disk across restarts.       *)
(*                                                                         *)
(* KnownHosts, for every set of names, keys, dials and lines of the operator, *)
(* and every resolution of names: nothing is trusted that nobody gave, a      *)
(* re-pin leaves no key it replaces, a dial goes past the host key only by    *)
(* the file, and no name loses its last pin.                                 *)
(*                                                                         *)
(* StagingDisk, for every number of uploads, temporary files and sessions and *)
(* every size and limit: the budget counts what is leased, what was found and *)
(* what lies in the bucket, so that a lease is granted only where there is    *)
(* room; and the sweeper deletes nothing that anybody has.                    *)
(***************************************************************************)
EXTENDS KnownHosts, StagingDisk, FiniteSetTheorems, TLAPS

LEMMA NoNameIsName == NoName \in Names
BY KnownHostsAssumption DEF NoName

-----------------------------------------------------------------------------
(* What the changes of the file do to the keys it pins.                     *)

LEMMA WantTyped ==
  ASSUME NEW file \in SUBSET Lines, NEW n
  PROVE  Want(file, n) \subseteq HostKeys
BY DEF Want, Lines

LEMMA PinLineTyped ==
  ASSUME NEW n \in Names, NEW k \in HostKeys
  PROVE  PinLine(n, k) \in Lines
BY DEF PinLine, Lines, LineKinds

\* A pin that is appended is one more key of its name.
LEMMA WantPin ==
  ASSUME NEW file, NEW n, NEW k, NEW m
  PROVE  Want(file \cup {PinLine(n, k)}, m) = Want(file, m) \cup (IF m = n THEN {k} ELSE {})
<1>1. PinLine(n, k).kind # "revoked" /\ PinLine(n, k).names = {n} /\ PinLine(n, k).key = k
  BY DEF PinLine
<1>2. ASSUME NEW x
      PROVE  x \in Want(file \cup {PinLine(n, k)}, m)
               <=> x \in Want(file, m) \/ (m = n /\ x = k)
  BY <1>1 DEF Want
<1> QED BY <1>2

\* A marker pins nothing.
LEMMA WantMarker ==
  ASSUME NEW file, NEW l, l.kind = "revoked", NEW m
  PROVE  Want(file \cup {l}, m) = Want(file, m)
BY DEF Want

\* A line that loses names keeps its key and its kind.
LEMMA LineWithout ==
  ASSUME NEW l \in Lines, NEW gone
  PROVE  /\ [l EXCEPT !.names = @ \ gone] \in Lines
         /\ [l EXCEPT !.names = @ \ gone].names = l.names \ gone
         /\ [l EXCEPT !.names = @ \ gone].key = l.key
         /\ [l EXCEPT !.names = @ \ gone].kind = l.kind
BY DEF Lines

LEMMA WithoutTyped ==
  ASSUME NEW file \in SUBSET Lines, NEW gone
  PROVE  WithoutNames(file, gone) \subseteq Lines
BY LineWithout DEF WithoutNames

\* Where the file has no pattern, exactly the dropped names lose their pins.
LEMMA WantWithout ==
  ASSUME NEW file \in SUBSET Lines, \A l \in file : l.kind # "wild", NEW gone, NEW m
  PROVE  Want(WithoutNames(file, gone), m) = IF m \in gone THEN {} ELSE Want(file, m)
<1> DEFINE less(l) == [l EXCEPT !.names = @ \ gone]
<1>1. \A l \in file : l.kind # "revoked" => l.kind = "host"
  BY DEF Lines, LineKinds
<1>2. ASSUME NEW x, x \in Want(WithoutNames(file, gone), m)
      PROVE  m \notin gone /\ x \in Want(file, m)
  <2>1. PICK l \in WithoutNames(file, gone) : l.kind # "revoked" /\ m \in l.names /\ l.key = x
    BY <1>2 DEF Want
  <2>2. PICK o \in file : o.kind = "host" /\ l = less(o)
    BY <2>1, <1>1 DEF WithoutNames
  <2>3. l.names = o.names \ gone /\ l.key = o.key
    BY <2>2, LineWithout
  <2> QED BY <2>1, <2>2, <2>3 DEF Want
<1>3. ASSUME NEW x, x \in Want(file, m), m \notin gone
      PROVE  x \in Want(WithoutNames(file, gone), m)
  <2>1. PICK o \in file : o.kind # "revoked" /\ m \in o.names /\ o.key = x
    BY <1>3 DEF Want
  <2>2. o.kind = "host" /\ o.names \ gone # {}
    BY <2>1, <1>1, <1>3
  <2>3. less(o) \in WithoutNames(file, gone)
    BY <2>2 DEF WithoutNames
  <2>4. less(o).kind = "host" /\ m \in less(o).names /\ less(o).key = x
    BY <2>1, <2>2, <1>3, LineWithout
  <2> QED BY <2>3, <2>4 DEF Want
<1> QED BY <1>2, <1>3

\* After a re-pin the name has the new key, its address none, and others what they had.
LEMMA WantReplaced ==
  ASSUME KHTypeOK, NEW n \in Names, Replaceable(n), NEW k \in HostKeys, NEW m
  PROVE  Want(Replaced(n, k), m) = IF m = n THEN {k}
                                   ELSE IF m = RemoteOf(n) THEN {} ELSE Want(khFile, m)
<1> DEFINE rest == WithoutNames(khFile, {n, RemoteOf(n)})
<1>1. khFile \in SUBSET Lines /\ \A l \in khFile : l.kind # "wild"
  BY DEF KHTypeOK, Replaceable
<1>2. Want(rest, m) = IF m \in {n, RemoteOf(n)} THEN {} ELSE Want(khFile, m)
  BY <1>1, WantWithout
<1>3. Want(rest \cup {PinLine(n, k)}, m) = Want(rest, m) \cup (IF m = n THEN {k} ELSE {})
  BY WantPin
<1> HIDE DEF rest
<1>4. Replaced(n, k) = rest \cup {PinLine(n, k)}
  BY DEF Replaced, rest
<1> QED BY <1>2, <1>3, <1>4

LEMMA ReplacedTyped ==
  ASSUME KHTypeOK, NEW n \in Names, NEW k \in HostKeys
  PROVE  Replaced(n, k) \subseteq Lines
BY WithoutTyped, PinLineTyped DEF Replaced, KHTypeOK

\* A file is trusted if every key it pins is given.
LEMMA TrustedByWant ==
  ASSUME NEW file \in SUBSET Lines
  PROVE  Trusted(file) <=> \A n \in Names : \A k \in Want(file, n) : Given(n, k)
BY DEF Trusted, Want, Lines

-----------------------------------------------------------------------------
(* The parts of the invariant that speak of a file.                         *)

\* A dial that sends a fingerprint of a server's key has the client's consent.
LEMMA ConfirmedIsGiven ==
  ASSUME KHIInv, NEW d \in Dials, NEW k \in HostKeys, Confirmed(d, k)
  PROVE  khHost[d] \in Names /\ <<khHost[d], k>> \in khConsent
BY KnownHostsAssumption DEF KHIInv, KHTypeOK, Consented, Confirmed

\* A pin that is appended was confirmed, and no other of its algorithm is there.
LEMMA PinAdded ==
  ASSUME KHIInv, NEW n \in Names, NEW k \in HostKeys, <<n, k>> \in khConsent,
         SameAlgorithm(n, k) = {}, khFile' = khFile \cup {PinLine(n, k)}, khConsent' = khConsent
  PROVE  khFile' \subseteq Lines /\ Trusted(khFile)' /\ PinnedOnce(khFile)'
<1>1. khFile \subseteq Lines /\ Trusted(khFile) /\ PinnedOnce(khFile)
  BY DEF KHIInv, KHTypeOK, KHTrustIsGiven, KHOnePin
<1>2. khFile' \subseteq Lines
  BY <1>1, PinLineTyped
<1>3. Trusted(khFile)'
  BY <1>1 DEF Trusted, PinLine, Given
<1>4. \A m : Want(khFile', m) = Want(khFile, m) \cup (IF m = n THEN {k} ELSE {})
  BY WantPin
<1>5. \A w \in Want(khFile, n) : AlgorithmOf(w) # AlgorithmOf(k)
  BY DEF SameAlgorithm
<1>6. PinnedOnce(khFile)'
  BY <1>1, <1>4, <1>5 DEF PinnedOnce
<1> QED BY <1>2, <1>3, <1>6

\* What is written to replace the file is as sound as the file.
LEMMA TempMade ==
  ASSUME KHIInv, NEW n \in Names, NEW k \in HostKeys, <<n, k>> \in khConsent,
         Replaceable(n), khTemp' = Replaced(n, k), khConsent' = khConsent
  PROVE  /\ khTemp' \subseteq Lines /\ Trusted(khTemp)' /\ PinnedOnce(khTemp)'
         /\ k \in Want(khTemp', n)
         /\ \A m \in Names \ {n, RemoteOf(n)} : Want(khFile, m) \subseteq Want(khTemp', m)
<1>1. KHTypeOK /\ khFile \in SUBSET Lines /\ Trusted(khFile) /\ PinnedOnce(khFile)
  BY DEF KHIInv, KHTypeOK, KHTrustIsGiven, KHOnePin
<1>2. khTemp' \in SUBSET Lines
  BY <1>1, ReplacedTyped
<1>3. \A m : Want(khTemp', m) = IF m = n THEN {k} ELSE IF m = RemoteOf(n) THEN {} ELSE Want(khFile, m)
  BY <1>1, WantReplaced
<1>4. \A m \in Names : \A x \in Want(khFile, m) : Given(m, x)
  BY <1>1, TrustedByWant
<1>5. \A m \in Names : \A x \in Want(khTemp', m) : Given(m, x)
  BY <1>3, <1>4 DEF Given
<1>6. Trusted(khTemp')
  BY <1>2, <1>5, TrustedByWant
<1>7. Trusted(khTemp)'
  BY <1>6 DEF Trusted, Given
<1>8. PinnedOnce(khTemp)'
  BY <1>1, <1>3 DEF PinnedOnce
<1> QED BY <1>2, <1>3, <1>7, <1>8

-----------------------------------------------------------------------------
(* One lemma per kind of step.                                              *)

LEMMA KHInitIInv == KHInit => KHIInv
<1> SUFFICES ASSUME KHInit PROVE KHIInv
  OBVIOUS
<1>1. khFile \subseteq OperatorLines /\ khFile \subseteq Lines
  BY KnownHostsAssumption DEF KHInit
<1>2. KHTypeOK
  BY <1>1, NoNameIsName DEF KHInit, KHTypeOK, Tails
<1>3. Consented /\ Ready
  BY DEF KHInit, Consented, Ready
<1>4. KHTrustIsGiven
  BY <1>1 DEF KHInit, KHTrustIsGiven, Trusted, Given, ByOperator
<1>5. KHOnePin
  <2>1. \A n \in Names : \A k \in Want(khFile, n) : ByOperator(n, k)
    BY <1>1 DEF Want, ByOperator
  <2> QED BY <2>1 DEF KHOnePin, PinnedOnce
<1> QED BY <1>2, <1>3, <1>4, <1>5 DEF KHIInv

\* A dial is over; the file stays as it is.
LEMMA ReturnStep ==
  ASSUME KHIInv, NEW d \in Dials, Returns(d), UNCHANGED khStore
  PROVE  KHIInv'
<1> USE DEF Returns, khStore
<1>1. KHTypeOK'
  BY NoNameIsName DEF KHIInv, KHTypeOK
<1>2. Consented'
  BY DEF KHIInv, KHTypeOK, Consented
<1>3. KHTrustIsGiven'
  BY DEF KHIInv, KHTypeOK, KHTrustIsGiven, Trusted, Given
<1>4. KHOnePin'
  BY DEF KHIInv, KHOnePin, PinnedOnce
<1>5. Ready'
  <2> SUFFICES ASSUME NEW e \in Dials, khPc'[e] = "replacing"
               PROVE  /\ \A o \in Dials : khPc'[o] = "replacing" => o = e
                      /\ Trusted(khTemp)' /\ PinnedOnce(khTemp)'
                      /\ khKey'[e] \in Want(khTemp', khHost'[e])
                      /\ \A n \in Names \ {khHost'[e], RemoteOf(khHost'[e])} :
                           Want(khFile', n) \subseteq Want(khTemp', n)
    BY DEF Ready
  <2>1. khPc[e] = "replacing" /\ khHost'[e] = khHost[e] /\ khKey'[e] = khKey[e]
    BY DEF KHIInv, KHTypeOK
  <2>2. \A o \in Dials : khPc'[o] = "replacing" => khPc[o] = "replacing"
    BY DEF KHIInv, KHTypeOK
  <2>3. Trusted(khTemp)' <=> Trusted(khTemp)
    BY DEF Trusted, Given
  <2>4. PinnedOnce(khTemp)' <=> PinnedOnce(khTemp)
    BY DEF PinnedOnce
  <2> QED BY <2>1, <2>2, <2>3, <2>4 DEF KHIInv, Ready
<1> QED BY <1>1, <1>2, <1>3, <1>4, <1>5 DEF KHIInv

\* The callback is done and nobody waits to rename: the dial ends, or goes on by a key
\* that the file pins.
LEMMA DecidedStep ==
  ASSUME KHIInv, NEW d \in Dials, NEW k \in HostKeys,
         khFile' \subseteq Lines, Trusted(khFile)', PinnedOnce(khFile)',
         khTail' \in Tails, khTemp' \subseteq Lines,
         \A e \in Dials : khPc[e] = "replacing" => e = d,
         Returns(d) \/ (Keyed(d, k) /\ k \in Want(khFile', khHost[d]))
  PROVE  KHIInv'
<1> USE DEF Returns, Keyed
<1>1. KHTypeOK'
  BY NoNameIsName DEF KHIInv, KHTypeOK
<1>2. Consented'
  BY DEF KHIInv, KHTypeOK, Consented
<1>3. KHTrustIsGiven'
  <2>1. \A n \in Names : \A x \in Want(khFile', n) : Given(n, x)'
    BY DEF Trusted, Want, Given
  <2>2. ASSUME NEW e \in Dials, khPc'[e] = "keyed" PROVE Given(khHost[e], khKey[e])'
    <3>1. CASE e = d
      <4>1. khHost'[e] \in Names /\ khHost'[e] = khHost[d] /\ khKey'[e] = k
        BY <2>2, <3>1 DEF KHIInv, KHTypeOK
      <4>2. k \in Want(khFile', khHost[d])
        BY <2>2, <3>1 DEF KHIInv, KHTypeOK
      <4> QED BY <4>1, <4>2, <2>1
    <3>2. CASE e # d
      <4>1. khPc[e] = "keyed" /\ khHost'[e] = khHost[e] /\ khKey'[e] = khKey[e] /\ khConsent' = khConsent
        BY <2>2, <3>2 DEF KHIInv, KHTypeOK
      <4>2. Given(khHost[e], khKey[e])
        BY <4>1 DEF KHIInv, KHTrustIsGiven
      <4> QED BY <4>1, <4>2 DEF Given
    <3> QED BY <3>1, <3>2
  <2> QED BY <2>2 DEF KHTrustIsGiven
<1>4. KHOnePin'
  BY DEF KHOnePin
<1>5. Ready'
  BY DEF KHIInv, KHTypeOK, Ready
<1> QED BY <1>1, <1>2, <1>3, <1>4, <1>5 DEF KHIInv

\* The file and what it is worth do not change with the consent.
LEMMA FileStays ==
  ASSUME KHIInv, UNCHANGED <<khFile, khConsent>>
  PROVE  khFile' \subseteq Lines /\ Trusted(khFile)' /\ PinnedOnce(khFile)'
BY DEF KHIInv, KHTypeOK, KHTrustIsGiven, KHOnePin, Trusted, Given, PinnedOnce

\* A dial begins, with a fingerprint or without.
LEMMA DialStep ==
  ASSUME KHIInv, NEW d \in Dials, NEW n \in Names, NEW fp \in HostKeys \cup {NoKey},
         KHDial(d, n, fp)
  PROVE  KHIInv'
<1> USE DEF KHDial, khStore
<1>1. KHTypeOK'
  BY DEF KHIInv, KHTypeOK
<1>2. Consented'
  BY DEF KHIInv, KHTypeOK, Consented
<1>3. KHTrustIsGiven'
  <2>1. Trusted(khFile)'
    BY DEF KHIInv, KHTrustIsGiven, Trusted, Given
  <2>2. ASSUME NEW e \in Dials, khPc'[e] = "keyed" PROVE Given(khHost[e], khKey[e])'
    <3>1. khPc[e] = "keyed" /\ khHost'[e] = khHost[e] /\ khKey'[e] = khKey[e]
      BY <2>2 DEF KHIInv, KHTypeOK
    <3> QED BY <3>1 DEF KHIInv, KHTrustIsGiven, Given
  <2> QED BY <2>1, <2>2 DEF KHTrustIsGiven
<1>4. KHOnePin'
  BY DEF KHIInv, KHOnePin, PinnedOnce
<1>5. Ready'
  BY DEF KHIInv, KHTypeOK, Ready, MutexFree
<1> QED BY <1>1, <1>2, <1>3, <1>4, <1>5 DEF KHIInv

LEMMA KnownStep ==
  ASSUME KHIInv, NEW d \in Dials, NEW k \in HostKeys, KHKnown(d, k)
  PROVE  KHIInv'
<1>1. UNCHANGED khStore /\ Keyed(d, k) /\ MutexFree /\ k \in Want(khFile, khHost[d])
  BY DEF KHKnown, Handshake, Verified
<1>2. khFile' \subseteq Lines /\ Trusted(khFile)' /\ PinnedOnce(khFile)'
  BY <1>1, FileStays DEF khStore, Keyed
<1>3. khTail' \in Tails /\ khTemp' \subseteq Lines /\ khFile' = khFile
  BY <1>1 DEF KHIInv, KHTypeOK, khStore
<1> QED BY <1>1, <1>2, <1>3, DecidedStep DEF MutexFree

\* Whatever reverifyPin finds, a file that holds allows it.
LEMMA ReverifiedOutcome ==
  ASSUME NEW d, NEW k, Reverified(d, k)
  PROVE  Returns(d) \/ (Keyed(d, k) /\ k \in Want(khFile', khHost[d]))
BY DEF Reverified, Verified

LEMMA AppendStep ==
  ASSUME KHIInv, NEW d \in Dials, NEW k \in HostKeys, KHAppend(d, k) \/ KHAppendCut(d, k)
  PROVE  KHIInv'
<1>1. /\ FirstUse(d, k)
      /\ khFile' = khFile \/ khFile' = khFile \cup {PinLine(khHost[d], k)}
      /\ khTail' = khTail \/ khTail' = "torn" \/ khTail' = "open"
      /\ Reverified(d, k) \/ Returns(d)
  BY DEF KHAppend, KHAppendCut
<1>2. /\ MutexFree /\ Confirmed(d, k) /\ SameAlgorithm(khHost[d], k) = {} /\ khTemp' = khTemp
  BY <1>1 DEF FirstUse, Unpinned, Handshake
<1>3. Returns(d) \/ (Keyed(d, k) /\ k \in Want(khFile', khHost[d]))
  BY <1>1, ReverifiedOutcome
<1>4. khConsent' = khConsent
  BY <1>3 DEF Returns, Keyed
<1>5. khFile' \subseteq Lines /\ Trusted(khFile)' /\ PinnedOnce(khFile)'
  BY <1>1, <1>2, <1>4, FileStays, PinAdded, ConfirmedIsGiven
<1>6. khTail' \in Tails /\ khTemp' \subseteq Lines
  BY <1>1, <1>2 DEF KHIInv, KHTypeOK, Tails
<1> QED BY <1>2, <1>3, <1>5, <1>6, DecidedStep DEF MutexFree

\* The new file is written, and nobody else is about to rename one.
LEMMA ReplaceWriteStep ==
  ASSUME KHIInv, NEW d \in Dials, NEW k \in HostKeys, KHReplaceWrite(d, k)
  PROVE  KHIInv'
<1>1. /\ MutexFree /\ Confirmed(d, k) /\ Replaceable(khHost[d])
      /\ khTemp' = Replaced(khHost[d], k)
      /\ UNCHANGED <<khFile, khTail, khHost, khAccept, khConsent>>
  BY DEF KHReplaceWrite, KeyChanged, Unpinned, Handshake
<1>2. khHost[d] \in Names /\ <<khHost[d], k>> \in khConsent
  BY <1>1, ConfirmedIsGiven
<1>3. /\ khTemp' \subseteq Lines /\ Trusted(khTemp)' /\ PinnedOnce(khTemp)'
      /\ k \in Want(khTemp', khHost[d])
      /\ \A m \in Names \ {khHost[d], RemoteOf(khHost[d])} : Want(khFile, m) \subseteq Want(khTemp', m)
  BY <1>1, <1>2, TempMade
<1>4. khPc' = [khPc EXCEPT ![d] = "replacing"] /\ khKey' = [khKey EXCEPT ![d] = k]
  BY DEF KHReplaceWrite
<1>5. KHTypeOK'
  BY <1>1, <1>3, <1>4 DEF KHIInv, KHTypeOK
<1>6. Consented'
  BY <1>1 DEF KHIInv, Consented
<1>7. KHTrustIsGiven'
  <2>1. Trusted(khFile)'
    BY <1>1, FileStays
  <2>2. ASSUME NEW e \in Dials, khPc'[e] = "keyed" PROVE Given(khHost[e], khKey[e])'
    <3>1. khPc[e] = "keyed" /\ khHost'[e] = khHost[e] /\ khKey'[e] = khKey[e]
      BY <1>1, <1>4, <2>2 DEF KHIInv, KHTypeOK
    <3> QED BY <1>1, <3>1 DEF KHIInv, KHTrustIsGiven, Given
  <2> QED BY <2>1, <2>2 DEF KHTrustIsGiven
<1>8. KHOnePin'
  BY <1>1, FileStays DEF KHOnePin
<1>9. Ready'
  <2> SUFFICES ASSUME NEW e \in Dials, khPc'[e] = "replacing"
               PROVE  /\ \A o \in Dials : khPc'[o] = "replacing" => o = e
                      /\ Trusted(khTemp)' /\ PinnedOnce(khTemp)'
                      /\ khKey'[e] \in Want(khTemp', khHost'[e])
                      /\ \A n \in Names \ {khHost'[e], RemoteOf(khHost'[e])} :
                           Want(khFile', n) \subseteq Want(khTemp', n)
    BY DEF Ready
  <2>1. e = d /\ \A o \in Dials : khPc'[o] = "replacing" => o = e
    BY <1>1, <1>4 DEF MutexFree, KHIInv, KHTypeOK
  <2>2. khKey'[e] = k /\ khHost'[e] = khHost[d] /\ khFile' = khFile
    BY <1>1, <1>4, <2>1 DEF KHIInv, KHTypeOK
  <2> QED BY <1>3, <2>1, <2>2
<1> QED BY <1>5, <1>6, <1>7, <1>8, <1>9 DEF KHIInv

\* The rename puts a file in place that is ready.
LEMMA RenameStep ==
  ASSUME KHIInv, NEW d \in Dials, KHReplaceRename(d)
  PROVE  KHIInv'
<1>1. khPc[d] = "replacing" /\ khFile' = khTemp /\ khTail' = "clean" /\ khTemp' = {}
  BY DEF KHReplaceRename
<1>2. Returns(d) \/ (Keyed(d, khKey[d]) /\ khKey[d] \in Want(khFile', khHost[d]))
  BY ReverifiedOutcome DEF KHReplaceRename
<1>3. khConsent' = khConsent
  BY <1>2 DEF Returns, Keyed
<1>4. /\ \A e \in Dials : khPc[e] = "replacing" => e = d
      /\ Trusted(khTemp) /\ PinnedOnce(khTemp) /\ khKey[d] \in Want(khTemp, khHost[d])
  BY <1>1 DEF KHIInv, Ready
<1>5. khTemp \subseteq Lines
  BY DEF KHIInv, KHTypeOK
<1>6. khKey[d] \in HostKeys
  BY <1>4, <1>5, WantTyped
<1>7. Trusted(khFile)'
  BY <1>1, <1>3, <1>4 DEF Trusted, Given
<1>8. PinnedOnce(khFile)'
  BY <1>1, <1>4 DEF PinnedOnce
<1>9. khTail' \in Tails /\ khTemp' \subseteq Lines /\ khFile' \subseteq Lines
  BY <1>1, <1>5 DEF Tails
<1> QED BY <1>2, <1>4, <1>6, <1>7, <1>8, <1>9, DecidedStep

LEMMA RenameFailsStep ==
  ASSUME KHIInv, NEW d \in Dials, KHRenameFails(d)
  PROVE  KHIInv'
<1>1. Returns(d) /\ khPc[d] = "replacing" /\ UNCHANGED <<khFile, khTail>> /\ khTemp' = {}
  BY DEF KHRenameFails
<1>2. \A e \in Dials : khPc[e] = "replacing" => e = d
  BY <1>1 DEF KHIInv, Ready
<1>3. khFile' \subseteq Lines /\ Trusted(khFile)' /\ PinnedOnce(khFile)'
  BY <1>1, FileStays DEF Returns
<1>4. khTail' \in Tails /\ khTemp' \subseteq Lines
  BY <1>1 DEF KHIInv, KHTypeOK
<1>5. PICK k \in HostKeys : k \in Want(khTemp, khHost[d])
  BY <1>1, WantTyped DEF KHIInv, KHTypeOK, Ready
<1> QED BY <1>1, <1>2, <1>3, <1>4, <1>5, DecidedStep

LEMMA CrashStep ==
  ASSUME KHIInv, KHCrash
  PROVE  KHIInv'
<1>1. khFile' \subseteq Lines /\ Trusted(khFile)' /\ PinnedOnce(khFile)'
  BY FileStays DEF KHCrash
<1>2. KHTypeOK'
  BY <1>1, NoNameIsName DEF KHIInv, KHTypeOK, KHCrash
<1> QED BY <1>1, <1>2 DEF KHCrash, KHIInv, Consented, KHTrustIsGiven, KHOnePin, Ready

LEMMA RevokeStep ==
  ASSUME KHIInv, NEW l \in OperatorLines, KHRevoke(l)
  PROVE  KHIInv'
<1> USE DEF KHRevoke, khDials
<1>1. l \in Lines /\ l.kind = "revoked"
  BY KnownHostsAssumption
<1>2. \A n : Want(khFile', n) = Want(khFile, n)
  BY <1>1, WantMarker
<1>3. KHTypeOK'
  BY <1>1 DEF KHIInv, KHTypeOK
<1>4. Consented'
  BY DEF KHIInv, Consented
<1>5. KHTrustIsGiven'
  BY <1>1 DEF KHIInv, KHTrustIsGiven, Trusted, Given
<1>6. KHOnePin'
  BY <1>2 DEF KHIInv, KHOnePin, PinnedOnce
<1>7. Ready'
  <2>1. (Trusted(khTemp)' <=> Trusted(khTemp)) /\ (PinnedOnce(khTemp)' <=> PinnedOnce(khTemp))
    BY DEF Trusted, Given, PinnedOnce
  <2> QED BY <1>2, <2>1 DEF KHIInv, Ready
<1> QED BY <1>3, <1>4, <1>5, <1>6, <1>7 DEF KHIInv

-----------------------------------------------------------------------------
\* Every step keeps the invariant.
LEMMA KHStepIInv == KHIInv /\ [KHNext]_khvars => KHIInv'
<1> SUFFICES ASSUME KHIInv, [KHNext]_khvars PROVE KHIInv'
  OBVIOUS
<1>1. CASE UNCHANGED khvars
  BY <1>1 DEF khvars, khStore, khDials, KHIInv, KHTypeOK, Consented, KHTrustIsGiven, Trusted, Given,
       KHOnePin, PinnedOnce, Ready
<1>2. CASE \E d \in Dials, n \in Names, fp \in HostKeys \cup {NoKey} : KHDial(d, n, fp)
  BY <1>2, DialStep
<1>3. ASSUME NEW d \in Dials, NEW k \in HostKeys, KHHalt(d, k) \/ KHReplaceRefused(d, k)
      PROVE  KHIInv'
  BY <1>3, ReturnStep DEF KHHalt, KHReplaceRefused
<1>4. ASSUME NEW d \in Dials, KHReturn(d)
      PROVE  KHIInv'
  BY <1>4, ReturnStep DEF KHReturn
<1> QED
  BY <1>1, <1>2, <1>3, <1>4, KnownStep, AppendStep, ReplaceWriteStep, RenameStep, RenameFailsStep,
     CrashStep, RevokeStep DEF KHNext

\* The invariant holds in every reachable state: the store of pins stays sound through
\* races of dials, cut writes and restarts (sftp/knownhosts.go).
THEOREM KHIInvHolds == KHSpec => []KHIInv
BY KHInitIInv, KHStepIInv, PTL DEF KHSpec

\* Every variable keeps its type: whatever is written, the file is made of lines that
\* parse, and at most its end does not.
THEOREM KHTypeCorrect == KHSpec => []KHTypeOK
<1>1. KHIInv => KHTypeOK
  BY DEF KHIInv
<1> QED BY <1>1, KHIInvHolds, PTL

\* No key is trusted for a name that nobody gave for that name (buildHostKeyCallback).
THEOREM KHTrustHolds == KHSpec => []KHTrustIsGiven
<1>1. KHIInv => KHTrustIsGiven
  BY DEF KHIInv
<1> QED BY <1>1, KHIInvHolds, PTL

\* A re-pin leaves no key it replaces (sameAlgorithm, replaceKnownHostLocked).
THEOREM KHOnePinHolds == KHSpec => []KHOnePin
<1>1. KHIInv => KHOnePin
  BY DEF KHIInv
<1> QED BY <1>1, KHIInvHolds, PTL

-----------------------------------------------------------------------------
(* What a step may do.                                                      *)

\* A dial that is accepted is pinned by the file that is there then.
LEMMA KeyedStep ==
  ASSUME KHIInv, KHNext, NEW d \in Dials, khPc[d] # "keyed", khPc'[d] = "keyed"
  PROVE  khTail' # "torn" /\ Verified(khFile', khHost'[d], khKey'[d])
<1> DEFINE Goal == khTail' # "torn" /\ Verified(khFile', khHost'[d], khKey'[d])
<1>0. khPc \in [Dials -> {"idle", "built", "replacing", "keyed"}]
      /\ khKey \in [Dials -> HostKeys \cup {NoKey}]
  BY DEF KHIInv, KHTypeOK
<1>1. ASSUME NEW o \in Dials, Returns(o) PROVE FALSE
  BY <1>0, <1>1 DEF Returns
<1>2. ASSUME NEW o \in Dials, NEW k, Keyed(o, k) PROVE o = d /\ khKey'[d] = k /\ khHost' = khHost
  BY <1>0, <1>2 DEF Keyed
<1>3. ASSUME NEW o \in Dials, NEW k, Reverified(o, k) PROVE Goal
  <2>1. Keyed(o, k) /\ khTail' # "torn" /\ Verified(khFile', khHost[o], k)
    BY <1>1, <1>3 DEF Reverified
  <2> QED BY <1>2, <2>1
<1>4. ASSUME NEW o \in Dials, NEW k \in HostKeys, KHKnown(o, k) PROVE Goal
  <2>1. Keyed(o, k) /\ UNCHANGED khStore /\ khTail # "torn" /\ Verified(khFile, khHost[o], k)
    BY <1>4 DEF KHKnown, Handshake, Loads
  <2> QED BY <1>2, <2>1 DEF khStore
<1>5. ASSUME NEW o \in Dials, NEW n \in Names, NEW fp \in HostKeys \cup {NoKey}, KHDial(o, n, fp)
      PROVE  FALSE
  BY <1>0, <1>5 DEF KHDial
<1>6. ASSUME NEW o \in Dials, NEW k \in HostKeys,
             KHHalt(o, k) \/ KHAppendCut(o, k) \/ KHReplaceRefused(o, k)
      PROVE  FALSE
  BY <1>1, <1>6 DEF KHHalt, KHAppendCut, KHReplaceRefused
<1>7. ASSUME NEW o \in Dials, NEW k \in HostKeys, KHAppend(o, k) PROVE Goal
  BY <1>3, <1>7 DEF KHAppend
<1>8. ASSUME NEW o \in Dials, NEW k \in HostKeys, KHReplaceWrite(o, k) PROVE FALSE
  BY <1>0, <1>8 DEF KHReplaceWrite
<1>9. ASSUME NEW o \in Dials, KHReturn(o) \/ KHRenameFails(o) PROVE FALSE
  BY <1>1, <1>9 DEF KHReturn, KHRenameFails
<1>10. ASSUME NEW o \in Dials, KHReplaceRename(o) PROVE Goal
  BY <1>3, <1>10 DEF KHReplaceRename
<1>11. ASSUME KHCrash PROVE FALSE
  BY <1>11 DEF KHCrash
<1>12. ASSUME NEW l \in OperatorLines, KHRevoke(l) PROVE FALSE
  BY <1>12 DEF KHRevoke, khDials
<1> HIDE DEF Goal
<1>13. Goal
  BY <1>4, <1>5, <1>6, <1>7, <1>8, <1>9, <1>10, <1>11, <1>12 DEF KHNext
<1> QED BY <1>13 DEF Goal

\* Only a rename takes pins away, and only those of the address of its name.
LEMMA ForgetStep ==
  ASSUME KHIInv, KHNext, NEW n \in Names, Want(khFile, n) # {}, Want(khFile', n) = {}
  PROVE  \E d \in Dials : khPc[d] = "replacing" /\ n # khHost[d] /\ n = RemoteOf(khHost[d])
<1>1. ASSUME khFile' = khFile PROVE FALSE
  BY <1>1
<1>2. ASSUME NEW d \in Dials, NEW k \in HostKeys, KHAppend(d, k) \/ KHAppendCut(d, k) PROVE FALSE
  <2>1. khFile' = khFile \/ khFile' = khFile \cup {PinLine(khHost[d], k)}
    BY <1>2 DEF KHAppend, KHAppendCut
  <2>2. khFile' = khFile \cup {PinLine(khHost[d], k)} => Want(khFile, n) \subseteq Want(khFile', n)
    BY WantPin
  <2> QED BY <2>1, <2>2
<1>3. ASSUME NEW l \in OperatorLines, KHRevoke(l) PROVE FALSE
  BY <1>3, WantMarker DEF KHRevoke
<1>4. ASSUME NEW d \in Dials, KHReplaceRename(d)
      PROVE  khPc[d] = "replacing" /\ n # khHost[d] /\ n = RemoteOf(khHost[d])
  <2>1. khPc[d] = "replacing" /\ khFile' = khTemp
    BY <1>4 DEF KHReplaceRename
  <2>2. /\ khKey[d] \in Want(khTemp, khHost[d])
        /\ \A m \in Names \ {khHost[d], RemoteOf(khHost[d])} : Want(khFile, m) \subseteq Want(khTemp, m)
    BY <2>1 DEF KHIInv, Ready
  <2> QED BY <2>1, <2>2
<1>5. ASSUME NEW d \in Dials, NEW k \in HostKeys,
             KHKnown(d, k) \/ KHHalt(d, k) \/ KHReplaceWrite(d, k) \/ KHReplaceRefused(d, k)
      PROVE  FALSE
  BY <1>1, <1>5 DEF KHKnown, KHHalt, KHReplaceWrite, KHReplaceRefused, khStore
<1>6. ASSUME NEW d \in Dials, KHReturn(d) \/ KHRenameFails(d) PROVE FALSE
  BY <1>1, <1>6 DEF KHReturn, KHRenameFails, khStore
<1>7. ASSUME NEW d \in Dials, NEW m \in Names, NEW fp \in HostKeys \cup {NoKey}, KHDial(d, m, fp)
      PROVE  FALSE
  BY <1>1, <1>7 DEF KHDial, khStore
<1>8. ASSUME KHCrash PROVE FALSE
  BY <1>1, <1>8 DEF KHCrash
<1> QED BY <1>2, <1>3, <1>4, <1>5, <1>6, <1>7, <1>8 DEF KHNext

\* A dial goes past the host key only by the file as it is then on disk (reverifyPin).
THEOREM KHKeyedHolds == KHSpec => KHKeyedByStore
<1>1. KHIInv /\ [KHNext]_khvars =>
        [\A d \in Dials :
           khPc[d] # "keyed" /\ khPc'[d] = "keyed" =>
             khTail' # "torn" /\ Verified(khFile', khHost'[d], khKey'[d])]_khvars
  BY KeyedStep
<1> QED BY <1>1, KHIInvHolds, PTL DEF KHSpec, KHKeyedByStore

\* No name loses its last pin, but the address of one that is pinned anew
\* (writeFileAtomic, replaceKnownHostLocked).
THEOREM KHForgetsHolds == KHSpec => KHNeverForgets
<1>1. KHIInv /\ [KHNext]_khvars =>
        [\A n \in Names :
           Want(khFile, n) # {} /\ Want(khFile', n) = {} =>
             \E d \in Dials : /\ khPc[d] = "replacing"
                              /\ n # khHost[d] /\ n = RemoteOf(khHost[d])]_khvars
  BY ForgetStep
<1> QED BY <1>1, KHIInvHolds, PTL DEF KHSpec, KHNeverForgets

-----------------------------------------------------------------------------
(* The staging disk.  Totals first: a total is the number of chunks, so it is *)
(* reckoned with as the cardinality of a finite set.                          *)

\* What a root has or is leased.
IsCount(f) == DOMAIN f \subseteq Roots /\ \A r \in DOMAIN f : f[r] \in 0..MostChunks

LEMMA RootsFinite ==
  /\ IsFiniteSet(Roots)
  /\ UploadSize \in Nat /\ TempSize \in Nat /\ MostChunks \in Nat
  /\ UploadSize <= MostChunks /\ TempSize + 1 <= MostChunks
<1>1. IsFiniteSet(Uploads \cup Temps)
  BY StagingDiskAssumption, FS_Union
<1>2. UploadSize \in Nat /\ TempSize \in Nat
  BY StagingDiskAssumption
<1> QED BY <1>1, <1>2 DEF Roots, MostChunks

LEMMA ChunkOf ==
  ASSUME NEW f, NEW c
  PROVE  c \in Chunks(f) <=> \E r \in DOMAIN f : \E i \in 1..f[r] : c = <<r, i>>
BY DEF Chunks

\* A total is a number, and no more than that of what covers it.
LEMMA TotalIsNat ==
  ASSUME NEW f, IsCount(f)
  PROVE  IsFiniteSet(Chunks(f)) /\ Total(f) \in Nat
<1>1. IsFiniteSet(Roots \X (1..MostChunks))
  <2>1. IsFiniteSet(1..MostChunks)
    BY RootsFinite, FS_Interval
  <2> QED BY <2>1, RootsFinite, FS_Product
<1>2. Chunks(f) \subseteq Roots \X (1..MostChunks)
  <2>1. ASSUME NEW c \in Chunks(f) PROVE c \in Roots \X (1..MostChunks)
    <3>1. PICK r \in DOMAIN f : \E i \in 1..f[r] : c = <<r, i>>
      BY ChunkOf
    <3>2. r \in Roots /\ f[r] \in 0..MostChunks
      BY DEF IsCount
    <3> QED BY <3>1, <3>2, RootsFinite
  <2> QED BY <2>1
<1>3. IsFiniteSet(Chunks(f))
  BY <1>1, <1>2, FS_Subset
<1> QED BY <1>3, FS_CardinalityType DEF Total

LEMMA TotalMono ==
  ASSUME NEW f, NEW g, IsCount(g), DOMAIN f \subseteq DOMAIN g,
         \A r \in DOMAIN f : f[r] \in Int /\ f[r] <= g[r]
  PROVE  Total(f) <= Total(g)
<1>1. Chunks(f) \subseteq Chunks(g)
  BY DEF Chunks, IsCount
<1>2. IsFiniteSet(Chunks(g))
  BY TotalIsNat
<1> QED BY <1>1, <1>2, FS_Subset DEF Total

LEMMA TotalSame ==
  ASSUME NEW f, NEW g, DOMAIN f = DOMAIN g, \A r \in DOMAIN f : f[r] = g[r]
  PROVE  Total(f) = Total(g)
<1>1. ASSUME NEW c PROVE c \in Chunks(f) <=> c \in Chunks(g)
  BY ChunkOf
<1>2. Chunks(f) = Chunks(g)
  BY <1>1
<1> QED BY <1>2 DEF Total

LEMMA TotalEmpty ==
  ASSUME NEW f, DOMAIN f = {}
  PROVE  Total(f) = 0
<1>1. Chunks(f) = {}
  BY ChunkOf
<1> QED BY <1>1, FS_EmptySet DEF Total

\* One root is counted apart from the others.
LEMMA TotalSplit ==
  ASSUME NEW f, IsCount(f), NEW r \in DOMAIN f
  PROVE  Total(f) = Total(Drop(f, {r})) + f[r]
<1> DEFINE rest == Chunks(Drop(f, {r}))
           mine == {r} \X (1..f[r])
<1>1. IsCount(Drop(f, {r}))
  BY DEF IsCount, Drop, Restrict
<1>2. IsFiniteSet(rest)
  BY <1>1, TotalIsNat
<1>3. f[r] \in Nat
  BY RootsFinite DEF IsCount
<1>4. IsFiniteSet(1..f[r]) /\ Cardinality(1..f[r]) = f[r]
  BY <1>3, FS_Interval
<1>5. IsFiniteSet({r}) /\ Cardinality({r}) = 1
  BY FS_Singleton
<1>6. IsFiniteSet(mine) /\ Cardinality(mine) = Cardinality({r}) * Cardinality(1..f[r])
  BY <1>4, <1>5, FS_Product
<1>7. Cardinality(mine) = f[r]
  BY <1>3, <1>4, <1>5, <1>6
<1>8. DOMAIN Drop(f, {r}) = DOMAIN f \ {r} /\ \A x \in DOMAIN f \ {r} : Drop(f, {r})[x] = f[x]
  BY DEF Drop, Restrict
<1>9. rest \cap mine = {}
  BY <1>8 DEF Chunks
<1>10. Chunks(f) = rest \cup mine
  <2>1. ASSUME NEW c PROVE c \in Chunks(f) <=> c \in rest \/ c \in mine
    <3> DEFINE g == Drop(f, {r})
    <3> HIDE DEF g
    <3>1. c \in Chunks(f) <=> \E x \in DOMAIN f : \E i \in 1..f[x] : c = <<x, i>>
      BY ChunkOf
    <3>2. c \in Chunks(g) <=> \E x \in DOMAIN g : \E i \in 1..g[x] : c = <<x, i>>
      BY ChunkOf
    <3>3. DOMAIN g = DOMAIN f \ {r} /\ \A x \in DOMAIN g : g[x] = f[x]
      BY <1>8 DEF g
    <3>4. c \in {r} \X (1..f[r]) <=> \E i \in 1..f[r] : c = <<r, i>>
      OBVIOUS
    <3>5. c \in rest <=> c \in Chunks(g)
      BY DEF g
    <3>6. c \in Chunks(f) <=> c \in rest \/ c \in {r} \X (1..f[r])
      BY <3>1, <3>2, <3>3, <3>4, <3>5
    <3> QED BY <3>6
  <2> QED BY <2>1
<1> HIDE DEF rest, mine
<1>11. Cardinality(rest \cup mine) = Cardinality(rest) + Cardinality(mine) - Cardinality({})
  <2>1. Cardinality(rest \cup mine)
          = Cardinality(rest) + Cardinality(mine) - Cardinality(rest \cap mine)
    BY <1>2, <1>6, FS_Union
  <2> QED BY <2>1, <1>9
<1>12. Cardinality({}) = 0 /\ Cardinality(rest) \in Nat
  BY <1>2, FS_EmptySet, FS_CardinalityType
<1>13. Cardinality(rest \cup mine) = Cardinality(rest) + f[r]
  BY <1>3, <1>7, <1>11, <1>12
<1> QED BY <1>10, <1>13 DEF Total, rest

LEMMA PutAt ==
  ASSUME NEW f, NEW r, NEW v
  PROVE  /\ DOMAIN Put(f, r, v) = DOMAIN f \cup {r} /\ Put(f, r, v)[r] = v
         /\ \A x \in DOMAIN f \ {r} : Put(f, r, v)[x] = f[x]
BY DEF Put

LEMMA DropAt ==
  ASSUME NEW f, NEW S
  PROVE  DOMAIN Drop(f, S) = DOMAIN f \ S /\ \A x \in DOMAIN f \ S : Drop(f, S)[x] = f[x]
BY DEF Drop, Restrict

LEMMA OnlyAt ==
  ASSUME NEW f, NEW S
  PROVE  DOMAIN Only(f, S) = DOMAIN f \cap S /\ \A x \in DOMAIN f \cap S : Only(f, S)[x] = f[x]
BY DEF Only, Restrict

LEMMA TotalPut ==
  ASSUME NEW f, IsCount(f), NEW r \in Roots, NEW v \in 0..MostChunks
  PROVE  IsCount(Put(f, r, v)) /\ Total(Put(f, r, v)) = Total(Drop(f, {r})) + v
<1>1. IsCount(Put(f, r, v))
  BY DEF IsCount, Put
<1>2. Total(Drop(Put(f, r, v), {r})) = Total(Drop(f, {r}))
  <2>1. DOMAIN Drop(Put(f, r, v), {r}) = DOMAIN Drop(f, {r})
    BY DEF Put, Drop, Restrict
  <2>2. \A x \in DOMAIN Drop(f, {r}) : Drop(Put(f, r, v), {r})[x] = Drop(f, {r})[x]
    BY DEF Put, Drop, Restrict
  <2> QED BY <2>1, <2>2, TotalSame
<1>3. r \in DOMAIN Put(f, r, v) /\ Put(f, r, v)[r] = v
  BY DEF Put
<1>4. Total(Put(f, r, v)) = Total(Drop(Put(f, r, v), {r})) + Put(f, r, v)[r]
  BY <1>1, <1>3, TotalSplit
<1> QED BY <1>1, <1>2, <1>3, <1>4

\* A count that two counts cover root by root is no more than both.
LEMMA TotalUnder ==
  ASSUME NEW f, NEW g, NEW h, IsCount(g), IsCount(h),
         \A r \in DOMAIN f : /\ f[r] \in Int
                             /\ \/ r \in DOMAIN g /\ f[r] <= g[r]
                                \/ r \in DOMAIN h /\ f[r] <= h[r]
  PROVE  Total(f) <= Total(g) + Total(h)
<1> DEFINE t == Chunks(g)
           u == Chunks(h)
<1>1. IsFiniteSet(t) /\ IsFiniteSet(u)
  BY TotalIsNat
<1>2. Chunks(f) \subseteq t \cup u
  <2>1. ASSUME NEW c \in Chunks(f) PROVE c \in t \/ c \in u
    <3>1. PICK r \in DOMAIN f : \E i \in 1..f[r] : c = <<r, i>>
      BY ChunkOf
    <3>2. CASE r \in DOMAIN g /\ f[r] <= g[r]
      <4>1. g[r] \in Int
        BY <3>2, RootsFinite DEF IsCount
      <4> QED BY <3>1, <3>2, <4>1, ChunkOf
    <3>3. CASE r \in DOMAIN h /\ f[r] <= h[r]
      <4>1. h[r] \in Int
        BY <3>3, RootsFinite DEF IsCount
      <4> QED BY <3>1, <3>3, <4>1, ChunkOf
    <3> QED BY <3>2, <3>3
  <2> QED BY <2>1
<1> HIDE DEF t, u
<1>3. /\ IsFiniteSet(t \cup u) /\ Cardinality(Chunks(f)) <= Cardinality(t \cup u)
      /\ IsFiniteSet(Chunks(f))
      /\ Cardinality(t \cup u) = Cardinality(t) + Cardinality(u) - Cardinality(t \cap u)
  BY <1>1, <1>2, FS_Union, FS_Subset
<1>4. /\ Cardinality(t) \in Nat /\ Cardinality(u) \in Nat /\ Cardinality(t \cap u) \in Nat
      /\ Cardinality(t \cup u) \in Nat /\ Cardinality(Chunks(f)) \in Nat
  BY <1>1, <1>3, FS_CardinalityType, FS_Intersection
<1>5. Cardinality(Chunks(f)) <= Cardinality(t) + Cardinality(u)
  BY <1>3, <1>4
<1> QED BY <1>5 DEF Total, t, u

\* Files and uploads are all that there is.
LEMMA TotalCovered ==
  ASSUME NEW f, IsCount(f)
  PROVE  Total(f) <= Total(Only(f, Temps)) + Total(Only(f, Uploads))
<1> DEFINE g == Only(f, Temps)
           h == Only(f, Uploads)
<1>1. IsCount(g) /\ IsCount(h)
  BY DEF IsCount, Only, Restrict
<1>2. /\ DOMAIN g = DOMAIN f \cap Temps /\ \A r \in DOMAIN g : g[r] = f[r]
      /\ DOMAIN h = DOMAIN f \cap Uploads /\ \A r \in DOMAIN h : h[r] = f[r]
  BY DEF Only, Restrict
<1>3. \A r \in DOMAIN f : f[r] \in Int /\ (r \in Temps \/ r \in Uploads)
  BY RootsFinite DEF IsCount, Roots
<1> HIDE DEF g, h
<1>4. Total(f) <= Total(g) + Total(h)
  BY <1>1, <1>2, <1>3, TotalUnder
<1> QED BY <1>4 DEF g, h

\* The total of a count in which one root has n more, or which is without a root.
LEMMA TotalGrown ==
  ASSUME NEW f, NEW g, IsCount(f), NEW r \in Roots, NEW n \in Nat,
         DOMAIN g = DOMAIN f \cup {r}, \A x \in DOMAIN f \ {r} : g[x] = f[x],
         g[r] \in 0..MostChunks, g[r] = n + (IF r \in DOMAIN f THEN f[r] ELSE 0)
  PROVE  IsCount(g) /\ Total(g) = Total(f) + n
<1>1. IsCount(g)
  BY DEF IsCount
<1>2. DOMAIN Drop(g, {r}) = DOMAIN Drop(f, {r})
  BY DEF Drop, Restrict
<1>3. \A x \in DOMAIN Drop(g, {r}) : Drop(g, {r})[x] = Drop(f, {r})[x]
  BY DEF Drop, Restrict
<1>4. Total(Drop(g, {r})) = Total(Drop(f, {r}))
  BY <1>2, <1>3, TotalSame
<1>5. Total(g) = Total(Drop(g, {r})) + g[r]
  BY <1>1, TotalSplit
<1>6. CASE r \in DOMAIN f
  <2>1. Total(f) = Total(Drop(f, {r})) + f[r]
    BY <1>6, TotalSplit
  <2>2. f[r] \in Nat /\ IsCount(Drop(f, {r}))
    BY <1>6, RootsFinite DEF IsCount, Drop, Restrict
  <2>3. Total(Drop(f, {r})) \in Nat
    BY <2>2, TotalIsNat
  <2> QED BY <1>1, <1>4, <1>5, <1>6, <2>1, <2>2, <2>3
<1>7. CASE r \notin DOMAIN f
  <2>1. DOMAIN Drop(f, {r}) = DOMAIN f /\ \A x \in DOMAIN Drop(f, {r}) : Drop(f, {r})[x] = f[x]
    BY <1>7 DEF Drop, Restrict
  <2>2. Total(Drop(f, {r})) = Total(f)
    BY <2>1, TotalSame
  <2> QED BY <1>1, <1>4, <1>5, <1>7, <2>2
<1> QED BY <1>6, <1>7

LEMMA TotalShrunk ==
  ASSUME NEW f, NEW g, IsCount(f), NEW r \in DOMAIN f,
         DOMAIN g = DOMAIN f \ {r}, \A x \in DOMAIN g : g[x] = f[x]
  PROVE  IsCount(g) /\ Total(g) = Total(f) - f[r]
<1>1. IsCount(g)
  BY DEF IsCount
<1>2. DOMAIN Drop(f, {r}) = DOMAIN g /\ \A x \in DOMAIN Drop(f, {r}) : Drop(f, {r})[x] = g[x]
  BY DEF Drop, Restrict
<1>3. Total(Drop(f, {r})) = Total(g)
  BY <1>2, TotalSame
<1>4. Total(f) = Total(Drop(f, {r})) + f[r]
  BY TotalSplit
<1>5. Total(g) \in Nat /\ f[r] \in Nat
  BY <1>1, TotalIsNat, RootsFinite DEF IsCount
<1> QED BY <1>1, <1>3, <1>4, <1>5

-----------------------------------------------------------------------------
(* Leases.                                                                 *)

SizesOf(leases, o) ==
  [r \in {x \in DOMAIN leases : leases[x].owner = o} |-> leases[r].size]

LEMMA OwnedIsTotal ==
  ASSUME NEW o
  PROVE  OwnedBy(o) = Total(SizesOf(sdLeases, o))
<1> DEFINE mine == {r \in DOMAIN sdLeases : sdLeases[r].owner = o}
           f == Sizes(Restrict(sdLeases, mine))
           g == SizesOf(sdLeases, o)
<1>1. DOMAIN f = mine /\ \A r \in mine : f[r] = sdLeases[r].size
  BY DEF Sizes, Restrict
<1>2. DOMAIN g = mine /\ \A r \in mine : g[r] = sdLeases[r].size
  BY DEF SizesOf
<1> HIDE DEF f, g
<1>3. Total(f) = Total(g)
  BY <1>1, <1>2, TotalSame
<1> QED BY <1>3 DEF f, g, OwnedBy, Promised

LEMMA OwnedIsTotalAfter ==
  ASSUME NEW o
  PROVE  OwnedBy(o)' = Total(SizesOf(sdLeases', o))
<1> DEFINE mine == {r \in DOMAIN sdLeases' : sdLeases'[r].owner = o}
           f == Sizes(Restrict(sdLeases', mine))
           g == SizesOf(sdLeases', o)
<1>1. DOMAIN f = mine /\ \A r \in mine : f[r] = sdLeases'[r].size
  BY DEF Sizes, Restrict
<1>2. DOMAIN g = mine /\ \A r \in mine : g[r] = sdLeases'[r].size
  BY DEF SizesOf
<1> HIDE DEF f, g
<1>3. Total(f) = Total(g)
  BY <1>1, <1>2, TotalSame
<1> QED BY <1>3 DEF f, g, OwnedBy, Promised

\* Leases that are well formed are counts, all of them and those of one session.
IsLeases(leases) ==
  /\ DOMAIN leases \subseteq Roots
  /\ \A r \in DOMAIN leases :
       leases[r].size \in 0..MostChunks /\ leases[r].owner \in Owners

LEMMA LeasesCount ==
  ASSUME NEW leases, IsLeases(leases), NEW o
  PROVE  IsCount(Sizes(leases)) /\ IsCount(SizesOf(leases, o))
BY DEF IsLeases, IsCount, Sizes, SizesOf

\* A granted lease is n more for its root, its session and in all.
LEMMA LeaseGrows ==
  ASSUME IsLeases(sdLeases), NEW r \in Roots, NEW o \in Owners, NEW n \in Nat,
         r \in DOMAIN sdLeases => sdLeases[r].owner = o /\ sdLeases[r].size + n <= MostChunks,
         n <= MostChunks, sdLeases' = Lease(r, o, n)
  PROVE  /\ DOMAIN sdLeases' = DOMAIN sdLeases \cup {r} /\ IsLeases(sdLeases')
         /\ \A x \in DOMAIN sdLeases \ {r} : sdLeases'[x] = sdLeases[x]
         /\ sdLeases'[r].size = n + (IF r \in DOMAIN sdLeases THEN sdLeases[r].size ELSE 0)
         /\ Promised(sdLeases)' = Promised(sdLeases) + n
         /\ OwnedBy(o)' = OwnedBy(o) + n
         /\ \A p \in Owners \ {o} : OwnedBy(p)' = OwnedBy(p)
<1> DEFINE L == sdLeases'
           base == IF r \in DOMAIN sdLeases THEN sdLeases[r].size ELSE 0
<1>1. base \in Nat /\ n + base \in 0..MostChunks
  BY RootsFinite DEF IsLeases
<1>2. DOMAIN L = DOMAIN sdLeases \cup {r} /\ L[r] = [owner |-> o, size |-> n + base]
  BY DEF Lease, Put
<1>3. \A x \in DOMAIN sdLeases \ {r} : L[x] = sdLeases[x]
  BY DEF Lease, Put
<1> HIDE DEF L
<1>4. L[r].owner = o /\ L[r].size = n + base
  BY <1>2
<1>5. IsLeases(L)
  BY <1>1, <1>2, <1>3, <1>4 DEF IsLeases
<1>6. Total(Sizes(L)) = Total(Sizes(sdLeases)) + n
  <2>1. IsCount(Sizes(sdLeases))
    BY LeasesCount
  <2>2. /\ DOMAIN Sizes(L) = DOMAIN Sizes(sdLeases) \cup {r} /\ Sizes(L)[r] = n + base
        /\ \A x \in DOMAIN Sizes(sdLeases) \ {r} : Sizes(L)[x] = Sizes(sdLeases)[x]
        /\ base = IF r \in DOMAIN Sizes(sdLeases) THEN Sizes(sdLeases)[r] ELSE 0
    BY <1>2, <1>3, <1>4 DEF Sizes
  <2> QED BY <1>1, <2>1, <2>2, TotalGrown
<1>7. Total(SizesOf(L, o)) = Total(SizesOf(sdLeases, o)) + n
  <2>1. IsCount(SizesOf(sdLeases, o))
    BY LeasesCount
  <2>2. /\ DOMAIN SizesOf(L, o) = DOMAIN SizesOf(sdLeases, o) \cup {r}
        /\ SizesOf(L, o)[r] = n + base
        /\ \A x \in DOMAIN SizesOf(sdLeases, o) \ {r} : SizesOf(L, o)[x] = SizesOf(sdLeases, o)[x]
        /\ base = IF r \in DOMAIN SizesOf(sdLeases, o) THEN SizesOf(sdLeases, o)[r] ELSE 0
    BY <1>2, <1>3, <1>4 DEF SizesOf
  <2> QED BY <1>1, <2>1, <2>2, TotalGrown
<1>8. ASSUME NEW p \in Owners \ {o}
      PROVE  Total(SizesOf(L, p)) = Total(SizesOf(sdLeases, p))
  <2>1. /\ DOMAIN SizesOf(L, p) = DOMAIN SizesOf(sdLeases, p)
        /\ \A x \in DOMAIN SizesOf(L, p) : SizesOf(L, p)[x] = SizesOf(sdLeases, p)[x]
    BY <1>2, <1>3, <1>4 DEF SizesOf
  <2> QED BY <2>1, TotalSame
<1>9. Promised(sdLeases)' = Total(Sizes(L)) /\ Promised(sdLeases) = Total(Sizes(sdLeases))
  BY DEF Promised, L
<1>10. \A p \in Owners : OwnedBy(p)' = Total(SizesOf(L, p)) /\ OwnedBy(p) = Total(SizesOf(sdLeases, p))
  BY OwnedIsTotal, OwnedIsTotalAfter DEF L
<1>11. IsLeases(sdLeases') /\ DOMAIN sdLeases' = DOMAIN sdLeases \cup {r}
  BY <1>2, <1>5 DEF L
<1>12. \A x \in DOMAIN sdLeases \ {r} : sdLeases'[x] = sdLeases[x]
  BY <1>3 DEF L
<1>13. sdLeases'[r].size = n + base
  BY <1>4 DEF L
<1> QED BY <1>6, <1>7, <1>8, <1>9, <1>10, <1>11, <1>12, <1>13

\* A lease given back is that much less.
LEMMA LeaseEnds ==
  ASSUME IsLeases(sdLeases), NEW r \in DOMAIN sdLeases, sdLeases' = Drop(sdLeases, {r})
  PROVE  /\ DOMAIN sdLeases' = DOMAIN sdLeases \ {r} /\ IsLeases(sdLeases')
         /\ \A x \in DOMAIN sdLeases \ {r} : sdLeases'[x] = sdLeases[x]
         /\ Promised(sdLeases)' = Promised(sdLeases) - sdLeases[r].size
         /\ \A o \in Owners : OwnedBy(o)' <= OwnedBy(o)
<1> DEFINE L == sdLeases'
<1>1. DOMAIN L = DOMAIN sdLeases \ {r} /\ \A x \in DOMAIN L : L[x] = sdLeases[x]
  BY DEF Drop, Restrict
<1> HIDE DEF L
<1>2. IsLeases(L)
  BY <1>1 DEF IsLeases
<1>3. Total(Sizes(L)) = Total(Sizes(sdLeases)) - sdLeases[r].size
  <2>1. IsCount(Sizes(sdLeases))
    BY LeasesCount
  <2>2. /\ DOMAIN Sizes(L) = DOMAIN Sizes(sdLeases) \ {r} /\ r \in DOMAIN Sizes(sdLeases)
        /\ \A x \in DOMAIN Sizes(L) : Sizes(L)[x] = Sizes(sdLeases)[x]
        /\ Sizes(sdLeases)[r] = sdLeases[r].size
    BY <1>1 DEF Sizes
  <2> QED BY <2>1, <2>2, TotalShrunk
<1>4. ASSUME NEW o \in Owners
      PROVE  Total(SizesOf(L, o)) <= Total(SizesOf(sdLeases, o))
  <2>1. IsCount(SizesOf(sdLeases, o))
    BY LeasesCount
  <2>2. /\ DOMAIN SizesOf(L, o) \subseteq DOMAIN SizesOf(sdLeases, o)
        /\ \A x \in DOMAIN SizesOf(L, o) : SizesOf(L, o)[x] = SizesOf(sdLeases, o)[x]
    BY <1>1 DEF SizesOf
  <2>3. \A x \in DOMAIN SizesOf(L, o) :
          SizesOf(L, o)[x] \in Int /\ SizesOf(L, o)[x] <= SizesOf(sdLeases, o)[x]
    BY <2>1, <2>2, RootsFinite DEF IsCount
  <2> QED BY <2>1, <2>2, <2>3, TotalMono
<1>5. Promised(sdLeases)' = Total(Sizes(L)) /\ Promised(sdLeases) = Total(Sizes(sdLeases))
  BY DEF Promised, L
<1>6. \A o \in Owners : OwnedBy(o)' = Total(SizesOf(L, o)) /\ OwnedBy(o) = Total(SizesOf(sdLeases, o))
  BY OwnedIsTotal, OwnedIsTotalAfter DEF L
<1>7. IsLeases(sdLeases') /\ DOMAIN sdLeases' = DOMAIN sdLeases \ {r}
  BY <1>1, <1>2 DEF L
<1>8. \A x \in DOMAIN sdLeases \ {r} : sdLeases'[x] = sdLeases[x]
  BY <1>1 DEF L
<1> QED BY <1>3, <1>4, <1>5, <1>6, <1>7, <1>8

-----------------------------------------------------------------------------
(* The counts.                                                             *)

LEMMA ShapeCounts ==
  ASSUME SDShape
  PROVE  IsCount(sdBytes) /\ IsCount(sdOrphans) /\ IsLeases(sdLeases)
BY DEF SDShape, IsCount, IsLeases

\* What lies unleased in the bucket is a count, and what the scan found is still one when
\* what is gone is forgotten.
LEMMA RestCounts ==
  ASSUME SDShape
  PROVE  /\ IsCount(Only(Unleased, Uploads)) /\ IsCount(OrphansNow)
         /\ IsCount(Drop(Only(sdBytes, Uploads), sdActive)) /\ IsCount(Scanned)
         /\ IsCount(Drop(Only(sdBytes, sdActive), DOMAIN sdLeases)) /\ PassedOver \in Nat
         /\ Total(OrphansNow) \in Nat /\ Total(sdOrphans) \in Nat
         /\ UnleasedChunks \in Nat /\ Inventory \in Nat /\ Promised(sdLeases) \in Nat
<1>1. IsCount(sdBytes) /\ IsCount(sdOrphans) /\ IsLeases(sdLeases)
  BY ShapeCounts
<1>2. IsCount(Only(Unleased, Uploads)) /\ IsCount(Drop(Only(sdBytes, Uploads), sdActive))
  BY <1>1 DEF IsCount, Only, Drop, Restrict, Unleased
<1>3. IsCount(OrphansNow)
  BY <1>1 DEF IsCount, Only, Restrict, OrphansNow
<1>4. IsCount(Scanned)
  BY <1>1 DEF IsCount, Only, Restrict, Scanned, OnDisk
<1>5. IsCount(Sizes(sdLeases))
  BY <1>1, LeasesCount
<1>6. Total(OrphansNow) \in Nat /\ Total(sdOrphans) \in Nat
  BY <1>1, <1>3, TotalIsNat
<1>7. UnleasedChunks \in Nat /\ Inventory \in Nat
  BY <1>2, TotalIsNat DEF UnleasedChunks, Inventory
<1>9. IsCount(Drop(Only(sdBytes, sdActive), DOMAIN sdLeases)) /\ PassedOver \in Nat
  <2>1. IsCount(Drop(Only(sdBytes, sdActive), DOMAIN sdLeases))
    BY <1>1 DEF IsCount, Only, Drop, Restrict
  <2> QED BY <2>1, TotalIsNat DEF PassedOver
<1>8. Promised(sdLeases) \in Nat
  BY <1>5, TotalIsNat DEF Promised
<1> QED BY <1>2, <1>3, <1>4, <1>6, <1>7, <1>8, <1>9

\* What lies unleased in the bucket, by its roots.
LEMMA UnleasedAt ==
  /\ DOMAIN Only(Unleased, Uploads) = (DOMAIN sdBytes \cap Uploads) \ DOMAIN sdLeases
  /\ \A r \in DOMAIN Only(Unleased, Uploads) : Only(Unleased, Uploads)[r] = sdBytes[r]
BY DEF Only, Drop, Restrict, Unleased

LEMMA UnleasedAtAfter ==
  /\ DOMAIN Only(Unleased, Uploads)' = (DOMAIN sdBytes' \cap Uploads) \ DOMAIN sdLeases'
  /\ \A r \in DOMAIN Only(Unleased, Uploads)' : Only(Unleased, Uploads)'[r] = sdBytes'[r]
BY DEF Only, Drop, Restrict, Unleased

LEMMA OnDiskAt ==
  /\ DOMAIN OnDisk = IF sdS3 THEN DOMAIN sdBytes \cap Temps ELSE DOMAIN sdBytes
  /\ \A r \in DOMAIN OnDisk : OnDisk[r] = sdBytes[r]
BY DEF OnDisk, Only, Restrict

LEMMA OnDiskAtAfter ==
  /\ DOMAIN OnDisk' = IF sdS3' THEN DOMAIN sdBytes' \cap Temps ELSE DOMAIN sdBytes'
  /\ \A r \in DOMAIN OnDisk' : OnDisk'[r] = sdBytes'[r]
BY DEF OnDisk, Only, Restrict

\* Where no more lies unleased, no more is counted.
LEMMA UnleasedShrinks ==
  ASSUME SDShape,
         \A r \in (DOMAIN sdBytes' \cap Uploads) \ DOMAIN sdLeases' :
           /\ r \in DOMAIN sdBytes \ DOMAIN sdLeases
           /\ sdBytes'[r] \in Int /\ sdBytes'[r] <= sdBytes[r]
  PROVE  UnleasedChunks' <= UnleasedChunks
<1> DEFINE f == Only(Unleased, Uploads)'
           g == Only(Unleased, Uploads)
<1>1. IsCount(g)
  BY RestCounts
<1>2. DOMAIN f \subseteq DOMAIN g
  BY UnleasedAt, UnleasedAtAfter
<1>3. \A r \in DOMAIN f : f[r] \in Int /\ f[r] <= g[r]
  BY UnleasedAt, UnleasedAtAfter
<1> HIDE DEF f, g
<1>4. Total(f) <= Total(g)
  BY <1>1, <1>2, <1>3, TotalMono
<1> QED BY <1>4 DEF f, g, UnleasedChunks

\* A step that leaves the budget alone and adds nothing that is unleased.
LEMMA CountedStays ==
  ASSUME SDShape, SDCounted,
         UNCHANGED <<sdS3, sdBudget, sdUnseen>>, SDShape',
         \A r \in DOMAIN sdBytes' \ DOMAIN sdLeases :
           r \in DOMAIN sdBytes /\ sdBytes'[r] <= sdBytes[r],
         \A t \in DOMAIN sdBytes' \cap Temps : t \in DOMAIN sdBytes /\ sdBytes'[t] <= sdBytes[t]
  PROVE  SDCounted'
<1> USE DEF sdBudget
<1>1. /\ sdUsed' = Promised(sdLeases)' + Total(sdOrphans') + sdRemote'
      /\ \A o \in Owners : OwnedBy(o)' <= SessionMax
  BY DEF SDCounted, Promised, OwnedBy
<1>2. \A r \in DOMAIN sdBytes' : sdBytes'[r] \in Int
  BY RootsFinite DEF SDShape
<1>3. \A r \in DOMAIN sdBytes : sdBytes[r] \in Int
  BY RootsFinite DEF SDShape
<1>4. \A r \in DOMAIN sdOrphans : sdOrphans[r] \in Int
  BY RootsFinite DEF SDShape
<1>5. \A r \in DOMAIN OnDisk' \ DOMAIN sdLeases' :
        r \in DOMAIN sdOrphans' /\ sdBytes'[r] <= sdOrphans'[r]
  <2>1. TAKE r \in DOMAIN OnDisk' \ DOMAIN sdLeases'
  <2>2. r \in DOMAIN OnDisk \ DOMAIN sdLeases /\ sdBytes'[r] <= sdBytes[r]
    BY OnDiskAt, OnDiskAtAfter
  <2>3. r \in DOMAIN sdOrphans /\ sdBytes[r] <= sdOrphans[r]
    BY <2>2 DEF SDCounted
  <2>4. r \in DOMAIN sdBytes /\ r \in DOMAIN sdBytes'
    BY <2>1, <2>2, OnDiskAt, OnDiskAtAfter
  <2> QED BY <1>2, <1>3, <1>4, <2>2, <2>3, <2>4
<1>6. sdS3' /\ sdFresh' => UnleasedChunks' <= sdRemote' + sdUnseen'
  <2>1. UnleasedChunks' <= UnleasedChunks
    BY <1>2, UnleasedShrinks
  <2>2. UnleasedChunks \in Nat /\ UnleasedChunks' \in Nat
    <3>1. IsCount(Only(Unleased, Uploads)')
      BY UnleasedAtAfter DEF SDShape, IsCount
    <3> QED BY <3>1, RestCounts, TotalIsNat DEF UnleasedChunks
  <2> QED BY <2>1, <2>2 DEF SDCounted, SDShape
<1>7. \A t \in Temps \cap DOMAIN sdBytes' \cap DOMAIN sdLeases' : sdBytes'[t] <= sdLeases'[t].size
  <2>1. \A t \in DOMAIN sdLeases : sdLeases[t].size \in Int
    BY RootsFinite DEF SDShape
  <2> QED BY <1>2, <1>3, <2>1 DEF SDCounted
<1>8. \A t \in Temps \cap DOMAIN sdLeases' : sdLeases'[t].size <= TempSize + 1
  BY DEF SDCounted
<1> QED BY <1>1, <1>5, <1>6, <1>7, <1>8 DEF SDCounted

\* A lease is given back and its root is gone, or is the bucket's and has n chunks left.
LEMMA CountedReleased ==
  ASSUME SDShape, SDCounted, NEW r \in DOMAIN sdLeases, Releases(r), NEW n \in Nat,
         sdUnseen' = sdUnseen + n, UNCHANGED sdS3, SDShape',
         r \in DOMAIN sdBytes' => sdS3 /\ r \in Uploads /\ sdBytes'[r] = n,
         \A x \in DOMAIN sdBytes' \ {r} : x \in DOMAIN sdBytes /\ sdBytes'[x] = sdBytes[x]
  PROVE  SDCounted'
<1>1. /\ sdUsed' = sdUsed - sdLeases[r].size /\ sdLeases' = Drop(sdLeases, {r})
      /\ UNCHANGED <<sdOrphans, sdScanErr, sdRemote, sdFresh>>
  BY DEF Releases
<1>2. /\ DOMAIN sdLeases' = DOMAIN sdLeases \ {r}
      /\ \A x \in DOMAIN sdLeases \ {r} : sdLeases'[x] = sdLeases[x]
      /\ Promised(sdLeases)' = Promised(sdLeases) - sdLeases[r].size
      /\ \A o \in Owners : OwnedBy(o)' <= OwnedBy(o)
  BY <1>1, ShapeCounts, LeaseEnds
<1>3. sdLeases[r].size \in Nat /\ Total(sdOrphans) \in Nat /\ Promised(sdLeases) \in Nat /\ sdRemote \in Nat
  BY RestCounts, RootsFinite DEF SDShape
<1>4. sdUsed' = Promised(sdLeases)' + Total(sdOrphans') + sdRemote'
  BY <1>1, <1>2, <1>3 DEF SDCounted
<1>5. \A o \in Owners : OwnedBy(o)' <= SessionMax
  <2>1. \A o \in Owners : OwnedBy(o) \in Nat /\ OwnedBy(o)' \in Nat
    <3>1. ASSUME NEW o \in Owners PROVE OwnedBy(o) \in Nat
      BY ShapeCounts, LeasesCount, OwnedIsTotal, TotalIsNat
    <3>2. IsLeases(sdLeases')
      BY DEF SDShape, IsLeases
    <3>3. ASSUME NEW o \in Owners PROVE OwnedBy(o)' \in Nat
      BY <3>2, LeasesCount, OwnedIsTotalAfter, TotalIsNat
    <3> QED BY <3>1, <3>3
  <2>2. SessionMax \in Nat
    BY StagingDiskAssumption
  <2> QED BY <1>2, <2>1, <2>2 DEF SDCounted
<1>6. \A x \in DOMAIN OnDisk' \ DOMAIN sdLeases' :
        x \in DOMAIN sdOrphans' /\ sdBytes'[x] <= sdOrphans'[x]
  <2>1. TAKE x \in DOMAIN OnDisk' \ DOMAIN sdLeases'
  <2>2. x # r
    BY OnDiskAtAfter, StagingDiskAssumption
  <2>3. x \in DOMAIN OnDisk \ DOMAIN sdLeases /\ sdBytes'[x] = sdBytes[x]
    BY <1>2, <2>2, OnDiskAt, OnDiskAtAfter
  <2> QED BY <1>1, <2>3 DEF SDCounted
<1>7. sdS3' /\ sdFresh' => UnleasedChunks' <= sdRemote' + sdUnseen'
  <2> DEFINE f == Only(Unleased, Uploads)
             g == Only(Unleased, Uploads)'
  <2>1. IsCount(f) /\ IsCount(g)
    BY RestCounts, UnleasedAtAfter DEF SDShape, IsCount
  <2>2. DOMAIN f = (DOMAIN sdBytes \cap Uploads) \ DOMAIN sdLeases /\ \A x \in DOMAIN f : f[x] = sdBytes[x]
    BY UnleasedAt
  <2>3. DOMAIN g = (DOMAIN sdBytes' \cap Uploads) \ DOMAIN sdLeases' /\ \A x \in DOMAIN g : g[x] = sdBytes'[x]
    BY UnleasedAtAfter
  <2>4. UnleasedChunks = Total(f) /\ UnleasedChunks' = Total(g)
    BY DEF UnleasedChunks
  <2> HIDE DEF f, g
  <2>5. \A x \in DOMAIN g \ {r} : x \in DOMAIN f /\ g[x] = f[x] /\ g[x] \in Int
    BY <1>2, <2>1, <2>2, <2>3, RootsFinite DEF IsCount
  <2>6. Total(g) <= Total(f) + n
    <3>1. CASE r \in DOMAIN g
      <4> DEFINE h == Drop(g, {r})
      <4>1. DOMAIN h = DOMAIN g \ {r} /\ \A x \in DOMAIN h : h[x] = g[x]
        BY DEF Drop, Restrict
      <4>2. Total(g) = Total(h) + g[r] /\ g[r] = n
        BY <2>1, <2>3, <3>1, TotalSplit
      <4>3. IsCount(h)
        BY <2>1, <4>1 DEF IsCount
      <4> HIDE DEF h
      <4>4. Total(h) <= Total(f)
        BY <2>1, <2>5, <4>1, TotalMono
      <4>5. Total(h) \in Nat /\ Total(f) \in Nat
        BY <2>1, <4>3, TotalIsNat
      <4> QED BY <4>2, <4>4, <4>5
    <3>2. CASE r \notin DOMAIN g
      <4>1. \A x \in DOMAIN g : x \in DOMAIN f /\ g[x] \in Int /\ g[x] <= f[x]
        BY <2>5, <3>2
      <4>2. Total(g) <= Total(f)
        BY <2>1, <4>1, TotalMono
      <4>3. Total(g) \in Nat /\ Total(f) \in Nat
        BY <2>1, TotalIsNat
      <4> QED BY <4>2, <4>3
    <3> QED BY <3>1, <3>2
  <2>7. Total(f) \in Nat /\ Total(g) \in Nat
    BY <2>1, TotalIsNat
  <2> QED BY <1>1, <2>4, <2>6, <2>7 DEF SDCounted, SDShape
<1>8. \A t \in Temps \cap DOMAIN sdBytes' \cap DOMAIN sdLeases' : sdBytes'[t] <= sdLeases'[t].size
  BY <1>2 DEF SDCounted
<1>9. \A t \in Temps \cap DOMAIN sdLeases' : sdLeases'[t].size <= TempSize + 1
  BY <1>2 DEF SDCounted
<1> QED BY <1>4, <1>5, <1>6, <1>7, <1>8, <1>9 DEF SDCounted

\* The shape of what a request for n more leaves, granted or refused.
LEMMA ReserveShape ==
  ASSUME SDIInv, NEW r \in Roots, NEW o \in Owners, NEW n \in Nat, n <= MostChunks,
         r \in DOMAIN sdLeases => sdLeases[r].owner = o /\ sdLeases[r].size + n <= MostChunks,
         Reserves(r, o, n)
  PROVE  /\ IsLeases(sdLeases')
         /\ DOMAIN sdLeases' = IF Fits(o, n) THEN DOMAIN sdLeases \cup {r} ELSE DOMAIN sdLeases
         /\ \A x \in DOMAIN sdLeases \ {r} : sdLeases'[x] = sdLeases[x]
         /\ Fits(o, n) => sdLeases'[r].size = n + (IF r \in DOMAIN sdLeases THEN sdLeases[r].size ELSE 0)
         /\ ~Fits(o, n) => sdLeases' = sdLeases
         /\ sdRemote' \in Nat /\ sdUnseen' \in Nat /\ sdFresh' \in BOOLEAN
         /\ IsCount(sdOrphans') /\ DOMAIN sdOrphans' = DOMAIN sdOrphans \cap DOMAIN OnDisk
         /\ \A x \in DOMAIN sdOrphans' : sdOrphans'[x] = sdOrphans[x]
<1>1. SDShape /\ IsLeases(sdLeases)
  BY ShapeCounts DEF SDIInv
<1>2. /\ sdLeases' = (IF Fits(o, n) THEN Lease(r, o, n) ELSE sdLeases)
      /\ sdOrphans' = OrphansNow
      /\ sdRemote' = RemoteNow
      /\ sdFresh' = (sdFresh \/ Renews)
      /\ sdUnseen' = IF Renews THEN PassedOver ELSE sdUnseen
  BY DEF Reserves
<1>3. sdRemote' \in Nat /\ sdUnseen' \in Nat /\ sdFresh' \in BOOLEAN
  BY <1>1, <1>2, RestCounts DEF SDShape, RemoteNow, Renews
<1>4. IsCount(sdOrphans') /\ DOMAIN sdOrphans' = DOMAIN sdOrphans \cap DOMAIN OnDisk
  BY <1>1, <1>2, RestCounts DEF OrphansNow, Only, Restrict
<1>5. \A x \in DOMAIN sdOrphans' : sdOrphans'[x] = sdOrphans[x]
  BY <1>2 DEF OrphansNow, Only, Restrict
<1>6. CASE Fits(o, n)
  <2>1. sdLeases' = Lease(r, o, n)
    BY <1>2, <1>6
  <2>2. /\ DOMAIN sdLeases' = DOMAIN sdLeases \cup {r} /\ IsLeases(sdLeases')
        /\ \A x \in DOMAIN sdLeases \ {r} : sdLeases'[x] = sdLeases[x]
        /\ sdLeases'[r].size = n + (IF r \in DOMAIN sdLeases THEN sdLeases[r].size ELSE 0)
    BY <1>1, <2>1, LeaseGrows
  <2> QED BY <1>3, <1>4, <1>5, <1>6, <2>2
<1>7. CASE ~Fits(o, n)
  <2>1. sdLeases' = sdLeases
    BY <1>2, <1>7
  <2> QED BY <1>1, <1>3, <1>4, <1>5, <1>7, <2>1
<1> QED BY <1>6, <1>7

\* What a granted request makes of the sums.
LEMMA ReserveSums ==
  ASSUME SDIInv, NEW r \in Roots, NEW o \in Owners, NEW n \in Nat, n <= MostChunks,
         r \in DOMAIN sdLeases => sdLeases[r].owner = o /\ sdLeases[r].size + n <= MostChunks,
         Reserves(r, o, n)
  PROVE  /\ sdUsed' = Promised(sdLeases)' + Total(sdOrphans') + sdRemote'
         /\ \A p \in Owners : OwnedBy(p)' <= SessionMax
         /\ Fits(o, n) => sdUsed' <= StagingMax
<1>1. SDShape /\ SDCounted /\ IsLeases(sdLeases)
  BY ShapeCounts DEF SDIInv
<1>2. /\ sdUsed' = UsedNow + (IF Fits(o, n) THEN n ELSE 0)
      /\ sdLeases' = (IF Fits(o, n) THEN Lease(r, o, n) ELSE sdLeases)
      /\ sdOrphans' = OrphansNow
      /\ sdRemote' = RemoteNow
  BY DEF Reserves
<1>3. /\ Total(OrphansNow) \in Nat /\ Total(sdOrphans) \in Nat /\ Promised(sdLeases) \in Nat
      /\ sdRemote \in Nat /\ RemoteNow \in Nat
  BY <1>1, RestCounts DEF SDShape, RemoteNow
<1>4. UsedNow = Promised(sdLeases) + Total(OrphansNow) + RemoteNow
  BY <1>1, <1>3 DEF UsedNow, SDCounted
<1>5. CASE Fits(o, n)
  <2>1. sdLeases' = Lease(r, o, n)
    BY <1>2, <1>5
  <2>2. /\ Promised(sdLeases)' = Promised(sdLeases) + n
        /\ OwnedBy(o)' = OwnedBy(o) + n
        /\ \A p \in Owners \ {o} : OwnedBy(p)' = OwnedBy(p)
    BY <1>1, <2>1, LeaseGrows
  <2>3. OwnedBy(o) + n <= SessionMax /\ UsedNow + n <= StagingMax
    BY <1>5 DEF Fits
  <2>4. \A p \in Owners : OwnedBy(p)' <= SessionMax
    BY <1>1, <2>2, <2>3 DEF SDCounted
  <2>5. sdUsed' = UsedNow + n
    BY <1>2, <1>5
  <2>6. sdUsed' = Promised(sdLeases)' + Total(sdOrphans') + sdRemote'
    BY <1>2, <1>3, <1>4, <2>2, <2>5
  <2> QED BY <2>3, <2>4, <2>5, <2>6
<1>6. CASE ~Fits(o, n)
  <2>1. sdLeases' = sdLeases
    BY <1>2, <1>6
  <2>2. Promised(sdLeases)' = Promised(sdLeases) /\ \A p \in Owners : OwnedBy(p)' = OwnedBy(p)
    BY <2>1 DEF Promised, OwnedBy
  <2>3. sdUsed' = UsedNow
    BY <1>2, <1>3, <1>4, <1>6
  <2> QED BY <1>1, <1>2, <1>3, <1>4, <1>6, <2>2, <2>3 DEF SDCounted
<1> QED BY <1>5, <1>6

\* A granted or refused request keeps the counts; the root that has its lease may grow by
\* as much.
LEMMA CountedReserved ==
  ASSUME SDIInv, NEW r \in Roots, NEW o \in Owners, NEW n \in Nat, n <= MostChunks,
         r \in DOMAIN sdLeases => sdLeases[r].owner = o /\ sdLeases[r].size + n <= MostChunks,
         r \in Temps /\ r \in DOMAIN sdLeases => sdLeases[r].size + n <= TempSize + 1,
         r \in Temps => n <= TempSize + 1,
         Reserves(r, o, n), UNCHANGED sdS3, SDShape',
         \A x \in DOMAIN sdBytes' \ {r} : x \in DOMAIN sdBytes /\ sdBytes'[x] = sdBytes[x],
         \/ sdBytes' = sdBytes /\ (r \in Temps => r \in DOMAIN sdLeases \/ r \notin DOMAIN sdBytes)
         \/ r \in DOMAIN sdLeases' /\ r \in Temps /\ sdBytes'[r] <= sdLeases'[r].size
  PROVE  SDCounted'
<1>1. SDShape /\ SDCounted
  BY DEF SDIInv
<1>2. /\ IsLeases(sdLeases')
      /\ DOMAIN sdLeases' = IF Fits(o, n) THEN DOMAIN sdLeases \cup {r} ELSE DOMAIN sdLeases
      /\ \A x \in DOMAIN sdLeases \ {r} : sdLeases'[x] = sdLeases[x]
      /\ Fits(o, n) => sdLeases'[r].size = n + (IF r \in DOMAIN sdLeases THEN sdLeases[r].size ELSE 0)
      /\ ~Fits(o, n) => sdLeases' = sdLeases
      /\ DOMAIN sdOrphans' = DOMAIN sdOrphans \cap DOMAIN OnDisk
      /\ \A x \in DOMAIN sdOrphans' : sdOrphans'[x] = sdOrphans[x]
  BY ReserveShape
<1>3. /\ sdUsed' = Promised(sdLeases)' + Total(sdOrphans') + sdRemote'
      /\ \A p \in Owners : OwnedBy(p)' <= SessionMax
  BY ReserveSums
<1>4. \A x \in DOMAIN OnDisk' \ DOMAIN sdLeases' :
        x \in DOMAIN sdOrphans' /\ sdBytes'[x] <= sdOrphans'[x]
  <2>1. TAKE x \in DOMAIN OnDisk' \ DOMAIN sdLeases'
  <2>2. x \notin DOMAIN sdLeases /\ x \in DOMAIN sdBytes /\ sdBytes'[x] = sdBytes[x]
    BY <1>2, OnDiskAtAfter
  <2>3. x \in DOMAIN OnDisk
    BY <2>2, OnDiskAt, OnDiskAtAfter
  <2> QED BY <1>1, <1>2, <2>2, <2>3 DEF SDCounted
<1>5. \A x \in DOMAIN sdBytes' \ DOMAIN sdLeases' :
        x \in DOMAIN sdBytes \ DOMAIN sdLeases /\ sdBytes'[x] = sdBytes[x]
  BY <1>2
<1>6. \A x \in DOMAIN sdBytes' : sdBytes'[x] \in Int
  BY RootsFinite DEF SDShape
<1>7. sdS3' /\ sdFresh' => UnleasedChunks' <= sdRemote' + sdUnseen'
  <2>1. /\ sdRemote' = RemoteNow /\ sdFresh' = (sdFresh \/ Renews)
        /\ sdUnseen' = IF Renews THEN PassedOver ELSE sdUnseen
    BY DEF Reserves
  <2>2. CASE Renews
    <3> DEFINE f == Only(Unleased, Uploads)'
               g == Drop(Only(sdBytes, Uploads), sdActive)
               h == Drop(Only(sdBytes, sdActive), DOMAIN sdLeases)
    <3>1. IsCount(g) /\ IsCount(h) /\ Inventory \in Nat /\ PassedOver \in Nat
      BY <1>1, RestCounts
    <3>2. /\ DOMAIN g = (DOMAIN sdBytes \cap Uploads) \ sdActive /\ \A x \in DOMAIN g : g[x] = sdBytes[x]
          /\ DOMAIN h = (DOMAIN sdBytes \cap sdActive) \ DOMAIN sdLeases /\ \A x \in DOMAIN h : h[x] = sdBytes[x]
      BY DEF Drop, Only, Restrict
    <3>3. \A x \in DOMAIN f : /\ x \in (DOMAIN sdBytes \cap Uploads) \ DOMAIN sdLeases
                             /\ f[x] = sdBytes[x] /\ f[x] \in Int
      <4>1. TAKE x \in DOMAIN f
      <4>2. x \in Uploads /\ x \in DOMAIN sdBytes' \ DOMAIN sdLeases' /\ f[x] = sdBytes'[x]
        BY UnleasedAtAfter
      <4> QED BY <1>5, <1>6, <4>2
    <3> HIDE DEF f, g, h
    <3>4. \A x \in DOMAIN f : /\ f[x] \in Int
                             /\ \/ x \in DOMAIN g /\ f[x] <= g[x]
                                \/ x \in DOMAIN h /\ f[x] <= h[x]
      <4>1. TAKE x \in DOMAIN f
      <4>2. CASE x \in sdActive
        BY <3>2, <3>3, <4>2
      <4>3. CASE x \notin sdActive
        BY <3>2, <3>3, <4>3
      <4> QED BY <4>2, <4>3
    <3>5. Total(f) <= Total(g) + Total(h)
      BY <3>1, <3>4, TotalUnder
    <3>6. Total(f) <= Inventory + PassedOver
      BY <3>5 DEF g, h, Inventory, PassedOver
    <3>7. sdRemote' = Inventory /\ sdUnseen' = PassedOver
      BY <2>1, <2>2 DEF RemoteNow
    <3> QED BY <3>6, <3>7 DEF f, UnleasedChunks
  <2>3. CASE ~Renews
    <3>1. UnleasedChunks' <= UnleasedChunks
      BY <1>1, <1>5, <1>6, UnleasedShrinks
    <3>2. UnleasedChunks \in Nat /\ UnleasedChunks' \in Nat
      <4>1. IsCount(Only(Unleased, Uploads)')
        BY UnleasedAtAfter DEF SDShape, IsCount
      <4> QED BY <1>1, <4>1, RestCounts, TotalIsNat DEF UnleasedChunks
    <3>3. sdRemote' = sdRemote /\ sdUnseen' = sdUnseen /\ sdFresh' = sdFresh
      BY <1>1, <2>1, <2>3 DEF RemoteNow, SDShape
    <3> QED BY <1>1, <3>1, <3>2, <3>3 DEF SDCounted, SDShape
  <2> QED BY <2>2, <2>3
<1>8. \A t \in Temps \cap DOMAIN sdBytes' \cap DOMAIN sdLeases' : sdBytes'[t] <= sdLeases'[t].size
  <2>1. TAKE t \in Temps \cap DOMAIN sdBytes' \cap DOMAIN sdLeases'
  <2>2. CASE t # r
    BY <1>1, <1>2, <2>2 DEF SDCounted
  <2>3. CASE t = r
    <3>1. CASE sdBytes' = sdBytes /\ (r \in Temps => r \in DOMAIN sdLeases \/ r \notin DOMAIN sdBytes)
      <4>1. r \in DOMAIN sdLeases \/ r \notin DOMAIN sdBytes
        BY <2>3, <3>1
      <4>2. sdBytes[r] <= sdLeases[r].size /\ r \in DOMAIN sdLeases
        BY <1>1, <2>3, <3>1, <4>1 DEF SDCounted
      <4>3. sdLeases[r].size \in Nat /\ sdBytes[r] \in Nat
        BY <1>1, <2>3, <3>1, <4>2, RootsFinite DEF SDShape
      <4> QED BY <1>2, <2>3, <3>1, <4>2, <4>3
    <3> QED BY <2>3, <3>1
  <2> QED BY <2>2, <2>3
<1>9. \A t \in Temps \cap DOMAIN sdLeases' : sdLeases'[t].size <= TempSize + 1
  <2>1. TAKE t \in Temps \cap DOMAIN sdLeases'
  <2>2. CASE t # r \/ ~Fits(o, n)
    <3>1. t \in DOMAIN sdLeases /\ sdLeases'[t] = sdLeases[t]
      BY <1>2, <2>2
    <3> QED BY <1>1, <3>1 DEF SDCounted
  <2>3. CASE t = r /\ Fits(o, n)
    <3>1. r \in DOMAIN sdLeases => sdLeases[r].size \in Nat
      BY <1>1, RootsFinite DEF SDShape
    <3>2. sdLeases'[r].size = n + (IF r \in DOMAIN sdLeases THEN sdLeases[r].size ELSE 0)
      BY <1>2, <2>3
    <3>3. CASE r \in DOMAIN sdLeases
      BY <2>3, <3>1, <3>2, <3>3
    <3>4. CASE r \notin DOMAIN sdLeases
      BY <2>3, <3>2, <3>4
    <3> QED BY <3>3, <3>4
  <2> QED BY <2>2, <2>3
<1> QED BY <1>3, <1>4, <1>7, <1>8, <1>9 DEF SDCounted

\* A chunk whose PUT was given up lands, seen by a lease or unseen.
LEMMA CountedLanded ==
  ASSUME SDIInv, SDShape', NEW id \in Uploads, SDLands(id)
  PROVE  SDCounted'
<1>1. SDShape /\ SDCounted /\ sdS3
  BY DEF SDIInv, SDUntouched, SDLands
<1>2. /\ UNCHANGED <<sdS3, sdUsed, sdLeases, sdOrphans, sdScanErr, sdRemote, sdFresh>>
      /\ sdUnseen' = IF id \in DOMAIN sdLeases THEN sdUnseen ELSE sdUnseen + 1
  BY DEF SDLands, sdRest, sdBudget
<1>3. PICK n \in Nat : /\ n = IF id \in DOMAIN sdBytes THEN sdBytes[id] ELSE 0
                       /\ sdBytes' = Put(sdBytes, id, n + 1)
  BY <1>1, RootsFinite DEF SDLands, SDShape
<1>4. /\ DOMAIN sdBytes' = DOMAIN sdBytes \cup {id} /\ sdBytes'[id] = n + 1
      /\ \A x \in DOMAIN sdBytes \ {id} : sdBytes'[x] = sdBytes[x]
  BY <1>3 DEF Put
<1>5. id \notin Temps
  BY StagingDiskAssumption
<1>6. /\ sdUsed' = Promised(sdLeases)' + Total(sdOrphans') + sdRemote'
      /\ \A o \in Owners : OwnedBy(o)' <= SessionMax
  BY <1>1, <1>2 DEF SDCounted, Promised, OwnedBy
<1>7. \A r \in DOMAIN OnDisk' \ DOMAIN sdLeases' :
        r \in DOMAIN sdOrphans' /\ sdBytes'[r] <= sdOrphans'[r]
  <2>1. DOMAIN OnDisk' = DOMAIN OnDisk
    BY <1>1, <1>2, <1>4, <1>5, OnDiskAt, OnDiskAtAfter
  <2>2. \A r \in DOMAIN OnDisk : sdBytes'[r] = sdBytes[r]
    BY <1>1, <1>4, <1>5, OnDiskAt
  <2> QED BY <1>1, <1>2, <2>1, <2>2 DEF SDCounted
<1>8. sdS3' /\ sdFresh' => UnleasedChunks' <= sdRemote' + sdUnseen'
  <2> DEFINE f == Only(Unleased, Uploads)
             g == Only(Unleased, Uploads)'
  <2>1. IsCount(f)
    BY <1>1, RestCounts
  <2>2. DOMAIN f = (DOMAIN sdBytes \cap Uploads) \ DOMAIN sdLeases /\ \A r \in DOMAIN f : f[r] = sdBytes[r]
    BY UnleasedAt
  <2>3. DOMAIN g = (DOMAIN sdBytes' \cap Uploads) \ DOMAIN sdLeases /\ \A r \in DOMAIN g : g[r] = sdBytes'[r]
    BY <1>2, UnleasedAtAfter
  <2>4. UnleasedChunks = Total(f) /\ UnleasedChunks' = Total(g)
    BY DEF UnleasedChunks
  <2>5. UnleasedChunks \in Nat
    BY <1>1, RestCounts
  <2> HIDE DEF f, g
  <2>6. CASE id \in DOMAIN sdLeases
    <3>1. DOMAIN g = DOMAIN f /\ \A r \in DOMAIN g : g[r] = f[r]
      BY <1>4, <2>2, <2>3, <2>6
    <3>2. Total(g) = Total(f)
      BY <3>1, TotalSame
    <3> QED BY <1>1, <1>2, <2>4, <2>6, <3>2 DEF SDCounted
  <2>7. CASE id \notin DOMAIN sdLeases
    <3>1. id \in Roots
      BY DEF Roots
    <3>2. DOMAIN g = DOMAIN f \cup {id} /\ \A r \in DOMAIN f \ {id} : g[r] = f[r]
      BY <1>4, <2>2, <2>3, <2>7
    <3>3. g[id] = 1 + (IF id \in DOMAIN f THEN f[id] ELSE 0)
      BY <1>3, <1>4, <2>2, <2>3, <2>7
    <3>4. g[id] \in 0..MostChunks
      <4>1. id \in DOMAIN sdBytes'
        BY <1>4
      <4>2. sdBytes'[id] \in 0..MostChunks
        BY <4>1 DEF SDShape
      <4> QED BY <2>3, <2>7, <4>1, <4>2
    <3>5. Total(g) = Total(f) + 1
      BY <2>1, <3>1, <3>2, <3>3, <3>4, TotalGrown
    <3>6. sdUnseen' = sdUnseen + 1
      BY <1>2, <2>7
    <3>7. sdFresh => UnleasedChunks <= sdRemote + sdUnseen
      BY <1>1 DEF SDCounted
    <3> QED BY <1>1, <1>2, <2>4, <2>5, <3>5, <3>6, <3>7 DEF SDShape
  <2> QED BY <2>6, <2>7
<1>9. \A t \in Temps \cap DOMAIN sdBytes' \cap DOMAIN sdLeases' : sdBytes'[t] <= sdLeases'[t].size
  BY <1>1, <1>2, <1>4, <1>5 DEF SDCounted
<1>10. \A t \in Temps \cap DOMAIN sdLeases' : sdLeases'[t].size <= TempSize + 1
  BY <1>1, <1>2 DEF SDCounted
<1> QED BY <1>6, <1>7, <1>8, <1>9, <1>10 DEF SDCounted

\* A process that starts has leased nothing and counts what it finds on its disk.
Started ==
  /\ DOMAIN sdLeases = {} /\ sdRemote = 0 /\ sdFresh = FALSE
  /\ DOMAIN sdOrphans = DOMAIN OnDisk /\ sdUsed = Total(sdOrphans)
  /\ \A r \in DOMAIN OnDisk : sdOrphans[r] = sdBytes[r]

LEMMA CountedAtStart == SDShape /\ Started => SDCounted
<1> SUFFICES ASSUME SDShape, Started
             PROVE  SDCounted
  OBVIOUS
<1>1. Promised(sdLeases) = 0
  <2>1. DOMAIN Sizes(sdLeases) = {}
    BY DEF Sizes, Started
  <2> QED BY <2>1, TotalEmpty DEF Promised
<1>2. ASSUME NEW o \in Owners
      PROVE  OwnedBy(o) = 0
  <2>1. DOMAIN SizesOf(sdLeases, o) = {}
    BY DEF SizesOf, Started
  <2> QED BY <2>1, TotalEmpty, OwnedIsTotal
<1>3. SessionMax \in Nat
  BY StagingDiskAssumption
<1>4. ASSUME NEW r \in DOMAIN OnDisk
      PROVE  r \in DOMAIN sdOrphans /\ sdBytes[r] <= sdOrphans[r]
  <2>1. sdBytes[r] \in Nat
    BY OnDiskAt, RootsFinite DEF SDShape
  <2> QED BY <2>1 DEF Started
<1>5. Total(sdOrphans) \in Nat
  BY RestCounts
<1> QED BY <1>1, <1>2, <1>3, <1>4, <1>5 DEF SDCounted, Started

-----------------------------------------------------------------------------
(* The invariant, action by action.                                        *)

LEMMA SDInitIInv == SDInit => SDIInv
<1> SUFFICES ASSUME SDInit
             PROVE  SDIInv
  OBVIOUS
<1> USE DEF SDInit
<1>1. Kept \subseteq Uploads /\ NoRoot \notin Uploads
  BY StagingDiskAssumption
<1>2. 1 \in 0..MostChunks
  BY RootsFinite DEF MostChunks
<1>3. SDShape
  BY <1>1, <1>2, RootsFinite DEF SDShape, Roots, NoLeases
<1>4. SDUntouched
  BY <1>1 DEF SDUntouched, Held, Unregistered, NoLeases
<1>5. SDSwept
  BY <1>1 DEF SDSwept
<1>6. Started
  <2>1. DOMAIN OnDisk = DOMAIN sdBytes
    BY OnDiskAt
  <2> QED BY <2>1 DEF Started, NoLeases
<1> QED BY <1>3, <1>4, <1>5, <1>6, CountedAtStart DEF SDIInv

LEMMA ReserveStep ==
  ASSUME SDIInv, NEW id \in Uploads, NEW o \in Owners, SDReserve(id, o)
  PROVE  SDIInv'
<1> USE DEF sdRest
<1>1. SDShape /\ SDUntouched /\ SDSwept
  BY DEF SDIInv
<1>2. /\ id \in sdNew /\ Reserves(id, o, UploadSize) /\ id \notin DOMAIN sdLeases
      /\ sdNew' = IF Fits(o, UploadSize) THEN sdNew \ {id} ELSE sdNew
      /\ UNCHANGED <<sdS3, sdBytes, sdStale, sdActive, sdOpen, sdPending, sdOwner, sdSweep, sdGivenUp>>
  BY <1>1 DEF SDReserve, SDUntouched
<1>3. UploadSize \in Nat /\ UploadSize <= MostChunks /\ id \in Roots
  BY RootsFinite DEF Roots
<1>4. /\ IsLeases(sdLeases')
      /\ DOMAIN sdLeases' = IF Fits(o, UploadSize) THEN DOMAIN sdLeases \cup {id} ELSE DOMAIN sdLeases
      /\ \A x \in DOMAIN sdLeases \ {id} : sdLeases'[x] = sdLeases[x]
      /\ sdRemote' \in Nat /\ sdUnseen' \in Nat /\ sdFresh' \in BOOLEAN
      /\ IsCount(sdOrphans')
  BY <1>2, <1>3, ReserveShape
<1>5. SDShape'
  BY <1>1, <1>2, <1>4 DEF SDShape, IsLeases, IsCount
<1>6. SDUntouched'
  BY <1>1, <1>2, <1>4 DEF SDUntouched, Held, Unregistered
<1>7. SDSwept'
  BY <1>1, <1>2, <1>4 DEF SDSwept, Held, Unregistered, InUse
<1>8. SDCounted'
  <2>1. id \notin Temps
    BY StagingDiskAssumption
  <2> QED BY <1>2, <1>3, <1>5, <2>1, CountedReserved
<1> QED BY <1>5, <1>6, <1>7, <1>8 DEF SDIInv

LEMMA CreateStep ==
  ASSUME SDIInv, NEW id \in Uploads, SDCreate(id)
  PROVE  SDIInv'
<1> USE DEF sdRest, sdBudget
<1>1. SDShape /\ SDUntouched /\ SDSwept /\ SDCounted
  BY DEF SDIInv
<1>2. Held(id) /\ id \notin DOMAIN sdBytes /\ id \notin sdStale /\ id \in DOMAIN sdLeases /\ id \notin sdNew
  BY <1>1 DEF SDUntouched, SDCreate, Held
<1>3. /\ sdBytes' = (IF sdS3 THEN sdBytes ELSE Put(sdBytes, id, 0))
      /\ sdActive' = sdActive \cup {id}
      /\ UNCHANGED <<sdS3, sdStale, sdNew, sdUsed, sdLeases, sdOrphans, sdScanErr, sdRemote, sdFresh,
                     sdOpen, sdPending, sdOwner, sdSweep, sdGivenUp, sdUnseen>>
  BY DEF SDCreate
<1>4. /\ DOMAIN sdBytes' \subseteq DOMAIN sdBytes \cup {id}
      /\ \A x \in DOMAIN sdBytes : x \in DOMAIN sdBytes' /\ sdBytes'[x] = sdBytes[x]
      /\ id \in DOMAIN sdBytes' => sdBytes'[id] = 0
  BY <1>2, <1>3 DEF Put
<1>5. SDShape'
  BY <1>1, <1>2, <1>3, <1>4, RootsFinite DEF SDShape, Roots
<1>6. SDUntouched'
  BY <1>1, <1>2, <1>3, <1>4 DEF SDUntouched, Held, Unregistered
<1>7. SDSwept'
  BY <1>1, <1>2, <1>3 DEF SDSwept, Held, Unregistered, InUse
<1>8. SDCounted'
  <2>1. id \notin Temps
    BY StagingDiskAssumption
  <2>2. \A x \in DOMAIN sdBytes : sdBytes[x] \in Int
    BY <1>1, RootsFinite DEF SDShape
  <2>3. \A r \in DOMAIN sdBytes' \ DOMAIN sdLeases :
          r \in DOMAIN sdBytes /\ sdBytes'[r] <= sdBytes[r]
    BY <1>2, <1>4, <2>2
  <2>4. \A t \in DOMAIN sdBytes' \cap Temps : t \in DOMAIN sdBytes /\ sdBytes'[t] <= sdBytes[t]
    BY <1>4, <2>1, <2>2
  <2> QED BY <1>1, <1>3, <1>5, <2>3, <2>4, CountedStays
<1> QED BY <1>5, <1>6, <1>7, <1>8 DEF SDIInv

LEMMA CreateFailsStep ==
  ASSUME SDIInv, NEW id \in Uploads, SDCreateFails(id)
  PROVE  SDIInv'
<1> USE DEF sdRest
<1>1. SDShape /\ SDUntouched /\ SDSwept /\ SDCounted
  BY DEF SDIInv
<1>2. Held(id) /\ id \notin DOMAIN sdBytes /\ id \in DOMAIN sdLeases /\ id \notin sdActive
  BY <1>1 DEF SDUntouched, SDCreateFails, Held
<1>3. /\ Releases(id)
      /\ UNCHANGED <<sdS3, sdBytes, sdStale, sdNew, sdActive, sdOpen, sdPending, sdOwner, sdSweep,
                     sdGivenUp, sdUnseen>>
  BY DEF SDCreateFails
<1>4. UNCHANGED <<sdOrphans, sdRemote, sdFresh>> /\ sdLeases' = Drop(sdLeases, {id})
  BY <1>3 DEF Releases
<1>5. /\ DOMAIN sdLeases' = DOMAIN sdLeases \ {id} /\ IsLeases(sdLeases')
      /\ \A x \in DOMAIN sdLeases \ {id} : sdLeases'[x] = sdLeases[x]
  BY <1>1, <1>2, <1>4, ShapeCounts, LeaseEnds
<1>6. SDShape'
  BY <1>1, <1>2, <1>3, <1>4, <1>5 DEF SDShape, IsLeases
<1>7. SDUntouched'
  BY <1>1, <1>2, <1>3, <1>5 DEF SDUntouched, Held, Unregistered
<1>8. SDSwept'
  BY <1>1, <1>3, <1>5 DEF SDSwept, Held, Unregistered, InUse
<1>9. SDCounted'
  <2>1. sdUnseen' = sdUnseen + 0
    BY <1>1, <1>3 DEF SDShape
  <2> QED BY <1>1, <1>2, <1>3, <1>6, <2>1, CountedReleased
<1> QED BY <1>6, <1>7, <1>8, <1>9 DEF SDIInv

\* Steps that leave what is staged and what is leased alone.
LEMMA CountedSame ==
  ASSUME SDShape, SDCounted, SDShape', UNCHANGED <<sdS3, sdBytes, sdBudget, sdUnseen>>
  PROVE  SDCounted'
<1>1. \A x \in DOMAIN sdBytes : sdBytes[x] \in Int
  BY RootsFinite DEF SDShape
<1>2. \A r \in DOMAIN sdBytes' : r \in DOMAIN sdBytes /\ sdBytes'[r] <= sdBytes[r]
  BY <1>1
<1> QED BY <1>2, CountedStays

LEMMA RegisterStep ==
  ASSUME SDIInv, NEW id \in Uploads, SDRegister(id)
  PROVE  SDIInv'
<1> USE DEF sdRest
<1>1. SDShape /\ SDUntouched /\ SDSwept /\ SDCounted
  BY DEF SDIInv
<1>2. /\ Unregistered(id) /\ sdOpen' = Put(sdOpen, id, sdLeases[id].owner)
      /\ UNCHANGED <<sdS3, sdBytes, sdStale, sdNew, sdBudget, sdActive, sdPending, sdOwner, sdSweep,
                     sdGivenUp, sdUnseen>>
  BY DEF SDRegister
<1>3. /\ DOMAIN sdOpen' = DOMAIN sdOpen \cup {id} /\ sdOpen'[id] = sdLeases[id].owner
      /\ \A x \in DOMAIN sdOpen \ {id} : sdOpen'[x] = sdOpen[x]
  BY <1>2 DEF Put
<1>4. SDShape'
  BY <1>1, <1>2, <1>3 DEF SDShape, Unregistered, sdBudget
<1>5. SDUntouched'
  BY <1>1, <1>2, <1>3 DEF SDUntouched, Held, Unregistered, sdBudget
<1>6. SDSwept'
  BY <1>1, <1>2, <1>3 DEF SDSwept, Held, Unregistered, InUse, sdBudget
<1> QED BY <1>1, <1>2, <1>4, <1>5, <1>6, CountedSame DEF SDIInv

LEMMA ChunkStep ==
  ASSUME SDIInv, NEW id \in Uploads, SDChunk(id)
  PROVE  SDIInv'
<1> USE DEF sdRest, sdBudget
<1>1. SDShape /\ SDUntouched /\ SDSwept /\ SDCounted
  BY DEF SDIInv
<1>2. PICK n \in Nat : /\ n = (IF id \in DOMAIN sdBytes THEN sdBytes[id] ELSE 0)
                       /\ n < UploadSize /\ sdBytes' = Put(sdBytes, id, n + 1)
  BY <1>1, RootsFinite DEF SDChunk, SDShape
<1>3. /\ id \in DOMAIN sdOpen /\ sdStale' = sdStale \ {id}
      /\ UNCHANGED <<sdS3, sdNew, sdUsed, sdLeases, sdOrphans, sdScanErr, sdRemote, sdFresh, sdActive,
                     sdOpen, sdPending, sdOwner, sdSweep, sdGivenUp, sdUnseen>>
  BY DEF SDChunk
<1>4. /\ DOMAIN sdBytes' = DOMAIN sdBytes \cup {id} /\ sdBytes'[id] = n + 1
      /\ \A x \in DOMAIN sdBytes \ {id} : sdBytes'[x] = sdBytes[x]
  BY <1>2 DEF Put
<1>5. id \in sdActive /\ id \in DOMAIN sdLeases /\ id \notin sdNew /\ id \notin Temps
  BY <1>1, <1>3, StagingDiskAssumption DEF SDShape, SDUntouched
<1>6. SDShape'
  <2>1. n + 1 \in 0..MostChunks
    BY <1>2, RootsFinite
  <2>2. DOMAIN sdBytes' \subseteq Roots /\ \A r \in DOMAIN sdBytes' : sdBytes'[r] \in 0..MostChunks
    BY <1>1, <1>4, <2>1 DEF SDShape, Roots
  <2> QED BY <1>1, <1>3, <2>2 DEF SDShape
<1>7. SDUntouched'
  BY <1>1, <1>3, <1>4, <1>5 DEF SDUntouched, Held, Unregistered
<1>8. SDSwept'
  BY <1>1, <1>3 DEF SDSwept, Held, Unregistered, InUse
<1>9. SDCounted'
  <2>1. \A x \in DOMAIN sdBytes : sdBytes[x] \in Int
    BY <1>1, RootsFinite DEF SDShape
  <2>2. \A r \in DOMAIN sdBytes' \ {id} : r \in DOMAIN sdBytes /\ sdBytes'[r] <= sdBytes[r]
    BY <1>4, <2>1
  <2> QED BY <1>1, <1>3, <1>5, <1>6, <2>2, CountedStays
<1> QED BY <1>6, <1>7, <1>8, <1>9 DEF SDIInv

LEMMA GiveUpStep ==
  ASSUME SDIInv, NEW id \in Uploads, SDGiveUp(id)
  PROVE  SDIInv'
<1> USE DEF sdRest, sdBudget
<1>1. SDShape /\ SDUntouched /\ SDSwept /\ SDCounted
  BY DEF SDIInv
<1>2. /\ sdS3 /\ id \in DOMAIN sdOpen /\ sdGivenUp' = sdGivenUp \cup {id}
      /\ UNCHANGED <<sdS3, sdBytes, sdStale, sdNew, sdBudget, sdActive, sdOpen, sdPending, sdOwner,
                     sdSweep, sdUnseen>>
  BY DEF SDGiveUp
<1>3. id \in sdActive /\ id \in DOMAIN sdLeases
  BY <1>1, <1>2 DEF SDShape
<1>4. SDShape'
  BY <1>1, <1>2 DEF SDShape
<1>5. SDUntouched'
  BY <1>1, <1>2, <1>3 DEF SDUntouched, Held, Unregistered
<1>6. SDSwept'
  BY <1>1, <1>2 DEF SDSwept, Held, Unregistered, InUse
<1> QED BY <1>1, <1>2, <1>4, <1>5, <1>6, CountedSame DEF SDIInv

LEMMA LandsStep ==
  ASSUME SDIInv, NEW id \in Uploads, SDLands(id)
  PROVE  SDIInv'
<1> USE DEF sdRest, sdBudget
<1>1. SDShape /\ SDUntouched /\ SDSwept /\ SDCounted
  BY DEF SDIInv
<1>2. PICK n \in Nat : /\ n = (IF id \in DOMAIN sdBytes THEN sdBytes[id] ELSE 0)
                       /\ n < UploadSize /\ sdBytes' = Put(sdBytes, id, n + 1)
  BY <1>1, RootsFinite DEF SDLands, SDShape
<1>3. /\ id \in sdGivenUp /\ sdGivenUp' = sdGivenUp \ {id}
      /\ sdUnseen' = (IF id \in DOMAIN sdLeases THEN sdUnseen ELSE sdUnseen + 1)
      /\ UNCHANGED <<sdS3, sdStale, sdNew, sdUsed, sdLeases, sdOrphans, sdScanErr, sdRemote, sdFresh,
                     sdActive, sdOpen, sdPending, sdOwner, sdSweep>>
  BY DEF SDLands
<1>4. /\ DOMAIN sdBytes' = DOMAIN sdBytes \cup {id} /\ sdBytes'[id] = n + 1
      /\ \A x \in DOMAIN sdBytes \ {id} : sdBytes'[x] = sdBytes[x]
  BY <1>2 DEF Put
<1>5. SDShape'
  <2>1. n + 1 \in 0..MostChunks
    BY <1>2, RootsFinite
  <2>2. DOMAIN sdBytes' \subseteq Roots /\ \A r \in DOMAIN sdBytes' : sdBytes'[r] \in 0..MostChunks
    BY <1>1, <1>4, <2>1 DEF SDShape, Roots
  <2>3. sdUnseen' \in Nat
    BY <1>1, <1>3 DEF SDShape
  <2> QED BY <1>1, <1>3, <2>2, <2>3 DEF SDShape
<1>6. SDUntouched'
  BY <1>1, <1>3, <1>4 DEF SDUntouched, Held, Unregistered
<1>7. SDSwept'
  BY <1>1, <1>3 DEF SDSwept, Held, Unregistered, InUse
<1> QED BY <1>5, <1>6, <1>7, CountedLanded DEF SDIInv

\* A cleanup that removed some leaves no root that was not there and none that is larger.
LEMMA CleanedSome ==
  ASSUME SDShape, NEW id \in Roots, CleansSome(id)
  PROVE  /\ DOMAIN sdBytes' = DOMAIN sdBytes
         /\ \A x \in DOMAIN sdBytes \ {id} : sdBytes'[x] = sdBytes[x]
         /\ \A x \in DOMAIN sdBytes' : sdBytes'[x] \in 0..MostChunks /\ sdBytes'[x] <= sdBytes[x]
<1>1. \A x \in DOMAIN sdBytes : sdBytes[x] \in 0..MostChunks
  BY DEF SDShape
<1>2. CASE id \in DOMAIN sdBytes
  <2>1. PICK n \in 0..sdBytes[id] : sdBytes' = Put(sdBytes, id, n)
    BY <1>2 DEF CleansSome
  <2>2. n \in 0..MostChunks /\ n <= sdBytes[id]
    BY <1>1, <1>2, RootsFinite
  <2> QED BY <1>1, <1>2, <2>1, <2>2, RootsFinite DEF Put
<1>3. CASE id \notin DOMAIN sdBytes
  BY <1>1, <1>3, RootsFinite DEF CleansSome
<1> QED BY <1>2, <1>3

LEMMA CleanedAll ==
  ASSUME NEW id, Cleans(id)
  PROVE  /\ DOMAIN sdBytes' = DOMAIN sdBytes \ {id}
         /\ \A x \in DOMAIN sdBytes' : sdBytes'[x] = sdBytes[x]
BY DEF Cleans, Drop, Restrict

\* A cleanup that reports success leaves nothing, or n chunks in the bucket.
LEMMA CleanedBut ==
  ASSUME SDShape, NEW id \in Uploads, CleanAndRelease(id)
  PROVE  \E n \in Nat : /\ sdUnseen' = sdUnseen + n
                        /\ id \in DOMAIN sdBytes' => /\ sdS3 /\ sdBytes'[id] = n /\ n \in 0..MostChunks
                                                     /\ id \in DOMAIN sdBytes
                        /\ DOMAIN sdBytes' \subseteq DOMAIN sdBytes
                        /\ \A x \in DOMAIN sdBytes' \ {id} : sdBytes'[x] = sdBytes[x]
<1> DEFINE Left(n) == /\ sdUnseen' = sdUnseen + n
                      /\ id \in DOMAIN sdBytes' => /\ sdS3 /\ sdBytes'[id] = n /\ n \in 0..MostChunks
                                                   /\ id \in DOMAIN sdBytes
                      /\ DOMAIN sdBytes' \subseteq DOMAIN sdBytes
                      /\ \A x \in DOMAIN sdBytes' \ {id} : sdBytes'[x] = sdBytes[x]
<1>1. PICK n \in LeftBehind(id) : /\ IF n = 0 THEN Cleans(id) ELSE sdBytes' = Put(sdBytes, id, n)
                                  /\ sdUnseen' = sdUnseen + n
  BY DEF CleanAndRelease
<1>2. id \in DOMAIN sdBytes => sdBytes[id] \in 0..MostChunks
  BY DEF SDShape
<1>3. n \in Nat /\ (n # 0 => sdS3 /\ id \in DOMAIN sdBytes /\ n \in 0..MostChunks)
  BY <1>2, RootsFinite DEF LeftBehind
<1>4. ASSUME n = 0 PROVE Left(n)
  BY <1>1, <1>3, <1>4, CleanedAll
<1>5. ASSUME n # 0 PROVE Left(n)
  <2>1. sdBytes' = Put(sdBytes, id, n)
    BY <1>1, <1>5
  <2>2. /\ DOMAIN sdBytes' = DOMAIN sdBytes \cup {id} /\ sdBytes'[id] = n
        /\ \A x \in DOMAIN sdBytes \ {id} : sdBytes'[x] = sdBytes[x]
    BY <2>1 DEF Put
  <2>3. sdS3 /\ id \in DOMAIN sdBytes /\ n \in 0..MostChunks
    BY <1>3, <1>5
  <2> QED BY <1>1, <2>2, <2>3
<1>6. n \in Nat /\ Left(n)
  BY <1>3, <1>4, <1>5
<1> QED BY <1>6

\* An upload that is closed or waits for its cleanup is cleaned and released.
LEMMA CleanReleaseStep ==
  ASSUME SDIInv, NEW id \in Uploads, CleanAndRelease(id),
         \/ id \in sdPending /\ sdOpen' = sdOpen
         \/ id \in DOMAIN sdOpen /\ sdOpen' = Drop(sdOpen, {id}),
         UNCHANGED <<sdS3, sdStale, sdNew, sdActive, sdOwner, sdSweep, sdGivenUp>>
  PROVE  SDIInv'
<1>1. SDShape /\ SDUntouched /\ SDSwept /\ SDCounted
  BY DEF SDIInv
<1>2. /\ Releases(id) /\ sdPending' = sdPending \ {id}
      /\ UNCHANGED <<sdOrphans, sdRemote, sdFresh>> /\ sdLeases' = Drop(sdLeases, {id})
  BY DEF CleanAndRelease, Releases
<1>3. id \in sdActive /\ id \in DOMAIN sdLeases /\ id \notin sdNew
  BY <1>1 DEF SDShape, SDUntouched
<1>4. /\ DOMAIN sdLeases' = DOMAIN sdLeases \ {id} /\ IsLeases(sdLeases')
      /\ \A x \in DOMAIN sdLeases \ {id} : sdLeases'[x] = sdLeases[x]
  BY <1>1, <1>2, <1>3, ShapeCounts, LeaseEnds
<1>5. PICK n \in Nat :
        /\ sdUnseen' = sdUnseen + n
        /\ id \in DOMAIN sdBytes' => /\ sdS3 /\ sdBytes'[id] = n /\ n \in 0..MostChunks
                                     /\ id \in DOMAIN sdBytes
        /\ DOMAIN sdBytes' \subseteq DOMAIN sdBytes
        /\ \A x \in DOMAIN sdBytes' \ {id} : sdBytes'[x] = sdBytes[x]
  BY <1>1, CleanedBut
<1>6. /\ DOMAIN sdOpen' = DOMAIN sdOpen \ {id}
      /\ \A x \in DOMAIN sdOpen' : sdOpen'[x] = sdOpen[x]
  BY <1>1 DEF Drop, Restrict, SDUntouched
<1>7. SDShape'
  <2>1. \A x \in DOMAIN sdBytes' : sdBytes'[x] \in 0..MostChunks
    BY <1>1, <1>5 DEF SDShape
  <2>2. sdUnseen' \in Nat
    BY <1>1, <1>5 DEF SDShape
  <2>3. DOMAIN sdOpen' \cup sdPending' \subseteq sdActive' \cap DOMAIN sdLeases'
    BY <1>1, <1>2, <1>4, <1>6 DEF SDShape
  <2> QED BY <1>1, <1>2, <1>4, <1>5, <1>6, <2>1, <2>2, <2>3 DEF SDShape, IsLeases
<1>8. SDUntouched'
  BY <1>1, <1>2, <1>3, <1>4, <1>5, <1>6 DEF SDUntouched, Held, Unregistered
<1>9. SDSwept'
  BY <1>1, <1>2, <1>3, <1>4, <1>6 DEF SDSwept, Held, Unregistered, InUse
<1>10. SDCounted'
  BY <1>1, <1>2, <1>3, <1>5, <1>7, CountedReleased
<1> QED BY <1>7, <1>8, <1>9, <1>10 DEF SDIInv

\* One that cannot be cleaned keeps its lease and waits, or stays as it is.
LEMMA CleanSomeStep ==
  ASSUME SDIInv, NEW id \in Uploads, id \in DOMAIN sdOpen \cup sdPending, CleansSome(id),
         \/ sdPending' = sdPending /\ sdOpen' = sdOpen
         \/ sdPending' = sdPending \cup {id} /\ sdOpen' = Drop(sdOpen, {id}),
         UNCHANGED <<sdS3, sdStale, sdNew, sdBudget, sdActive, sdOwner, sdSweep, sdGivenUp, sdUnseen>>
  PROVE  SDIInv'
<1> USE DEF sdBudget
<1>1. SDShape /\ SDUntouched /\ SDSwept /\ SDCounted
  BY DEF SDIInv
<1>2. id \in sdActive \cap DOMAIN sdLeases /\ id \notin sdNew /\ id \in Roots
  BY <1>1 DEF SDShape, SDUntouched, Roots
<1>3. /\ DOMAIN sdBytes' = DOMAIN sdBytes
      /\ \A x \in DOMAIN sdBytes \ {id} : sdBytes'[x] = sdBytes[x]
      /\ \A x \in DOMAIN sdBytes' : sdBytes'[x] \in 0..MostChunks /\ sdBytes'[x] <= sdBytes[x]
  BY <1>1, <1>2, CleanedSome
<1>4. /\ DOMAIN sdOpen' \subseteq DOMAIN sdOpen /\ \A x \in DOMAIN sdOpen' : sdOpen'[x] = sdOpen[x]
      /\ DOMAIN sdOpen' \cup sdPending' \cup {id} = DOMAIN sdOpen \cup sdPending \cup {id}
      /\ sdPending' \subseteq sdPending \cup {id}
      /\ DOMAIN sdOpen' \cap sdPending' = {}
      /\ Unregistered(id)' => Unregistered(id)
  BY <1>1 DEF Drop, Restrict, SDUntouched, Unregistered
<1>5. SDShape'
  BY <1>1, <1>2, <1>3, <1>4 DEF SDShape
<1>6. SDUntouched'
  BY <1>1, <1>2, <1>3, <1>4 DEF SDUntouched, Held, Unregistered
<1>7. SDSwept'
  BY <1>1, <1>4 DEF SDSwept, Held, Unregistered, InUse
<1>8. SDCounted'
  BY <1>1, <1>3, <1>5, CountedStays
<1> QED BY <1>5, <1>6, <1>7, <1>8 DEF SDIInv

LEMMA CloseStep ==
  ASSUME SDIInv, NEW id \in Uploads, SDClose(id)
  PROVE  SDIInv'
<1> USE DEF sdRest
<1>1. id \in DOMAIN sdOpen /\ sdOpen' = Drop(sdOpen, {id})
  BY DEF SDClose
<1>2. UNCHANGED <<sdS3, sdStale, sdNew, sdActive, sdOwner, sdSweep, sdGivenUp>>
  BY DEF SDClose
<1>3. CASE CleanAndRelease(id)
  BY <1>1, <1>2, <1>3, CleanReleaseStep
<1>4. CASE CleansSome(id) /\ sdPending' = sdPending \cup {id} /\ UNCHANGED <<sdBudget, sdUnseen>>
  BY <1>1, <1>2, <1>4, CleanSomeStep
<1> QED BY <1>3, <1>4 DEF SDClose

\* An upload without a lease is none of those the invariant speaks of.
LEMMA DeletedStep ==
  ASSUME SDIInv, NEW id \in Uploads, SDForget(id)
  PROVE  SDIInv'
<1> USE DEF sdRest
<1>1. SDShape /\ SDUntouched /\ SDSwept /\ SDCounted
  BY DEF SDIInv
<1>2. /\ id \in sdActive \ DOMAIN sdLeases /\ sdActive' = sdActive \ {id}
      /\ UNCHANGED <<sdS3, sdBytes, sdStale, sdNew, sdBudget, sdOpen, sdPending, sdOwner, sdSweep,
                     sdGivenUp, sdUnseen>>
  BY DEF SDForget
<1>3. SDShape'
  BY <1>1, <1>2 DEF SDShape, sdBudget
<1>4. SDUntouched'
  BY <1>1, <1>2 DEF SDUntouched, Held, Unregistered, sdBudget
<1>5. SDSwept'
  BY <1>1, <1>2 DEF SDSwept, Held, Unregistered, InUse, sdBudget
<1> QED BY <1>1, <1>2, <1>3, <1>4, <1>5, CountedSame DEF SDIInv

LEMMA AbortFailsStep ==
  ASSUME SDIInv, NEW id \in Uploads, SDAbortFails(id)
  PROVE  SDIInv'
<1> USE DEF sdRest
<1>1. id \in DOMAIN sdOpen /\ CleansSome(id)
  BY DEF SDAbortFails
<1>2. UNCHANGED <<sdS3, sdStale, sdNew, sdBudget, sdActive, sdOpen, sdPending, sdOwner, sdSweep,
                  sdGivenUp, sdUnseen>>
  BY DEF SDAbortFails
<1> QED BY <1>1, <1>2, CleanSomeStep

LEMMA RetryStep ==
  ASSUME SDIInv, NEW id \in Uploads, SDRetry(id)
  PROVE  SDIInv'
<1> USE DEF sdRest
<1>1. id \in sdPending
  BY DEF SDRetry
<1>2. UNCHANGED <<sdS3, sdStale, sdNew, sdActive, sdOpen, sdOwner, sdSweep, sdGivenUp>>
  BY DEF SDRetry
<1>3. CASE CleanAndRelease(id)
  BY <1>1, <1>2, <1>3, CleanReleaseStep
<1>4. CASE CleansSome(id) /\ UNCHANGED <<sdBudget, sdPending, sdUnseen>>
  BY <1>1, <1>2, <1>4, CleanSomeStep
<1> QED BY <1>3, <1>4 DEF SDRetry

LEMMA SessionEndsStep ==
  ASSUME SDIInv, NEW o \in Owners, SDSessionEnds(o)
  PROVE  SDIInv'
<1> USE DEF sdRest, sdBudget
<1>1. SDShape /\ SDUntouched /\ SDSwept /\ SDCounted
  BY DEF SDIInv
<1>2. UNCHANGED <<sdS3, sdBytes, sdStale, sdNew, sdBudget, sdActive, sdOpen, sdPending, sdSweep,
                  sdGivenUp, sdUnseen>>
  BY DEF SDSessionEnds
<1>3. /\ sdOwner' \in [Owners -> {"live", "expired", "gone"}]
      /\ \A p \in Owners : sdOwner'[p] = "live" => sdOwner[p] = "live"
  BY <1>1 DEF SDSessionEnds, SDShape
<1>4. SDShape'
  BY <1>1, <1>2, <1>3 DEF SDShape
<1>5. SDUntouched'
  BY <1>1, <1>2 DEF SDUntouched, Held, Unregistered
<1>6. SDSwept'
  BY <1>1, <1>2, <1>3 DEF SDSwept, Held, Unregistered, InUse, SDShape
<1> QED BY <1>1, <1>2, <1>4, <1>5, <1>6, CountedSame DEF SDIInv

LEMMA TempWriteStep ==
  ASSUME SDIInv, NEW t \in Temps, NEW o \in Owners, SDTempWrite(t, o)
  PROVE  SDIInv'
<1> USE DEF sdRest
<1>1. SDShape /\ SDUntouched /\ SDSwept /\ SDCounted
  BY DEF SDIInv
<1>2. /\ t \in DOMAIN sdLeases => sdLeases[t].owner = o /\ sdLeases[t].size < TempSize
      /\ t \in DOMAIN sdBytes => t \in DOMAIN sdLeases
      /\ Reserves(t, o, 1)
      /\ UNCHANGED <<sdS3, sdStale, sdNew, sdActive, sdOpen, sdPending, sdOwner, sdSweep, sdGivenUp>>
  BY DEF SDTempWrite
<1>3. t \in Roots /\ t \notin Uploads
  BY StagingDiskAssumption DEF Roots
<1>4. t \in DOMAIN sdLeases =>
        sdLeases[t].size \in Nat /\ sdLeases[t].size + 1 <= MostChunks /\ sdLeases[t].size + 1 <= TempSize + 1
  BY <1>1, <1>2, RootsFinite DEF SDShape
<1>5. 1 <= MostChunks /\ 1 <= TempSize + 1 /\ 1 \in Nat
  BY RootsFinite
<1>6. /\ IsLeases(sdLeases')
      /\ DOMAIN sdLeases' = IF Fits(o, 1) THEN DOMAIN sdLeases \cup {t} ELSE DOMAIN sdLeases
      /\ \A x \in DOMAIN sdLeases \ {t} : sdLeases'[x] = sdLeases[x]
      /\ Fits(o, 1) => sdLeases'[t].size = 1 + (IF t \in DOMAIN sdLeases THEN sdLeases[t].size ELSE 0)
      /\ sdRemote' \in Nat /\ sdUnseen' \in Nat /\ sdFresh' \in BOOLEAN
      /\ IsCount(sdOrphans')
  BY <1>2, <1>3, <1>4, <1>5, ReserveShape
<1>7. PICK n \in Nat : /\ n = (IF t \in DOMAIN sdBytes THEN sdBytes[t] ELSE 0)
                       /\ \E m \in {n, n + 1} : sdBytes' = IF Fits(o, 1) THEN Put(sdBytes, t, m) ELSE sdBytes
  BY <1>1, RootsFinite DEF SDTempWrite, SDShape
<1>8. PICK m \in {n, n + 1} : sdBytes' = IF Fits(o, 1) THEN Put(sdBytes, t, m) ELSE sdBytes
  BY <1>7
<1>9. n <= IF t \in DOMAIN sdLeases THEN sdLeases[t].size ELSE 0
  BY <1>1, <1>2, <1>4, <1>7 DEF SDCounted
<1>10. Fits(o, 1) => /\ DOMAIN sdBytes' = DOMAIN sdBytes \cup {t} /\ sdBytes'[t] = m
                     /\ \A x \in DOMAIN sdBytes \ {t} : sdBytes'[x] = sdBytes[x]
  BY <1>8 DEF Put
<1>11. Fits(o, 1) => m <= sdLeases'[t].size /\ m \in 0..MostChunks /\ t \in DOMAIN sdLeases'
  <2>1. m \in Nat /\ m <= n + 1
    BY <1>8
  <2>2. sdLeases'[t].size \in 0..MostChunks \/ t \notin DOMAIN sdLeases'
    BY <1>6 DEF IsLeases
  <2>3. CASE t \in DOMAIN sdLeases
    BY <1>4, <1>6, <1>9, <2>1, <2>2, <2>3, RootsFinite
  <2>4. CASE t \notin DOMAIN sdLeases
    BY <1>5, <1>6, <1>9, <2>1, <2>2, <2>4, RootsFinite
  <2> QED BY <2>3, <2>4
<1>12. ~Fits(o, 1) => sdBytes' = sdBytes
  BY <1>8
<1>13. DOMAIN sdBytes' \subseteq Roots /\ \A r \in DOMAIN sdBytes' : sdBytes'[r] \in 0..MostChunks
  BY <1>1, <1>3, <1>10, <1>11, <1>12 DEF SDShape
<1>14. SDShape'
  BY <1>1, <1>2, <1>6, <1>13 DEF SDShape, IsLeases, IsCount
<1>15. \A x \in Uploads : x \in DOMAIN sdLeases' <=> x \in DOMAIN sdLeases
  BY <1>3, <1>6
<1>16. \A x \in Uploads : x \in DOMAIN sdBytes' <=> x \in DOMAIN sdBytes
  BY <1>3, <1>10, <1>12
<1>17. SDUntouched'
  <2>1. sdNew \subseteq Uploads
    BY <1>1 DEF SDShape
  <2> QED BY <1>1, <1>2, <1>15, <1>16, <2>1 DEF SDUntouched, Held, Unregistered
<1>18. SDSwept'
  BY <1>1, <1>2, <1>15 DEF SDSwept, Held, Unregistered, InUse
<1>19. SDCounted'
  <2>1. \A x \in DOMAIN sdBytes' \ {t} : x \in DOMAIN sdBytes /\ sdBytes'[x] = sdBytes[x]
    BY <1>10, <1>12
  <2>2. \/ sdBytes' = sdBytes /\ (t \in Temps => t \in DOMAIN sdLeases \/ t \notin DOMAIN sdBytes)
        \/ t \in DOMAIN sdLeases' /\ t \in Temps /\ sdBytes'[t] <= sdLeases'[t].size
    BY <1>2, <1>10, <1>11, <1>12
  <2> QED BY <1>2, <1>3, <1>4, <1>5, <1>14, <2>1, <2>2, CountedReserved
<1> QED BY <1>14, <1>17, <1>18, <1>19 DEF SDIInv

LEMMA TempDisposeStep ==
  ASSUME SDIInv, NEW t \in Temps, SDTempDispose(t)
  PROVE  SDIInv'
<1> USE DEF sdRest
<1>1. SDShape /\ SDUntouched /\ SDSwept /\ SDCounted
  BY DEF SDIInv
<1>2. /\ t \in DOMAIN sdLeases /\ Releases(t) /\ sdBytes' = Drop(sdBytes, {t})
      /\ UNCHANGED <<sdOrphans, sdRemote, sdFresh>> /\ sdLeases' = Drop(sdLeases, {t})
      /\ UNCHANGED <<sdS3, sdStale, sdNew, sdActive, sdOpen, sdPending, sdOwner, sdSweep, sdGivenUp,
                     sdUnseen>>
  BY DEF SDTempDispose, Releases
<1>3. t \notin Uploads
  BY StagingDiskAssumption
<1>4. /\ DOMAIN sdLeases' = DOMAIN sdLeases \ {t} /\ IsLeases(sdLeases')
      /\ \A x \in DOMAIN sdLeases \ {t} : sdLeases'[x] = sdLeases[x]
  BY <1>1, <1>2, ShapeCounts, LeaseEnds
<1>5. DOMAIN sdBytes' = DOMAIN sdBytes \ {t} /\ \A x \in DOMAIN sdBytes' : sdBytes'[x] = sdBytes[x]
  BY <1>2 DEF Drop, Restrict
<1>6. SDShape'
  BY <1>1, <1>2, <1>3, <1>4, <1>5 DEF SDShape, IsLeases
<1>7. SDUntouched'
  <2>1. sdNew \subseteq Uploads
    BY <1>1 DEF SDShape
  <2> QED BY <1>1, <1>2, <1>3, <1>4, <1>5, <2>1 DEF SDUntouched, Held, Unregistered
<1>8. SDSwept'
  BY <1>1, <1>2, <1>3, <1>4 DEF SDSwept, Held, Unregistered, InUse
<1>9. SDCounted'
  <2>1. sdUnseen' = sdUnseen + 0
    BY <1>1, <1>2 DEF SDShape
  <2> QED BY <1>1, <1>2, <1>5, <1>6, <2>1, CountedReleased
<1> QED BY <1>6, <1>7, <1>8, <1>9 DEF SDIInv

LEMMA AgeStep ==
  ASSUME SDIInv, NEW id \in Uploads, SDAge(id)
  PROVE  SDIInv'
<1> USE DEF sdRest, sdBudget
<1>1. SDShape /\ SDUntouched /\ SDSwept /\ SDCounted
  BY DEF SDIInv
<1>2. /\ id \in DOMAIN sdBytes /\ ~Held(id) /\ ~Unregistered(id) /\ sdStale' = sdStale \cup {id}
      /\ UNCHANGED <<sdS3, sdBytes, sdNew, sdBudget, sdActive, sdOpen, sdPending, sdOwner, sdSweep,
                     sdGivenUp, sdUnseen>>
  BY DEF SDAge
<1>3. SDShape'
  BY <1>1, <1>2 DEF SDShape
<1>4. SDUntouched'
  BY <1>1, <1>2 DEF SDUntouched, Held, Unregistered
<1>5. SDSwept'
  BY <1>1, <1>2 DEF SDSwept, Held, Unregistered, InUse
<1> QED BY <1>1, <1>2, <1>3, <1>4, <1>5, CountedSame DEF SDIInv

\* An inventory that is old is counted on no more.
LEMMA MinuteStep ==
  ASSUME SDIInv, SDMinute
  PROVE  SDIInv'
<1> USE DEF sdRest
<1>1. SDShape /\ SDUntouched /\ SDSwept /\ SDCounted
  BY DEF SDIInv
<1>2. /\ sdFresh' = FALSE
      /\ UNCHANGED <<sdS3, sdBytes, sdStale, sdNew, sdUsed, sdLeases, sdOrphans, sdScanErr, sdRemote,
                     sdActive, sdOpen, sdPending, sdOwner, sdSweep, sdGivenUp, sdUnseen>>
  BY DEF SDMinute
<1>3. SDShape' /\ SDUntouched' /\ SDSwept'
  BY <1>1, <1>2 DEF SDShape, SDUntouched, SDSwept, Held, Unregistered, InUse
<1>4. /\ Promised(sdLeases)' = Promised(sdLeases) /\ \A o \in Owners : OwnedBy(o)' = OwnedBy(o)
      /\ OnDisk' = OnDisk
  BY <1>2 DEF Promised, OwnedBy, OnDisk
<1>5. SDCounted'
  BY <1>1, <1>2, <1>4 DEF SDCounted
<1> QED BY <1>3, <1>5 DEF SDIInv

\* The sweeper picks what nobody has: an id that has left a directory is not new and not held.
LEMMA SweepPickStep ==
  ASSUME SDIInv, NEW id \in Uploads, SDSweepPick(id)
  PROVE  SDIInv'
<1> USE DEF sdRest, sdBudget
<1>1. SDShape /\ SDUntouched /\ SDSwept /\ SDCounted
  BY DEF SDIInv
<1>2. /\ id \in DOMAIN sdBytes /\ Reclaimable(id) /\ sdSweep' = id
      /\ UNCHANGED <<sdS3, sdBytes, sdStale, sdNew, sdBudget, sdActive, sdOpen, sdPending, sdOwner,
                     sdGivenUp, sdUnseen>>
  BY DEF SDSweepPick
<1>3. SDShape'
  BY <1>1, <1>2 DEF SDShape
<1>4. SDUntouched'
  BY <1>1, <1>2 DEF SDUntouched, Held, Unregistered
<1>5. id \notin Kept /\ ~InUse(id) /\ ~Held(id) /\ ~Unregistered(id) /\ id \notin sdNew
  BY <1>1, <1>2 DEF Reclaimable, SDUntouched
<1>6. SDSwept'
  BY <1>2, <1>5 DEF SDSwept, Held, Unregistered, InUse
<1> QED BY <1>1, <1>2, <1>3, <1>4, <1>6, CountedSame DEF SDIInv

LEMMA SweepDeleteStep ==
  ASSUME SDIInv, SDSweepDelete
  PROVE  SDIInv'
<1> USE DEF sdRest, sdBudget
<1>1. SDShape /\ SDUntouched /\ SDSwept /\ SDCounted
  BY DEF SDIInv
<1>2. /\ Cleans(sdSweep) \/ CleansSome(sdSweep)
      /\ sdSweep' = NoRoot
      /\ UNCHANGED <<sdS3, sdStale, sdNew, sdBudget, sdActive, sdOpen, sdPending, sdOwner, sdGivenUp,
                     sdUnseen>>
  BY DEF SDSweepDelete
<1>3. sdSweep \in Uploads
  BY DEF SDIInv, SDShape, SDSweepDelete
<1>4. \A x \in DOMAIN sdBytes : sdBytes[x] \in 0..MostChunks /\ sdBytes[x] <= sdBytes[x]
  BY <1>1, RootsFinite DEF SDShape
<1>5. /\ DOMAIN sdBytes' \subseteq DOMAIN sdBytes
      /\ \A x \in DOMAIN sdBytes' \ {sdSweep} : sdBytes'[x] = sdBytes[x]
      /\ \A x \in DOMAIN sdBytes' : sdBytes'[x] \in 0..MostChunks /\ sdBytes'[x] <= sdBytes[x]
  <2>1. CASE Cleans(sdSweep)
    BY <1>4, <2>1, CleanedAll
  <2>2. CASE CleansSome(sdSweep)
    BY <1>1, <1>3, <2>2, CleanedSome DEF Roots
  <2> QED BY <1>2, <2>1, <2>2
<1>6. SDShape'
  BY <1>1, <1>2, <1>3, <1>5 DEF SDShape
<1>7. SDUntouched'
  BY <1>1, <1>2, <1>5 DEF SDUntouched, Held, Unregistered
<1>8. SDSwept'
  BY <1>2, StagingDiskAssumption DEF SDSwept
<1>9. SDCounted'
  BY <1>1, <1>2, <1>5, <1>6, CountedStays
<1> QED BY <1>6, <1>7, <1>8, <1>9 DEF SDIInv

\* Whoever starts finds what is there, and nothing is leased, owned or swept.
LEMMA RestartStep ==
  ASSUME SDIInv, SDRestart
  PROVE  SDIInv'
<1> USE DEF SDRestart, NoLeases
<1>1. SDShape /\ SDUntouched
  BY DEF SDIInv
<1>2. /\ DOMAIN sdLeases' = {} /\ DOMAIN sdOpen' = {}
      /\ sdOwner' \in [Owners -> {"live", "expired", "gone"}]
      /\ sdOrphans' = OnDisk
  BY DEF Scanned
<1>3. DOMAIN sdOrphans' \subseteq Roots /\ \A r \in DOMAIN sdOrphans' : sdOrphans'[r] \in 0..MostChunks
  BY <1>1, <1>2, OnDiskAt DEF SDShape
<1>4. SDShape'
  BY <1>1, <1>2, <1>3 DEF SDShape
<1>5. SDUntouched'
  BY <1>1, <1>2 DEF SDUntouched, Held, Unregistered
<1>6. SDSwept'
  BY StagingDiskAssumption DEF SDSwept
<1>7. SDCounted'
  <2>1. OnDisk' = OnDisk
    BY DEF OnDisk
  <2>2. Started'
    BY <1>2, <2>1, OnDiskAt DEF Started, Scanned
  <2>3. (SDShape /\ Started => SDCounted)'
    BY CountedAtStart, PTL
  <2> QED BY <1>4, <2>2, <2>3
<1> QED BY <1>4, <1>5, <1>6, <1>7 DEF SDIInv

LEMMA SDStutters ==
  ASSUME SDIInv, UNCHANGED sdvars
  PROVE  SDIInv'
<1> USE DEF sdvars, sdRest, sdBudget
<1>1. SDShape /\ SDUntouched /\ SDSwept /\ SDCounted
  BY DEF SDIInv
<1>2. SDShape' /\ SDUntouched' /\ SDSwept'
  BY <1>1 DEF SDShape, SDUntouched, SDSwept, Held, Unregistered, InUse
<1>3. UNCHANGED <<sdS3, sdBytes, sdBudget, sdUnseen>>
  OBVIOUS
<1> QED BY <1>1, <1>2, <1>3, CountedSame DEF SDIInv

LEMMA SDStepIInv == SDIInv /\ [SDNext]_sdvars => SDIInv'
<1> SUFFICES ASSUME SDIInv, [SDNext]_sdvars
             PROVE  SDIInv'
  OBVIOUS
<1>1. ASSUME NEW id \in Uploads, SDCreate(id) \/ SDCreateFails(id) \/ SDRegister(id)
      PROVE  SDIInv'
  BY <1>1, CreateStep, CreateFailsStep, RegisterStep
<1>2. ASSUME NEW id \in Uploads, SDChunk(id) \/ SDGiveUp(id) \/ SDLands(id)
      PROVE  SDIInv'
  BY <1>2, ChunkStep, GiveUpStep, LandsStep
<1>3. ASSUME NEW id \in Uploads, SDClose(id) \/ SDAbortFails(id) \/ SDRetry(id)
      PROVE  SDIInv'
  BY <1>3, CloseStep, AbortFailsStep, RetryStep
<1>4. ASSUME NEW id \in Uploads, SDForget(id) \/ SDAge(id) \/ SDSweepPick(id)
      PROVE  SDIInv'
  BY <1>4, DeletedStep, AgeStep, SweepPickStep
<1>5. ASSUME NEW id \in Uploads, NEW o \in Owners, SDReserve(id, o)
      PROVE  SDIInv'
  BY <1>5, ReserveStep
<1>6. ASSUME NEW o \in Owners, SDSessionEnds(o)
      PROVE  SDIInv'
  BY <1>6, SessionEndsStep
<1>7. ASSUME NEW t \in Temps, NEW o \in Owners, SDTempWrite(t, o)
      PROVE  SDIInv'
  BY <1>7, TempWriteStep
<1>8. ASSUME NEW t \in Temps, SDTempDispose(t)
      PROVE  SDIInv'
  BY <1>8, TempDisposeStep
<1>9. CASE SDMinute \/ SDSweepDelete \/ SDRestart
  BY <1>9, MinuteStep, SweepDeleteStep, RestartStep
<1>10. CASE UNCHANGED sdvars
  BY <1>10, SDStutters
<1> QED BY <1>1, <1>2, <1>3, <1>4, <1>5, <1>6, <1>7, <1>8, <1>9, <1>10 DEF SDNext

-----------------------------------------------------------------------------
(* The properties.                                                         *)

\* The budget's count, the order of an upload's phases and what the sweeper may touch, in
\* every reachable state of every instance (resourceBudget, ownUpload, Sweep).
THEOREM SDIInvHolds == SDSpec => []SDIInv
<1>1. SDInit => SDIInv
  BY SDInitIInv
<1>2. SDIInv /\ [SDNext]_sdvars => SDIInv'
  BY SDStepIInv
<1> QED BY <1>1, <1>2, PTL DEF SDSpec

\* What b.used believes is what is leased, found and counted, and no session has more than
\* its share (reserve, release).
THEOREM SDTypeCorrect == SDSpec => []SDTypeOK
<1>1. SDIInv => SDTypeOK
  <2> SUFFICES ASSUME SDIInv
               PROVE  SDTypeOK
    OBVIOUS
  <2>1. \A r \in DOMAIN sdBytes : sdBytes[r] \in Nat
    BY RootsFinite DEF SDIInv, SDShape
  <2> QED BY <2>1 DEF SDIInv, SDShape, SDCounted, SDTypeOK
<1> QED BY <1>1, SDIInvHolds, PTL

\* What lies unleased is never more than the budget counts for it, as long as its inventory
\* is fresh.
LEMMA UnleasedCounted ==
  SDIInv /\ (sdS3 => sdFresh) => Total(Unleased) <= Total(sdOrphans) + sdRemote + sdUnseen
<1> SUFFICES ASSUME SDIInv, sdS3 => sdFresh
             PROVE  Total(Unleased) <= Total(sdOrphans) + sdRemote + sdUnseen
  OBVIOUS
<1>1. SDShape /\ SDCounted
  BY DEF SDIInv
<1>2. IsCount(sdBytes) /\ IsCount(sdOrphans)
  BY <1>1, ShapeCounts
<1>3. /\ DOMAIN Unleased = DOMAIN sdBytes \ DOMAIN sdLeases
      /\ \A r \in DOMAIN Unleased : Unleased[r] = sdBytes[r]
  BY DEF Unleased, Drop, Restrict
<1>4. IsCount(Unleased) /\ \A r \in DOMAIN sdBytes : sdBytes[r] \in Int
  BY <1>2, <1>3, RootsFinite DEF IsCount
<1>5. Total(sdOrphans) \in Nat /\ sdRemote \in Nat /\ sdUnseen \in Nat /\ Total(Unleased) \in Nat
  BY <1>1, <1>2, <1>4, TotalIsNat DEF SDShape
<1>6. CASE ~sdS3
  <2>1. \A r \in DOMAIN Unleased :
          r \in DOMAIN sdOrphans /\ Unleased[r] \in Int /\ Unleased[r] <= sdOrphans[r]
    BY <1>1, <1>3, <1>4, <1>6, OnDiskAt DEF SDCounted
  <2>2. Total(Unleased) <= Total(sdOrphans)
    BY <1>2, <2>1, TotalMono
  <2> QED BY <1>5, <2>2
<1>7. CASE sdS3
  <2> DEFINE t == Only(Unleased, Temps)
  <2>1. DOMAIN t = DOMAIN Unleased \cap Temps /\ \A r \in DOMAIN t : t[r] = Unleased[r]
    BY DEF Only, Restrict
  <2>2. \A r \in DOMAIN t : r \in DOMAIN sdOrphans /\ t[r] \in Int /\ t[r] <= sdOrphans[r]
    BY <1>1, <1>3, <1>4, <1>7, <2>1, OnDiskAt DEF SDCounted
  <2> HIDE DEF t
  <2>3. Total(t) <= Total(sdOrphans)
    BY <1>2, <2>2, TotalMono
  <2>4. UnleasedChunks <= sdRemote + sdUnseen
    BY <1>1, <1>7 DEF SDCounted
  <2>5. Total(Unleased) <= Total(t) + UnleasedChunks
    BY <1>4, TotalCovered DEF t, UnleasedChunks
  <2>6. IsCount(t)
    BY <1>4, <2>1 DEF IsCount
  <2>7. Total(t) \in Nat /\ UnleasedChunks \in Nat
    BY <1>1, <2>6, RestCounts, TotalIsNat
  <2> QED BY <1>5, <2>3, <2>4, <2>5, <2>7
<1> QED BY <1>6, <1>7

\* A request that is granted leaves room for all that is promised and all that lies there.
LEMMA ReservedRoom ==
  ASSUME SDIInv, SDIInv', NEW r \in Roots, NEW o \in Owners, NEW n \in Nat, n <= MostChunks,
         r \in DOMAIN sdLeases => sdLeases[r].owner = o /\ sdLeases[r].size + n <= MostChunks,
         Reserves(r, o, n), UNCHANGED sdS3, Fits(o, n)
  PROVE  Promised(sdLeases') + Total(Unleased') <= StagingMax + sdUnseen'
<1>1. /\ sdUsed' = Promised(sdLeases') + Total(sdOrphans') + sdRemote'
      /\ sdUsed' <= StagingMax
  BY ReserveSums DEF Promised
<1>2. sdS3' => sdFresh'
  BY DEF Reserves, Renews, SDIInv, SDShape
<1>3. (SDIInv /\ (sdS3 => sdFresh) => Total(Unleased) <= Total(sdOrphans) + sdRemote + sdUnseen)'
  BY UnleasedCounted, PTL
<1>4. Total(Unleased') <= Total(sdOrphans') + sdRemote' + sdUnseen'
  BY <1>2, <1>3
<1>5. /\ Promised(sdLeases') \in Nat /\ Total(sdOrphans') \in Nat /\ Total(Unleased') \in Nat
      /\ sdRemote' \in Nat /\ sdUnseen' \in Nat
  <2>1. SDShape'
    BY DEF SDIInv
  <2>2. IsCount(sdBytes') /\ IsCount(sdOrphans') /\ IsLeases(sdLeases')
    BY <2>1 DEF SDShape, IsCount, IsLeases
  <2>3. IsCount(Unleased')
    BY <2>2 DEF IsCount, Unleased, Drop, Restrict
  <2>4. IsCount(Sizes(sdLeases'))
    BY <2>2, LeasesCount
  <2>5. Promised(sdLeases') \in Nat
    BY <2>4, TotalIsNat DEF Promised
  <2> QED BY <2>1, <2>2, <2>3, <2>5, TotalIsNat DEF SDShape
<1>6. StagingMax \in Nat
  BY StagingDiskAssumption
<1> QED BY <1>1, <1>4, <1>5, <1>6

\* A lease is granted, or made larger.
Granted == \E r \in DOMAIN sdLeases' : r \notin DOMAIN sdLeases \/ sdLeases'[r].size > sdLeases[r].size

\* Only a request that fits makes a lease.
LEMMA GrantedOnlyByReserve ==
  ASSUME SDIInv, [SDNext]_sdvars, Granted
  PROVE  \E r \in Roots : \E o \in Owners : \E n \in Nat :
           /\ n <= MostChunks
           /\ r \in DOMAIN sdLeases => sdLeases[r].owner = o /\ sdLeases[r].size + n <= MostChunks
           /\ Reserves(r, o, n) /\ UNCHANGED sdS3 /\ Fits(o, n)
<1>1. SDShape
  BY DEF SDIInv
<1>2. \A r \in DOMAIN sdLeases : sdLeases[r].size \in Nat
  BY <1>1, RootsFinite DEF SDShape
<1>3. sdLeases' # sdLeases
  BY <1>2 DEF Granted
<1>4. \A r : sdLeases' # Drop(sdLeases, {r})
  BY <1>2 DEF Granted, Drop, Restrict
<1>5. sdLeases' # NoLeases
  BY DEF Granted, NoLeases
<1>6. \A r : ~Releases(r)
  BY <1>4 DEF Releases
<1>7. ASSUME NEW id \in Uploads, NEW o \in Owners, SDReserve(id, o)
      PROVE  /\ id \in Roots /\ id \notin DOMAIN sdLeases /\ Reserves(id, o, UploadSize)
             /\ UNCHANGED sdS3 /\ Fits(o, UploadSize)
  <2>1. Reserves(id, o, UploadSize) /\ UNCHANGED sdS3 /\ id \notin DOMAIN sdLeases
    BY <1>7 DEF SDReserve, SDIInv, SDUntouched, sdRest
  <2>2. Fits(o, UploadSize)
    BY <1>3, <2>1 DEF Reserves
  <2> QED BY <2>1, <2>2 DEF Roots
<1>8. ASSUME NEW t \in Temps, NEW o \in Owners, SDTempWrite(t, o)
      PROVE  /\ t \in Roots /\ Reserves(t, o, 1) /\ UNCHANGED sdS3 /\ Fits(o, 1)
             /\ t \in DOMAIN sdLeases => sdLeases[t].owner = o /\ sdLeases[t].size + 1 <= MostChunks
  <2>1. /\ Reserves(t, o, 1) /\ UNCHANGED sdS3
        /\ t \in DOMAIN sdLeases => sdLeases[t].owner = o /\ sdLeases[t].size < TempSize
    BY <1>8 DEF SDTempWrite, sdRest
  <2>2. Fits(o, 1)
    BY <1>3, <2>1 DEF Reserves
  <2> QED BY <1>2, <2>1, <2>2, RootsFinite DEF Roots
<1>9. UploadSize \in Nat /\ UploadSize <= MostChunks /\ 1 \in Nat /\ 1 <= MostChunks
  BY RootsFinite
<1>10. ASSUME NEW id \in Uploads,
              \/ SDCreate(id) \/ SDRegister(id) \/ SDChunk(id) \/ SDGiveUp(id) \/ SDLands(id)
              \/ SDForget(id) \/ SDAbortFails(id) \/ SDAge(id) \/ SDSweepPick(id)
       PROVE  FALSE
  BY <1>3, <1>10 DEF SDCreate, SDRegister, SDChunk, SDGiveUp, SDLands, SDForget, SDAbortFails,
                     SDAge, SDSweepPick, sdBudget
<1>11. ASSUME NEW id \in Uploads, SDCreateFails(id) \/ SDClose(id) \/ SDRetry(id)
       PROVE  FALSE
  BY <1>3, <1>6, <1>11 DEF SDCreateFails, SDClose, SDRetry, CleanAndRelease, sdBudget
<1>12. ASSUME NEW o \in Owners, SDSessionEnds(o)
       PROVE  FALSE
  BY <1>3, <1>12 DEF SDSessionEnds, sdBudget
<1>13. ASSUME NEW t \in Temps, SDTempDispose(t)
       PROVE  FALSE
  BY <1>6, <1>13 DEF SDTempDispose
<1>14. ~SDMinute /\ ~SDSweepDelete /\ ~SDRestart /\ ~UNCHANGED sdvars
  BY <1>3, <1>5 DEF SDMinute, SDSweepDelete, SDRestart, sdvars, sdBudget
<1>15. \/ \E id \in Uploads : \E o \in Owners : SDReserve(id, o)
       \/ \E t \in Temps : \E o \in Owners : SDTempWrite(t, o)
  BY <1>10, <1>11, <1>12, <1>13, <1>14 DEF SDNext
<1>16. CASE \E id \in Uploads : \E o \in Owners : SDReserve(id, o)
  BY <1>7, <1>9, <1>16
<1>17. CASE \E t \in Temps : \E o \in Owners : SDTempWrite(t, o)
  BY <1>8, <1>9, <1>17
<1> QED BY <1>15, <1>16, <1>17

\* A lease is only granted where everything promised and everything unleased that lies in
\* the staging area fit the limit together, whatever was restarted, left behind or swept
\* (reserve, newResourceBudget, StagedBytes).
THEOREM SDRoomHolds == SDSpec => SDRoom
<1>1. ASSUME SDIInv, SDIInv', [SDNext]_sdvars, Granted
      PROVE  Promised(sdLeases') + Total(Unleased') <= StagingMax + sdUnseen'
  <2>1. PICK r \in Roots, o \in Owners, n \in Nat :
           /\ n <= MostChunks
           /\ r \in DOMAIN sdLeases => sdLeases[r].owner = o /\ sdLeases[r].size + n <= MostChunks
           /\ Reserves(r, o, n) /\ UNCHANGED sdS3 /\ Fits(o, n)
    BY <1>1, GrantedOnlyByReserve
  <2> QED BY <1>1, <2>1, ReservedRoom
<1>2. SDIInv /\ SDIInv' /\ [SDNext]_sdvars =>
        [Granted => Promised(sdLeases') + Total(Unleased') <= StagingMax + sdUnseen']_sdvars
  BY <1>1
<1>3. SDSpec => [][Granted => Promised(sdLeases') + Total(Unleased') <= StagingMax + sdUnseen']_sdvars
  BY <1>2, SDIInvHolds, PTL DEF SDSpec
<1> QED BY <1>3 DEF SDRoom, Granted

\* The sweeper deletes no directory that a live session can commit, that a request is about
\* to get, or that somebody else keeps something in (Sweep, isReclaimable).
THEOREM SDSparesHolds == SDSpec => SDSpares
<1>1. SDIInv => \A id \in Uploads :
        sdSweep = id => id \notin Kept /\ ~InUse(id) /\ ~Held(id) /\ ~Unregistered(id)
  BY DEF SDIInv, SDSwept
<1>2. SDIInv => [\A id \in Uploads :
        sdSweep = id /\ sdSweep' = NoRoot /\ ~(sdRestarts' > sdRestarts) =>
          id \notin Kept /\ ~InUse(id) /\ ~Held(id) /\ ~Unregistered(id)]_sdvars
  BY <1>1
<1> QED BY <1>2, SDIInvHolds, PTL DEF SDSpec, SDSpares
=============================================================================
