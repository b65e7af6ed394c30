------------------------------ MODULE KnownHosts ------------------------------
(***************************************************************************)
(* The known_hosts store and the SFTP dial that trusts it:                  *)
(* sftp/knownhosts.go and DialContext (sftp/sftp.go).  Dials run            *)
(* concurrently, the file is read and changed under one mutex, an append    *)
(* may be cut short, a replacement is written beside the file and renamed,  *)
(* and the process may stop between any two steps.                          *)
(*                                                                         *)
(* A line of the file is a record: the names its host field covers, its key *)
(* and its kind: "host" for a plain entry or a hashed one (of one name),     *)
(* "wild" for a field with a pattern, "revoked" for a marker.                *)
(***************************************************************************)
EXTENDS FiniteSets

CONSTANTS
  Names,          \* normalized addresses, of hosts and of their IPs
  HostKeys,       \* server keys
  NoKey,          \* no fingerprint was sent
  Dials,          \* goroutines in DialContext
  OperatorLines   \* lines an operator may have put in the file

CONSTANTS
  RemoteOf(_),    \* the address a name resolves to
  AlgorithmOf(_)  \* key.Type()

LineKinds == {"host", "wild", "revoked"}
Lines == [names : SUBSET Names, key : HostKeys, kind : LineKinds]

ASSUME KnownHostsAssumption ==
  /\ NoKey \notin HostKeys
  /\ Names # {}
  /\ OperatorLines \subseteq Lines
  /\ \A n \in Names : RemoteOf(n) \in Names

Tails == {"clean", "open", "torn"}

VARIABLES
  khFile,     \* the lines of known_hosts that parse
  khTail,     \* its end: "clean", "open" (no final newline), "torn" (half a line)
  khTemp,     \* what the replacement in hand wrote beside the file
  khPc,       \* idle, built, replacing (temp file synced), keyed (the password follows)
  khHost,     \* addr
  khAccept,   \* acceptFingerprint, until the callback is done with it
  khKey,      \* the key the server presented
  khConsent   \* history: the keys clients confirmed, by name

khStore == <<khFile, khTail, khTemp>>
khDials == <<khPc, khHost, khAccept, khKey>>
khvars  == <<khStore, khDials, khConsent>>

\* knownHostsMu; every other user of it is done within a step.
MutexFree == \A d \in Dials : khPc[d] # "replacing"

-----------------------------------------------------------------------------
(* Reading the file.                                                       *)

\* knownhosts.New rejects the whole file for one bad line.
Loads == khTail # "torn"

Revoked(file, k) == \E l \in file : l.kind = "revoked" /\ l.key = k

\* KeyError.Want: the keys pinned for a name.
Want(file, n) == {l.key : l \in {x \in file : x.kind # "revoked" /\ n \in x.names}}

Verified(file, n, k) == ~Revoked(file, k) /\ k \in Want(file, n)

\* Mutant: a pin of any algorithm, or of none, reads as an unknown host.
NoSameAlgorithm(n, k) == {}

\* The pins that say the host key changed.
SameAlgorithm(n, k) == {w \in Want(khFile, n) : AlgorithmOf(w) = AlgorithmOf(k)}

-----------------------------------------------------------------------------
(* Changing it.                                                            *)

PinLine(n, k) == [names |-> {n}, key |-> k, kind |-> "host"]

\* The entries without the names that are pinned anew.
WithoutNames(file, dropped) ==
  {l \in file : l.kind # "host"}
  \cup {[l EXCEPT !.names = @ \ dropped] :
          l \in {x \in file : x.kind = "host" /\ x.names \ dropped # {}}}

\* What replaceKnownHostLocked writes for addr n, reached at RemoteOf(n).
Replaced(n, k) == WithoutNames(khFile, {n, RemoteOf(n)}) \cup {PinLine(n, k)}

\* It refuses a pattern anywhere, and a marker left for the host itself.
Replaceable(n) ==
  /\ \A l \in khFile : l.kind # "wild"
  /\ \A l \in khFile : l.kind = "revoked" => n \notin l.names

-----------------------------------------------------------------------------
NoName == CHOOSE n \in Names : TRUE   \* of a dial that is over

KHInit ==
  /\ khFile \in SUBSET OperatorLines
  /\ khTail \in {"clean", "open"}
  /\ khTemp = {}
  /\ khPc = [d \in Dials |-> "idle"]
  /\ khHost = [d \in Dials |-> NoName]
  /\ khAccept = [d \in Dials |-> NoKey]
  /\ khKey = [d \in Dials |-> NoKey]
  /\ khConsent = {}

\* DialContext returns: with an error, a prompt or a client.
Returns(d) ==
  /\ khPc' = [khPc EXCEPT ![d] = "idle"]
  /\ khHost' = [khHost EXCEPT ![d] = NoName]
  /\ khAccept' = [khAccept EXCEPT ![d] = NoKey]
  /\ khKey' = [khKey EXCEPT ![d] = NoKey]
  /\ UNCHANGED khConsent

\* DialContext builds the callback, which reads the file once for its errors.
KHDial(d, n, fp) ==
  /\ khPc[d] = "idle" /\ MutexFree
  /\ Loads
  /\ khPc' = [khPc EXCEPT ![d] = "built"]
  /\ khHost' = [khHost EXCEPT ![d] = n]
  /\ khAccept' = [khAccept EXCEPT ![d] = fp]
  /\ khConsent' = khConsent \cup ({<<n, fp>>} \cap (Names \X HostKeys))
  /\ UNCHANGED <<khStore, khKey>>

\* No server, a timeout, a refused password, no subsystem, no Getwd, or a client at last.
KHReturn(d) ==
  /\ khPc[d] \in {"built", "keyed"}
  /\ Returns(d)
  /\ UNCHANGED khStore

\* Mutant: any fingerprint confirms the key.
ConfirmedAny(d, k) == khAccept[d] # NoKey

\* acceptFingerprint is that of the key the server shows.
Confirmed(d, k) == khAccept[d] = k

\* The server presents k, and the callback takes the mutex and reads the file anew.
Handshake(d) ==
  /\ khPc[d] = "built" /\ MutexFree
  /\ Loads

\* The callback accepts the key: the handshake goes on to the password.
Keyed(d, k) ==
  /\ khPc' = [khPc EXCEPT ![d] = "keyed"]
  /\ khKey' = [khKey EXCEPT ![d] = k]
  /\ khAccept' = [khAccept EXCEPT ![d] = NoKey]
  /\ UNCHANGED <<khHost, khConsent>>

\* A pinned key goes on.
KHKnown(d, k) ==
  /\ Handshake(d)
  /\ Verified(khFile, khHost[d], k)
  /\ Keyed(d, k)
  /\ UNCHANGED khStore

\* A key the file does not pin for the host, nor revoke.
Unpinned(d, k) ==
  /\ Handshake(d)
  /\ ~Revoked(khFile, k)
  /\ k \notin Want(khFile, khHost[d])

\* The dial stops before the password: for a file that no longer parses, a revoked key
\* whatever the user confirmed, or to ask the user.
KHHalt(d, k) ==
  /\ khPc[d] = "built" /\ MutexFree
  /\ ~Loads \/ Revoked(khFile, k) \/ (Unpinned(d, k) /\ ~Confirmed(d, k))
  /\ Returns(d)
  /\ UNCHANGED khStore

\* Mutant: the pin is not verified after it was written.
ReverifiedNot(d, k) == Keyed(d, k)

\* reverifyPin: what is in the file now decides.
Reverified(d, k) ==
  \/ khTail' # "torn" /\ Verified(khFile', khHost[d], k) /\ Keyed(d, k)
  \/ ~(khTail' # "torn" /\ Verified(khFile', khHost[d], k)) /\ Returns(d)

FirstUse(d, k) ==
  /\ Unpinned(d, k) /\ Confirmed(d, k)
  /\ SameAlgorithm(khHost[d], k) = {}
  /\ UNCHANGED khTemp

\* First use.  A line left open swallows the one that is put behind it.
KHAppend(d, k) ==
  /\ FirstUse(d, k)
  /\ \/ khTail = "open" /\ khTail' = "torn" /\ UNCHANGED khFile
     \/ khTail = "clean" /\ khFile' = khFile \cup {PinLine(khHost[d], k)} /\ UNCHANGED khTail
  /\ Reverified(d, k)

\* The write fails: nothing of the line is in the file, a part of it, or all but its end.
KHAppendCut(d, k) ==
  /\ FirstUse(d, k)
  /\ \/ UNCHANGED <<khTail, khFile>>
     \/ khTail' = "torn" /\ UNCHANGED khFile
     \/ khTail = "clean" /\ khTail' = "open" /\ khFile' = khFile \cup {PinLine(khHost[d], k)}
  /\ Returns(d)

KeyChanged(d, k) ==
  /\ Unpinned(d, k) /\ Confirmed(d, k)
  /\ SameAlgorithm(khHost[d], k) # {}

\* Mutant: os.WriteFile truncates the file before it writes.
TruncateFirst(d, k) ==
  /\ KeyChanged(d, k) /\ Replaceable(khHost[d])
  /\ khTemp' = Replaced(khHost[d], k)
  /\ khFile' = {}
  /\ khPc' = [khPc EXCEPT ![d] = "replacing"]
  /\ khKey' = [khKey EXCEPT ![d] = k]
  /\ UNCHANGED <<khTail, khHost, khAccept, khConsent>>

\* A changed key the user confirmed: the new file is written beside the old one.
KHReplaceWrite(d, k) ==
  /\ KeyChanged(d, k) /\ Replaceable(khHost[d])
  /\ khTemp' = Replaced(khHost[d], k)
  /\ khPc' = [khPc EXCEPT ![d] = "replacing"]
  /\ khKey' = [khKey EXCEPT ![d] = k]
  /\ UNCHANGED <<khFile, khTail, khHost, khAccept, khConsent>>

\* A pattern, a marker, or a temp file that cannot be made, written or synced.
KHReplaceRefused(d, k) ==
  /\ KeyChanged(d, k)
  /\ Returns(d)
  /\ UNCHANGED khStore

\* The rename, and then the file decides.
KHReplaceRename(d) ==
  /\ khPc[d] = "replacing"
  /\ khFile' = khTemp /\ khTail' = "clean" /\ khTemp' = {}
  /\ Reverified(d, khKey[d])

KHRenameFails(d) ==
  /\ khPc[d] = "replacing"
  /\ khTemp' = {}
  /\ Returns(d)
  /\ UNCHANGED <<khFile, khTail>>

\* The process stops: the dials are gone, the file is what was appended or renamed.
KHCrash ==
  /\ khTemp' = {}
  /\ khPc' = [d \in Dials |-> "idle"]
  /\ khHost' = [d \in Dials |-> NoName]
  /\ khAccept' = [d \in Dials |-> NoKey]
  /\ khKey' = [d \in Dials |-> NoKey]
  /\ UNCHANGED <<khFile, khTail, khConsent>>

\* External: an operator revokes a key by hand, without the mutex.
KHRevoke(l) ==
  /\ l.kind = "revoked"
  /\ khFile' = khFile \cup {l}
  /\ UNCHANGED <<khTail, khTemp, khDials, khConsent>>

KHNext ==
  \/ \E d \in Dials, n \in Names, fp \in HostKeys \cup {NoKey} : KHDial(d, n, fp)
  \/ \E d \in Dials, k \in HostKeys :
       \/ KHKnown(d, k)
       \/ KHHalt(d, k)
       \/ KHAppend(d, k)
       \/ KHAppendCut(d, k)
       \/ KHReplaceWrite(d, k)
       \/ KHReplaceRefused(d, k)
  \/ \E d \in Dials : KHReturn(d) \/ KHReplaceRename(d) \/ KHRenameFails(d)
  \/ KHCrash
  \/ \E l \in OperatorLines : KHRevoke(l)

KHSpec == KHInit /\ [][KHNext]_khvars

-----------------------------------------------------------------------------
(* Properties.                                                             *)

KHTypeOK ==
  /\ khFile \subseteq Lines
  /\ khTail \in Tails
  /\ khTemp \subseteq Lines
  /\ khPc \in [Dials -> {"idle", "built", "replacing", "keyed"}]
  /\ khHost \in [Dials -> Names]
  /\ khAccept \in [Dials -> HostKeys \cup {NoKey}]
  /\ khKey \in [Dials -> HostKeys \cup {NoKey}]
  /\ khConsent \subseteq Names \X HostKeys

\* The operator's file pins a key for a name.
ByOperator(n, k) == \E l \in OperatorLines : l.kind # "revoked" /\ n \in l.names /\ l.key = k

\* A key is given for a name by the operator or by a client that sent its fingerprint.
Given(n, k) == ByOperator(n, k) \/ <<n, k>> \in khConsent

Trusted(file) == \A l \in file : l.kind # "revoked" => \A n \in l.names : Given(n, l.key)

\* No key comes to be trusted that nobody gave for that very name, neither in the file
\* nor by a dial that goes on to send the password: re-pinning one name, its aliases,
\* races of dials, cut writes and restarts included (buildHostKeyCallback).
KHTrustIsGiven ==
  /\ Trusted(khFile)
  /\ \A d \in Dials : khPc[d] = "keyed" => Given(khHost[d], khKey[d])

PinnedOnce(file) ==
  \A n \in Names : \A k1, k2 \in Want(file, n) :
    AlgorithmOf(k1) = AlgorithmOf(k2) =>
      k1 = k2 \/ (ByOperator(n, k1) /\ ByOperator(n, k2))

\* Two keys of one algorithm are never pinned for a name, unless the operator pinned both:
\* a re-pin leaves none of the keys it replaces trusted, however dials of the name
\* interleave (sameAlgorithm, replaceKnownHostLocked).
KHOnePin == PinnedOnce(khFile)

\* A dial goes past the host key only if the file as it is then on disk parses, pins
\* that key for that name and does not revoke it: a torn file lets nobody in
\* (loadKnownHostsLocked, reverifyPin).
KHKeyedByStore ==
  [][\A d \in Dials :
       khPc[d] # "keyed" /\ khPc'[d] = "keyed" =>
         khTail' # "torn" /\ Verified(khFile', khHost'[d], khKey'[d])]_khvars

\* A name that has a pin keeps one, across crashes too; otherwise the next key shown for
\* it would pass for a first use.  The exception is the address a re-pinned name
\* resolves to: its entries are dropped with the old key (writeFileAtomic, the aliases
\* of replaceKnownHostLocked).
KHNeverForgets ==
  [][\A n \in Names :
       Want(khFile, n) # {} /\ Want(khFile', n) = {} =>
         \E d \in Dials : /\ khPc[d] = "replacing"
                          /\ n # khHost[d] /\ n = RemoteOf(khHost[d])]_khvars

\* The fingerprint of a dial is one that the client sent for its host.
Consented ==
  \A d \in Dials : khAccept[d] # NoKey => <<khHost[d], khAccept[d]>> \in khConsent

\* What waits to be renamed can stand for the file: it pins the new key, and no other name
\* loses a pin.
Ready ==
  \A d \in Dials : khPc[d] = "replacing" =>
    /\ \A e \in Dials : khPc[e] = "replacing" => e = d
    /\ Trusted(khTemp) /\ PinnedOnce(khTemp)
    /\ khKey[d] \in Want(khTemp, khHost[d])
    /\ \A n \in Names \ {khHost[d], RemoteOf(khHost[d])} : Want(khFile, n) \subseteq Want(khTemp, n)

\* The inductive invariant.
KHIInv == KHTypeOK /\ Consented /\ KHTrustIsGiven /\ KHOnePin /\ Ready
=============================================================================
