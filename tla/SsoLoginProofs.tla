---------------------------- MODULE SsoLoginProofs ----------------------------
(***************************************************************************)
(* Proofs about SsoLogin, for every set of links, session ids and            *)
(* goroutines and every expiry: a link opens one session at most, and the    *)
(* handlers implement OneTimeLogin.                                         *)
(***************************************************************************)
EXTENDS SsoLogin, TLAPS

\* None stands for no token, no session and no goroutine.
LEMMA NoneApart == None \notin Tokens /\ None \notin Sessions /\ None \notin Requests
BY SsoAssumption

\* Instants are natural numbers, and a token's is twice its second.
LEMMA Instants ==
  \A t \in Tokens : Exp[t] \in Nat /\ Instant(Exp[t]) \in Nat /\ Instant(Exp[t]) = 2 * Exp[t]
BY SsoAssumption DEF Instant

-----------------------------------------------------------------------------
(* One lemma per kind of step.                                              *)

\* The invariant holds at the start.
LEMMA InitIInv == Init => IInv
BY NoneApart DEF Init, IInv, TypeOK, Steps, Placed, Held, Remembered, Sole, Exclusive, Spent,
     OneSession, At

\* Decrypting a link changes nothing but the goroutine.
LEMMA DecryptStep ==
  ASSUME IInv, NEW p \in Requests, NEW t \in Tokens, Decrypt(p, t)
  PROVE  IInv'
<1> USE DEF Decrypt, Goto, tokens, pendings
<1>0. TypeOK /\ Placed /\ Held /\ Remembered /\ Sole /\ Exclusive /\ Spent /\ OneSession
  BY DEF IInv
<1>1. TypeOK'
  BY <1>0, NoneApart DEF TypeOK, Steps
<1>2. Placed'
  BY <1>0, NoneApart DEF Placed, TypeOK
<1>3. Held'
  BY <1>0, NoneApart DEF Held, Placed, TypeOK
<1>4. Remembered'
  BY <1>0, NoneApart DEF Remembered, TypeOK, Placed, After, Instant
<1>5. Sole'
  BY <1>0, NoneApart DEF Sole, Placed, TypeOK, At, After, Instant
<1>6. Exclusive'
  BY <1>0, NoneApart DEF Exclusive, Placed, TypeOK, At
<1>7. Spent'
  BY <1>0, NoneApart DEF Spent, Placed, TypeOK, At, After, Instant
<1>8. OneSession'
  BY <1>0, NoneApart DEF OneSession, TypeOK
<1> QED BY <1>1, <1>2, <1>3, <1>4, <1>5, <1>6, <1>7, <1>8 DEF IInv

\* A token is marked once until it expires, so nobody else carries it.
LEMMA MarkStep ==
  ASSUME IInv, NEW p \in Requests, MarkIfUnused(p)
  PROVE  IInv'
<1> USE DEF MarkIfUnused, Goto, pendings, IsUsed
<1>0. TypeOK /\ Placed /\ Held /\ Remembered /\ Sole /\ Exclusive /\ Spent /\ OneSession
  BY DEF IInv
<1>1. TypeOK'
  <2>1. tok[p] \in Tokens
    BY <1>0 DEF Placed
  <2> QED BY <1>0, <2>1 DEF TypeOK, Steps
<1>2. Placed'
  BY <1>0, NoneApart DEF Placed, TypeOK
<1>3. Held'
  BY <1>0, NoneApart DEF Held, Placed, TypeOK
<1>4. Remembered'
  BY <1>0, NoneApart DEF Remembered, TypeOK, Placed, After, Instant
<1>5. Sole'
  <2>1. tok[p] \in Tokens
    BY <1>0 DEF Placed
  <2>2. ASSUME ~After(Instant(Exp[tok[p]])) PROVE tok[p] \notin redeemed
    BY <1>0, <2>1, <2>2 DEF Remembered, IsUsed
  <2>3. ASSUME ~After(Instant(Exp[tok[p]]))
        PROVE  /\ \A q \in At("marked") : tok[q] # tok[p]
               /\ \A s \in Sessions : payload[s] # tok[p]
    BY <1>0, <2>1, <2>2, <2>3, NoneApart DEF Placed, Held, At, TypeOK
  <2>4. \A x : After(x)' = After(x)
    BY DEF After
  <2>5. At("marked")' = At("marked") \cup {p}
    BY <1>0 DEF At, TypeOK
  <2> QED BY <1>0, <2>1, <2>3, <2>4, <2>5 DEF Sole
<1>6. Exclusive'
  BY <1>0, NoneApart DEF Exclusive, Placed, TypeOK, At
<1>7. Spent'
  <2>1. tok[p] \in Tokens
    BY <1>0 DEF Placed
  <2>2. ASSUME ~After(Instant(Exp[tok[p]])) PROVE opened[tok[p]] = {}
    BY <1>0, <2>1, <2>2 DEF Remembered, IsUsed
  <2>3. \A x : After(x)' = After(x)
    BY DEF After
  <2>4. /\ At("marked")' = At("marked") \cup {p}
        /\ At("dialing")' = At("dialing") /\ At("created")' = At("created")
    BY <1>0 DEF At, TypeOK
  <2> QED BY <1>0, <2>1, <2>2, <2>3, <2>4 DEF Spent
<1>8. OneSession'
  BY <1>0, NoneApart DEF OneSession, TypeOK
<1> QED BY <1>1, <1>2, <1>3, <1>4, <1>5, <1>6, <1>7, <1>8 DEF IInv

\* A refused request is forgotten.
LEMMA RefusedStep ==
  ASSUME IInv, NEW p \in Requests, LoginRefused(p) \/ ConnectRefused(p)
  PROVE  IInv'
<1> USE DEF LoginRefused, ConnectRefused, Return, Goto, tokens, pendings
<1>0. TypeOK /\ Placed /\ Held /\ Remembered /\ Sole /\ Exclusive /\ Spent /\ OneSession
  BY DEF IInv
<1>1. TypeOK'
  BY <1>0, NoneApart DEF TypeOK, Steps
<1>2. Placed'
  BY <1>0, NoneApart DEF Placed, TypeOK
<1>3. Held'
  BY <1>0, NoneApart DEF Held, Placed, TypeOK
<1>4. Remembered'
  BY <1>0, NoneApart DEF Remembered, TypeOK, Placed, After, Instant
<1>5. Sole'
  BY <1>0, NoneApart DEF Sole, Placed, TypeOK, At, After, Instant
<1>6. Exclusive'
  BY <1>0, NoneApart DEF Exclusive, Placed, TypeOK, At
<1>7. Spent'
  BY <1>0, NoneApart DEF Spent, Placed, TypeOK, At, After, Instant
<1>8. OneSession'
  BY <1>0, NoneApart DEF OneSession, TypeOK
<1> QED BY <1>1, <1>2, <1>3, <1>4, <1>5, <1>6, <1>7, <1>8 DEF IInv

\* The pending session takes the token over from its goroutine.
LEMMA MintStep ==
  ASSUME IInv, NEW p \in Requests, NEW s \in Sessions, MintPending(p, s)
  PROVE  IInv'
<1> USE DEF MintPending, Goto, tokens, PendingExpiry, Earlier
<1>0. TypeOK /\ Placed /\ Held /\ Remembered /\ Sole /\ Exclusive /\ Spent /\ OneSession
  BY DEF IInv
<1>1. TypeOK'
  <2>1. tok[p] \in Tokens
    BY <1>0 DEF Placed
  <2>2. PendingExpiry(tok[p]) \in Nat
    BY <1>0, <2>1, Instants, SsoAssumption DEF TypeOK
  <2> QED BY <1>0, <2>1, <2>2 DEF TypeOK, Steps
<1>2. Placed'
  BY <1>0, NoneApart DEF Placed, TypeOK
<1>3. Held'
  <2>1. tok[p] \in Tokens /\ tok[p] \in redeemed
    BY <1>0 DEF Placed
  <2>2. expiry'[s] <= Instant(Exp[tok[p]])
    <3>1. PendingExpiry(tok[p]) <= Instant(Exp[tok[p]])
      BY <1>0, <2>1, Instants, SsoAssumption DEF TypeOK
    <3> QED BY <1>0, <3>1 DEF TypeOK
  <2>3. \A r \in Sessions : r # s => expiry'[r] = expiry[r] /\ payload'[r] = payload[r]
    BY <1>0 DEF TypeOK
  <2>4. payload'[s] = tok[p]
    BY <1>0 DEF TypeOK
  <2>5. \A r \in Sessions : lock[r] # None =>
          pending'[lock'[r]] = r /\ pc'[lock'[r]] \in {"dialing", "created"}
    BY <1>0 DEF Held, TypeOK
  <2> QED BY <1>0, <2>1, <2>2, <2>3, <2>4, <2>5 DEF Held
<1>4. Remembered'
  BY <1>0, NoneApart DEF Remembered, TypeOK, Placed, After, Instant
<1>5. Sole'
  BY <1>0, NoneApart DEF Sole, Placed, TypeOK, At, After, Instant
<1>6. Exclusive'
  <2>1. \A q \in At("dialing") \cup At("created") : pending[q] \in Sessions /\ pending[q] # s
    BY <1>0, NoneApart DEF Placed, Held, At, TypeOK
  <2>2. /\ At("dialing")' = At("dialing") /\ At("created")' = At("created")
        /\ At("marked")' = At("marked") \ {p}
    BY <1>0 DEF At, TypeOK
  <2>3. \A r \in Sessions : r # s => payload'[r] = payload[r]
    BY <1>0 DEF TypeOK
  <2> QED BY <1>0, <2>1, <2>2, <2>3 DEF Exclusive
<1>7. Spent'
  <2>1. \A q \in At("dialing") \cup At("created") : pending[q] \in Sessions /\ pending[q] # s
    BY <1>0, NoneApart DEF Placed, Held, At, TypeOK
  <2>2. /\ At("dialing")' = At("dialing") /\ At("created")' = At("created")
        /\ At("marked")' = At("marked") \ {p}
    BY <1>0 DEF At, TypeOK
  <2>3. \A r \in Sessions : r # s => payload'[r] = payload[r]
    BY <1>0 DEF TypeOK
  <2>4. p \in At("marked") /\ payload'[s] = tok[p] /\ tok[p] \in Tokens
    BY <1>0 DEF At, TypeOK, Placed
  <2>5. \A x : After(x)' = After(x)
    BY DEF After
  <2>6. ~After(Instant(Exp[tok[p]])) => opened[tok[p]] = {}
    BY <1>0, <2>4 DEF Spent
  <2> QED BY <1>0, <2>1, <2>2, <2>3, <2>4, <2>5, <2>6 DEF Spent
<1>8. OneSession'
  BY <1>0, NoneApart DEF OneSession, TypeOK
<1> QED BY <1>1, <1>2, <1>3, <1>4, <1>5, <1>6, <1>7, <1>8 DEF IInv

\* The browser's earlier pending login is dropped.
LEMMA ReplaceStep ==
  ASSUME IInv, NEW p \in Requests, ReplacePending(p)
  PROVE  IInv'
<1> USE DEF ReplacePending, Return, Goto, tokens
<1>0. TypeOK /\ Placed /\ Held /\ Remembered /\ Sole /\ Exclusive /\ Spent /\ OneSession
  BY DEF IInv
<1>1. TypeOK'
  BY <1>0 DEF TypeOK, Steps, Placed
<1>2. Placed'
  BY <1>0, NoneApart DEF Placed, TypeOK
<1>3. Held'
  BY <1>0, NoneApart DEF Held, Placed, TypeOK
<1>4. Remembered'
  BY <1>0, NoneApart DEF Remembered, TypeOK, Placed, After, Instant
<1>5. Sole'
  BY <1>0, NoneApart DEF Sole, Placed, TypeOK, At, After, Instant
<1>6. Exclusive'
  BY <1>0, NoneApart DEF Exclusive, Placed, TypeOK, At
<1>7. Spent'
  BY <1>0, NoneApart DEF Spent, Placed, TypeOK, At, After, Instant
<1>8. OneSession'
  BY <1>0, NoneApart DEF OneSession, TypeOK
<1> QED BY <1>1, <1>2, <1>3, <1>4, <1>5, <1>6, <1>7, <1>8 DEF IInv

\* Finding a pending session changes nothing but the goroutine.
LEMMA FindStep ==
  ASSUME IInv, NEW p \in Requests, NEW s \in Sessions, FindPending(p, s)
  PROVE  IInv'
<1> USE DEF FindPending, Goto, tokens, pendings
<1>0. TypeOK /\ Placed /\ Held /\ Remembered /\ Sole /\ Exclusive /\ Spent /\ OneSession
  BY DEF IInv
<1>1. TypeOK'
  BY <1>0, NoneApart DEF TypeOK, Steps
<1>2. Placed'
  BY <1>0, NoneApart DEF Placed, TypeOK
<1>3. Held'
  BY <1>0, NoneApart DEF Held, Placed, TypeOK
<1>4. Remembered'
  BY <1>0, NoneApart DEF Remembered, TypeOK, Placed, After, Instant
<1>5. Sole'
  BY <1>0, NoneApart DEF Sole, Placed, TypeOK, At, After, Instant
<1>6. Exclusive'
  BY <1>0, NoneApart DEF Exclusive, Placed, TypeOK, At
<1>7. Spent'
  BY <1>0, NoneApart DEF Spent, Placed, TypeOK, At, After, Instant
<1>8. OneSession'
  BY <1>0, NoneApart DEF OneSession, TypeOK
<1> QED BY <1>1, <1>2, <1>3, <1>4, <1>5, <1>6, <1>7, <1>8 DEF IInv

\* Before the token expires its one session is locked by nobody: the dial is the only one.
LEMMA ConnectStep ==
  ASSUME IInv, NEW p \in Requests, SSOConnect(p)
  PROVE  IInv'
<1> USE DEF SSOConnect, Goto, tokens, TryLock, UnixReached
<1>0. TypeOK /\ Placed /\ Held /\ Remembered /\ Sole /\ Exclusive /\ Spent /\ OneSession
  BY DEF IInv
<1>1. TypeOK'
  BY <1>0, NoneApart DEF TypeOK, Steps
<1>2. Placed'
  BY <1>0, NoneApart DEF Placed, TypeOK
<1>3. Held'
  BY <1>0, NoneApart DEF Held, Placed, TypeOK
<1>4. Remembered'
  BY <1>0, NoneApart DEF Remembered, TypeOK, Placed, After, Instant
<1>5. Sole'
  BY <1>0, NoneApart DEF Sole, Placed, TypeOK, At, After, Instant
<1>6. Exclusive'
  <2>1. payload[pending[p]] \in Tokens /\ pending[p] \in Sessions
    BY <1>0, NoneApart DEF Placed, TypeOK
  <2>2. ~After(Instant(Exp[payload[pending[p]]]))
    BY <1>0, <2>1, Instants DEF After, TypeOK
  <2>3. \A q \in At("dialing") \cup At("created") : payload[pending[q]] # payload[pending[p]]
    BY <1>0, <2>1, <2>2, NoneApart DEF Sole, Placed, At
  <2>4. /\ At("dialing")' = At("dialing") \cup {p} /\ At("created")' = At("created")
        /\ UNCHANGED <<payload, pending>>
    BY <1>0 DEF At, TypeOK
  <2> QED BY <1>0, <2>3, <2>4 DEF Exclusive
<1>7. Spent'
  <2>1. payload[pending[p]] \in Tokens /\ pending[p] \in Sessions
    BY <1>0, NoneApart DEF Placed, TypeOK
  <2>2. ~After(Instant(Exp[payload[pending[p]]]))
    BY <1>0, <2>1, Instants DEF After, TypeOK
  <2>3. \A q \in At("dialing") \cup At("created") : payload[pending[q]] # payload[pending[p]]
    BY <1>0, <2>1, <2>2, NoneApart DEF Sole, Placed, At
  <2>4. /\ At("dialing")' = At("dialing") \cup {p} /\ At("created")' = At("created")
        /\ At("marked")' = At("marked") /\ UNCHANGED <<payload, pending, opened, tok>>
    BY <1>0 DEF At, TypeOK
  <2>5. opened[payload[pending[p]]] = {}
    BY <1>0, <2>1, <2>2, <2>3 DEF Spent
  <2>6. \A x : After(x)' = After(x)
    BY DEF After
  <2> QED BY <1>0, <2>4, <2>5, <2>6 DEF Spent
<1>8. OneSession'
  BY <1>0, NoneApart DEF OneSession, TypeOK
<1> QED BY <1>1, <1>2, <1>3, <1>4, <1>5, <1>6, <1>7, <1>8 DEF IInv

\* A failed dial gives the lock back.
LEMMA DialFailsStep ==
  ASSUME IInv, NEW p \in Requests, DialFails(p)
  PROVE  IInv'
<1> USE DEF DialFails, Return, Goto, tokens
<1>0. TypeOK /\ Placed /\ Held /\ Remembered /\ Sole /\ Exclusive /\ Spent /\ OneSession
  BY DEF IInv
<1>1. TypeOK'
  BY <1>0, NoneApart DEF TypeOK, Steps
<1>2. Placed'
  BY <1>0, NoneApart DEF Placed, TypeOK
<1>3. Held'
  BY <1>0, NoneApart DEF Held, Placed, TypeOK
<1>4. Remembered'
  BY <1>0, NoneApart DEF Remembered, TypeOK, Placed, After, Instant
<1>5. Sole'
  BY <1>0, NoneApart DEF Sole, Placed, TypeOK, At, After, Instant
<1>6. Exclusive'
  BY <1>0, NoneApart DEF Exclusive, Placed, TypeOK, At
<1>7. Spent'
  BY <1>0, NoneApart DEF Spent, Placed, TypeOK, At, After, Instant
<1>8. OneSession'
  BY <1>0, NoneApart DEF OneSession, TypeOK
<1> QED BY <1>1, <1>2, <1>3, <1>4, <1>5, <1>6, <1>7, <1>8 DEF IInv

\* The dial that succeeds was the only one, and no session was opened before.
LEMMA OpenStep ==
  ASSUME IInv, NEW p \in Requests, NEW s \in Sessions, OpenSession(p, s)
  PROVE  IInv'
<1> USE DEF OpenSession, Goto, pendings
<1>0. TypeOK /\ Placed /\ Held /\ Remembered /\ Sole /\ Exclusive /\ Spent /\ OneSession
  BY DEF IInv
<1>1. TypeOK'
  BY <1>0, NoneApart DEF TypeOK, Steps
<1>2. Placed'
  BY <1>0, NoneApart DEF Placed, TypeOK
<1>3. Held'
  BY <1>0, NoneApart DEF Held, Placed, TypeOK
<1>4. Remembered'
  <2>1. payload[pending[p]] \in redeemed
    BY <1>0, NoneApart DEF Placed, Held, TypeOK
  <2>2. \A x : After(x)' = After(x)
    BY DEF After
  <2> QED BY <1>0, <2>1, <2>2 DEF Remembered, TypeOK
<1>5. Sole'
  BY <1>0, NoneApart DEF Sole, Placed, TypeOK, At, After, Instant
<1>6. Exclusive'
  BY <1>0, NoneApart DEF Exclusive, Placed, TypeOK, At
<1>7. Spent'
  <2>1. p \in At("dialing") /\ pending[p] \in Sessions /\ payload[pending[p]] \in Tokens
    BY <1>0 DEF Placed, At
  <2>2. /\ At("dialing")' = At("dialing") \ {p} /\ At("created")' = At("created") \cup {p}
        /\ At("marked")' = At("marked") /\ UNCHANGED <<payload, pending, tok>>
    BY <1>0 DEF At, TypeOK
  <2>3. \A x : After(x)' = After(x)
    BY DEF After
  <2>4. \A q \in At("dialing")' : payload[pending[q]] # payload[pending[p]]
    BY <1>0, <2>1, <2>2 DEF Exclusive
  <2>5. ASSUME ~After(Instant(Exp[payload[pending[p]]]))
        PROVE  /\ \A q \in At("marked") : tok[q] # payload[pending[p]]
               /\ \A r \in Sessions : payload[r] = payload[pending[p]] => r = pending[p]
    BY <1>0, <2>1, <2>5 DEF Sole
  <2>6. \A t \in Tokens : t # payload[pending[p]] => opened'[t] = opened[t]
    BY <1>0 DEF TypeOK
  <2> QED BY <1>0, <2>1, <2>2, <2>3, <2>4, <2>5, <2>6 DEF Spent
<1>8. OneSession'
  <2>1. payload[pending[p]] \in Tokens /\ p \in At("dialing")
    BY <1>0 DEF Placed, At
  <2>2. opened[payload[pending[p]]] = {}
    BY <1>0, <2>1 DEF Spent
  <2> QED BY <1>0, <2>1, <2>2 DEF OneSession, TypeOK
<1> QED BY <1>1, <1>2, <1>3, <1>4, <1>5, <1>6, <1>7, <1>8 DEF IInv

\* The credentials are gone before the lock is.
LEMMA UseStep ==
  ASSUME IInv, NEW p \in Requests, UsePending(p)
  PROVE  IInv'
<1> USE DEF UsePending, Return, Goto, tokens
<1>0. TypeOK /\ Placed /\ Held /\ Remembered /\ Sole /\ Exclusive /\ Spent /\ OneSession
  BY DEF IInv
<1>1. TypeOK'
  BY <1>0, NoneApart DEF TypeOK, Steps
<1>2. Placed'
  BY <1>0, NoneApart DEF Placed, TypeOK
<1>3. Held'
  BY <1>0, NoneApart DEF Held, Placed, TypeOK
<1>4. Remembered'
  BY <1>0, NoneApart DEF Remembered, TypeOK, Placed, After, Instant
<1>5. Sole'
  BY <1>0, NoneApart DEF Sole, Placed, TypeOK, At, After, Instant
<1>6. Exclusive'
  BY <1>0, NoneApart DEF Exclusive, Placed, TypeOK, At
<1>7. Spent'
  BY <1>0, NoneApart DEF Spent, Placed, TypeOK, At, After, Instant
<1>8. OneSession'
  BY <1>0, NoneApart DEF OneSession, TypeOK
<1> QED BY <1>1, <1>2, <1>3, <1>4, <1>5, <1>6, <1>7, <1>8 DEF IInv

\* A cancelled login leaves the store.
LEMMA CancelStep ==
  ASSUME IInv, NEW p \in Requests, SSOCancel(p)
  PROVE  IInv'
<1> USE DEF SSOCancel, Return, Goto, tokens, TryLock
<1>0. TypeOK /\ Placed /\ Held /\ Remembered /\ Sole /\ Exclusive /\ Spent /\ OneSession
  BY DEF IInv
<1>1. TypeOK'
  BY <1>0, NoneApart DEF TypeOK, Steps
<1>2. Placed'
  BY <1>0, NoneApart DEF Placed, TypeOK
<1>3. Held'
  BY <1>0, NoneApart DEF Held, Placed, TypeOK
<1>4. Remembered'
  BY <1>0, NoneApart DEF Remembered, TypeOK, Placed, After, Instant
<1>5. Sole'
  BY <1>0, NoneApart DEF Sole, Placed, TypeOK, At, After, Instant
<1>6. Exclusive'
  BY <1>0, NoneApart DEF Exclusive, Placed, TypeOK, At
<1>7. Spent'
  BY <1>0, NoneApart DEF Spent, Placed, TypeOK, At, After, Instant
<1>8. OneSession'
  BY <1>0, NoneApart DEF OneSession, TypeOK
<1> QED BY <1>1, <1>2, <1>3, <1>4, <1>5, <1>6, <1>7, <1>8 DEF IInv

\* The sweeps and the clock only make the invariant weaker.
LEMMA SweepStep ==
  ASSUME IInv, CleanUsed \/ Tick \/ SweepDrop \/ (\E s \in Sessions : SweepTake(s))
  PROVE  IInv'
<1> USE DEF CleanUsed, Tick, SweepDrop, SweepTake, tokens, pendings, caller
<1>0. TypeOK /\ Placed /\ Held /\ Remembered /\ Sole /\ Exclusive /\ Spent /\ OneSession
  BY DEF IInv
<1>1. TypeOK'
  BY <1>0, NoneApart DEF TypeOK, Steps
<1>2. Placed'
  BY <1>0, NoneApart DEF Placed, TypeOK
<1>3. Held'
  BY <1>0, NoneApart DEF Held, Placed, TypeOK
<1>4. Remembered'
  <2>1. ASSUME NEW t \in Tokens, ~After(Instant(Exp[t]))' PROVE ~After(Instant(Exp[t]))
    BY <1>0, <2>1, Instants DEF After, Instant, TypeOK
  <2>2. ASSUME NEW t \in used, ~After(Instant(Exp[t]))' PROVE t \in used'
    BY <1>0, <2>1, <2>2 DEF TypeOK
  <2>3. redeemed' = redeemed /\ opened' = opened
    OBVIOUS
  <2> QED BY <1>0, <2>1, <2>2, <2>3 DEF Remembered
<1>5. Sole'
  <2>1. ASSUME NEW t \in Tokens, ~After(Instant(Exp[t]))' PROVE ~After(Instant(Exp[t]))
    BY <1>0, <2>1, Instants DEF After, Instant, TypeOK
  <2>2. UNCHANGED <<pc, tok, payload, pending, opened>>
    OBVIOUS
  <2>3. \A step : At(step)' = At(step)
    BY <2>2 DEF At
  <2> QED BY <1>0, <2>1, <2>2, <2>3 DEF Sole
<1>6. Exclusive'
  BY <1>0, NoneApart DEF Exclusive, Placed, TypeOK, At
<1>7. Spent'
  <2>1. ASSUME NEW t \in Tokens, ~After(Instant(Exp[t]))' PROVE ~After(Instant(Exp[t]))
    BY <1>0, <2>1, Instants DEF After, Instant, TypeOK
  <2>2. UNCHANGED <<pc, tok, payload, pending, opened>>
    OBVIOUS
  <2>3. \A step : At(step)' = At(step)
    BY <2>2 DEF At
  <2> QED BY <1>0, <2>1, <2>2, <2>3 DEF Spent
<1>8. OneSession'
  BY <1>0, NoneApart DEF OneSession, TypeOK
<1> QED BY <1>1, <1>2, <1>3, <1>4, <1>5, <1>6, <1>7, <1>8 DEF IInv

\* Nothing changes in a stuttering step.
LEMMA StutterStep == IInv /\ UNCHANGED vars => IInv'
BY DEF IInv, vars, tokens, pendings, caller, TypeOK, Placed, Held, Remembered, Sole, Exclusive,
       Spent, OneSession, At, After, Instant

\* Every step keeps the invariant.
LEMMA IInvStep == IInv /\ [Next]_vars => IInv'
<1> SUFFICES ASSUME IInv, [Next]_vars PROVE IInv'
  OBVIOUS
<1>1. ASSUME NEW p \in Requests, Handle(p) PROVE IInv'
  BY <1>1, MarkStep, RefusedStep, MintStep, ReplaceStep, ConnectStep, DialFailsStep, OpenStep,
     UseStep, CancelStep DEF Handle
<1>2. ASSUME NEW p \in Requests, NEW t \in Tokens, Decrypt(p, t) PROVE IInv'
  BY <1>2, DecryptStep
<1>3. ASSUME NEW p \in Requests, NEW s \in Sessions, FindPending(p, s) PROVE IInv'
  BY <1>3, FindStep
<1>4. CASE (\E s \in Sessions : SweepTake(s)) \/ SweepDrop \/ CleanUsed \/ Tick
  BY <1>4, SweepStep
<1>5. CASE UNCHANGED vars
  BY <1>5, StutterStep
<1> QED BY <1>1, <1>2, <1>3, <1>4, <1>5 DEF Next

-----------------------------------------------------------------------------
(* The theorems.                                                            *)

\* The invariant holds in every reachable state.
THEOREM IInvHolds == Spec => []IInv
BY InitIInv, IInvStep, PTL DEF Spec

\* A link opens one session at most, however it is replayed.
THEOREM OneSessionHolds == Spec => []OneSession
<1>1. IInv => OneSession
  BY DEF IInv
<1> QED BY <1>1, IInvHolds, PTL

\* At most one pending login of a link can be found: one that was redeemed after the
\* token's expiry is past its own before anybody knows it.
THEOREM OneFindableHolds == Spec => []OneFindable
<1>1. IInv => OneFindable
  <2> SUFFICES ASSUME IInv, NEW r \in Sessions, NEW s \in Sessions,
                      Findable(r), Findable(s), payload[r] = payload[s]
               PROVE  r = s
    BY DEF OneFindable
  <2>1. payload[r] \in Tokens /\ expiry[r] <= Instant(Exp[payload[r]])
    BY DEF IInv, Held, Findable, TypeOK
  <2>2. ~After(Instant(Exp[payload[r]]))
    BY <2>1, Instants DEF IInv, TypeOK, Findable, After
  <2> QED BY <2>1, <2>2 DEF IInv, Sole
<1> QED BY <1>1, IInvHolds, PTL

\* The credentials of a link that has opened its session are not found any more.
THEOREM SpentForgottenHolds == Spec => []SpentForgotten
<1>1. IInv => SpentForgotten
  <2> SUFFICES ASSUME IInv, NEW s \in Sessions, Findable(s), opened[payload[s]] # {}
               PROVE  \E p \in Requests : pc[p] = "created" /\ pending[p] = s
    BY DEF SpentForgotten
  <2>1. payload[s] \in Tokens /\ expiry[s] <= Instant(Exp[payload[s]])
    BY DEF IInv, Held, Findable, TypeOK
  <2>2. ~After(Instant(Exp[payload[s]]))
    BY <2>1, Instants DEF IInv, TypeOK, Findable, After
  <2>3. \E p \in At("created") : pending[p] = s
    BY <2>1, <2>2 DEF IInv, Spent
  <2> QED BY <2>3 DEF At
<1> QED BY <1>1, IInvHolds, PTL

-----------------------------------------------------------------------------
(* The handlers implement OneTimeLogin.  Only five kinds of step show there:  *)
(* marking a token, beginning, failing and winning a dial, and the clock.     *)

\* A step that moves nobody into or out of a dial does not show in Dials.
LEMMA DialsKept ==
  ASSUME \A q \in Requests :
           /\ pc'[q] = "dialing" <=> pc[q] = "dialing"
           /\ pc[q] = "dialing" => payload'[pending'[q]] = payload[pending[q]]
  PROVE  Dials' = Dials
<1>1. At("dialing")' = At("dialing")
  BY DEF At
<1>2. \A t \in Tokens :
        {q \in At("dialing") : payload[pending[q]] = t}'
          = {q \in At("dialing") : payload[pending[q]] = t}
  BY <1>1 DEF At
<1> QED BY <1>2 DEF Dials

\* The one dial of a token.
LEMMA DialAlone ==
  ASSUME IInv, NEW p \in Requests, pc[p] = "dialing"
  PROVE  /\ payload[pending[p]] \in Tokens
         /\ Dials[payload[pending[p]]] = {p}
         /\ \A q \in Requests : q # p /\ pc[q] = "dialing" =>
              payload[pending[q]] # payload[pending[p]]
<1>1. payload[pending[p]] \in Tokens
  BY DEF IInv, Placed
<1>2. \A q \in Requests : q # p /\ pc[q] = "dialing" =>
        payload[pending[q]] # payload[pending[p]]
  BY DEF IInv, Exclusive, At
<1> QED BY <1>1, <1>2 DEF Dials, At

\* A dial that ends leaves its token without one.
LEMMA DialEnds ==
  ASSUME IInv, NEW p \in Requests, pc[p] = "dialing", pc'[p] # "dialing",
         \A q \in Requests : q # p =>
           pc'[q] = pc[q] /\ (pc[q] = "dialing" => payload'[pending'[q]] = payload[pending[q]])
  PROVE  Dials' = [Dials EXCEPT ![payload[pending[p]]] = {}]
<1> DEFINE t == payload[pending[p]]
<1>1. At("dialing")' = At("dialing") \ {p}
  BY DEF At
<1>2. Dials'[t] = {}
  BY <1>1, DialAlone DEF Dials, At
<1>3. \A u \in Tokens : u # t => Dials'[u] = Dials[u]
  BY <1>1 DEF Dials, At
<1>4. Dials = [u \in Tokens |-> Dials[u]] /\ Dials' = [u \in Tokens |-> Dials'[u]]
  BY DEF Dials
<1>5. t \in Tokens
  BY DialAlone
<1>6. Dials' = [u \in Tokens |-> IF u = t THEN {} ELSE Dials[u]]
  BY <1>2, <1>3, <1>4, <1>5
<1> QED BY <1>4, <1>6

\* A dial begins before its token expires, when no other runs and none has succeeded.
LEMMA ConnectRefines ==
  ASSUME IInv, NEW p \in Requests, SSOConnect(p)
  PROVE  OneTime!Begin(payload[pending[p]], p) /\ payload[pending[p]] \in Tokens
<1> DEFINE s == pending[p]
           t == payload[s]
<1> USE DEF SSOConnect, Goto, tokens, TryLock, UnixReached
<1>0. TypeOK /\ Placed /\ Held /\ Sole /\ Spent
  BY DEF IInv
<1>1. t \in Tokens /\ s \in Sessions
  BY <1>0, NoneApart DEF Placed, TypeOK
<1>2. ~After(Instant(Exp[t])) /\ clock < 2 * Exp[t]
  BY <1>0, <1>1, Instants DEF After, TypeOK
<1>3. \A q \in At("dialing") \cup At("created") : payload[pending[q]] # t
  BY <1>0, <1>1, <1>2, NoneApart DEF Sole, Placed, At
<1>4. t \in redeemed
  BY <1>0, <1>1, NoneApart DEF Held
<1>5. opened[t] = {}
  BY <1>0, <1>1, <1>2, <1>3 DEF Spent
<1>6. Dials[t] = {}
  BY <1>1, <1>3 DEF Dials
<1>7. Dials' = [Dials EXCEPT ![t] = {p}]
  <2>1. At("dialing")' = At("dialing") \cup {p} /\ UNCHANGED <<payload, pending>>
    BY <1>0 DEF At, TypeOK
  <2>2. Dials'[t] = {p}
    BY <1>1, <1>3, <2>1 DEF Dials
  <2>3. \A u \in Tokens : u # t => Dials'[u] = Dials[u]
    BY <2>1 DEF Dials
  <2> QED BY <2>2, <2>3, <1>1 DEF Dials
<1> QED BY <1>1, <1>2, <1>4, <1>5, <1>6, <1>7 DEF OneTime!Begin

\* The dial that succeeds opens the session its token is good for.
LEMMA OpenRefines ==
  ASSUME IInv, NEW p \in Requests, NEW s \in Sessions, OpenSession(p, s)
  PROVE  OneTime!Open(payload[pending[p]], s) /\ payload[pending[p]] \in Tokens
<1> DEFINE t == payload[pending[p]]
<1> USE DEF OpenSession, Goto, pendings
<1>0. TypeOK /\ Spent
  BY DEF IInv
<1>1. t \in Tokens /\ Dials[t] = {p}
  BY DialAlone
<1>2. opened[t] = {}
  BY <1>0, <1>1 DEF Spent, At
<1>3. opened' = [opened EXCEPT ![t] = {s}]
  BY <1>0, <1>2
<1>4. \A u \in Tokens : s \notin opened[u]
  BY <1>0 DEF TypeOK
<1>5. Dials' = [Dials EXCEPT ![t] = {}]
  BY <1>0, DialEnds DEF TypeOK
<1> QED BY <1>1, <1>3, <1>4, <1>5 DEF OneTime!Open

\* A dial that fails.
LEMMA FailRefines ==
  ASSUME IInv, NEW p \in Requests, DialFails(p)
  PROVE  OneTime!Fail(payload[pending[p]]) /\ payload[pending[p]] \in Tokens
<1> USE DEF DialFails, Return, Goto, tokens
<1>0. TypeOK
  BY DEF IInv
<1>1. Dials' = [Dials EXCEPT ![payload[pending[p]]] = {}]
  BY <1>0, DialEnds DEF TypeOK
<1> QED BY <1>1, DialAlone DEF OneTime!Fail

\* Marking a token redeems it, unless it was redeemed before it expired.
LEMMA MarkRefines ==
  ASSUME IInv, NEW p \in Requests, MarkIfUnused(p)
  PROVE  tok[p] \in Tokens /\ (OneTime!Redeem(tok[p]) \/ UNCHANGED OneTime!vars)
<1> USE DEF MarkIfUnused, Goto, pendings
<1>1. tok[p] \in Tokens
  BY DEF IInv, Placed
<1>2. Dials' = Dials
  BY DialsKept DEF IInv, TypeOK
<1>3. ASSUME tok[p] \in redeemed PROVE UNCHANGED OneTime!vars
  <2>1. redeemed' = redeemed
    BY <1>3
  <2>2. UNCHANGED <<clock, opened>>
    OBVIOUS
  <2> QED BY <1>2, <2>1, <2>2 DEF OneTime!vars
<1>4. ASSUME tok[p] \notin redeemed PROVE OneTime!Redeem(tok[p])
  <2>1. redeemed' = redeemed \cup {tok[p]} /\ UNCHANGED <<clock, opened>>
    OBVIOUS
  <2> QED BY <1>2, <1>4, <2>1 DEF OneTime!Redeem
<1> QED BY <1>1, <1>3, <1>4

\* The other steps do not show.
LEMMA HiddenStep ==
  ASSUME IInv, NEW p \in Requests,
         \/ LoginRefused(p) \/ ReplacePending(p) \/ ConnectRefused(p) \/ SSOCancel(p)
         \/ UsePending(p)
         \/ \E s \in Sessions : MintPending(p, s) \/ FindPending(p, s)
         \/ \E t \in Tokens : Decrypt(p, t)
  PROVE  UNCHANGED OneTime!vars
<1> USE DEF LoginRefused, ReplacePending, ConnectRefused, SSOCancel, UsePending, MintPending,
            FindPending, Decrypt, Return, Goto, tokens, pendings
<1>0. TypeOK /\ Placed /\ Held
  BY DEF IInv
<1>1. UNCHANGED <<clock, redeemed, opened>>
  OBVIOUS
<1>2. \A q \in Requests : q # p => pc'[q] = pc[q] /\ pending'[q] = pending[q]
  BY <1>0 DEF TypeOK
<1>3. pc[p] # "dialing" /\ pc'[p] # "dialing"
  BY <1>0 DEF TypeOK
<1>4. \A q \in Requests : pc[q] = "dialing" => payload'[pending[q]] = payload[pending[q]]
  BY <1>0, NoneApart DEF TypeOK, Placed, Held
<1>5. Dials' = Dials
  BY <1>2, <1>3, <1>4, DialsKept
<1> QED BY <1>1, <1>5 DEF OneTime!vars

\* Every step maps to a step of OneTimeLogin or to none.
LEMMA StepRefines == IInv /\ [Next]_vars => [OneTime!Next]_(OneTime!vars)
<1> SUFFICES ASSUME IInv, [Next]_vars PROVE [OneTime!Next]_(OneTime!vars)
  OBVIOUS
<1>1. ASSUME NEW p \in Requests, Handle(p) PROVE [OneTime!Next]_(OneTime!vars)
  <2>1. CASE MarkIfUnused(p)
    BY <2>1, MarkRefines DEF OneTime!Next
  <2>2. CASE SSOConnect(p)
    BY <2>2, ConnectRefines DEF OneTime!Next
  <2>3. CASE DialFails(p)
    BY <2>3, FailRefines DEF OneTime!Next
  <2>4. ASSUME NEW s \in Sessions, OpenSession(p, s) PROVE OneTime!Next
    BY <2>4, OpenRefines DEF OneTime!Next
  <2>5. CASE \/ LoginRefused(p) \/ ReplacePending(p) \/ ConnectRefused(p) \/ SSOCancel(p)
             \/ UsePending(p) \/ \E s \in Sessions : MintPending(p, s)
    BY <2>5, HiddenStep
  <2> QED BY <1>1, <2>1, <2>2, <2>3, <2>4, <2>5 DEF Handle
<1>2. ASSUME NEW p \in Requests,
             (\E t \in Tokens : Decrypt(p, t)) \/ (\E s \in Sessions : FindPending(p, s))
      PROVE  UNCHANGED OneTime!vars
  BY <1>2, HiddenStep
<1>3. CASE (\E s \in Sessions : SweepTake(s)) \/ SweepDrop \/ CleanUsed \/ UNCHANGED vars
  <2>1. UNCHANGED <<clock, redeemed, opened, pc, payload, pending>>
    BY <1>3 DEF SweepTake, SweepDrop, CleanUsed, vars, tokens, pendings, caller
  <2> QED BY <2>1, DialsKept DEF OneTime!vars
<1>4. CASE Tick
  <2>1. clock' = clock + 1 /\ UNCHANGED <<redeemed, opened, pc, payload, pending>>
    BY <1>4 DEF Tick, tokens, pendings, caller
  <2>2. OneTime!Tick
    BY <2>1, DialsKept DEF OneTime!Tick
  <2> QED BY <2>2 DEF OneTime!Next
<1> QED BY <1>1, <1>2, <1>3, <1>4 DEF Next

\* The handlers implement the promise of a login link: dials one after the other,
\* begun before it expires, and one session.
THEOREM Implements == Spec => ImplementsOneTimeLogin
<1>1. Init => OneTime!Init
  BY DEF Init, OneTime!Init, Dials, At
<1> QED BY <1>1, StepRefines, IInvHolds, PTL DEF Spec, OneTime!Spec, ImplementsOneTimeLogin
=============================================================================
