--------------------------- MODULE SessionAdmission ---------------------------
(***************************************************************************)
(* How many sessions and dials the backend carries: Store.Reserve           *)
(* (auth/admission.go), the session store (auth/session.go), and the        *)
(* handlers that open and end sessions: Connect and Disconnect              *)
(* (api/connect.go), SSOLogin, SSOConnect and SSOCancel (api/sso.go).       *)
(*                                                                         *)
(* A request reserves a slot for its client's address, dials, creates its    *)
(* session, makes it known under the address, ends the session it replaces   *)
(* and gives the slot back; other requests run between any two of these.     *)
(* SSOConnect does not count the pending session it is about to turn into    *)
(* an active one.                                                           *)
(***************************************************************************)
EXTENDS Integers, FiniteSets

CONSTANTS
  Sessions,           \* session ids; each is random, handed out once
  IPs,                \* client addresses
  Requests,           \* goroutines serving logins
  None,               \* no session, no address
  MaxSessions,        \* cfg.MaxSessions
  MaxSessionsPerIP,   \* cfg.MaxSessionsPerIP
  MaxConnecting,      \* cfg.MaxConnecting
  MaxConnectingPerIP  \* cfg.MaxConnectingPerIP

ASSUME AdmissionAssumption ==
  /\ IsFiniteSet(Sessions) /\ IsFiniteSet(Requests)
  /\ None \notin Sessions \cup IPs \cup Requests
  /\ MaxSessions \in Nat /\ MaxSessionsPerIP \in Nat
  /\ MaxConnecting \in Nat /\ MaxConnectingPerIP \in Nat

VARIABLES
  stored,      \* ids in Store.sessions
  minted,      \* ids handed out so far
  expired,     \* sessions past ExpiresAt: no lookup finds them again
  clientIP,    \* the address a session is known under
  payload,     \* sessions that hold the SSO payload: pending logins
  sweeping,    \* the session the expiry sweep is about to drop
  connecting,  \* Store.connecting, each count as the set of the slots it counts
  pc, at,      \* step and client address of each goroutine
  pending,     \* the pending session SSOConnect was called with
  mine,        \* the session the goroutine created
  replaced     \* the session its cookie named

store  == <<stored, minted, expired, clientIP, payload>>
caller == <<pc, at, pending, mine, replaced>>
vars   == <<store, sweeping, connecting, caller>>

-----------------------------------------------------------------------------
Init ==
  /\ stored = {}
  /\ minted = {}
  /\ expired = {}
  /\ clientIP = [s \in Sessions |-> None]
  /\ payload = {}
  /\ sweeping = None
  /\ connecting = [i \in IPs |-> {}]
  /\ pc = [p \in Requests |-> "idle"]
  /\ at = [p \in Requests |-> None]
  /\ pending = [p \in Requests |-> None]
  /\ mine = [p \in Requests |-> None]
  /\ replaced = [p \in Requests |-> None]

-----------------------------------------------------------------------------
(* Store.Reserve.                                                          *)

\* What a lookup by cookie finds; the cookie is sent when the login is over.
Live(s) == s \in stored /\ s \notin expired /\ \A p \in Requests : mine[p] # s

\* The transfer lock of a pending session, which is only ever tried.
Locked(s) == \E p \in Requests : pending[p] = s /\ pc[p] # "found"

\* The sessions Reserve counts, all of them and those known under an address.
Counted(s)  == stored \ {s}
Known(i, s) == {t \in Counted(s) : clientIP[t] = i}
Slots       == UNION {connecting[i] : i \in IPs}

\* Mutant: only the sessions that are stored already count.
RoomStored(i, s) ==
  /\ Cardinality(Counted(s)) < MaxSessions
  /\ Cardinality(Known(i, s)) < MaxSessionsPerIP
  /\ Cardinality(Slots) < MaxConnecting
  /\ Cardinality(connecting[i]) < MaxConnectingPerIP

\* s is the pending session that is not counted, or None.
Room(i, s) ==
  /\ Cardinality(Counted(s)) + Cardinality(Slots) < MaxSessions
  /\ Cardinality(Known(i, s)) + Cardinality(connecting[i]) < MaxSessionsPerIP
  /\ Cardinality(Slots) < MaxConnecting
  /\ Cardinality(connecting[i]) < MaxConnectingPerIP

Reserve(p, i, s, step) ==
  /\ Room(i, s)
  /\ connecting' = [connecting EXCEPT ![i] = @ \cup {p}]
  /\ pc' = [pc EXCEPT ![p] = step]
  /\ at' = [at EXCEPT ![p] = i]
  /\ UNCHANGED <<store, sweeping, mine, replaced>>

-----------------------------------------------------------------------------
(* The three ways to ask for a session.  A request that is refused changes   *)
(* nothing.                                                                 *)

Connect(p, i) ==
  /\ pc[p] = "idle"
  /\ Reserve(p, i, None, "dialing")
  /\ UNCHANGED pending

\* The token is valid and not used: a pending session is made without a dial.
SSOLogin(p, i) ==
  /\ pc[p] = "idle"
  /\ Reserve(p, i, None, "minting")
  /\ UNCHANGED pending

\* requirePending found the session of the pending cookie.
FindPending(p, i, s) ==
  /\ pc[p] = "idle"
  /\ Live(s) /\ s \in payload
  /\ pc' = [pc EXCEPT ![p] = "found"]
  /\ at' = [at EXCEPT ![p] = i]
  /\ pending' = [pending EXCEPT ![p] = s]
  /\ UNCHANGED <<store, sweeping, connecting, mine, replaced>>

\* Its transfer lock is free and it still holds the payload.
SSOConnect(p) ==
  /\ pc[p] = "found"
  /\ ~Locked(pending[p])
  /\ pending[p] \in payload
  /\ Reserve(p, at[p], pending[p], "dialing")
  /\ UNCHANGED pending

Forget(p) ==
  /\ pc' = [pc EXCEPT ![p] = "idle"]
  /\ at' = [at EXCEPT ![p] = None]
  /\ pending' = [pending EXCEPT ![p] = None]
  /\ mine' = [mine EXCEPT ![p] = None]
  /\ replaced' = [replaced EXCEPT ![p] = None]

\* Another request finalizes it, it was used up, or there is no room.
SSOConnectRefused(p) ==
  /\ pc[p] = "found"
  /\ Forget(p)
  /\ UNCHANGED <<store, sweeping, connecting>>

-----------------------------------------------------------------------------
(* From the slot to the session.                                            *)

\* The deferred free, then the deferred unlock of the pending session.
Free(p) ==
  /\ connecting' = [connecting EXCEPT ![at[p]] = @ \ {p}]
  /\ Forget(p)

\* Mutant: an early return between Reserve and the defer of free.
DialFailsLeaking(p) ==
  /\ pc[p] \in {"dialing", "minting"}
  /\ Forget(p)
  /\ UNCHANGED <<store, sweeping, connecting>>

\* The dial failed, or asked for a host key, or no session could be made.
DialFails(p) ==
  /\ pc[p] \in {"dialing", "minting"}
  /\ Free(p)
  /\ UNCHANGED <<store, sweeping>>

\* Mutant: the slot is given back as soon as the session is in the store.
MintFreeing(p, s) ==
  /\ pc[p] \in {"dialing", "minting"}
  /\ s \notin minted
  /\ stored' = stored \cup {s}
  /\ minted' = minted \cup {s}
  /\ mine' = [mine EXCEPT ![p] = s]
  /\ pc' = [pc EXCEPT ![p] = IF pc[p] = "minting" THEN "minted" ELSE "created"]
  /\ connecting' = [connecting EXCEPT ![at[p]] = @ \ {p}]
  /\ UNCHANGED <<expired, clientIP, payload, sweeping, at, pending, replaced>>

\* Store.New: the session is counted, but known under no address yet.
Mint(p, s) ==
  /\ pc[p] \in {"dialing", "minting"}
  /\ s \notin minted
  /\ stored' = stored \cup {s}
  /\ minted' = minted \cup {s}
  /\ mine' = [mine EXCEPT ![p] = s]
  /\ pc' = [pc EXCEPT ![p] = IF pc[p] = "minting" THEN "minted" ELSE "created"]
  /\ UNCHANGED <<expired, clientIP, payload, sweeping, connecting, at, pending, replaced>>

\* sess.Set of the address, and of the payload of a pending login.
Claim(p) ==
  /\ pc[p] \in {"created", "minted"}
  /\ clientIP' = [clientIP EXCEPT ![mine[p]] = at[p]]
  /\ payload' = IF pc[p] = "minted" THEN payload \cup {mine[p]} ELSE payload
  /\ pc' = [pc EXCEPT ![p] = IF pc[p] = "minted" THEN "repending" ELSE "replacing"]
  /\ UNCHANGED <<stored, minted, expired, sweeping, connecting, at, pending, mine, replaced>>

\* The session the browser's cookie still names, if a lookup finds it: a pending one
\* for SSOLogin, an active one for the others.
Replace(p) ==
  /\ pc[p] \in {"replacing", "repending"}
  /\ \E old \in {s \in Sessions : Live(s) /\ (s \in payload <=> pc[p] = "repending")} \cup {None} :
       replaced' = [replaced EXCEPT ![p] = old]
  /\ pc' = [pc EXCEPT ![p] = "ending"]
  /\ UNCHANGED <<store, sweeping, connecting, at, pending, mine>>

\* It is evicted, behind its transfer lock, and deleted; it may be gone by then.
EndReplaced(p) ==
  /\ pc[p] = "ending"
  /\ stored' = stored \ {replaced[p]}
  /\ pc' = [pc EXCEPT ![p] = IF pending[p] = None THEN "freeing" ELSE "using"]
  /\ UNCHANGED <<minted, expired, clientIP, payload, sweeping, connecting, at, pending, mine, replaced>>

\* The pending session is used up.
UsePending(p) ==
  /\ pc[p] = "using"
  /\ payload' = payload \ {pending[p]}
  /\ stored' = stored \ {pending[p]}
  /\ pc' = [pc EXCEPT ![p] = "freeing"]
  /\ UNCHANGED <<minted, expired, clientIP, sweeping, connecting, at, pending, mine, replaced>>

Return(p) ==
  /\ pc[p] = "freeing"
  /\ Free(p)
  /\ UNCHANGED <<store, sweeping>>

-----------------------------------------------------------------------------
(* How sessions end.                                                        *)

\* SSOCancel: the lock is tried, the session is deleted, the payload stays.
SSOCancel(s) ==
  /\ Live(s) /\ s \in payload
  /\ ~Locked(s)
  /\ stored' = stored \ {s}
  /\ UNCHANGED <<minted, expired, clientIP, payload, sweeping, connecting, caller>>

Disconnect(s) ==
  /\ Live(s) /\ s \notin payload
  /\ stored' = stored \ {s}
  /\ UNCHANGED <<minted, expired, clientIP, payload, sweeping, connecting, caller>>

\* No lookup finds the session any more, but Reserve counts it until it is swept.
Expire(s) ==
  /\ s \in stored \ expired
  /\ expired' = expired \cup {s}
  /\ UNCHANGED <<stored, minted, clientIP, payload, sweeping, connecting, caller>>

\* EvictExpired, which passes over a session whose transfer lock is held.  It lets
\* go of the lock before it drops the session: a login may lock it in between.
SweepTake(s) ==
  /\ sweeping = None
  /\ s \in stored \cap expired
  /\ ~Locked(s)
  /\ sweeping' = s
  /\ UNCHANGED <<store, connecting, caller>>

SweepDrop ==
  /\ sweeping # None
  /\ stored' = stored \ {sweeping}
  /\ sweeping' = None
  /\ UNCHANGED <<minted, expired, clientIP, payload, connecting, caller>>

-----------------------------------------------------------------------------
Next ==
  \/ \E p \in Requests, i \in IPs : Connect(p, i) \/ SSOLogin(p, i)
  \/ \E p \in Requests, i \in IPs, s \in Sessions : FindPending(p, i, s)
  \/ \E p \in Requests :
       \/ SSOConnect(p) \/ SSOConnectRefused(p) \/ DialFails(p)
       \/ Claim(p) \/ Replace(p) \/ EndReplaced(p) \/ UsePending(p) \/ Return(p)
  \/ \E p \in Requests, s \in Sessions : Mint(p, s)
  \/ \E s \in Sessions : SSOCancel(s) \/ Disconnect(s) \/ Expire(s) \/ SweepTake(s)
  \/ SweepDrop

Spec == Init /\ [][Next]_vars

-----------------------------------------------------------------------------
Steps ==
  {"idle", "found", "dialing", "minting", "created", "minted", "replacing", "repending",
   "ending", "using", "freeing"}

TypeOK ==
  /\ stored \in SUBSET minted
  /\ minted \in SUBSET Sessions
  /\ expired \in SUBSET Sessions
  /\ clientIP \in [Sessions -> IPs \cup {None}]
  /\ payload \in SUBSET Sessions
  /\ sweeping \in Sessions \cup {None}
  /\ connecting \in [IPs -> SUBSET Requests]
  /\ pc \in [Requests -> Steps]
  /\ at \in [Requests -> IPs \cup {None}]
  /\ pending \in [Requests -> Sessions \cup {None}]
  /\ mine \in [Requests -> Sessions \cup {None}]
  /\ replaced \in [Requests -> Sessions \cup {None}]

\* Every slot is given back: the count of an address is that of the logins under way
\* from it, whatever became of their dials.
Holding(i) == {p \in Requests : pc[p] \notin {"idle", "found"} /\ at[p] = i}

SlotsExact == \A i \in IPs : connecting[i] = Holding(i)

\* Sessions in the store and those still to come from a slot never exceed the
\* limit, but for the pending session one SSOConnect is about to replace: two logins
\* that look at the store at the same time cannot both take the last place.
Opening  == {p \in Requests : pc[p] \in {"dialing", "minting"}}
Credited == {s \in stored : Locked(s)}

SessionsBounded ==
  Cardinality(stored) + Cardinality(Opening)
    <= MaxSessions + (IF Credited = {} THEN 0 ELSE 1)

\* The same for one address, although a new session is stored before its address is
\* known: the slot stands for it until then.
Unclaimed(i) ==
  {p \in Requests : pc[p] \in {"dialing", "minting", "created", "minted"} /\ at[p] = i}
KnownAt(i) == {s \in stored : clientIP[s] = i}
CreditedAt(i) ==
  {s \in KnownAt(i) : \E p \in Requests : pending[p] = s /\ pc[p] # "found" /\ at[p] = i}

AddressBounded ==
  \A i \in IPs :
    Cardinality(KnownAt(i)) + Cardinality(Unclaimed(i))
      <= MaxSessionsPerIP + (IF CreditedAt(i) = {} THEN 0 ELSE 1)

-----------------------------------------------------------------------------
(* The inductive invariant behind the safety properties.                   *)

\* What a goroutine knows at each step of the pending session it finalizes and of
\* the session it created.
Placed ==
  \A p \in Requests :
    /\ pc[p] = "idle" => at[p] = None /\ pending[p] = None /\ mine[p] = None
    /\ pc[p] # "idle" => at[p] \in IPs
    /\ pc[p] \in {"found", "using"} => pending[p] # None
    /\ pending[p] # None => pending[p] \in minted
    /\ pc[p] = "freeing" => pending[p] \notin stored
    /\ pc[p] \in {"created", "minted"} => mine[p] # None /\ clientIP[mine[p]] = None
    /\ mine[p] # None => mine[p] \in minted /\ \A q \in Requests : mine[q] = mine[p] => q = p

\* Only a session that was handed out is known under an address.
Fresh == \A s \in Sessions : s \notin minted => clientIP[s] = None

IInv == TypeOK /\ Placed /\ Fresh /\ SlotsExact /\ SessionsBounded /\ AddressBounded
=============================================================================
