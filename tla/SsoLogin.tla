------------------------------- MODULE SsoLogin -------------------------------
(***************************************************************************)
(* Login links: the tokens (sso/token.go), the set of used ones             *)
(* (sso/usedset.go) and the pending sessions between a link and its session *)
(* (api/sso.go).                                                            *)
(*                                                                         *)
(* A link is decrypted, marked as used, and becomes a pending session; the   *)
(* user confirms it, any number of dials may fail or ask for a host key, and *)
(* the one that succeeds opens the session.  Three comparisons with the      *)
(* clock decide about expiry, and they do not agree within the second that   *)
(* begins at payload.Exp; so the clock counts half seconds.                  *)
(***************************************************************************)
EXTENDS Integers, FiniteSets

CONSTANTS
  Tokens,      \* login links
  Sessions,    \* session ids; each is random, handed out once
  Requests,    \* goroutines serving requests
  None,        \* no token, no session, no request
  Exp,         \* payload.Exp of each token, in seconds
  PendingTTL,  \* the lifetime of a pending session, in half seconds
  MaxTime      \* bound on the clock, for TLC alone

ASSUME SsoAssumption ==
  /\ None \notin Tokens \cup Sessions \cup Requests
  /\ Exp \in [Tokens -> Nat]
  /\ PendingTTL \in Nat /\ MaxTime \in Nat

VARIABLES
  clock,     \* half seconds
  used,      \* the keys of UsedSet.tokens
  redeemed,  \* history: tokens MarkIfUnused has accepted
  minted,    \* session ids handed out so far
  stored,    \* pending sessions in the store
  known,     \* pending sessions whose cookie has been sent
  payload,   \* the token whose credentials a session holds
  expiry,    \* Session.ExpiresAt of a pending session
  lock,      \* holder of a pending session's transfer lock, which is only tried
  sweeping,  \* the session the expiry sweep is about to drop
  opened,    \* history: the sessions each token has opened
  pc,        \* step of each goroutine
  tok,       \* the token SSOLogin was called with
  mine,      \* the pending session it made
  pending    \* the session requirePending found

tokens   == <<used, redeemed, opened>>
pendings == <<stored, known, payload, expiry, lock, sweeping>>
caller   == <<pc, tok, mine, pending>>
vars     == <<clock, tokens, minted, pendings, caller>>

-----------------------------------------------------------------------------
(* The clock.  Instant(n) is time.Unix(n, 0).                                *)

Instant(second) == 2 * second

\* time.Now().Unix() > second, as in Decrypt.
UnixAfter(second) == clock >= Instant(second + 1)

\* Mutant: the comparison of Decrypt, by which the expiry second is still good.
UnixReachedLate(second) == UnixAfter(second)

\* time.Now().Unix() >= second, as in SSOConnect.
UnixReached(second) == clock >= Instant(second)

\* time.Now().After(instant), as in MarkIfUnused and in Store.Get.
After(instant) == clock > instant

Earlier(a, b) == IF a < b THEN a ELSE b

-----------------------------------------------------------------------------
Init ==
  /\ clock = 0
  /\ used = {}
  /\ redeemed = {}
  /\ minted = {}
  /\ stored = {}
  /\ known = {}
  /\ payload = [s \in Sessions |-> None]
  /\ expiry = [s \in Sessions |-> 0]
  /\ lock = [s \in Sessions |-> None]
  /\ sweeping = None
  /\ opened = [t \in Tokens |-> {}]
  /\ pc = [p \in Requests |-> "idle"]
  /\ tok = [p \in Requests |-> None]
  /\ mine = [p \in Requests |-> None]
  /\ pending = [p \in Requests |-> None]

Goto(p, step) == pc' = [pc EXCEPT ![p] = step]

\* The handler returns: its locals are forgotten.
Return(p) ==
  /\ Goto(p, "idle")
  /\ tok' = [tok EXCEPT ![p] = None]
  /\ mine' = [mine EXCEPT ![p] = None]
  /\ pending' = [pending EXCEPT ![p] = None]

\* pendingSession: what a lookup by the pending cookie finds.
Findable(s) == s \in stored /\ ~After(expiry[s]) /\ payload[s] # None

-----------------------------------------------------------------------------
(* SSOLogin.                                                               *)

\* A token that cannot be decrypted, names no allowed host or is past its second is
\* refused at once and changes nothing.
Decrypt(p, t) ==
  /\ pc[p] = "idle"
  /\ ~UnixAfter(Exp[t])
  /\ Goto(p, "decrypted")
  /\ tok' = [tok EXCEPT ![p] = t]
  /\ UNCHANGED <<clock, tokens, minted, pendings, mine, pending>>

\* The entry is there and the token has not expired since.
IsUsed(t) == t \in used /\ ~After(Instant(Exp[t]))

MarkIfUnused(p) ==
  LET t == tok[p] IN
  /\ pc[p] = "decrypted"
  /\ ~IsUsed(t)
  /\ used' = used \cup {t}
  /\ redeemed' = redeemed \cup {t}
  /\ Goto(p, "marked")
  /\ UNCHANGED <<clock, opened, minted, pendings, tok, mine, pending>>

\* The link was used before, or there is no room for a login: then it is spent.
LoginRefused(p) ==
  /\ pc[p] \in {"decrypted", "marked"}
  /\ pc[p] = "decrypted" => IsUsed(tok[p])
  /\ Return(p)
  /\ UNCHANGED <<clock, tokens, minted, pendings>>

PendingExpiry(t) == Earlier(clock + PendingTTL, Instant(Exp[t]))

\* Nobody has the id of the new session before the response.
MintPending(p, s) ==
  LET t == tok[p] IN
  /\ pc[p] = "marked"
  /\ s \notin minted
  /\ minted' = minted \cup {s}
  /\ stored' = stored \cup {s}
  /\ expiry' = [expiry EXCEPT ![s] = PendingExpiry(t)]
  /\ payload' = [payload EXCEPT ![s] = t]
  /\ mine' = [mine EXCEPT ![p] = s]
  /\ Goto(p, "replacing")
  /\ UNCHANGED <<clock, tokens, known, lock, sweeping, tok, pending>>

\* The pending login the browser's cookie named is deleted, finalized or not.
ReplacePending(p) ==
  /\ pc[p] = "replacing"
  /\ \E old \in {s \in known : Findable(s)} \cup {None} : stored' = stored \ {old}
  /\ known' = known \cup {mine[p]}
  /\ Return(p)
  /\ UNCHANGED <<clock, tokens, minted, payload, expiry, lock, sweeping>>

-----------------------------------------------------------------------------
(* SSOConnect and SSOCancel, behind requirePending.                         *)

FindPending(p, s) ==
  /\ pc[p] = "idle"
  /\ s \in known
  /\ Findable(s)
  /\ Goto(p, "found")
  /\ pending' = [pending EXCEPT ![p] = s]
  /\ UNCHANGED <<clock, tokens, minted, pendings, tok, mine>>

TryLock(s) == lock[s] = None

\* Another request holds the lock, the login is over or past its second, or there is
\* no room.
ConnectRefused(p) ==
  /\ pc[p] = "found"
  /\ Return(p)
  /\ UNCHANGED <<clock, tokens, minted, pendings>>

SSOConnect(p) ==
  LET s == pending[p] IN
  /\ pc[p] = "found"
  /\ TryLock(s)
  /\ payload[s] # None
  /\ ~UnixReached(Exp[payload[s]])
  /\ lock' = [lock EXCEPT ![s] = p]
  /\ Goto(p, "dialing")
  /\ UNCHANGED <<clock, tokens, minted, stored, known, payload, expiry, sweeping,
                 tok, mine, pending>>

\* Mutant: the early return leaves the pending session locked.
DialFailsLocked(p) ==
  /\ pc[p] = "dialing"
  /\ Return(p)
  /\ UNCHANGED <<clock, tokens, minted, pendings>>

\* The dial failed or asked for a host key: the user may try again.
DialFails(p) ==
  /\ pc[p] = "dialing"
  /\ lock' = [lock EXCEPT ![pending[p]] = None]
  /\ Return(p)
  /\ UNCHANGED <<clock, tokens, minted, stored, known, payload, expiry, sweeping>>

OpenSession(p, s) ==
  /\ pc[p] = "dialing"
  /\ s \notin minted
  /\ minted' = minted \cup {s}
  /\ opened' = [opened EXCEPT ![payload[pending[p]]] = @ \cup {s}]
  /\ Goto(p, "created")
  /\ UNCHANGED <<clock, used, redeemed, pendings, tok, mine, pending>>

\* Mutant: the pending session is deleted, and what it holds is not.
UsePendingKept(p) ==
  LET s == pending[p] IN
  /\ pc[p] = "created"
  /\ stored' = stored \ {s}
  /\ lock' = [lock EXCEPT ![s] = None]
  /\ Return(p)
  /\ UNCHANGED <<clock, tokens, minted, known, payload, expiry, sweeping>>

\* Mutant: the pending session is left as it was.
UsePendingLeft(p) ==
  LET s == pending[p] IN
  /\ pc[p] = "created"
  /\ lock' = [lock EXCEPT ![s] = None]
  /\ Return(p)
  /\ UNCHANGED <<clock, tokens, minted, stored, known, payload, expiry, sweeping>>

\* The session the browser had before was ended, which may have taken long; then the
\* credentials are deleted, the pending session dropped and its lock released.
UsePending(p) ==
  LET s == pending[p] IN
  /\ pc[p] = "created"
  /\ payload' = [payload EXCEPT ![s] = None]
  /\ stored' = stored \ {s}
  /\ lock' = [lock EXCEPT ![s] = None]
  /\ Return(p)
  /\ UNCHANGED <<clock, tokens, minted, known, expiry, sweeping>>

\* The lock is free, the session is dropped, its payload stays.
SSOCancel(p) ==
  LET s == pending[p] IN
  /\ pc[p] = "found"
  /\ TryLock(s)
  /\ stored' = stored \ {s}
  /\ Return(p)
  /\ UNCHANGED <<clock, tokens, minted, known, payload, expiry, lock, sweeping>>

-----------------------------------------------------------------------------
(* The background.                                                         *)

\* UsedSet.cleanupExpired.
CleanUsed ==
  /\ used' = {t \in used : ~After(Instant(Exp[t]))}
  /\ UNCHANGED <<clock, redeemed, opened, minted, pendings, caller>>

\* EvictExpired passes over a session whose lock is held, and lets go of the lock
\* before it drops the session.
SweepTake(s) ==
  /\ sweeping = None
  /\ s \in stored
  /\ After(expiry[s])
  /\ TryLock(s)
  /\ sweeping' = s
  /\ UNCHANGED <<clock, tokens, minted, stored, known, payload, expiry, lock, caller>>

SweepDrop ==
  /\ sweeping # None
  /\ stored' = stored \ {sweeping}
  /\ sweeping' = None
  /\ UNCHANGED <<clock, tokens, minted, known, payload, expiry, lock, caller>>

Tick ==
  /\ clock < MaxTime
  /\ clock' = clock + 1
  /\ UNCHANGED <<tokens, minted, pendings, caller>>

-----------------------------------------------------------------------------
Handle(p) ==
  \/ MarkIfUnused(p) \/ LoginRefused(p) \/ ReplacePending(p)
  \/ ConnectRefused(p) \/ SSOConnect(p) \/ SSOCancel(p)
  \/ DialFails(p) \/ UsePending(p)
  \/ \E s \in Sessions : MintPending(p, s) \/ OpenSession(p, s)

Next ==
  \/ \E p \in Requests :
       \/ Handle(p)
       \/ \E t \in Tokens : Decrypt(p, t)
       \/ \E s \in Sessions : FindPending(p, s)
  \/ \E s \in Sessions : SweepTake(s)
  \/ SweepDrop \/ CleanUsed \/ Tick

Spec == Init /\ [][Next]_vars

\* Handlers go on, dials have a deadline, the sweep runs on a ticker, and the clock
\* does not stop.
FairSpec ==
  /\ Spec
  /\ \A p \in Requests : WF_vars(Handle(p))
  /\ \A s \in Sessions : WF_vars(SweepTake(s))
  /\ WF_vars(SweepDrop) /\ WF_vars(Tick)

-----------------------------------------------------------------------------
Steps == {"idle", "decrypted", "marked", "replacing", "found", "dialing", "created"}

TypeOK ==
  /\ clock \in Nat
  /\ used \in SUBSET redeemed
  /\ redeemed \in SUBSET Tokens
  /\ minted \in SUBSET Sessions
  /\ stored \in SUBSET minted
  /\ known \in SUBSET minted
  /\ payload \in [Sessions -> Tokens \cup {None}]
  /\ expiry \in [Sessions -> Nat]
  /\ lock \in [Sessions -> Requests \cup {None}]
  /\ sweeping \in Sessions \cup {None}
  /\ opened \in [Tokens -> SUBSET minted]
  /\ pc \in [Requests -> Steps]
  /\ tok \in [Requests -> Tokens \cup {None}]
  /\ mine \in [Requests -> Sessions \cup {None}]
  /\ pending \in [Requests -> Sessions \cup {None}]

\* A link works once: whoever replays it, confirms it twice, cancels and confirms, or
\* lets it expire half way, it opens one session at most.
OneSession ==
  \A t \in Tokens : \A r, s \in opened[t] : r = s

\* However many requests replay a link, also within its last second, where a token
\* can be redeemed a second time: at most one pending login of it can be found.
OneFindable ==
  \A r, s \in Sessions :
    Findable(r) /\ Findable(s) /\ payload[r] = payload[s] => r = s

\* Once a link has opened its session, no pending session that can be found holds
\* its credentials any more, but for the one whose handler is about to drop them.
SpentForgotten ==
  \A s \in Sessions :
    Findable(s) /\ opened[payload[s]] # {} =>
      \E p \in Requests : pc[p] = "created" /\ pending[p] = s

-----------------------------------------------------------------------------
(* The handlers implement OneTimeLogin.                                     *)

At(step) == {p \in Requests : pc[p] = step}
Dials == [t \in Tokens |-> {p \in At("dialing") : payload[pending[p]] = t}]

OneTime == INSTANCE OneTimeLogin WITH dials <- Dials

\* Dials with the credentials of a link follow one another, begin before it expires,
\* and end with the one that opens its one session.
ImplementsOneTimeLogin == OneTime!Spec

-----------------------------------------------------------------------------
(* The inductive invariant behind the safety properties.                   *)

\* What a goroutine has at each step.
Placed ==
  \A p \in Requests :
    /\ pc[p] \in {"decrypted", "marked"} => tok[p] \in Tokens
    /\ pc[p] = "marked" => tok[p] \in redeemed
    /\ pc[p] = "replacing" => mine[p] \in minted
    /\ pc[p] \in {"found", "dialing", "created"} => pending[p] \in Sessions
    /\ pc[p] \in {"dialing", "created"} =>
         lock[pending[p]] = p /\ payload[pending[p]] \in Tokens

\* A session holds the credentials of a redeemed token and does not outlive it; a
\* fresh id holds none.
Held ==
  \A s \in Sessions :
    /\ payload[s] # None => s \in minted /\ payload[s] \in redeemed
                            /\ expiry[s] <= Instant(Exp[payload[s]])
    /\ lock[s] # None =>
         pending[lock[s]] = s /\ pc[lock[s]] \in {"dialing", "created"}

\* A token that has not been redeemed has opened nothing; one that has is not
\* forgotten before it expires.
Remembered ==
  \A t \in Tokens :
    /\ t \notin redeemed => opened[t] = {}
    /\ t \in redeemed /\ ~After(Instant(Exp[t])) => t \in used

\* Until a token expires, one goroutine or one session carries it.
Sole ==
  \A t \in Tokens :
    ~After(Instant(Exp[t])) =>
      /\ \A p, q \in At("marked") : tok[p] = t /\ tok[q] = t => p = q
      /\ \A p \in At("marked"), s \in Sessions : tok[p] = t => payload[s] # t
      /\ \A r, s \in Sessions : payload[r] = t /\ payload[s] = t => r = s

\* One finalization at a time.
Exclusive ==
  \A p, q \in At("dialing") \cup At("created") :
    payload[pending[p]] = payload[pending[q]] => p = q

\* After a token has opened its session nobody dials with it, and until it expires
\* the session that held its credentials is the one being used up.
Spent ==
  \A t \in Tokens :
    opened[t] # {} =>
      /\ \A p \in At("dialing") : payload[pending[p]] # t
      /\ ~After(Instant(Exp[t])) =>
           /\ \A p \in At("marked") : tok[p] # t
           /\ \A s \in Sessions :
                payload[s] = t => \E p \in At("created") : pending[p] = s

IInv ==
  /\ TypeOK /\ Placed /\ Held /\ Remembered /\ Sole /\ Exclusive /\ Spent /\ OneSession

-----------------------------------------------------------------------------
\* Credentials do not stay in memory: every pending session leaves the store, also if
\* nobody confirms it and the sweep finds it busy.
PendingEnds == \A s \in Sessions : s \in stored ~> s \notin stored
=============================================================================
