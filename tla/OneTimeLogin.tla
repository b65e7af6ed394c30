----------------------------- MODULE OneTimeLogin -----------------------------
(***************************************************************************)
(* What a login link promises (docs/sso.md: "Each link works once and       *)
(* expires after a few minutes"): a token is redeemed, dials of it follow    *)
(* one another and begin before it expires, and one of them may open the     *)
(* one session the token is good for.                                       *)
(***************************************************************************)
EXTENDS Integers

CONSTANTS
  Tokens,    \* login links
  Sessions,  \* session ids
  Requests,  \* goroutines serving requests
  Exp        \* payload.Exp of each token, in seconds

VARIABLES
  clock,     \* half seconds
  redeemed,  \* tokens that have been accepted
  dials,     \* the requests that dial with a token's credentials
  opened     \* the sessions a token has opened

vars == <<clock, redeemed, dials, opened>>

Init ==
  /\ clock = 0
  /\ redeemed = {}
  /\ dials = [t \in Tokens |-> {}]
  /\ opened = [t \in Tokens |-> {}]

Tick ==
  /\ clock' = clock + 1
  /\ UNCHANGED <<redeemed, dials, opened>>

Redeem(t) ==
  /\ t \notin redeemed
  /\ redeemed' = redeemed \cup {t}
  /\ UNCHANGED <<clock, dials, opened>>

Begin(t, p) ==
  /\ t \in redeemed
  /\ dials[t] = {}
  /\ opened[t] = {}
  /\ clock < 2 * Exp[t]
  /\ dials' = [dials EXCEPT ![t] = {p}]
  /\ UNCHANGED <<clock, redeemed, opened>>

Fail(t) ==
  /\ dials[t] # {}
  /\ dials' = [dials EXCEPT ![t] = {}]
  /\ UNCHANGED <<clock, redeemed, opened>>

Open(t, s) ==
  /\ dials[t] # {}
  /\ \A u \in Tokens : s \notin opened[u]
  /\ dials' = [dials EXCEPT ![t] = {}]
  /\ opened' = [opened EXCEPT ![t] = {s}]
  /\ UNCHANGED <<clock, redeemed>>

Next ==
  \/ Tick
  \/ \E t \in Tokens :
       \/ Redeem(t) \/ Fail(t)
       \/ \E p \in Requests : Begin(t, p)
       \/ \E s \in Sessions : Open(t, s)

Spec == Init /\ [][Next]_vars
=============================================================================
