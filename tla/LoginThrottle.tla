---------------------------- MODULE LoginThrottle ----------------------------
(***************************************************************************)
(* The login throttle: Throttle.Reserve and the settle function it returns *)
(* (auth/admission.go), the sweep of expired entries (auth/throttle.go),    *)
(* and the way Connect and SSOConnect use them (api/connect.go, api/sso.go).*)
(*                                                                         *)
(* A dial is charged to the client's address when it is admitted, and to    *)
(* the account while it is in flight and after the server rejected its      *)
(* credentials.  One map holds the entries of both kinds of key.            *)
(***************************************************************************)
EXTENDS Integers, FiniteSets

CONSTANTS
  Accounts,    \* "account:" keys, one per host and user
  IPs,         \* "ip:" keys
  Attempts,    \* goroutines serving login requests
  None,        \* no key
  MaxAttempts, \* cfg.LoginMaxAttempts
  Cooldown,    \* cfg.LoginCooldownSeconds
  MaxEntries,  \* maxThrottleEntries
  MaxTime      \* bound on the clock, for TLC alone

Keys == Accounts \cup IPs

ASSUME ThrottleAssumption ==
  /\ IsFiniteSet(Keys) /\ IsFiniteSet(Attempts)
  /\ Accounts \cap IPs = {}
  /\ None \notin Keys
  /\ MaxAttempts \in Nat /\ Cooldown \in Nat /\ MaxEntries \in Nat /\ MaxTime \in Nat

VARIABLES
  now,        \* the clock
  entries,    \* the keys of Throttle.entries
  attempts,   \* throttleEntry.attempts
  inFlight,   \* throttleEntry.inFlight
  expiresAt,  \* throttleEntry.expiresAt
  pc,         \* "idle", "dialing", or "returning" with the deferred settle to run
  account,    \* the account each goroutine dials
  attached,   \* the entry its settle points to is still the one in the map
  settled,    \* settle's sync.Once
  streak,     \* history: rejections of an account, each within Cooldown of the last
  lastFail,   \* history: when the last of them happened
  burst,      \* history: dials of an address, each within Cooldown of the last
  lastDial    \* history: when the last of them was admitted

entry   == <<attempts, inFlight, expiresAt>>
caller  == <<pc, account, attached, settled>>
history == <<streak, lastFail, burst, lastDial>>
vars    == <<now, entries, entry, caller, history>>

-----------------------------------------------------------------------------
Init ==
  /\ now = 0
  /\ entries = {}
  /\ attempts = [k \in Keys |-> 0]
  /\ inFlight = [k \in Keys |-> 0]
  /\ expiresAt = [k \in Keys |-> 0]
  /\ pc = [p \in Attempts |-> "idle"]
  /\ account = [p \in Attempts |-> None]
  /\ attached = [p \in Attempts |-> FALSE]
  /\ settled = [p \in Attempts |-> FALSE]
  /\ streak = [a \in Accounts |-> 0]
  /\ lastFail = [a \in Accounts |-> 0]
  /\ burst = [i \in IPs |-> 0]
  /\ lastDial = [i \in IPs |-> 0]

-----------------------------------------------------------------------------
(* The map.                                                                *)

Expired(k) == now > expiresAt[k]

\* An expired entry with no dial in flight may be dropped.
Droppable(k) == k \in entries /\ Expired(k) /\ inFlight[k] = 0

\* What is left of the map once Reserve looked at the two keys of a dial.
Stale(a, i) == {k \in {a, i} : Droppable(k)}
Left(a, i)  == entries \ Stale(a, i)

\* Failures that still count against the account; those of an expired entry do not.
Counted(a, i) == IF a \in Left(a, i) /\ ~Expired(a) THEN attempts[a] ELSE 0

\* Mutant: only rejections that were already reported count.
UnderLimitReported(a, i) == a \in Left(a, i) => Counted(a, i) < MaxAttempts

\* A dial in flight may yet be rejected, so it counts as a rejection.
UnderLimit(a, i) == a \in Left(a, i) => Counted(a, i) + inFlight[a] < MaxAttempts

\* Mutant: room for one more key is enough.
HasRoomForOne(a, i) == Cardinality(Left(a, i)) < MaxEntries

HasRoom(a, i) == Cardinality(Left(a, i) \cup {a, i}) <= MaxEntries

\* Mutant: only the account is limited.
AdmissibleByAccount(a, i) ==
  /\ MaxAttempts >= 1
  /\ HasRoom(a, i)
  /\ UnderLimit(a, i)

Admissible(a, i) ==
  /\ MaxAttempts >= 1
  /\ HasRoom(a, i)
  /\ UnderLimit(a, i)
  /\ i \in Left(a, i) => attempts[i] < MaxAttempts * 4

\* The dials whose settle points to an entry that is dropped lose it.
Detach(dropped) ==
  [q \in Attempts |-> attached[q] /\ account[q] \notin dropped]

-----------------------------------------------------------------------------
(* Reserve.                                                                *)

Admit(p, a, i) ==
  /\ pc[p] = "idle"
  /\ Admissible(a, i)
  /\ entries' = Left(a, i) \cup {a, i}
  /\ attempts' = [attempts EXCEPT
       ![a] = Counted(a, i),
       ![i] = IF i \in Left(a, i) THEN @ + 1 ELSE 1]
  /\ inFlight' = [inFlight EXCEPT
       ![a] = IF a \in Left(a, i) THEN @ + 1 ELSE 1,
       ![i] = IF i \in Left(a, i) THEN @ ELSE 0]
  /\ expiresAt' = [expiresAt EXCEPT
       ![a] = IF a \in Left(a, i) /\ ~Expired(a) THEN @ ELSE now + Cooldown,
       ![i] = now + Cooldown]
  /\ pc' = [pc EXCEPT ![p] = "dialing"]
  /\ account' = [account EXCEPT ![p] = a]
  /\ attached' = [Detach(Stale(a, i)) EXCEPT ![p] = TRUE]
  /\ settled' = [settled EXCEPT ![p] = FALSE]
  /\ burst' = [burst EXCEPT ![i] = IF now <= lastDial[i] + Cooldown THEN @ + 1 ELSE 1]
  /\ lastDial' = [lastDial EXCEPT ![i] = now]
  /\ UNCHANGED <<now, streak, lastFail>>

\* Mutant: every attempt that is turned away prolongs the lock-out.
RefuseExtends(p, a, i) ==
  /\ pc[p] = "idle"
  /\ ~Admissible(a, i)
  /\ expiresAt' = [expiresAt EXCEPT ![a] = now + Cooldown]
  /\ UNCHANGED <<now, entries, attempts, inFlight, caller, history>>

\* A refusal has dropped the stale entries and reset the expired one all the same.
Refuse(p, a, i) ==
  /\ pc[p] = "idle"
  /\ ~Admissible(a, i)
  /\ entries' = Left(a, i)
  /\ attempts' = [attempts EXCEPT ![a] = IF a \in entries' THEN Counted(a, i) ELSE @]
  /\ attached' = Detach(Stale(a, i))
  /\ UNCHANGED <<now, inFlight, expiresAt, pc, account, settled, history>>

-----------------------------------------------------------------------------
(* settle, and the two ways a handler reaches it.                           *)

\* The first call decides; an entry no longer in the map takes no notice.
Settle(p, failed) ==
  LET a == account[p]
      counts == ~settled[p] /\ attached[p] IN
  /\ inFlight' = [inFlight EXCEPT ![a] = IF counts THEN @ - 1 ELSE @]
  /\ attempts' = [attempts EXCEPT ![a] = IF counts /\ failed THEN @ + 1 ELSE @]
  /\ expiresAt' = [expiresAt EXCEPT ![a] = IF counts /\ failed THEN now + Cooldown ELSE @]
  /\ settled' = [settled EXCEPT ![p] = TRUE]

\* The dial failed and was classified; only a rejection of the credentials counts.
DialFailed(p, rejected) ==
  LET a == account[p] IN
  /\ pc[p] = "dialing"
  /\ Settle(p, rejected)
  /\ pc' = [pc EXCEPT ![p] = "returning"]
  /\ IF rejected
     THEN /\ streak' = [streak EXCEPT
               ![a] = IF now <= lastFail[a] + Cooldown THEN @ + 1 ELSE 1]
          /\ lastFail' = [lastFail EXCEPT ![a] = now]
     ELSE UNCHANGED <<streak, lastFail>>
  /\ UNCHANGED <<now, entries, account, attached, burst, lastDial>>

\* A host key prompt, or a session: nothing is settled before the handler returns.
DialEnded(p) ==
  /\ pc[p] = "dialing"
  /\ pc' = [pc EXCEPT ![p] = "returning"]
  /\ UNCHANGED <<now, entries, entry, account, attached, settled, history>>

\* The deferred settle(false).
Return(p) ==
  /\ pc[p] = "returning"
  /\ Settle(p, FALSE)
  /\ pc' = [pc EXCEPT ![p] = "idle"]
  /\ account' = [account EXCEPT ![p] = None]
  /\ attached' = [attached EXCEPT ![p] = FALSE]
  /\ UNCHANGED <<now, entries, history>>

-----------------------------------------------------------------------------
\* The ticker's pass over the map.
Cleanup ==
  LET dropped == {k \in entries : Droppable(k)} IN
  /\ entries' = entries \ dropped
  /\ attached' = Detach(dropped)
  /\ UNCHANGED <<now, entry, pc, account, settled, history>>

Tick ==
  /\ now < MaxTime
  /\ now' = now + 1
  /\ UNCHANGED <<entries, entry, caller, history>>

Next ==
  \/ \E p \in Attempts, a \in Accounts, i \in IPs : Admit(p, a, i) \/ Refuse(p, a, i)
  \/ \E p \in Attempts, rejected \in BOOLEAN : DialFailed(p, rejected)
  \/ \E p \in Attempts : DialEnded(p) \/ Return(p)
  \/ Cleanup
  \/ Tick

Spec == Init /\ [][Next]_vars

-----------------------------------------------------------------------------
TypeOK ==
  /\ now \in Nat
  /\ entries \in SUBSET Keys
  /\ attempts \in [Keys -> Nat]
  /\ inFlight \in [Keys -> Nat]
  /\ expiresAt \in [Keys -> Nat]
  /\ pc \in [Attempts -> {"idle", "dialing", "returning"}]
  /\ account \in [Attempts -> Accounts \cup {None}]
  /\ attached \in [Attempts -> BOOLEAN]
  /\ settled \in [Attempts -> BOOLEAN]
  /\ streak \in [Accounts -> Nat]
  /\ lastFail \in [Accounts -> Nat]
  /\ burst \in [IPs -> Nat]
  /\ lastDial \in [IPs -> Nat]

\* However many logins run at once, and however late their answers arrive, a server
\* never rejects an account more than MaxAttempts times in a row with no Cooldown
\* between two of the rejections.
StreakBounded == \A a \in Accounts : streak[a] <= MaxAttempts

\* One address never starts more than 4 * MaxAttempts dials in a row with no Cooldown
\* between two of them, whatever accounts it names and whatever became of the dials.
BurstBounded == \A i \in IPs : burst[i] <= 4 * MaxAttempts

\* The in-flight count of an account is the number of its dials that have not been
\* settled: no path forgets one or settles it twice.
Open(a) == {p \in Attempts : account[p] = a /\ ~settled[p]}

InFlightExact ==
  \A a \in Accounts :
    Cardinality(Open(a)) = IF a \in entries THEN inFlight[a] ELSE 0

\* The map never outgrows its cap, although two keys may be added at a time.
EntriesBounded == Cardinality(entries) <= MaxEntries

\* A lock-out ends: an account with no dial in flight and no rejection during the
\* last Cooldown is admitted from an address that was as quiet, if there is room.
\* Attempts that were refused in between change nothing about it.
Quiet(a, i) == now > lastFail[a] + Cooldown /\ now > lastDial[i] + Cooldown

LockoutEnds ==
  \A a \in Accounts, i \in IPs :
    Quiet(a, i) /\ Open(a) = {} /\ HasRoom(a, i) /\ MaxAttempts >= 1 => Admissible(a, i)

-----------------------------------------------------------------------------
(* The inductive invariant behind the safety properties.                   *)

\* A dial that has not been settled points to the entry of its account in the map.
Attached ==
  \A p \in Attempts :
    /\ pc[p] = "idle" <=> account[p] = None
    /\ pc[p] = "dialing" => ~settled[p]
    /\ pc[p] # "idle" /\ ~settled[p] => attached[p] /\ account[p] \in entries

\* What an account's entry says of its rejections: none is forgotten before its
\* Cooldown is over, and the entry is kept that long.
AccountKept ==
  \A a \in Accounts :
    /\ a \in entries => attempts[a] + inFlight[a] <= MaxAttempts
    /\ a \in entries /\ attempts[a] > 0 => expiresAt[a] = lastFail[a] + Cooldown
    /\ streak[a] > 0 /\ now <= lastFail[a] + Cooldown =>
         a \in entries /\ attempts[a] >= streak[a]

\* The same for the entry of an address and its dials.
AddressKept ==
  \A i \in IPs :
    /\ i \in entries =>
         inFlight[i] = 0 /\ attempts[i] <= 4 * MaxAttempts /\ expiresAt[i] = lastDial[i] + Cooldown
    /\ burst[i] > 0 /\ now <= lastDial[i] + Cooldown =>
         i \in entries /\ attempts[i] >= burst[i]

IInv ==
  /\ TypeOK /\ Attached /\ InFlightExact /\ AccountKept /\ AddressKept
  /\ EntriesBounded /\ StreakBounded /\ BurstBounded
=============================================================================
