----------------------------- MODULE AtomicUpload -----------------------------
(***************************************************************************)
(* What chunked uploads promise, without goroutines, locks and chunks.       *)
(* Room is taken before an upload is opened and given back once, after it has *)
(* ended.  A session sends one upload at a time.  An upload ends once: it is   *)
(* committed, with its whole file on the server; aborted; or lost to a send    *)
(* that failed or to the end of its session.  A file that was there when the  *)
(* send began is replaced only with consent, and never deleted; one that      *)
(* others make in the meantime ("raced") may be.                              *)
(***************************************************************************)
EXTENDS Integers, FiniteSets

CONSTANTS
  Sessions,
  Uploads,
  None,             \* no session
  UploadMaxPending, \* uploads one session may have open
  StagingMax        \* uploads there is room for

VARIABLES
  charged,  \* uploads that room is taken for
  home,     \* the session each upload belongs to
  state,    \* open, or how it ended
  sending,  \* what each session is sending: an upload and the user's consent
  file      \* the destination on each session's server

vars == <<charged, home, state, sending, file>>

Init ==
  /\ charged = {}
  /\ home = [u \in Uploads |-> None]
  /\ state = [u \in Uploads |-> "open"]
  /\ sending = [s \in Sessions |-> {}]
  /\ file \in [Sessions -> {"absent", "theirs"}]

Known(u)  == home[u] # None
OpenOf(s) == {u \in Uploads : home[u] = s /\ state[u] = "open"}

\* An upload that has ended may keep its room until its chunks are gone.
MayGiveBack(u) == charged' \in {charged, charged \ {u}}

-----------------------------------------------------------------------------
Charge(u) ==
  /\ u \notin charged
  /\ ~Known(u)
  /\ Cardinality(charged) < StagingMax
  /\ charged' = charged \cup {u}
  /\ UNCHANGED <<home, state, sending, file>>

Open(s, u) ==
  /\ u \in charged
  /\ ~Known(u)
  /\ Cardinality(OpenOf(s)) < UploadMaxPending
  /\ home' = [home EXCEPT ![u] = s]
  /\ UNCHANGED <<charged, state, sending, file>>

GiveBack(u) ==
  /\ u \in charged
  /\ ~Known(u) \/ state[u] # "open"
  /\ charged' = charged \ {u}
  /\ UNCHANGED <<home, state, sending, file>>

-----------------------------------------------------------------------------
Begin(s, u, over) ==
  /\ sending[s] = {}
  /\ home[u] = s
  /\ state[u] = "open"
  /\ over \/ file[s] = "absent"
  /\ sending' = [sending EXCEPT ![s] = {[up |-> u, over |-> over]}]
  /\ file' = [file EXCEPT ![s] = IF @ = "raced" THEN "theirs" ELSE @]
  /\ UNCHANGED <<charged, home, state>>

\* The chunks are not what was promised: nothing was sent, and the upload stays open.
Withdraw(s) ==
  /\ sending[s] # {}
  /\ sending' = [sending EXCEPT ![s] = {}]
  /\ UNCHANGED <<charged, home, state, file>>

\* The send that is under way ends, and its upload with it.
End(s, u, over, how) ==
  /\ sending[s] = {[up |-> u, over |-> over]}
  /\ state[u] = "open"
  /\ sending' = [sending EXCEPT ![s] = {}]
  /\ state' = [state EXCEPT ![u] = how]
  /\ MayGiveBack(u)
  /\ UNCHANGED home

Commit(s, u, over) ==
  /\ End(s, u, over, "committed")
  /\ file' = [file EXCEPT ![s] = "whole"]

Fail(s, u, over) ==
  /\ End(s, u, over, "lost")
  /\ \E left \in {file[s], "partial", "whole"} \cup (IF over THEN {} ELSE {"absent"}) :
       file' = [file EXCEPT ![s] = left]

-----------------------------------------------------------------------------
\* An abort is told to the user also of an upload an eviction was quicker to end.
Abort(u) ==
  /\ Known(u)
  /\ state[u] \in {"open", "lost"}
  /\ sending[home[u]] = {}
  /\ state' = [state EXCEPT ![u] = "aborted"]
  /\ charged' = charged \ {u}
  /\ UNCHANGED <<home, sending, file>>

\* The end of the session, even in the middle of another upload of it.
Evict(u) ==
  /\ Known(u)
  /\ state[u] = "open"
  /\ \A c \in sending[home[u]] : c.up # u
  /\ state' = [state EXCEPT ![u] = "lost"]
  /\ MayGiveBack(u)
  /\ UNCHANGED <<home, sending, file>>

\* Everybody else who writes the destination.
Touch(s) ==
  /\ \E left \in {"absent", IF sending[s] = {} THEN "theirs" ELSE "raced"} :
       file' = [file EXCEPT ![s] = left]
  /\ UNCHANGED <<charged, home, state, sending>>

-----------------------------------------------------------------------------
Next ==
  \/ \E u \in Uploads : Charge(u) \/ GiveBack(u) \/ Abort(u) \/ Evict(u)
  \/ \E s \in Sessions, u \in Uploads :
       \/ Open(s, u)
       \/ \E over \in BOOLEAN : Begin(s, u, over) \/ Commit(s, u, over) \/ Fail(s, u, over)
  \/ \E s \in Sessions : Withdraw(s) \/ Touch(s)

Spec == Init /\ [][Next]_vars
=============================================================================
