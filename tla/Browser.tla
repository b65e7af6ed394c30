------------------------------- MODULE Browser -------------------------------
(***************************************************************************)
(* Two parts of the browser that share no state here: the upload queue on one *)
(* connection, and a tab over several connections.  A behaviour is one of the  *)
(* part that is chosen at its start; the other stands still.  The tab does one *)
(* kind of work beside logins, logouts and status checks.                     *)
(***************************************************************************)
EXTENDS UploadQueue, BrowserConnection

VARIABLE part

TabWork == {"browse", "upload", "archive"}

\* A part that stands still has one initial state.
BrowserInit ==
  /\ part \in {"queue"} \cup TabWork
  /\ Init /\ BCInit
  /\ part \in TabWork \/ (bcMade = {} /\ ~bcSso)

\* What the tab does not do stays as it is, but for a reset.
TabNext ==
  /\ BCNext
  /\ part = "browse" \/ UNCHANGED <<bcView, bcPaste>>
  /\ part = "upload" \/ UNCHANGED bcItem
  /\ part = "archive" \/ bcCall'["zip"] = NoCall

BrowserNext ==
  /\ UNCHANGED part
  /\ \/ part = "queue" /\ Next /\ UNCHANGED bcvars
     \/ part \in TabWork /\ TabNext /\ UNCHANGED vars

BrowserSpec == BrowserInit /\ [][BrowserNext]_<<part, vars, bcvars>>
=============================================================================
