-------------------------- MODULE BrowserConnection --------------------------
(***************************************************************************)
(* One browser tab and the session it works with: the login state            *)
(* (stores/auth.ts), the requests that belong to a connection                *)
(* (utils/connection.ts, composables/useApi.ts), the listing it shows and a   *)
(* paste (stores/files.ts), and the retries of an upload (stores/upload.ts).  *)
(* The server is what the tab sees of it: which sessions answer, and the      *)
(* cookie, which another tab of the browser shares.                           *)
(*                                                                         *)
(* An action is what runs between two awaits.  A request carries the cookie   *)
(* and the CSRF token of the moment it is sent; the server serves it, or not,  *)
(* and the answer arrives later or never.                                    *)
(*                                                                         *)
(* The code counts connections (epoch) and compares after every await.  Here   *)
(* a call that the count would stop is taken off, or marked stale, where the   *)
(* count goes up.  A request that is taken off may still be served: to the     *)
(* tab that is another tab's login, or a session that ends.                   *)
(***************************************************************************)
EXTENDS Naturals, FiniteSets

CONSTANTS
  BCSessions,  \* the sessions of the server, each with a CSRF token of its own
  BCNone,      \* no session, cookie or token
  Listings,    \* listings that may be under way at once
  Clicks,      \* and clicks on Disconnect
  Tries,       \* and attempts of the upload, as many as maxConcurrentUploads
  Pasted,      \* operations of a paste
  MaxCalls     \* bound on the calls under way at once, for TLC alone

Calls == Listings \cup Clicks \cup Tries \cup {"connect", "sso", "boot", "ping", "paste", "zip"}
Maybe == BCSessions \cup {BCNone}

ASSUME BCAssumption ==
  /\ BCNone \notin BCSessions
  /\ Pasted \in Nat \ {0} /\ MaxCalls \in Nat
  /\ Listings \cap (Clicks \cup Tries) = {} /\ Clicks \cap Tries = {}
  /\ (Listings \cup Clicks \cup Tries) \cap {"connect", "sso", "boot", "ping", "paste", "zip"} = {}

VARIABLES
  bcLive,    \* sessions with a client, which answer
  bcMade,    \* sessions there have been
  bcCookie,  \* the session cookie of the browser
  bcTab,     \* the login state of the tab
  bcSso,     \* ssoPending: a login of another site waits for a confirmation
  bcCall,    \* where each call is
  bcView,    \* the file browser
  bcItem,    \* an upload
  bcPaste    \* a paste

bcServer == <<bcLive, bcMade>>
bcWork   == <<bcView, bcItem, bcPaste>>
bcvars   == <<bcServer, bcCookie, bcTab, bcSso, bcCall, bcWork>>

BCSteps == {"none", "waiting", "sent", "answered", "reading", "stale", "aborted"}
BCAnswers == {"nothing", "ok", "prompt", "failed", "lost", "disconnected"}

NoCall == [at |-> "none", cookie |-> BCNone, csrf |-> BCNone, home |-> BCNone,
           says |-> "nothing", by |-> BCNone]
EmptyView == [files |-> "none", home |-> BCNone, newest |-> "none",
              loading |-> FALSE, error |-> FALSE]
NoPaste == [left |-> 0, asking |-> FALSE, home |-> BCNone]
LoggedOut == [id |-> BCNone, csrf |-> BCNone, connected |-> FALSE, lost |-> FALSE, leaving |-> FALSE]

\* A page has been loaded: the plugin has asked for the state of the cookie's session.
BCInit ==
  /\ \E s \in Maybe :
       /\ bcLive = {s} \ {BCNone}
       /\ bcMade = {s} \ {BCNone}
       /\ bcCookie = s
       /\ bcTab = [LoggedOut EXCEPT !.id = s, !.csrf = s, !.connected = s # BCNone]
  /\ bcSso \in BOOLEAN
  /\ bcCall = [c \in Calls |-> NoCall]
  /\ bcView = EmptyView
  /\ bcItem = [status |-> "none", home |-> BCNone]
  /\ bcPaste = NoPaste

-----------------------------------------------------------------------------
(* Requests. *)

\* Status requests bypass useApi: they end with no connection.
Unregistered == {"boot", "ping"}

\* GETs and logins need no token.
Tokenless == Listings \cup Unregistered \cup {"connect", "sso"}

BCRequest(c, home) ==
  [at |-> "sent", cookie |-> bcCookie, csrf |-> IF c \in Tokenless THEN BCNone ELSE bcTab.csrf,
   home |-> home, says |-> "nothing", by |-> BCNone]

Free(c) == bcCall[c].at = "none" /\ Cardinality({d \in Calls : bcCall[d].at # "none"}) < MaxCalls
Came(c) == bcCall[c].at = "answered"
Over(c) == [bcCall EXCEPT ![c] = NoCall]

\* What a rejected promise runs on comes before any other event.
Settled == \A c \in Clicks : bcCall[c].at # "aborted"

-----------------------------------------------------------------------------
(* The end of a connection for everything that belongs to it. *)

\* invalidateConnection: requests are aborted and released.  The rest of a disconnect
\* still runs, an error's body is read to its end, a sleeping attempt has to wake up.
Invalidated(at) ==
  [c \in Calls |->
    IF c \in Unregistered \/ at[c].at \in {"none", "waiting"} THEN at[c]
    ELSE IF c \in Clicks THEN [at[c] EXCEPT !.at = "aborted"]
    ELSE IF at[c].at \in {"reading", "stale"} THEN [at[c] EXCEPT !.at = "stale"]
    ELSE NoCall]

NotCancelled(item) == item

\* cancelAll of the uploads
Cancelled(item) == IF item.status \in {"queued", "uploading"} THEN [item EXCEPT !.status = "cancelled"] ELSE item

DropWork ==
  /\ bcView' = EmptyView
  /\ bcItem' = Cancelled(bcItem)
  /\ bcPaste' = NoPaste

\* retireConnection
Retire(at) == bcCall' = Invalidated(at) /\ DropWork

\* markSessionLost
Losing == bcTab.connected /\ ~bcTab.lost /\ ~bcTab.leaving

LoseSession(at) ==
  /\ Losing
  /\ bcTab' = [bcTab EXCEPT !.lost = TRUE]
  /\ Retire(at)
  /\ UNCHANGED <<bcServer, bcCookie, bcSso>>

\* raise and toApiError: any call that is answered with one of SESSION_LOST_CODES.
Raises(c) == bcCall[c].says = "lost" /\ Losing

\* adoptConnection, and what its callers set.
Adopt(s, at) ==
  /\ bcTab' = [bcTab EXCEPT !.id = s, !.csrf = s, !.connected = TRUE]
  /\ IF bcTab.id = s
     THEN bcCall' = at /\ UNCHANGED bcWork
     ELSE Retire(at)

-----------------------------------------------------------------------------
(* Logging in. *)

\* connect: the form is there when nobody is logged in and no other login waits.
BCConnect ==
  /\ Settled /\ ~bcTab.connected /\ ~bcSso /\ Free("connect")
  /\ bcCall' = [bcCall EXCEPT !["connect"] = BCRequest("connect", BCNone)]
  /\ UNCHANGED <<bcServer, bcCookie, bcTab, bcSso, bcWork>>

\* ssoConnect
BCSsoConnect ==
  /\ Settled /\ bcSso /\ Free("sso")
  /\ bcCall' = [bcCall EXCEPT !["sso"] = BCRequest("sso", BCNone)]
  /\ UNCHANGED <<bcServer, bcCookie, bcTab, bcSso, bcWork>>

\* The answer brings the cookie.  A confirmed login goes on with init.
BCLoggedIn(c) ==
  /\ Settled /\ Came(c) /\ bcCall[c].says = "ok"
  /\ bcCookie' = bcCall[c].by
  /\ Adopt(bcCall[c].by,
           IF c = "sso" THEN [Over(c) EXCEPT !["boot"] = [NoCall EXCEPT !.at = "waiting"]]
           ELSE Over(c))
  /\ bcSso' = (bcSso /\ c # "sso")
  /\ UNCHANGED bcServer

\* An error, or a host key to be confirmed.  The pending login may be over.
BCNotLoggedIn(c) ==
  /\ Settled /\ Came(c) /\ bcCall[c].says # "ok"
  /\ bcCall' = Over(c)
  /\ bcSso' \in IF c = "sso" /\ bcCall[c].says = "failed" THEN {bcSso, FALSE} ELSE {bcSso}
  /\ UNCHANGED <<bcServer, bcCookie, bcTab, bcWork>>

\* cancelSSO.  Its request touches nothing the tab works with.
BCCancelSso ==
  /\ Settled /\ bcSso /\ Free("sso")
  /\ bcSso' = FALSE
  /\ UNCHANGED <<bcServer, bcCookie, bcTab, bcCall, bcWork>>

\* init asks for the status after the system's settings.
BCBoot ==
  /\ Settled /\ bcCall["boot"].at = "waiting"
  /\ bcCall' = [bcCall EXCEPT !["boot"] = BCRequest("boot", BCNone)]
  /\ UNCHANGED <<bcServer, bcCookie, bcTab, bcSso, bcWork>>

BCBooted ==
  LET r == bcCall["boot"] IN
  /\ Settled /\ Came("boot")
  /\ CASE r.says = "ok" -> Adopt(r.by, Over("boot"))
       [] r.says = "disconnected" ->
            /\ bcTab' = [bcTab EXCEPT !.connected = FALSE,
                                      !.csrf = IF r.csrf # BCNone THEN r.csrf ELSE @]
            /\ bcCall' = Over("boot") /\ UNCHANGED bcWork
       [] OTHER -> bcCall' = Over("boot") /\ UNCHANGED <<bcTab, bcWork>>
  /\ UNCHANGED <<bcServer, bcCookie, bcSso>>

-----------------------------------------------------------------------------
(* Logging out, and losing the session. *)

\* disconnect: the connection is retired before the server is told.
BCDisconnect(c) ==
  /\ Settled /\ bcTab.connected /\ ~bcTab.lost /\ Free(c)
  /\ bcTab' = [bcTab EXCEPT !.leaving = TRUE]
  /\ bcCall' = [Invalidated(bcCall) EXCEPT ![c] = BCRequest(c, bcTab.id)]
  /\ DropWork
  /\ UNCHANGED <<bcServer, bcCookie, bcSso>>

\* Whatever came of it; handleDisconnect then resets the file browser.
LoggedOff(c) ==
  /\ bcTab' = [LoggedOut EXCEPT !.lost = bcTab.lost]
  /\ bcCall' = Over(c)
  /\ bcView' = EmptyView
  /\ UNCHANGED <<bcServer, bcSso, bcItem, bcPaste>>

\* A refusal marks nothing lost: the tab is leaving, or has left already.
BCDisconnected(c) ==
  /\ Settled /\ Came(c)
  /\ bcCookie' = IF bcCall[c].says = "ok" THEN BCNone ELSE bcCookie
  /\ LoggedOff(c)

\* Its request was aborted by another click, or by a connection that was adopted.
BCDisconnectAborted(c) ==
  /\ bcCall[c].at = "aborted"
  /\ LoggedOff(c)
  /\ UNCHANGED bcCookie

\* tick and checkSession
BCCheck ==
  /\ Settled /\ bcTab.connected /\ ~bcTab.lost /\ Free("ping")
  /\ bcItem.status \notin {"queued", "uploading"}
  /\ bcCall' = [bcCall EXCEPT !["ping"] = BCRequest("ping", bcTab.id)]
  /\ UNCHANGED <<bcServer, bcCookie, bcTab, bcSso, bcWork>>

GoneAny(r) == r.says = "disconnected"

\* An answer counts for the connection that was checked.
Gone(r) == r.says = "disconnected" /\ r.home = bcTab.id

BCChecked ==
  /\ Settled /\ Came("ping")
  /\ \/ Gone(bcCall["ping"]) /\ LoseSession(Over("ping"))
     \/ /\ ~(Gone(bcCall["ping"]) /\ Losing)
        /\ bcCall' = Over("ping")
        /\ UNCHANGED <<bcServer, bcCookie, bcTab, bcSso, bcWork>>

\* reconnect and acknowledgeSessionLost; nothing was begun since the session was lost.
BCAcknowledge ==
  /\ Settled /\ bcTab.lost
  /\ bcTab' = [LoggedOut EXCEPT !.leaving = bcTab.leaving]
  /\ bcView' = EmptyView
  /\ bcItem' = Cancelled(bcItem)
  /\ UNCHANGED <<bcServer, bcCookie, bcSso, bcCall, bcPaste>>

-----------------------------------------------------------------------------
(* Work.  A tab has one upload, one paste and one archive at a time. *)

AtWork == Settled /\ bcTab.connected /\ ~bcTab.lost

\* An answer that the session is lost.  A paste counts its last operation as failed and
\* lists once more: BCList.
BCRefused(c) ==
  /\ Settled /\ Came(c) /\ Raises(c)
  /\ c \in Listings \cup Tries \cup {"paste"}
  /\ LoseSession(Over(c))

\* list
Listed(at, c) == [at EXCEPT ![c] = BCRequest(c, bcTab.id)]
AwaitList(c) == bcView' = [bcView EXCEPT !.newest = c, !.loading = TRUE, !.error = FALSE]

\* Clicks, the page and the delayed refresh of the uploads, which asks nobody.
BCList(c) ==
  /\ Settled /\ Free(c)
  /\ bcCall' = Listed(bcCall, c) /\ AwaitList(c)
  /\ UNCHANGED <<bcServer, bcCookie, bcTab, bcSso, bcItem, bcPaste>>

ShownAny(c, r) ==
  IF r.says = "ok" THEN [bcView EXCEPT !.files = c, !.home = r.home, !.loading = FALSE, !.error = FALSE]
  ELSE [bcView EXCEPT !.loading = FALSE, !.error = TRUE]

\* _listSeq: an answer to any but the newest listing changes nothing.
Shown(c, r) ==
  IF c # bcView.newest THEN bcView
  ELSE IF r.says = "ok" THEN [files |-> c, home |-> r.home, newest |-> c, loading |-> FALSE, error |-> FALSE]
  ELSE [bcView EXCEPT !.loading = FALSE, !.error = TRUE]

BCListed(c) ==
  /\ Settled /\ Came(c) /\ ~Raises(c)
  /\ bcView' = Shown(c, bcCall[c])
  /\ bcCall' = Over(c)
  /\ UNCHANGED <<bcServer, bcCookie, bcTab, bcSso, bcItem, bcPaste>>

\* addEntries.  While its pre-flight waits a file can be cancelled like one that waits.
BCAddEntry ==
  /\ AtWork /\ bcItem.status \notin {"queued", "uploading"}
  /\ \A c \in Tries : bcCall[c].at = "none"
  /\ bcItem' = [status |-> "queued", home |-> bcTab.id]
  /\ UNCHANGED <<bcServer, bcCookie, bcTab, bcSso, bcCall, bcView, bcPaste>>

\* cancelItem.  _controllers knows one attempt of an item, and a pause goes on.
BCCancelItem ==
  /\ AtWork /\ bcItem.status \in {"queued", "uploading"}
  /\ bcItem' = Cancelled(bcItem)
  /\ \E c \in Tries : bcCall' = IF bcCall[c].at \in {"sent", "answered"} THEN Over(c) ELSE bcCall
  /\ UNCHANGED <<bcServer, bcCookie, bcTab, bcSso, bcView, bcPaste>>

\* retryItem
BCRetryItem ==
  /\ AtWork /\ bcItem.status \in {"error", "cancelled"} /\ bcItem.home = bcTab.id
  /\ bcItem' = [bcItem EXCEPT !.status = "queued"]
  /\ UNCHANGED <<bcServer, bcCookie, bcTab, bcSso, bcCall, bcView, bcPaste>>

\* _transfer
BCTransfer(c) ==
  /\ Settled /\ bcItem.status = "queued" /\ Free(c)
  /\ IF bcItem.home = bcTab.id
     THEN /\ bcItem' = [bcItem EXCEPT !.status = "uploading"]
          /\ bcCall' = [bcCall EXCEPT ![c] = BCRequest(c, bcItem.home)]
     ELSE /\ bcItem' = [bcItem EXCEPT !.status = "error"]
          /\ UNCHANGED bcCall
  /\ UNCHANGED <<bcServer, bcCookie, bcTab, bcSso, bcView, bcPaste>>

\* The answer of an attempt: done, given up, or a pause before the next one.
BCSent(c) ==
  LET says == bcCall[c].says IN
  /\ Settled /\ Came(c) /\ ~Raises(c)
  /\ \/ /\ bcItem' = [bcItem EXCEPT !.status = IF @ = "cancelled" THEN @
                                               ELSE IF says = "ok" THEN "done" ELSE "error"]
        /\ bcCall' = Over(c)
     \/ /\ says = "failed"
        /\ bcCall' = [bcCall EXCEPT ![c] = [NoCall EXCEPT !.at = "waiting"]]
        /\ UNCHANGED bcItem
  /\ UNCHANGED <<bcServer, bcCookie, bcTab, bcSso, bcView, bcPaste>>

\* _backoff is over: the next attempt takes a token of its own.
BCBackoff(c) ==
  /\ Settled /\ bcCall[c].at = "waiting"
  /\ bcCall' = IF bcItem.status = "cancelled" THEN Over(c)
               ELSE [bcCall EXCEPT ![c] = BCRequest(c, bcItem.home)]
  /\ UNCHANGED <<bcServer, bcCookie, bcTab, bcSso, bcWork>>

\* paste, up to its first operation or to the question about conflicts.
BCPaste ==
  /\ AtWork /\ bcPaste = NoPaste /\ Free("paste")
  /\ \E asking \in BOOLEAN :
       /\ bcPaste' = [left |-> Pasted, asking |-> asking, home |-> bcTab.id]
       /\ bcCall' = IF asking THEN bcCall ELSE [bcCall EXCEPT !["paste"] = BCRequest("paste", bcTab.id)]
  /\ UNCHANGED <<bcServer, bcCookie, bcTab, bcSso, bcView, bcItem>>

BCPasteChoice ==
  /\ AtWork /\ bcPaste.asking /\ Free("paste")
  /\ \/ bcPaste' = NoPaste /\ UNCHANGED bcCall
     \/ /\ bcPaste' = [bcPaste EXCEPT !.asking = FALSE]
        /\ bcCall' = [bcCall EXCEPT !["paste"] = BCRequest("paste", bcPaste.home)]
  /\ UNCHANGED <<bcServer, bcCookie, bcTab, bcSso, bcView, bcItem>>

\* One operation is done, or has failed: the next one, or a listing at the end.
BCPasted ==
  /\ Settled /\ Came("paste") /\ ~Raises("paste")
  /\ \/ /\ bcPaste.left > 1
        /\ bcPaste' = [bcPaste EXCEPT !.left = @ - 1]
        /\ bcCall' = [bcCall EXCEPT !["paste"] = BCRequest("paste", bcPaste.home)]
        /\ UNCHANGED bcView
     \/ /\ bcPaste.left = 1
        /\ bcPaste' = NoPaste
        /\ \E c \in Listings : bcCall[c].at = "none" /\ bcCall' = Listed(Over("paste"), c) /\ AwaitList(c)
  /\ UNCHANGED <<bcServer, bcCookie, bcTab, bcSso, bcItem>>

\* downloadZip
BCZip ==
  /\ AtWork /\ Free("zip")
  /\ bcCall' = [bcCall EXCEPT !["zip"] = BCRequest("zip", bcTab.id)]
  /\ UNCHANGED <<bcServer, bcCookie, bcTab, bcSso, bcWork>>

\* The body of an error is a Blob, which takes an await of its own.
BCZipped ==
  /\ Settled /\ Came("zip")
  /\ bcCall' = IF bcCall["zip"].says = "lost" THEN [bcCall EXCEPT !["zip"].at = "reading"] ELSE Over("zip")
  /\ UNCHANGED <<bcServer, bcCookie, bcTab, bcSso, bcWork>>

BCErrorRead ==
  /\ Settled /\ bcCall["zip"].at \in {"reading", "stale"}
  /\ \/ bcCall["zip"].at = "reading" /\ LoseSession(Over("zip"))
     \/ /\ ~(bcCall["zip"].at = "reading" /\ Losing)
        /\ bcCall' = Over("zip")
        /\ UNCHANGED <<bcServer, bcCookie, bcTab, bcSso, bcWork>>

-----------------------------------------------------------------------------
(* The server, the network and the other tab. *)

Answered(c, says, by, csrf) ==
  bcCall' = [bcCall EXCEPT ![c] = [at |-> "answered", cookie |-> BCNone, csrf |-> csrf,
                                   home |-> @.home, says |-> says, by |-> by]]

\* Connect and SSOConnect close the session whose cookie they are sent.
BCServeLogin(c) ==
  LET r == bcCall[c] IN
  /\ r.at = "sent"
  /\ \E s \in BCSessions \ bcMade :
       /\ bcMade' = bcMade \cup {s}
       /\ bcLive' = (bcLive \ {r.cookie}) \cup {s}
       /\ Answered(c, "ok", s, BCNone)
  /\ UNCHANGED <<bcCookie, bcTab, bcSso, bcWork>>

BCServePrompt(c) ==
  /\ bcCall[c].at = "sent"
  /\ Answered(c, "prompt", BCNone, BCNone)
  /\ UNCHANGED <<bcServer, bcCookie, bcTab, bcSso, bcWork>>

\* AuthStatus.  A session without a client still has its token.
BCServeStatus(c) ==
  LET r == bcCall[c] IN
  /\ r.at = "sent"
  /\ IF r.cookie \in bcLive THEN Answered(c, "ok", r.cookie, BCNone)
     ELSE \E token \in {r.cookie, BCNone} : Answered(c, "disconnected", BCNone, token)
  /\ UNCHANGED <<bcServer, bcCookie, bcTab, bcSso, bcWork>>

\* csrfMiddleware, requireSession and the handler.
Admitted(c) == bcCall[c].cookie \in bcLive /\ (c \in Tokenless \/ bcCall[c].csrf = bcCall[c].cookie)

BCServeWork(c) ==
  LET r == bcCall[c] IN
  /\ r.at = "sent"
  /\ IF Admitted(c) THEN Answered(c, "ok", r.cookie, BCNone) ELSE Answered(c, "lost", BCNone, BCNone)
  /\ UNCHANGED <<bcServer, bcCookie, bcTab, bcSso, bcWork>>

\* Disconnect.  A session that has lost its client can still be closed.
BCServeDisconnect(c) ==
  LET r == bcCall[c] IN
  /\ r.at = "sent"
  /\ \/ /\ r.csrf = r.cookie /\ r.cookie # BCNone
        /\ bcLive' = bcLive \ {r.cookie}
        /\ Answered(c, "ok", BCNone, BCNone)
     \/ /\ ~Admitted(c)
        /\ Answered(c, "lost", BCNone, BCNone)
        /\ UNCHANGED bcLive
  /\ UNCHANGED <<bcMade, bcCookie, bcTab, bcSso, bcWork>>

\* The request or its answer does not arrive, or the server answers with another error.
BCFail(c) ==
  /\ bcCall[c].at \in {"sent", "answered"} /\ bcCall[c].says # "failed"
  /\ Answered(c, "failed", BCNone, BCNone)
  /\ UNCHANGED <<bcServer, bcCookie, bcTab, bcSso, bcWork>>

\* ofetch sends a GET that failed a second time.
BCRepeat(c) ==
  /\ bcCall[c].at = "sent" /\ bcCall[c].cookie # bcCookie
  /\ bcCall' = [bcCall EXCEPT ![c].cookie = bcCookie]
  /\ UNCHANGED <<bcServer, bcCookie, bcTab, bcSso, bcWork>>

\* Another tab logs in, or out.
BCOtherLogin ==
  /\ \E s \in BCSessions \ bcMade :
       /\ bcMade' = bcMade \cup {s}
       /\ bcLive' = (bcLive \ {bcCookie}) \cup {s}
       /\ bcCookie' = s
  /\ UNCHANGED <<bcTab, bcSso, bcCall, bcWork>>

BCOtherLogout ==
  /\ bcCookie # BCNone
  /\ bcLive' = bcLive \ {bcCookie}
  /\ bcCookie' = BCNone
  /\ UNCHANGED <<bcMade, bcTab, bcSso, bcCall, bcWork>>

\* A session expires, or its server hangs up.
BCSessionEnds(s) ==
  /\ s \in bcLive
  /\ bcLive' = bcLive \ {s}
  /\ UNCHANGED <<bcMade, bcCookie, bcTab, bcSso, bcCall, bcWork>>

BCEnvironment ==
  \/ \E c \in {"connect", "sso"} : BCServeLogin(c) \/ BCServePrompt(c)
  \/ \E c \in Unregistered : BCServeStatus(c)
  \/ \E c \in Listings \cup Tries \cup {"paste", "zip"} : BCServeWork(c)
  \/ \E c \in Clicks : BCServeDisconnect(c)
  \/ \E c \in Calls : BCFail(c)
  \/ \E c \in Listings \cup Unregistered : BCRepeat(c)
  \/ BCOtherLogin \/ BCOtherLogout \/ \E s \in BCSessions : BCSessionEnds(s)

BCLogin ==
  \/ BCConnect \/ BCSsoConnect \/ BCCancelSso \/ BCBoot \/ BCBooted
  \/ \E c \in {"connect", "sso"} : BCLoggedIn(c) \/ BCNotLoggedIn(c)

BCLogout ==
  \/ \E c \in Clicks : BCDisconnect(c) \/ BCDisconnected(c) \/ BCDisconnectAborted(c)
  \/ BCCheck \/ BCChecked \/ BCAcknowledge

BCWorking ==
  \/ \E c \in Listings : BCList(c) \/ BCListed(c)
  \/ BCAddEntry \/ BCCancelItem \/ BCRetryItem
  \/ \E c \in Tries : BCTransfer(c) \/ BCSent(c) \/ BCBackoff(c)
  \/ BCPaste \/ BCPasteChoice \/ BCPasted
  \/ BCZip \/ BCZipped \/ BCErrorRead
  \/ \E c \in Calls : BCRefused(c)

BCNext == BCLogin \/ BCLogout \/ BCWorking \/ BCEnvironment

BCSpec == BCInit /\ [][BCNext]_bcvars

-----------------------------------------------------------------------------
(* Properties. *)

CallRecords == [at : BCSteps, cookie : Maybe, csrf : Maybe, home : Maybe, says : BCAnswers, by : Maybe]

\* The types of the state.
BCTypeOK ==
  /\ bcMade \subseteq BCSessions /\ bcLive \subseteq bcMade
  /\ bcCookie \in Maybe
  /\ bcTab \in [id : Maybe, csrf : Maybe, connected : BOOLEAN, lost : BOOLEAN, leaving : BOOLEAN]
  /\ bcSso \in BOOLEAN
  /\ bcCall \in [Calls -> CallRecords]
  /\ bcView \in [files : Listings \cup {"none"}, home : Maybe, newest : Listings \cup {"none"},
                 loading : BOOLEAN, error : BOOLEAN]
  /\ bcItem \in [status : {"none", "queued", "uploading", "done", "error", "cancelled"}, home : Maybe]
  /\ bcPaste \in [left : 0..Pasted, asking : BOOLEAN, home : Maybe]

\* What the user began on one connection, and has not seen end, changes no files on
\* another: a repeated attempt of an upload (upload.ts:443-465) and the next file of a
\* paste (files.ts:278-279) are sent with the token of the moment, which may by then be
\* that of another server.  Not so an attempt that sleeps while a second one, of a cancel
\* and a retry, brings its upload to an end: where maxConcurrentUploads is above one, it
\* is sent to whatever server the tab has by then.
WorkStaysHome ==
  \A c \in Tries \cup {"paste", "zip"} :
    /\ bcCall[c].at = "sent" /\ Admitted(c)
    /\ c \in Tries => bcItem.status \notin {"done", "error"}
    => bcCall[c].home = bcCall[c].cookie

\* A tab that is logged in, waits for nothing and shows no error shows what the newest
\* listing brought, asked on the connection it is logged in with: the sequence number
\* of files.ts:75-98 and the connection's end together.
ShownIsCurrent ==
  bcTab.connected /\ ~bcView.loading /\ ~bcView.error /\ bcView.files # "none" =>
    bcView.files = bcView.newest /\ bcView.home = bcTab.id

\* The dialog that blocks the tab comes up only when its session answers no more, or
\* the browser has given its cookie up for another one: no late answer about an earlier
\* connection raises it (auth.ts:256-266, useApi.ts:99-109).
LostIsReal ==
  [][~bcTab.lost /\ bcTab'.lost => bcTab.id \notin bcLive \/ bcCookie # bcTab.id]_bcvars

-----------------------------------------------------------------------------
(* The inductive invariant behind the safety properties.                     *)

\* Writes, each with a token of the tab, and all that ends with a connection.
Writes == Tries \cup {"paste", "zip"}
Bound  == Listings \cup Writes

Made == bcMade \cup {BCNone}

\* Whatever names a session names one there has been: a new one is new to everybody.
NamesMade ==
  /\ bcCookie \in Made /\ bcTab.id \in Made /\ bcTab.csrf \in Made
  /\ bcItem.home \in Made /\ bcPaste.home \in Made /\ bcView.home \in Made
  /\ \A c \in Calls : /\ bcCall[c].cookie \in Made /\ bcCall[c].csrf \in Made
                      /\ bcCall[c].home \in Made /\ bcCall[c].by \in Made

\* What is under way belongs to the connection of the tab, if it has one.
Mine(h) == h = bcTab.id \/ bcTab.id = BCNone

AllMine ==
  /\ bcView.files # "none" => Mine(bcView.home)
  /\ bcItem.status \in {"queued", "uploading"} => Mine(bcItem.home)
  /\ bcPaste.left > 0 \/ bcPaste.asking => Mine(bcPaste.home)
  /\ \A c \in Listings \cup {"zip"} : bcCall[c].at \in {"sent", "answered", "reading"} => Mine(bcCall[c].home)

\* A token that opens a session opens the one of the tab; the token of a session that
\* has lost its client opens nothing.
TokensMine ==
  /\ bcTab.csrf \in bcLive => bcTab.csrf = bcTab.id
  /\ bcCall["boot"].csrf \notin bcLive
  /\ \A c \in Writes : bcCall[c].at = "sent" /\ bcCall[c].csrf \in bcLive => Mine(bcCall[c].csrf)

\* A write that is admitted was sent for what it is sent to.
WritesHome ==
  /\ \A c \in Tries : bcCall[c].at # "none" => bcItem.status # "none"
  /\ \A c \in Tries : bcCall[c].at = "sent" => bcCall[c].home = bcItem.home
  /\ \A c \in Writes :
       /\ bcCall[c].at = "sent" /\ bcCall[c].csrf \in bcLive
       /\ c \in Tries => bcItem.status \notin {"done", "error"}
       => bcCall[c].home = bcCall[c].csrf

\* The listing that is shown without a remark is the newest.
NewestShown ==
  bcView.files # "none" /\ ~bcView.loading /\ ~bcView.error => bcView.files = bcView.newest

\* The login state, which init may still change after a login of another site.
LoginInv ==
  /\ bcTab.connected => bcTab.id # BCNone /\ bcTab.csrf = bcTab.id
  /\ ~bcTab.connected /\ bcTab.id # BCNone =>
       bcCall["boot"].at = "none" /\ bcCall["sso"].at = "none" /\ ~bcSso
  /\ bcCall["boot"].at # "none" => ~bcSso
  /\ bcCall["sso"].at # "none" => bcSso
  /\ \A c \in {"connect", "sso", "boot"} : bcCall[c].says = "ok" => bcCall[c].by # BCNone

Logins == {"connect", "sso"}

\* The session of a login that has not been answered yet is known to its answer alone.
Secret ==
  \A l \in Logins : bcCall[l].by # BCNone =>
    /\ bcCall[l].by # bcCookie /\ bcCall[l].by # bcTab.id
    /\ bcCall[l].by # bcItem.home /\ bcCall[l].by # bcPaste.home
    /\ \A c \in Calls : /\ bcCall[l].by # bcCall[c].cookie /\ bcCall[l].by # bcCall[c].home
                        /\ c # l => bcCall[l].by # bcCall[c].by

\* Nothing is wrong with h, or the tab is right to give it up.
Lost(h) == h \notin bcLive \/ bcCookie # h

LostInv ==
  /\ bcCall["zip"].at = "reading" => bcCall["zip"].says = "lost"
  /\ bcTab.connected => \A c \in Bound :
       /\ bcCall[c].at = "sent" /\ c \in Writes => bcCall[c].csrf = bcTab.id
       /\ bcCall[c].at = "sent" => bcCall[c].cookie = bcTab.id \/ bcCookie # bcTab.id
       /\ bcCall[c].at \in {"answered", "reading"} /\ bcCall[c].says = "lost" => Lost(bcTab.id)
  /\ LET p == bcCall["ping"] IN p.home # BCNone =>
       /\ p.at = "sent" => p.cookie = p.home \/ bcCookie # p.home
       /\ p.says = "disconnected" => Lost(p.home)

BCInv ==
  /\ BCTypeOK /\ NamesMade /\ AllMine /\ TokensMine /\ WritesHome /\ NewestShown
  /\ LoginInv /\ Secret /\ LostInv
=============================================================================
