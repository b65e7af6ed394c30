----------------------- MODULE BrowserConnectionProofs -----------------------
(* Proofs about BrowserConnection: type correctness, and the safety properties    *)
(* from the inductive invariant BCInv.  Last, what this module and                *)
(* UploadQueueProofs prove of the parts holds of Browser.                         *)
EXTENDS Browser, UploadQueueProofs

TabRecords  == [id : Maybe, csrf : Maybe, connected : BOOLEAN, lost : BOOLEAN, leaving : BOOLEAN]
ViewRecords == [files : Listings \cup {"none"}, home : Maybe, newest : Listings \cup {"none"},
                loading : BOOLEAN, error : BOOLEAN]
ItemRecords == [status : {"none", "queued", "uploading", "done", "error", "cancelled"}, home : Maybe]
PasteRecords == [left : 0..Pasted, asking : BOOLEAN, home : Maybe]

-----------------------------------------------------------------------------
(* The types of what the actions are made of.                                   *)

LEMMA RequestType ==
  ASSUME BCTypeOK, NEW c \in Calls, NEW h \in Maybe
  PROVE  BCRequest(c, h) \in CallRecords
BY DEF BCTypeOK, BCRequest, CallRecords, Maybe, BCSteps, BCAnswers

LEMMA NoCallType == NoCall \in CallRecords
BY DEF NoCall, CallRecords, Maybe, BCSteps, BCAnswers

LEMMA OverType ==
  ASSUME BCTypeOK, NEW c \in Calls
  PROVE  Over(c) \in [Calls -> CallRecords]
BY NoCallType DEF BCTypeOK, Over

\* A call that waits for a timer or another request.
LEMMA WaitingType ==
  ASSUME NEW at \in [Calls -> CallRecords], NEW c \in Calls
  PROVE  [at EXCEPT ![c] = [NoCall EXCEPT !.at = "waiting"]] \in [Calls -> CallRecords]
BY NoCallType DEF CallRecords, BCSteps

LEMMA InvalidatedType ==
  ASSUME NEW at \in [Calls -> CallRecords]
  PROVE  Invalidated(at) \in [Calls -> CallRecords]
<1>1. SUFFICES ASSUME NEW c \in Calls PROVE Invalidated(at)[c] \in CallRecords
  BY DEF Invalidated
<1>2. at[c] \in CallRecords
  OBVIOUS
<1> QED BY <1>2, NoCallType DEF Invalidated, CallRecords, BCSteps

LEMMA AnsweredType ==
  ASSUME BCTypeOK, NEW c \in Calls, NEW says \in BCAnswers, NEW by \in Maybe, NEW csrf \in Maybe,
         Answered(c, says, by, csrf)
  PROVE  bcCall' \in [Calls -> CallRecords]
<1>1. bcCall[c] \in CallRecords
  BY DEF BCTypeOK
<1>2. [at |-> "answered", cookie |-> BCNone, csrf |-> csrf, home |-> bcCall[c].home,
       says |-> says, by |-> by] \in CallRecords
  BY <1>1 DEF CallRecords, Maybe, BCSteps
<1> QED BY <1>2 DEF Answered, BCTypeOK

LEMMA DropWorkType ==
  ASSUME BCTypeOK, DropWork
  PROVE  bcView' \in ViewRecords /\ bcItem' \in ItemRecords /\ bcPaste' \in PasteRecords
BY BCAssumption DEF BCTypeOK, DropWork, EmptyView, NoPaste, Cancelled, ViewRecords, ItemRecords,
    PasteRecords, Maybe

LEMMA WorkType ==
  ASSUME BCTypeOK, UNCHANGED bcWork
  PROVE  bcView' \in ViewRecords /\ bcItem' \in ItemRecords /\ bcPaste' \in PasteRecords
BY DEF BCTypeOK, bcWork, ViewRecords, ItemRecords, PasteRecords

LEMMA AdoptType ==
  ASSUME BCTypeOK, NEW s \in Maybe, NEW at \in [Calls -> CallRecords], Adopt(s, at)
  PROVE  /\ bcTab' \in TabRecords /\ bcCall' \in [Calls -> CallRecords]
         /\ bcView' \in ViewRecords /\ bcItem' \in ItemRecords /\ bcPaste' \in PasteRecords
<1>1. bcTab' \in TabRecords
  BY DEF Adopt, BCTypeOK, TabRecords
<1>2. bcCall' \in [Calls -> CallRecords]
  BY InvalidatedType DEF Adopt, Retire
<1>3. bcView' \in ViewRecords /\ bcItem' \in ItemRecords /\ bcPaste' \in PasteRecords
  BY DropWorkType, WorkType DEF Adopt, Retire
<1> QED BY <1>1, <1>2, <1>3

LEMMA LoseType ==
  ASSUME BCTypeOK, NEW at \in [Calls -> CallRecords], LoseSession(at)
  PROVE  BCTypeOK'
<1>1. bcTab' \in TabRecords
  BY DEF LoseSession, BCTypeOK, TabRecords
<1>2. bcCall' \in [Calls -> CallRecords]
  BY InvalidatedType DEF LoseSession, Retire
<1>3. bcView' \in ViewRecords /\ bcItem' \in ItemRecords /\ bcPaste' \in PasteRecords
  BY DropWorkType DEF LoseSession, Retire
<1> QED BY <1>1, <1>2, <1>3 DEF LoseSession, BCTypeOK, bcServer, TabRecords, ViewRecords, ItemRecords,
    PasteRecords

LEMMA LoggedOffType ==
  ASSUME BCTypeOK, NEW c \in Calls, LoggedOff(c)
  PROVE  /\ bcTab' \in TabRecords /\ bcCall' \in [Calls -> CallRecords]
         /\ bcView' \in ViewRecords /\ bcItem' \in ItemRecords /\ bcPaste' \in PasteRecords
<1>1. bcTab' \in TabRecords
  BY DEF LoggedOff, LoggedOut, BCTypeOK, TabRecords, Maybe
<1>2. bcCall' \in [Calls -> CallRecords]
  BY OverType DEF LoggedOff
<1> QED BY <1>1, <1>2 DEF LoggedOff, BCTypeOK, EmptyView, ViewRecords, ItemRecords, PasteRecords, Maybe

LEMMA TypeStep == BCTypeOK /\ [BCNext]_bcvars => BCTypeOK'
<1> SUFFICES ASSUME BCTypeOK, [BCNext]_bcvars PROVE BCTypeOK'
  OBVIOUS
<1> USE BCAssumption
<1>1. CASE BCConnect
  BY <1>1, RequestType
  DEF BCConnect, BCTypeOK, TabRecords, ViewRecords, ItemRecords, PasteRecords, bcServer, bcWork, Calls, Maybe
<1>2. CASE BCSsoConnect
  BY <1>2, RequestType
  DEF BCSsoConnect, BCTypeOK, TabRecords, ViewRecords, ItemRecords, PasteRecords, bcServer, bcWork, Calls,
      Maybe
<1>3. CASE BCCancelSso
  <2>1. bcCall' \in [Calls -> CallRecords]
    BY <1>3 DEF BCCancelSso, BCTypeOK
  <2>2. bcTab' \in TabRecords
    BY <1>3 DEF BCCancelSso, BCTypeOK, TabRecords
  <2>3. bcView' \in ViewRecords /\ bcItem' \in ItemRecords /\ bcPaste' \in PasteRecords
    BY <1>3, WorkType DEF BCCancelSso
  <2>4. bcMade' \subseteq BCSessions /\ bcLive' \subseteq bcMade' /\ bcCookie' \in Maybe /\ bcSso' \in BOOLEAN
    BY <1>3 DEF BCCancelSso, BCTypeOK, bcServer
  <2> QED BY <2>1, <2>2, <2>3, <2>4 DEF BCTypeOK, TabRecords, ViewRecords, ItemRecords, PasteRecords
<1>4. CASE BCBoot
  BY <1>4, RequestType
  DEF BCBoot, BCTypeOK, TabRecords, ViewRecords, ItemRecords, PasteRecords, bcServer, bcWork, Calls, Maybe
<1>5. CASE BCBooted
  <2>a. "boot" \in Calls /\ bcCall["boot"].by \in Maybe /\ bcCall["boot"].csrf \in Maybe
    BY DEF BCTypeOK, Calls, CallRecords
  <2>b. Over("boot") \in [Calls -> CallRecords]
    BY <2>a, OverType
  <2>1. bcCall' \in [Calls -> CallRecords]
    BY <1>5, <2>a, <2>b, AdoptType DEF BCBooted
  <2>2. bcTab' \in TabRecords
    <3>1. CASE bcCall["boot"].says = "ok"
      BY <1>5, <2>a, <2>b, <3>1, AdoptType DEF BCBooted
    <3>2. CASE bcTab' = [bcTab EXCEPT !.connected = FALSE,
                           !.csrf = IF bcCall["boot"].csrf # BCNone THEN bcCall["boot"].csrf ELSE @]
      BY <2>a, <3>2 DEF BCTypeOK, TabRecords
    <3>3. CASE bcTab' = bcTab
      BY <3>3 DEF BCTypeOK, TabRecords
    <3> QED BY <1>5, <3>1, <3>2, <3>3 DEF BCBooted
  <2>3. bcView' \in ViewRecords /\ bcItem' \in ItemRecords /\ bcPaste' \in PasteRecords
    BY <1>5, <2>a, <2>b, AdoptType, WorkType DEF BCBooted
  <2>4. bcMade' \subseteq BCSessions /\ bcLive' \subseteq bcMade' /\ bcCookie' \in Maybe /\ bcSso' \in BOOLEAN
    BY <1>5 DEF BCBooted, BCTypeOK, bcServer
  <2> QED BY <2>1, <2>2, <2>3, <2>4 DEF BCTypeOK, TabRecords, ViewRecords, ItemRecords, PasteRecords
<1>6. CASE \E c \in {"connect", "sso"} : BCLoggedIn(c)
  <2>0. PICK c \in {"connect", "sso"} : BCLoggedIn(c)
    BY <1>6
  <2> DEFINE at == IF c = "sso" THEN [Over(c) EXCEPT !["boot"] = [NoCall EXCEPT !.at = "waiting"]] ELSE Over(c)
  <2>c. c \in Calls /\ "boot" \in Calls /\ bcCall[c].by \in Maybe
    BY DEF BCTypeOK, Calls, CallRecords
  <2>d. at \in [Calls -> CallRecords] /\ Adopt(bcCall[c].by, at)
    BY <2>0, <2>c, OverType, WaitingType DEF BCLoggedIn
  <2> HIDE DEF at
  <2>1. bcCall' \in [Calls -> CallRecords]
    BY <2>c, <2>d, AdoptType
  <2>2. bcTab' \in TabRecords
    BY <2>c, <2>d, AdoptType
  <2>3. bcView' \in ViewRecords /\ bcItem' \in ItemRecords /\ bcPaste' \in PasteRecords
    BY <2>c, <2>d, AdoptType
  <2>4. bcMade' \subseteq BCSessions /\ bcLive' \subseteq bcMade' /\ bcCookie' \in Maybe /\ bcSso' \in BOOLEAN
    BY <2>0, <2>c DEF BCLoggedIn, BCTypeOK, bcServer
  <2> QED BY <2>1, <2>2, <2>3, <2>4 DEF BCTypeOK, TabRecords, ViewRecords, ItemRecords, PasteRecords
<1>7. CASE \E c \in {"connect", "sso"} : BCNotLoggedIn(c)
  <2>0. PICK c \in {"connect", "sso"} : BCNotLoggedIn(c)
    BY <1>7
  <2>1. bcCall' \in [Calls -> CallRecords]
    BY <2>0, OverType DEF BCNotLoggedIn, Calls
  <2>2. bcTab' \in TabRecords
    BY <2>0 DEF BCNotLoggedIn, BCTypeOK, TabRecords
  <2>3. bcView' \in ViewRecords /\ bcItem' \in ItemRecords /\ bcPaste' \in PasteRecords
    BY <2>0, WorkType DEF BCNotLoggedIn
  <2>4. bcMade' \subseteq BCSessions /\ bcLive' \subseteq bcMade' /\ bcCookie' \in Maybe /\ bcSso' \in BOOLEAN
    BY <2>0 DEF BCNotLoggedIn, BCTypeOK, bcServer
  <2> QED BY <2>1, <2>2, <2>3, <2>4 DEF BCTypeOK, TabRecords, ViewRecords, ItemRecords, PasteRecords
<1>8. CASE \E c \in Clicks : BCDisconnect(c)
  <2>0. PICK c \in Clicks : BCDisconnect(c)
    BY <1>8
  <2>a. c \in Calls /\ BCRequest(c, bcTab.id) \in CallRecords
    BY RequestType DEF BCTypeOK, Calls
  <2>1. bcCall' \in [Calls -> CallRecords]
    BY <2>0, <2>a, InvalidatedType DEF BCDisconnect, BCTypeOK
  <2>2. bcTab' \in TabRecords
    BY <2>0 DEF BCDisconnect, BCTypeOK, TabRecords
  <2>3. bcView' \in ViewRecords /\ bcItem' \in ItemRecords /\ bcPaste' \in PasteRecords
    BY <2>0, DropWorkType DEF BCDisconnect
  <2>4. bcMade' \subseteq BCSessions /\ bcLive' \subseteq bcMade' /\ bcCookie' \in Maybe /\ bcSso' \in BOOLEAN
    BY <2>0 DEF BCDisconnect, BCTypeOK, bcServer
  <2> QED BY <2>1, <2>2, <2>3, <2>4 DEF BCTypeOK, TabRecords, ViewRecords, ItemRecords, PasteRecords
<1>9. CASE \E c \in Clicks : BCDisconnected(c)
  <2>0. PICK c \in Clicks : BCDisconnected(c)
    BY <1>9
  <2>a. c \in Calls /\ LoggedOff(c)
    BY <2>0 DEF BCDisconnected, Calls
  <2>1. bcCall' \in [Calls -> CallRecords]
    BY <2>a, LoggedOffType
  <2>2. bcTab' \in TabRecords
    BY <2>a, LoggedOffType
  <2>3. bcView' \in ViewRecords /\ bcItem' \in ItemRecords /\ bcPaste' \in PasteRecords
    BY <2>a, LoggedOffType
  <2>4. bcMade' \subseteq BCSessions /\ bcLive' \subseteq bcMade' /\ bcCookie' \in Maybe /\ bcSso' \in BOOLEAN
    BY <2>0 DEF BCDisconnected, LoggedOff, BCTypeOK, bcServer, Maybe
  <2> QED BY <2>1, <2>2, <2>3, <2>4 DEF BCTypeOK, TabRecords, ViewRecords, ItemRecords, PasteRecords
<1>10. CASE \E c \in Clicks : BCDisconnectAborted(c)
  <2>0. PICK c \in Clicks : BCDisconnectAborted(c)
    BY <1>10
  <2>a. c \in Calls /\ LoggedOff(c)
    BY <2>0 DEF BCDisconnectAborted, Calls
  <2>1. bcCall' \in [Calls -> CallRecords]
    BY <2>a, LoggedOffType
  <2>2. bcTab' \in TabRecords
    BY <2>a, LoggedOffType
  <2>3. bcView' \in ViewRecords /\ bcItem' \in ItemRecords /\ bcPaste' \in PasteRecords
    BY <2>a, LoggedOffType
  <2>4. bcMade' \subseteq BCSessions /\ bcLive' \subseteq bcMade' /\ bcCookie' \in Maybe /\ bcSso' \in BOOLEAN
    BY <2>0 DEF BCDisconnectAborted, LoggedOff, BCTypeOK, bcServer, Maybe
  <2> QED BY <2>1, <2>2, <2>3, <2>4 DEF BCTypeOK, TabRecords, ViewRecords, ItemRecords, PasteRecords
<1>11. CASE BCCheck
  BY <1>11, RequestType
  DEF BCCheck, BCTypeOK, TabRecords, ViewRecords, ItemRecords, PasteRecords, bcServer, bcWork, Calls, Maybe
<1>12. CASE BCChecked
  <2>1. CASE LoseSession(Over("ping"))
    BY <2>1, OverType, LoseType DEF Calls
  <2>2. CASE bcCall' = Over("ping") /\ UNCHANGED <<bcServer, bcCookie, bcTab, bcSso, bcWork>>
    BY <2>2, OverType DEF BCTypeOK, bcServer, bcWork, Calls
  <2> QED BY <1>12, <2>1, <2>2 DEF BCChecked
<1>13. CASE BCAcknowledge
  BY <1>13
  DEF BCAcknowledge, LoggedOut, EmptyView, Cancelled, BCTypeOK, TabRecords, ViewRecords, ItemRecords,
      PasteRecords, bcServer, bcWork, Calls, Maybe
<1>14. CASE \E c \in Listings : BCList(c)
  <2>0. PICK c \in Listings : BCList(c)
    BY <1>14
  <2>1. bcCall' \in [Calls -> CallRecords]
    BY <2>0, RequestType DEF BCList, BCTypeOK, Listed, Calls
  <2>2. bcTab' \in TabRecords
    BY <2>0 DEF BCList, BCTypeOK, TabRecords
  <2>3. bcView' \in ViewRecords /\ bcItem' \in ItemRecords /\ bcPaste' \in PasteRecords
    BY <2>0 DEF BCList, AwaitList, BCTypeOK, ViewRecords, ItemRecords, PasteRecords
  <2>4. bcMade' \subseteq BCSessions /\ bcLive' \subseteq bcMade' /\ bcCookie' \in Maybe /\ bcSso' \in BOOLEAN
    BY <2>0 DEF BCList, BCTypeOK, bcServer
  <2> QED BY <2>1, <2>2, <2>3, <2>4 DEF BCTypeOK, TabRecords, ViewRecords, ItemRecords, PasteRecords
<1>15. CASE \E c \in Listings : BCListed(c)
  <2>0. PICK c \in Listings : BCListed(c)
    BY <1>15
  <2>a. bcCall[c].home \in Maybe
    BY DEF BCTypeOK, CallRecords, Calls
  <2>1. bcCall' \in [Calls -> CallRecords]
    BY <2>0, OverType DEF BCListed, Calls
  <2>2. bcTab' \in TabRecords
    BY <2>0 DEF BCListed, BCTypeOK, TabRecords
  <2>3. bcView' \in ViewRecords /\ bcItem' \in ItemRecords /\ bcPaste' \in PasteRecords
    BY <2>0, <2>a DEF BCListed, Shown, BCTypeOK, ViewRecords, ItemRecords, PasteRecords
  <2>4. bcMade' \subseteq BCSessions /\ bcLive' \subseteq bcMade' /\ bcCookie' \in Maybe /\ bcSso' \in BOOLEAN
    BY <2>0 DEF BCListed, BCTypeOK, bcServer
  <2> QED BY <2>1, <2>2, <2>3, <2>4 DEF BCTypeOK, TabRecords, ViewRecords, ItemRecords, PasteRecords
<1>16. CASE BCAddEntry
  BY <1>16
  DEF BCAddEntry, BCTypeOK, TabRecords, ViewRecords, ItemRecords, PasteRecords, bcServer, bcWork, Calls, Maybe
<1>17. CASE BCCancelItem
  BY <1>17, OverType
  DEF BCCancelItem, Cancelled, BCTypeOK, TabRecords, ViewRecords, ItemRecords, PasteRecords, bcServer,
      bcWork, Calls, Maybe
<1>18. CASE BCRetryItem
  BY <1>18
  DEF BCRetryItem, BCTypeOK, TabRecords, ViewRecords, ItemRecords, PasteRecords, bcServer, bcWork, Calls,
      Maybe
<1>19. CASE \E c \in Tries : BCTransfer(c)
  BY <1>19, RequestType
  DEF BCTransfer, BCTypeOK, TabRecords, ViewRecords, ItemRecords, PasteRecords, bcServer, bcWork, Calls, Maybe
<1>20. CASE \E c \in Tries : BCSent(c)
  <2>0. PICK c \in Tries : BCSent(c)
    BY <1>20
  <2>a. c \in Calls /\ bcCall \in [Calls -> CallRecords]
    BY DEF BCTypeOK, Calls
  <2>b. Over(c) \in [Calls -> CallRecords] /\ [bcCall EXCEPT ![c] = [NoCall EXCEPT !.at = "waiting"]] \in [Calls -> CallRecords]
    BY <2>a, OverType, WaitingType
  <2>1. bcCall' \in [Calls -> CallRecords]
    BY <2>0, <2>b DEF BCSent
  <2>2. bcTab' \in TabRecords
    BY <2>0 DEF BCSent, BCTypeOK, TabRecords
  <2>3. bcView' \in ViewRecords /\ bcItem' \in ItemRecords /\ bcPaste' \in PasteRecords
    BY <2>0 DEF BCSent, BCTypeOK, ViewRecords, ItemRecords, PasteRecords
  <2>4. bcMade' \subseteq BCSessions /\ bcLive' \subseteq bcMade' /\ bcCookie' \in Maybe /\ bcSso' \in BOOLEAN
    BY <2>0 DEF BCSent, BCTypeOK, bcServer
  <2> QED BY <2>1, <2>2, <2>3, <2>4 DEF BCTypeOK, TabRecords, ViewRecords, ItemRecords, PasteRecords
<1>21. CASE \E c \in Tries : BCBackoff(c)
  BY <1>21, OverType, RequestType
  DEF BCBackoff, BCTypeOK, TabRecords, ViewRecords, ItemRecords, PasteRecords, bcServer, bcWork, Calls, Maybe
<1>22. CASE BCPaste
  BY <1>22, RequestType
  DEF BCPaste, AtWork, BCTypeOK, TabRecords, ViewRecords, ItemRecords, PasteRecords, bcServer, bcWork,
      Calls, Maybe
<1>23. CASE BCPasteChoice
  <2>a. NoPaste \in PasteRecords
    BY DEF NoPaste, PasteRecords, Maybe
  <2>b. [bcPaste EXCEPT !.asking = FALSE] \in PasteRecords
    BY DEF BCTypeOK, PasteRecords
  <2>1. bcCall' \in [Calls -> CallRecords]
    BY <1>23, RequestType DEF BCPasteChoice, BCTypeOK, Calls
  <2>2. bcTab' \in TabRecords
    BY <1>23 DEF BCPasteChoice, BCTypeOK, TabRecords
  <2>3. bcView' \in ViewRecords /\ bcItem' \in ItemRecords /\ bcPaste' \in PasteRecords
    BY <1>23, <2>a, <2>b DEF BCPasteChoice, BCTypeOK, ViewRecords, ItemRecords
  <2>4. bcMade' \subseteq BCSessions /\ bcLive' \subseteq bcMade' /\ bcCookie' \in Maybe /\ bcSso' \in BOOLEAN
    BY <1>23 DEF BCPasteChoice, BCTypeOK, bcServer
  <2> QED BY <2>1, <2>2, <2>3, <2>4 DEF BCTypeOK, TabRecords, ViewRecords, ItemRecords, PasteRecords
<1>24. CASE BCPasted
  <2>a. "paste" \in Calls /\ bcPaste.home \in Maybe /\ bcTab.id \in Maybe /\ Listings \subseteq Calls
    BY DEF BCTypeOK, Calls
  <2>b. Over("paste") \in [Calls -> CallRecords]
    BY <2>a, OverType
  <2>c. NoPaste \in PasteRecords
    BY DEF NoPaste, PasteRecords, Maybe
  <2>d. bcPaste.left > 1 => [bcPaste EXCEPT !.left = @ - 1] \in PasteRecords
    BY DEF BCTypeOK, PasteRecords
  <2>e. \A c \in Listings : [bcView EXCEPT !.newest = c, !.loading = TRUE, !.error = FALSE] \in ViewRecords
    BY DEF BCTypeOK, ViewRecords
  <2>f. bcPaste' \in PasteRecords
    BY <1>24, <2>c, <2>d DEF BCPasted
  <2>g. (UNCHANGED bcView \/ \E c \in Listings : AwaitList(c)) /\ UNCHANGED bcItem
    BY <1>24 DEF BCPasted
  <2>h. bcView' \in ViewRecords
    BY <2>e, <2>g DEF AwaitList, BCTypeOK, ViewRecords
  <2>i. bcItem' \in ItemRecords
    BY <2>g DEF BCTypeOK, ItemRecords
  <2>1. bcCall' \in [Calls -> CallRecords]
    <3>1. CASE bcCall' = [bcCall EXCEPT !["paste"] = BCRequest("paste", bcPaste.home)]
      BY <2>a, <3>1, RequestType DEF BCTypeOK
    <3>2. CASE \E c \in Listings : bcCall' = Listed(Over("paste"), c)
      BY <2>a, <2>b, <3>2, RequestType DEF Listed
    <3> QED BY <1>24, <3>1, <3>2 DEF BCPasted
  <2>2. bcTab' \in TabRecords
    BY <1>24 DEF BCPasted, BCTypeOK, TabRecords
  <2>3. bcView' \in ViewRecords /\ bcItem' \in ItemRecords /\ bcPaste' \in PasteRecords
    BY <2>f, <2>h, <2>i
  <2>4. bcMade' \subseteq BCSessions /\ bcLive' \subseteq bcMade' /\ bcCookie' \in Maybe /\ bcSso' \in BOOLEAN
    BY <1>24 DEF BCPasted, BCTypeOK, bcServer
  <2> QED BY <2>1, <2>2, <2>3, <2>4 DEF BCTypeOK, TabRecords, ViewRecords, ItemRecords, PasteRecords
<1>25. CASE BCZip
  BY <1>25, RequestType
  DEF BCZip, BCTypeOK, TabRecords, ViewRecords, ItemRecords, PasteRecords, bcServer, bcWork, Calls, Maybe
<1>26. CASE BCZipped
  BY <1>26, OverType
  DEF BCZipped, CallRecords, BCSteps, BCTypeOK, TabRecords, ViewRecords, ItemRecords, PasteRecords,
      bcServer, bcWork, Calls, Maybe
<1>27. CASE BCErrorRead
  <2>1. CASE LoseSession(Over("zip"))
    BY <2>1, OverType, LoseType DEF Calls
  <2>2. CASE bcCall' = Over("zip") /\ UNCHANGED <<bcServer, bcCookie, bcTab, bcSso, bcWork>>
    BY <2>2, OverType DEF BCTypeOK, bcServer, bcWork, Calls
  <2> QED BY <1>27, <2>1, <2>2 DEF BCErrorRead
<1>28. CASE \E c \in Calls : BCRefused(c)
  BY <1>28, OverType, LoseType
  DEF BCRefused, BCTypeOK, TabRecords, ViewRecords, ItemRecords, PasteRecords, bcServer, bcWork, Calls, Maybe
<1>29. CASE \E c \in {"connect", "sso"} : BCServeLogin(c)
  BY <1>29, AnsweredType
  DEF BCServeLogin, BCAnswers, BCTypeOK, TabRecords, ViewRecords, ItemRecords, PasteRecords, bcServer,
      bcWork, Calls, Maybe
<1>30. CASE \E c \in {"connect", "sso"} : BCServePrompt(c)
  BY <1>30, AnsweredType
  DEF BCServePrompt, BCAnswers, BCTypeOK, TabRecords, ViewRecords, ItemRecords, PasteRecords, bcServer,
      bcWork, Calls, Maybe
<1>31. CASE \E c \in Unregistered : BCServeStatus(c)
  <2>0. PICK c \in Unregistered : BCServeStatus(c)
    BY <1>31
  <2>a. c \in Calls /\ bcCall[c].cookie \in Maybe /\ BCNone \in Maybe
    BY DEF BCTypeOK, CallRecords, Calls, Unregistered, Maybe
  <2>1. bcCall' \in [Calls -> CallRecords]
    BY <2>0, <2>a, AnsweredType DEF BCServeStatus, BCAnswers
  <2>2. bcTab' \in TabRecords
    BY <2>0 DEF BCServeStatus, BCTypeOK, TabRecords
  <2>3. bcView' \in ViewRecords /\ bcItem' \in ItemRecords /\ bcPaste' \in PasteRecords
    BY <2>0, WorkType DEF BCServeStatus
  <2>4. bcMade' \subseteq BCSessions /\ bcLive' \subseteq bcMade' /\ bcCookie' \in Maybe /\ bcSso' \in BOOLEAN
    BY <2>0 DEF BCServeStatus, BCTypeOK, bcServer
  <2> QED BY <2>1, <2>2, <2>3, <2>4 DEF BCTypeOK, TabRecords, ViewRecords, ItemRecords, PasteRecords
<1>32. CASE \E c \in Bound : BCServeWork(c)
  <2>0. PICK c \in Bound : BCServeWork(c)
    BY <1>32
  <2>a. c \in Calls /\ bcCall[c].cookie \in Maybe /\ BCNone \in Maybe
    BY DEF BCTypeOK, CallRecords, Calls, Bound, Writes, Maybe
  <2>1. bcCall' \in [Calls -> CallRecords]
    BY <2>0, <2>a, AnsweredType DEF BCServeWork, BCAnswers
  <2>2. bcTab' \in TabRecords
    BY <2>0 DEF BCServeWork, BCTypeOK, TabRecords
  <2>3. bcView' \in ViewRecords /\ bcItem' \in ItemRecords /\ bcPaste' \in PasteRecords
    BY <2>0, WorkType DEF BCServeWork
  <2>4. bcMade' \subseteq BCSessions /\ bcLive' \subseteq bcMade' /\ bcCookie' \in Maybe /\ bcSso' \in BOOLEAN
    BY <2>0 DEF BCServeWork, BCTypeOK, bcServer
  <2> QED BY <2>1, <2>2, <2>3, <2>4 DEF BCTypeOK, TabRecords, ViewRecords, ItemRecords, PasteRecords
<1>33. CASE \E c \in Clicks : BCServeDisconnect(c)
  BY <1>33, AnsweredType
  DEF BCServeDisconnect, BCAnswers, BCTypeOK, TabRecords, ViewRecords, ItemRecords, PasteRecords, bcServer,
      bcWork, Calls, Maybe
<1>34. CASE \E c \in Calls : BCFail(c)
  BY <1>34, AnsweredType
  DEF BCFail, BCAnswers, BCTypeOK, TabRecords, ViewRecords, ItemRecords, PasteRecords, bcServer, bcWork,
      Calls, Maybe
<1>35. CASE \E c \in Listings \cup Unregistered : BCRepeat(c)
  BY <1>35
  DEF BCRepeat, CallRecords, BCTypeOK, TabRecords, ViewRecords, ItemRecords, PasteRecords, bcServer,
      bcWork, Calls, Maybe, Unregistered
<1>36. CASE BCOtherLogin
  BY <1>36
  DEF BCOtherLogin, BCTypeOK, TabRecords, ViewRecords, ItemRecords, PasteRecords, bcServer, bcWork, Calls,
      Maybe
<1>37. CASE BCOtherLogout
  BY <1>37
  DEF BCOtherLogout, BCTypeOK, TabRecords, ViewRecords, ItemRecords, PasteRecords, bcServer, bcWork, Calls,
      Maybe
<1>38. CASE \E s \in BCSessions : BCSessionEnds(s)
  BY <1>38
  DEF BCSessionEnds, BCTypeOK, TabRecords, ViewRecords, ItemRecords, PasteRecords, bcServer, bcWork, Calls,
      Maybe
<1>39. CASE UNCHANGED bcvars
  BY <1>39 DEF BCTypeOK, bcvars, bcServer, bcWork
<1> QED BY <1>1, <1>2, <1>3, <1>4, <1>5, <1>6, <1>7, <1>8, <1>9, <1>10, <1>11, <1>12, <1>13, <1>14, <1>15,
    <1>16, <1>17, <1>18, <1>19, <1>20, <1>21, <1>22, <1>23, <1>24, <1>25, <1>26, <1>27, <1>28, <1>29,
    <1>30, <1>31, <1>32, <1>33, <1>34, <1>35, <1>36, <1>37, <1>38, <1>39 DEF BCNext, BCLogin, BCLogout,
    BCWorking, BCEnvironment, Bound, Writes

-----------------------------------------------------------------------------
(* What the steps that end or begin a connection do.                            *)

\* No call is begun by it, and none goes on that could change files or be shown.
Left(c, old, new) ==
  /\ new.at # "none" => old.at # "none"
  /\ c \in Unregistered \/ new.at \in {"none", "waiting", "aborted", "stale"}
  /\ new.at = "waiting" => new = old
  /\ new.cookie \in {old.cookie, BCNone} /\ new.csrf \in {old.csrf, BCNone}
  /\ new.home \in {old.home, BCNone}
  /\ \/ new.says = old.says /\ new.by = old.by
     \/ new.says = "nothing" /\ new.by = BCNone

LEMMA InvalidatedLeft ==
  ASSUME NEW at \in [Calls -> CallRecords], NEW c \in Calls
  PROVE  /\ Left(c, at[c], Invalidated(at)[c])
         /\ c \in Unregistered => Invalidated(at)[c] = at[c]
<1>1. at[c] \in CallRecords
  OBVIOUS
<1>2. CASE c \in Unregistered \/ at[c].at \in {"none", "waiting"}
  <2>1. Invalidated(at)[c] = at[c]
    BY <1>2 DEF Invalidated
  <2> QED BY <1>1, <1>2, <2>1 DEF Left, CallRecords
<1>3. CASE c \notin Unregistered /\ at[c].at \notin {"none", "waiting"}
  <2>1. Invalidated(at)[c] = IF c \in Clicks THEN [at[c] EXCEPT !.at = "aborted"]
                             ELSE IF at[c].at \in {"reading", "stale"} THEN [at[c] EXCEPT !.at = "stale"]
                             ELSE NoCall
    BY <1>3 DEF Invalidated
  <2>2. CASE Invalidated(at)[c] = NoCall
    BY <1>1, <1>3, <2>2 DEF Left, CallRecords, NoCall
  <2>3. ASSUME NEW a \in {"aborted", "stale"}, Invalidated(at)[c] = [at[c] EXCEPT !.at = a]
        PROVE  Left(c, at[c], Invalidated(at)[c])
    BY <1>1, <1>3, <2>3 DEF Left, CallRecords
  <2> QED BY <1>3, <2>1, <2>2, <2>3
<1> QED BY <1>2, <1>3

LEMMA RetiredCalls ==
  ASSUME BCTypeOK, NEW c \in Calls, bcCall' = Invalidated(Over(c))
  PROVE  /\ \A d \in Calls : Left(d, bcCall[d], bcCall'[d])
         /\ bcCall'[c] = NoCall
         /\ \A d \in Unregistered \ {c} : bcCall'[d] = bcCall[d]
<1>1. Over(c) \in [Calls -> CallRecords] /\ Over(c)[c] = NoCall /\ \A d \in Calls \ {c} : Over(c)[d] = bcCall[d]
  BY OverType DEF Over, BCTypeOK
<1>2. bcCall'[c] = NoCall
  BY <1>1 DEF Invalidated, NoCall
<1>3. ASSUME NEW d \in Calls PROVE Left(d, bcCall[d], bcCall'[d])
  <2>1. CASE d = c
    BY <1>2, <2>1 DEF Left, NoCall
  <2>2. CASE d # c
    BY <1>1, <2>2, InvalidatedLeft
  <2> QED BY <2>1, <2>2
<1>4. ASSUME NEW d \in Unregistered \ {c} PROVE bcCall'[d] = bcCall[d]
  <2>1. d \in Calls \ {c}
    BY <1>4 DEF Unregistered, Calls
  <2> QED BY <1>1, <1>4, <2>1, InvalidatedLeft
<1> QED BY <1>2, <1>3, <1>4

LEMMA CancelledFields ==
  ASSUME BCTypeOK
  PROVE  /\ Cancelled(bcItem).home = bcItem.home
         /\ Cancelled(bcItem).status = IF bcItem.status \in {"queued", "uploading"} THEN "cancelled" ELSE bcItem.status
BY DEF BCTypeOK, Cancelled

\* The tab has another connection, or the one it had.
LEMMA AdoptEffect ==
  ASSUME BCTypeOK, NEW s \in Maybe, NEW at, Adopt(s, at)
  PROVE  /\ bcTab'.id = s /\ bcTab'.csrf = s /\ bcTab'.connected
         /\ bcTab'.lost = bcTab.lost /\ bcTab'.leaving = bcTab.leaving
         /\ \/ /\ bcTab.id = s /\ bcCall' = at
               /\ bcView' = bcView /\ bcItem' = bcItem /\ bcPaste' = bcPaste
            \/ /\ bcTab.id # s /\ bcCall' = Invalidated(at)
               /\ bcView' = EmptyView /\ bcItem' = Cancelled(bcItem) /\ bcPaste' = NoPaste
BY DEF Adopt, BCTypeOK, Retire, DropWork, bcWork

\* What a logout leaves of the calls when it is begun.
LEMMA DisconnectEffect ==
  ASSUME BCTypeOK, NEW c \in Clicks, BCDisconnect(c)
  PROVE  /\ bcLive' = bcLive /\ bcMade' = bcMade /\ bcCookie' = bcCookie
         /\ bcTab.connected /\ bcTab'.id = bcTab.id
         /\ bcItem'.home = bcItem.home /\ bcPaste'.home = BCNone
         /\ bcCall'[c] = BCRequest(c, bcTab.id)
         /\ \A d \in Calls \ {c} : Left(d, bcCall[d], bcCall'[d])
         /\ \A d \in Unregistered : bcCall'[d] = bcCall[d]
<1>1. /\ c \in Calls /\ c \notin Unregistered /\ Unregistered \subseteq Calls
  BY BCAssumption DEF Calls, Unregistered
<1>2. bcCall \in [Calls -> CallRecords] /\ Invalidated(bcCall) \in [Calls -> CallRecords]
  BY InvalidatedType DEF BCTypeOK
<1>3. bcCall' = [Invalidated(bcCall) EXCEPT ![c] = BCRequest(c, bcTab.id)]
  BY DEF BCDisconnect
<1>4. bcCall'[c] = BCRequest(c, bcTab.id) /\ \A d \in Calls \ {c} : bcCall'[d] = Invalidated(bcCall)[d]
  BY <1>1, <1>2, <1>3
<1>5. \A d \in Calls \ {c} : Left(d, bcCall[d], bcCall'[d])
  BY <1>2, <1>4, InvalidatedLeft
<1>6. \A d \in Unregistered : bcCall'[d] = bcCall[d]
  BY <1>1, <1>2, <1>4, InvalidatedLeft
<1>7. /\ bcLive' = bcLive /\ bcMade' = bcMade /\ bcCookie' = bcCookie
      /\ bcTab.connected /\ bcTab'.id = bcTab.id
  BY DEF BCDisconnect, bcServer, BCTypeOK
<1>8. bcItem'.home = bcItem.home /\ bcPaste'.home = BCNone
  BY CancelledFields DEF BCDisconnect, DropWork, NoPaste
<1> QED BY <1>4, <1>5, <1>6, <1>7, <1>8

\* A login that is answered: the connection stays, or all that belonged to it ends.
LEMMA LoggedInEffect ==
  ASSUME BCTypeOK, NEW c \in Logins, BCLoggedIn(c)
  PROVE  /\ bcCall[c].says = "ok" /\ bcLive' = bcLive /\ bcMade' = bcMade
         /\ bcCookie' = bcCall[c].by /\ bcTab'.id = bcCall[c].by /\ bcTab'.csrf = bcCall[c].by
         /\ bcTab'.connected
         /\ bcCall'["ping"] = bcCall["ping"]
         /\ \/ /\ bcTab.id = bcCall[c].by /\ bcItem' = bcItem
               /\ \A d \in Bound : bcCall'[d] = bcCall[d]
            \/ /\ \A d \in Bound : Left(d, bcCall[d], bcCall'[d])
               /\ bcItem'.home = bcItem.home
               /\ bcItem'.status = bcItem.status \/ bcItem'.status = "cancelled"
<1> DEFINE at == IF c = "sso" THEN [Over(c) EXCEPT !["boot"] = [NoCall EXCEPT !.at = "waiting"]]
                 ELSE Over(c)
<1>1. c \in Calls /\ "boot" \in Calls /\ "ping" \in Calls /\ "ping" \in Unregistered /\ c # "ping" /\ c \notin Bound
      /\ Bound \subseteq Calls /\ "boot" \notin Bound /\ "ping" # "boot"
  BY BCAssumption DEF Calls, Logins, Bound, Writes, Unregistered
<1>2. Over(c) \in [Calls -> CallRecords] /\ \A d \in Calls \ {c} : Over(c)[d] = bcCall[d]
  BY <1>1, OverType DEF Over, BCTypeOK
<1>3. [NoCall EXCEPT !.at = "waiting"] \in CallRecords
  BY NoCallType DEF CallRecords, BCSteps
<1>4. at \in [Calls -> CallRecords]
  BY <1>1, <1>2, <1>3
<1>5. at["ping"] = bcCall["ping"] /\ \A d \in Bound : at[d] = bcCall[d]
  BY <1>1, <1>2
<1>6. /\ bcCall[c].says = "ok" /\ bcCookie' = bcCall[c].by /\ bcLive' = bcLive /\ bcMade' = bcMade
      /\ Adopt(bcCall[c].by, at)
  BY DEF BCLoggedIn, bcServer
<1>7. bcCall[c].by \in Maybe
  BY <1>1 DEF BCTypeOK, CallRecords
<1> HIDE DEF at
<1>8. CASE bcTab.id = bcCall[c].by
  BY <1>5, <1>6, <1>7, <1>8, AdoptEffect
<1>9. CASE bcTab.id # bcCall[c].by
  <2>1. /\ bcTab'.id = bcCall[c].by /\ bcTab'.csrf = bcCall[c].by /\ bcTab'.connected
        /\ bcCall' = Invalidated(at) /\ bcItem' = Cancelled(bcItem)
    BY <1>6, <1>7, <1>9, AdoptEffect
  <2>2. \A d \in Bound : Left(d, bcCall[d], bcCall'[d])
    BY <1>1, <1>4, <1>5, <2>1, InvalidatedLeft
  <2>3. bcCall'["ping"] = bcCall["ping"]
    BY <1>1, <1>4, <1>5, <2>1, InvalidatedLeft
  <2>4. bcItem'.home = bcItem.home /\ (bcItem'.status = bcItem.status \/ bcItem'.status = "cancelled")
    BY <2>1, CancelledFields
  <2> QED BY <1>6, <2>1, <2>2, <2>3, <2>4
<1> QED BY <1>8, <1>9

LEMMA BootedCases ==
  ASSUME BCTypeOK, BCBooted
  PROVE  /\ Settled /\ Came("boot")
         /\ bcLive' = bcLive /\ bcMade' = bcMade /\ bcCookie' = bcCookie /\ bcSso' = bcSso
         /\ \/ bcCall["boot"].says = "ok" /\ Adopt(bcCall["boot"].by, Over("boot"))
            \/ /\ bcCall' = Over("boot") /\ bcView' = bcView /\ bcItem' = bcItem /\ bcPaste' = bcPaste
               /\ \/ bcTab' = bcTab
                  \/ /\ bcCall["boot"].says = "disconnected"
                     /\ bcTab'.id = bcTab.id /\ ~bcTab'.connected
                     /\ bcTab'.lost = bcTab.lost /\ bcTab'.leaving = bcTab.leaving
                     /\ bcTab'.csrf \in {bcTab.csrf, bcCall["boot"].csrf}
<1>1. CASE bcCall["boot"].says = "ok"
  BY <1>1 DEF BCBooted, bcServer, bcWork
<1>2. CASE bcCall["boot"].says = "disconnected"
  <2>1. /\ Settled /\ Came("boot") /\ bcLive' = bcLive /\ bcMade' = bcMade /\ bcCookie' = bcCookie
        /\ bcSso' = bcSso /\ bcCall' = Over("boot") /\ UNCHANGED bcWork
    BY <1>2 DEF BCBooted, bcServer
  <2>2. bcTab' = [bcTab EXCEPT !.connected = FALSE,
                               !.csrf = IF bcCall["boot"].csrf # BCNone THEN bcCall["boot"].csrf ELSE @]
    BY <1>2 DEF BCBooted
  <2>3. /\ bcTab'.id = bcTab.id /\ ~bcTab'.connected
        /\ bcTab'.lost = bcTab.lost /\ bcTab'.leaving = bcTab.leaving
        /\ bcTab'.csrf \in {bcTab.csrf, bcCall["boot"].csrf}
    BY <2>2 DEF BCTypeOK
  <2> QED BY <1>2, <2>1, <2>3 DEF bcWork
<1>3. CASE bcCall["boot"].says \notin {"ok", "disconnected"}
  BY <1>3 DEF BCBooted, bcServer, bcWork
<1> QED BY <1>1, <1>2, <1>3

-----------------------------------------------------------------------------
(* The parts of BCInv, one by one.                                              *)

\* Only the answer of the newest listing is shown, and every later listing shows that it loads.
LEMMA NewestStep ==
  ASSUME BCTypeOK, NewestShown, [BCNext]_bcvars
  PROVE  NewestShown'
<1> USE BCAssumption DEF NewestShown, BCTypeOK, Calls, Bound, Writes, Unregistered, Logins
<1>1. CASE BCConnect
  BY <1>1 DEF BCConnect, Settled, Free, BCRequest, bcServer, bcWork, Tokenless
<1>2. CASE BCSsoConnect
  BY <1>2 DEF BCSsoConnect, Settled, Free, BCRequest, bcServer, bcWork, Tokenless
<1>3. CASE BCCancelSso
  BY <1>3 DEF BCCancelSso, Settled, Free, bcServer, bcWork
<1>4. CASE BCBoot
  BY <1>4 DEF BCBoot, Settled, BCRequest, bcServer, bcWork, Tokenless
<1>5. CASE BCBooted
  BY <1>5 DEF BCBooted, Settled, Came, Over, Adopt, bcServer, bcWork, NoCall, Retire, Invalidated,
      DropWork, EmptyView, NoPaste, Cancelled
<1>6. CASE \E c \in {"connect", "sso"} : BCLoggedIn(c)
  BY <1>6 DEF BCLoggedIn, Settled, Came, Over, NoCall, Adopt, bcServer, Retire, bcWork, Invalidated,
      DropWork, EmptyView, NoPaste, Cancelled
<1>7. CASE \E c \in {"connect", "sso"} : BCNotLoggedIn(c)
  BY <1>7 DEF BCNotLoggedIn, Settled, Came, Over, bcServer, bcWork, NoCall
<1>8. CASE \E c \in Clicks : BCDisconnect(c)
  BY <1>8 DEF BCDisconnect, Invalidated, Settled, Free, BCRequest, DropWork, bcServer, NoCall, Tokenless,
      EmptyView, NoPaste, Cancelled
<1>9. CASE \E c \in Clicks : BCDisconnected(c)
  BY <1>9 DEF BCDisconnected, Settled, Came, LoggedOff, Over, EmptyView, LoggedOut, bcServer, NoCall
<1>10. CASE \E c \in Clicks : BCDisconnectAborted(c)
  BY <1>10 DEF BCDisconnectAborted, LoggedOff, Over, EmptyView, LoggedOut, bcServer, NoCall
<1>11. CASE BCCheck
  BY <1>11 DEF BCCheck, Settled, Free, BCRequest, bcServer, bcWork, Tokenless
<1>12. CASE BCChecked
  BY <1>12 DEF BCChecked, Settled, Came, Over, Losing, LoseSession, bcServer, bcWork, NoCall, Retire,
      Invalidated, DropWork, EmptyView, NoPaste, Cancelled
<1>13. CASE BCAcknowledge
  BY <1>13 DEF BCAcknowledge, Settled, EmptyView, Cancelled, LoggedOut, bcServer
<1>14. CASE \E c \in Listings : BCList(c)
  BY <1>14 DEF BCList, Settled, Free, AwaitList, Listed, bcServer, BCRequest, Tokenless
<1>15. CASE \E c \in Listings : BCListed(c)
  BY <1>15 DEF BCListed, Settled, Came, Over, Raises, Shown, bcServer, NoCall, Losing
<1>16. CASE BCAddEntry
  BY <1>16 DEF BCAddEntry, bcServer
<1>17. CASE BCCancelItem
  BY <1>17 DEF BCCancelItem, Over, Cancelled, bcServer, NoCall
<1>18. CASE BCRetryItem
  BY <1>18 DEF BCRetryItem, bcServer
<1>19. CASE \E c \in Tries : BCTransfer(c)
  BY <1>19 DEF BCTransfer, Settled, Free, BCRequest, bcServer, Tokenless
<1>20. CASE \E c \in Tries : BCSent(c)
  BY <1>20 DEF BCSent, Settled, Came, Over, Raises, NoCall, bcServer, Losing
<1>21. CASE \E c \in Tries : BCBackoff(c)
  BY <1>21 DEF BCBackoff, Settled, Over, BCRequest, bcServer, bcWork, NoCall, Tokenless
<1>22. CASE BCPaste
  BY <1>22 DEF BCPaste, Free, BCRequest, NoPaste, bcServer, Tokenless
<1>23. CASE BCPasteChoice
  BY <1>23 DEF BCPasteChoice, Free, BCRequest, NoPaste, bcServer, Tokenless
<1>24. CASE BCPasted
  BY <1>24 DEF BCPasted, Settled, Came, Over, Raises, BCRequest, NoPaste, AwaitList, Listed, bcServer,
      NoCall, Losing, Tokenless
<1>25. CASE BCZip
  BY <1>25 DEF BCZip, Free, BCRequest, bcServer, bcWork, Tokenless
<1>26. CASE BCZipped
  BY <1>26 DEF BCZipped, Settled, Came, Over, bcServer, bcWork, NoCall
<1>27. CASE BCErrorRead
  BY <1>27 DEF BCErrorRead, Settled, Over, Losing, LoseSession, bcServer, bcWork, NoCall, Retire,
      Invalidated, DropWork, EmptyView, NoPaste, Cancelled
<1>28. CASE \E c \in Calls : BCRefused(c)
  BY <1>28 DEF BCRefused, Settled, Came, Over, Raises, LoseSession, NoCall, Losing, Retire, bcServer,
      Invalidated, DropWork, EmptyView, NoPaste, Cancelled
<1>29. CASE \E c \in {"connect", "sso"} : BCServeLogin(c)
  BY <1>29 DEF BCServeLogin, Answered, bcWork
<1>30. CASE \E c \in {"connect", "sso"} : BCServePrompt(c)
  BY <1>30 DEF BCServePrompt, Answered, bcServer, bcWork
<1>31. CASE \E c \in Unregistered : BCServeStatus(c)
  BY <1>31 DEF BCServeStatus, Answered, bcServer, bcWork
<1>32. CASE \E c \in Bound : BCServeWork(c)
  BY <1>32 DEF BCServeWork, Admitted, Answered, bcServer, bcWork, Tokenless
<1>33. CASE \E c \in Clicks : BCServeDisconnect(c)
  BY <1>33 DEF BCServeDisconnect, Admitted, Answered, bcWork, Tokenless
<1>34. CASE \E c \in Calls : BCFail(c)
  BY <1>34 DEF BCFail, Answered, bcServer, bcWork
<1>35. CASE \E c \in Listings \cup Unregistered : BCRepeat(c)
  BY <1>35 DEF BCRepeat, bcServer, bcWork
<1>36. CASE BCOtherLogin
  BY <1>36 DEF BCOtherLogin, bcWork
<1>37. CASE BCOtherLogout
  BY <1>37 DEF BCOtherLogout, bcWork
<1>38. CASE \E s \in BCSessions : BCSessionEnds(s)
  BY <1>38 DEF BCSessionEnds, bcWork
<1>39. CASE UNCHANGED bcvars
  BY <1>39 DEF bcvars, bcServer, bcWork
<1> QED BY <1>1, <1>2, <1>3, <1>4, <1>5, <1>6, <1>7, <1>8, <1>9, <1>10, <1>11, <1>12, <1>13, <1>14, <1>15,
    <1>16, <1>17, <1>18, <1>19, <1>20, <1>21, <1>22, <1>23, <1>24, <1>25, <1>26, <1>27, <1>28, <1>29,
    <1>30, <1>31, <1>32, <1>33, <1>34, <1>35, <1>36, <1>37, <1>38, <1>39 DEF BCNext, BCLogin, BCLogout,
    BCWorking, BCEnvironment

\* A new session is named by the answer of its login alone: every name is carried along.
LEMMA NamesMadeStep ==
  ASSUME BCTypeOK, NamesMade, [BCNext]_bcvars
  PROVE  NamesMade'
<1> USE BCAssumption DEF NamesMade, BCTypeOK, CallRecords, Made, Calls, Bound, Writes, Unregistered, Logins
<1>1. CASE BCConnect
  BY <1>1 DEF BCConnect, Settled, Free, BCRequest, bcServer, bcWork, Tokenless
<1>2. CASE BCSsoConnect
  BY <1>2 DEF BCSsoConnect, Settled, Free, BCRequest, bcServer, bcWork, Tokenless
<1>3. CASE BCCancelSso
  BY <1>3 DEF BCCancelSso, Settled, Free, bcServer, bcWork
<1>4. CASE BCBoot
  BY <1>4 DEF BCBoot, Settled, BCRequest, bcServer, bcWork, Tokenless
<1>5. CASE BCBooted
  <2>0. /\ "boot" \in Calls /\ bcCall["boot"] \in CallRecords /\ bcCall["boot"].by \in Maybe
        /\ Over("boot") \in [Calls -> CallRecords]
        /\ \A c \in Calls : Over("boot")[c] = IF c = "boot" THEN NoCall ELSE bcCall[c]
    BY OverType DEF Over
  <2> DEFINE by == bcCall["boot"].by
  <2>1. CASE /\ bcTab.id = by /\ bcCall' = Over("boot") /\ bcView' = bcView /\ bcItem' = bcItem /\ bcPaste' = bcPaste
             /\ bcTab'.id = by /\ bcTab'.csrf = by /\ bcTab'.connected /\ bcCall["boot"].says = "ok"
    BY <1>5, <2>0, <2>1, BootedCases DEF Came, NoCall
  <2>2. CASE /\ bcTab.id # by /\ bcCall' = Invalidated(Over("boot")) /\ bcView' = EmptyView
             /\ bcItem' = Cancelled(bcItem) /\ bcPaste' = NoPaste
             /\ bcTab'.id = by /\ bcTab'.csrf = by /\ bcTab'.connected /\ bcCall["boot"].says = "ok"
    <3>1. /\ \A c \in Calls : Left(c, bcCall[c], bcCall'[c])
          /\ bcCall'["boot"] = NoCall /\ bcCall'["ping"] = bcCall["ping"]
      BY <2>0, <2>2, RetiredCalls
    <3>2. bcItem'.home = bcItem.home /\ bcItem'.status \notin {"queued", "uploading"} /\ (bcItem'.status = bcItem.status \/ bcItem'.status = "cancelled")
      BY <2>2, CancelledFields
    <3>3. bcView'.home = BCNone /\ bcView'.files = "none" /\ bcPaste'.home = BCNone /\ bcPaste'.left = 0 /\ bcPaste'.asking = FALSE
      BY <2>2 DEF EmptyView, NoPaste
    <3>4. Settled /\ Came("boot") /\ bcLive' = bcLive /\ bcMade' = bcMade /\ bcCookie' = bcCookie /\ bcSso' = bcSso
      BY <1>5, BootedCases
    <3> HIDE <2>2
    <3>6. by = bcCall["boot"].by
      OBVIOUS
    <3> HIDE DEF by
    <3>5. /\ bcTab.id # by /\ bcTab'.id = by /\ bcTab'.csrf = by /\ bcTab'.connected /\ bcCall["boot"].says = "ok"
      BY <2>2
    <3> QED BY <3>1, <3>2, <3>3, <3>4, <3>5, <3>6 DEF Came, NoCall, Left
  <2>3. CASE /\ bcCall' = Over("boot") /\ bcView' = bcView /\ bcItem' = bcItem /\ bcPaste' = bcPaste
             /\ \/ bcTab' = bcTab
                \/ /\ bcCall["boot"].says = "disconnected"
                   /\ bcTab'.id = bcTab.id /\ ~bcTab'.connected /\ bcTab'.csrf \in {bcTab.csrf, bcCall["boot"].csrf}
    BY <1>5, <2>0, <2>3, BootedCases DEF Came, NoCall
  <2> QED BY <1>5, <2>0, <2>1, <2>2, <2>3, BootedCases, AdoptEffect
<1>6. CASE \E c \in {"connect", "sso"} : BCLoggedIn(c)
  BY <1>6 DEF BCLoggedIn, Settled, Came, Over, NoCall, Adopt, bcServer, Retire, bcWork, Invalidated,
      DropWork, EmptyView, NoPaste, Cancelled
<1>7. CASE \E c \in {"connect", "sso"} : BCNotLoggedIn(c)
  BY <1>7 DEF BCNotLoggedIn, Settled, Came, Over, bcServer, bcWork, NoCall
<1>8. CASE \E c \in Clicks : BCDisconnect(c)
  BY <1>8 DEF BCDisconnect, Invalidated, Settled, Free, BCRequest, DropWork, bcServer, NoCall, Tokenless,
      EmptyView, NoPaste, Cancelled
<1>9. CASE \E c \in Clicks : BCDisconnected(c)
  BY <1>9 DEF BCDisconnected, Settled, Came, LoggedOff, Over, EmptyView, LoggedOut, bcServer, NoCall
<1>10. CASE \E c \in Clicks : BCDisconnectAborted(c)
  BY <1>10 DEF BCDisconnectAborted, LoggedOff, Over, EmptyView, LoggedOut, bcServer, NoCall
<1>11. CASE BCCheck
  BY <1>11 DEF BCCheck, Settled, Free, BCRequest, bcServer, bcWork, Tokenless
<1>12. CASE BCChecked
  BY <1>12 DEF BCChecked, Settled, Came, Over, Losing, LoseSession, bcServer, bcWork, NoCall, Retire,
      Invalidated, DropWork, EmptyView, NoPaste, Cancelled
<1>13. CASE BCAcknowledge
  BY <1>13 DEF BCAcknowledge, Settled, EmptyView, Cancelled, LoggedOut, bcServer
<1>14. CASE \E c \in Listings : BCList(c)
  BY <1>14 DEF BCList, Settled, Free, AwaitList, Listed, bcServer, BCRequest, Tokenless
<1>15. CASE \E c \in Listings : BCListed(c)
  BY <1>15 DEF BCListed, Settled, Came, Over, Raises, Shown, bcServer, NoCall, Losing
<1>16. CASE BCAddEntry
  BY <1>16 DEF BCAddEntry, bcServer
<1>17. CASE BCCancelItem
  BY <1>17 DEF BCCancelItem, Over, Cancelled, bcServer, NoCall
<1>18. CASE BCRetryItem
  BY <1>18 DEF BCRetryItem, bcServer
<1>19. CASE \E c \in Tries : BCTransfer(c)
  BY <1>19 DEF BCTransfer, Settled, Free, BCRequest, bcServer, Tokenless
<1>20. CASE \E c \in Tries : BCSent(c)
  BY <1>20 DEF BCSent, Settled, Came, Over, Raises, NoCall, bcServer, Losing
<1>21. CASE \E c \in Tries : BCBackoff(c)
  BY <1>21 DEF BCBackoff, Settled, Over, BCRequest, bcServer, bcWork, NoCall, Tokenless
<1>22. CASE BCPaste
  BY <1>22 DEF BCPaste, Free, BCRequest, NoPaste, bcServer, Tokenless
<1>23. CASE BCPasteChoice
  BY <1>23 DEF BCPasteChoice, Free, BCRequest, NoPaste, bcServer, Tokenless
<1>24. CASE BCPasted
  <2>0. /\ bcLive' = bcLive /\ bcMade' = bcMade /\ bcCookie' = bcCookie /\ bcSso' = bcSso /\ bcTab' = bcTab /\ bcItem' = bcItem
        /\ bcCall["paste"].at = "answered" /\ "paste" \in Calls /\ Listings \subseteq Calls
    BY <1>24 DEF BCPasted, Came, bcServer
  <2>1. CASE /\ bcPaste' = [bcPaste EXCEPT !.left = @ - 1] /\ bcPaste.left > 1
             /\ bcCall' = [bcCall EXCEPT !["paste"] = BCRequest("paste", bcPaste.home)]
             /\ UNCHANGED bcView
    <3>1. bcPaste'.home = bcPaste.home /\ bcPaste'.asking = bcPaste.asking /\ bcPaste.left > 0 /\ bcView' = bcView
      BY <2>1
    <3>2. \A d \in Calls : bcCall'[d] = IF d = "paste" THEN BCRequest("paste", bcPaste.home) ELSE bcCall[d]
      BY <2>1
    <3> QED BY <2>0, <3>1, <3>2 DEF BCRequest, Tokenless
  <2>2. ASSUME NEW c \in Listings, bcCall[c].at = "none", bcPaste' = NoPaste,
               bcCall' = Listed(Over("paste"), c), AwaitList(c)
        PROVE  NamesMade'
    <3>1. bcPaste'.home = BCNone /\ bcPaste'.left = 0 /\ ~bcPaste'.asking /\ bcView'.home = bcView.home /\ bcView'.files = bcView.files
      BY <2>2 DEF AwaitList, NoPaste
    <3>2. \A d \in Calls : bcCall'[d] = IF d = c THEN BCRequest(c, bcTab.id) ELSE IF d = "paste" THEN NoCall ELSE bcCall[d]
      BY <2>0, <2>2 DEF Listed, Over
    <3> QED BY <2>0, <3>1, <3>2 DEF BCRequest, NoCall, Tokenless
  <2> QED BY <1>24, <2>1, <2>2 DEF BCPasted
<1>25. CASE BCZip
  BY <1>25 DEF BCZip, Free, BCRequest, bcServer, bcWork, Tokenless
<1>26. CASE BCZipped
  BY <1>26 DEF BCZipped, Settled, Came, Over, bcServer, bcWork, NoCall
<1>27. CASE BCErrorRead
  BY <1>27 DEF BCErrorRead, Settled, Over, Losing, LoseSession, bcServer, bcWork, NoCall, Retire,
      Invalidated, DropWork, EmptyView, NoPaste, Cancelled
<1>28. CASE \E c \in Calls : BCRefused(c)
  BY <1>28 DEF BCRefused, Settled, Came, Over, Raises, LoseSession, NoCall, Losing, Retire, bcServer,
      Invalidated, DropWork, EmptyView, NoPaste, Cancelled
<1>29. CASE \E c \in {"connect", "sso"} : BCServeLogin(c)
  BY <1>29 DEF BCServeLogin, Answered, bcWork
<1>30. CASE \E c \in {"connect", "sso"} : BCServePrompt(c)
  BY <1>30 DEF BCServePrompt, Answered, bcServer, bcWork
<1>31. CASE \E c \in Unregistered : BCServeStatus(c)
  BY <1>31 DEF BCServeStatus, Answered, bcServer, bcWork
<1>32. CASE \E c \in Bound : BCServeWork(c)
  BY <1>32 DEF BCServeWork, Admitted, Answered, bcServer, bcWork, Tokenless
<1>33. CASE \E c \in Clicks : BCServeDisconnect(c)
  BY <1>33 DEF BCServeDisconnect, Admitted, Answered, bcWork, Tokenless
<1>34. CASE \E c \in Calls : BCFail(c)
  BY <1>34 DEF BCFail, Answered, bcServer, bcWork
<1>35. CASE \E c \in Listings \cup Unregistered : BCRepeat(c)
  BY <1>35 DEF BCRepeat, bcServer, bcWork
<1>36. CASE BCOtherLogin
  BY <1>36 DEF BCOtherLogin, bcWork
<1>37. CASE BCOtherLogout
  BY <1>37 DEF BCOtherLogout, bcWork
<1>38. CASE \E s \in BCSessions : BCSessionEnds(s)
  BY <1>38 DEF BCSessionEnds, bcWork
<1>39. CASE UNCHANGED bcvars
  BY <1>39 DEF bcvars, bcServer, bcWork
<1> QED BY <1>1, <1>2, <1>3, <1>4, <1>5, <1>6, <1>7, <1>8, <1>9, <1>10, <1>11, <1>12, <1>13, <1>14, <1>15,
    <1>16, <1>17, <1>18, <1>19, <1>20, <1>21, <1>22, <1>23, <1>24, <1>25, <1>26, <1>27, <1>28, <1>29,
    <1>30, <1>31, <1>32, <1>33, <1>34, <1>35, <1>36, <1>37, <1>38, <1>39 DEF BCNext, BCLogin, BCLogout,
    BCWorking, BCEnvironment

\* A step that changes the tab's connection ends what belonged to the one before.
LEMMA AllMineStep ==
  ASSUME BCTypeOK, AllMine, [BCNext]_bcvars
  PROVE  AllMine'
<1> USE BCAssumption DEF AllMine, Mine, BCTypeOK, CallRecords, Calls, Bound, Writes, Unregistered, Logins
<1>1. CASE BCConnect
  BY <1>1 DEF BCConnect, Settled, Free, BCRequest, bcServer, bcWork, Tokenless
<1>2. CASE BCSsoConnect
  BY <1>2 DEF BCSsoConnect, Settled, Free, BCRequest, bcServer, bcWork, Tokenless
<1>3. CASE BCCancelSso
  BY <1>3 DEF BCCancelSso, Settled, Free, bcServer, bcWork
<1>4. CASE BCBoot
  BY <1>4 DEF BCBoot, Settled, BCRequest, bcServer, bcWork, Tokenless
<1>5. CASE BCBooted
  <2>0. /\ "boot" \in Calls /\ bcCall["boot"] \in CallRecords /\ bcCall["boot"].by \in Maybe
        /\ Over("boot") \in [Calls -> CallRecords]
        /\ \A c \in Calls : Over("boot")[c] = IF c = "boot" THEN NoCall ELSE bcCall[c]
    BY OverType DEF Over
  <2> DEFINE by == bcCall["boot"].by
  <2>1. CASE /\ bcTab.id = by /\ bcCall' = Over("boot") /\ bcView' = bcView /\ bcItem' = bcItem /\ bcPaste' = bcPaste
             /\ bcTab'.id = by /\ bcTab'.csrf = by /\ bcTab'.connected /\ bcCall["boot"].says = "ok"
    BY <1>5, <2>0, <2>1, BootedCases DEF Came, NoCall
  <2>2. CASE /\ bcTab.id # by /\ bcCall' = Invalidated(Over("boot")) /\ bcView' = EmptyView
             /\ bcItem' = Cancelled(bcItem) /\ bcPaste' = NoPaste
             /\ bcTab'.id = by /\ bcTab'.csrf = by /\ bcTab'.connected /\ bcCall["boot"].says = "ok"
    <3>1. /\ \A c \in Calls : Left(c, bcCall[c], bcCall'[c])
          /\ bcCall'["boot"] = NoCall /\ bcCall'["ping"] = bcCall["ping"]
      BY <2>0, <2>2, RetiredCalls
    <3>2. bcItem'.home = bcItem.home /\ bcItem'.status \notin {"queued", "uploading"} /\ (bcItem'.status = bcItem.status \/ bcItem'.status = "cancelled")
      BY <2>2, CancelledFields
    <3>3. bcView'.home = BCNone /\ bcView'.files = "none" /\ bcPaste'.home = BCNone /\ bcPaste'.left = 0 /\ bcPaste'.asking = FALSE
      BY <2>2 DEF EmptyView, NoPaste
    <3>4. Settled /\ Came("boot") /\ bcLive' = bcLive /\ bcMade' = bcMade /\ bcCookie' = bcCookie /\ bcSso' = bcSso
      BY <1>5, BootedCases
    <3> HIDE <2>2
    <3>6. by = bcCall["boot"].by
      OBVIOUS
    <3> HIDE DEF by
    <3>5. /\ bcTab.id # by /\ bcTab'.id = by /\ bcTab'.csrf = by /\ bcTab'.connected /\ bcCall["boot"].says = "ok"
      BY <2>2
    <3> QED BY <3>1, <3>2, <3>3, <3>4, <3>5, <3>6 DEF Came, NoCall, Left
  <2>3. CASE /\ bcCall' = Over("boot") /\ bcView' = bcView /\ bcItem' = bcItem /\ bcPaste' = bcPaste
             /\ \/ bcTab' = bcTab
                \/ /\ bcCall["boot"].says = "disconnected"
                   /\ bcTab'.id = bcTab.id /\ ~bcTab'.connected /\ bcTab'.csrf \in {bcTab.csrf, bcCall["boot"].csrf}
    BY <1>5, <2>0, <2>3, BootedCases DEF Came, NoCall
  <2> QED BY <1>5, <2>0, <2>1, <2>2, <2>3, BootedCases, AdoptEffect
<1>6. CASE \E c \in {"connect", "sso"} : BCLoggedIn(c)
  BY <1>6 DEF BCLoggedIn, Settled, Came, Over, NoCall, Adopt, bcServer, Retire, bcWork, Invalidated,
      DropWork, EmptyView, NoPaste, Cancelled
<1>7. CASE \E c \in {"connect", "sso"} : BCNotLoggedIn(c)
  BY <1>7 DEF BCNotLoggedIn, Settled, Came, Over, bcServer, bcWork, NoCall
<1>8. CASE \E c \in Clicks : BCDisconnect(c)
  BY <1>8 DEF BCDisconnect, Invalidated, Settled, Free, BCRequest, DropWork, bcServer, NoCall, Tokenless,
      EmptyView, NoPaste, Cancelled
<1>9. CASE \E c \in Clicks : BCDisconnected(c)
  BY <1>9 DEF BCDisconnected, Settled, Came, LoggedOff, Over, EmptyView, LoggedOut, bcServer, NoCall
<1>10. CASE \E c \in Clicks : BCDisconnectAborted(c)
  BY <1>10 DEF BCDisconnectAborted, LoggedOff, Over, EmptyView, LoggedOut, bcServer, NoCall
<1>11. CASE BCCheck
  BY <1>11 DEF BCCheck, Settled, Free, BCRequest, bcServer, bcWork, Tokenless
<1>12. CASE BCChecked
  BY <1>12 DEF BCChecked, Settled, Came, Over, Losing, LoseSession, bcServer, bcWork, NoCall, Retire,
      Invalidated, DropWork, EmptyView, NoPaste, Cancelled
<1>13. CASE BCAcknowledge
  BY <1>13 DEF BCAcknowledge, Settled, EmptyView, Cancelled, LoggedOut, bcServer
<1>14. CASE \E c \in Listings : BCList(c)
  BY <1>14 DEF BCList, Settled, Free, AwaitList, Listed, bcServer, BCRequest, Tokenless
<1>15. CASE \E c \in Listings : BCListed(c)
  BY <1>15 DEF BCListed, Settled, Came, Over, Raises, Shown, bcServer, NoCall, Losing
<1>16. CASE BCAddEntry
  BY <1>16 DEF BCAddEntry, bcServer
<1>17. CASE BCCancelItem
  BY <1>17 DEF BCCancelItem, Over, Cancelled, bcServer, NoCall
<1>18. CASE BCRetryItem
  BY <1>18 DEF BCRetryItem, bcServer
<1>19. CASE \E c \in Tries : BCTransfer(c)
  BY <1>19 DEF BCTransfer, Settled, Free, BCRequest, bcServer, Tokenless
<1>20. CASE \E c \in Tries : BCSent(c)
  BY <1>20 DEF BCSent, Settled, Came, Over, Raises, NoCall, bcServer, Losing
<1>21. CASE \E c \in Tries : BCBackoff(c)
  BY <1>21 DEF BCBackoff, Settled, Over, BCRequest, bcServer, bcWork, NoCall, Tokenless
<1>22. CASE BCPaste
  BY <1>22 DEF BCPaste, Free, BCRequest, NoPaste, bcServer, Tokenless
<1>23. CASE BCPasteChoice
  BY <1>23 DEF BCPasteChoice, Free, BCRequest, NoPaste, bcServer, Tokenless
<1>24. CASE BCPasted
  <2>0. /\ bcLive' = bcLive /\ bcMade' = bcMade /\ bcCookie' = bcCookie /\ bcSso' = bcSso /\ bcTab' = bcTab /\ bcItem' = bcItem
        /\ bcCall["paste"].at = "answered" /\ "paste" \in Calls /\ Listings \subseteq Calls
    BY <1>24 DEF BCPasted, Came, bcServer
  <2>1. CASE /\ bcPaste' = [bcPaste EXCEPT !.left = @ - 1] /\ bcPaste.left > 1
             /\ bcCall' = [bcCall EXCEPT !["paste"] = BCRequest("paste", bcPaste.home)]
             /\ UNCHANGED bcView
    <3>1. bcPaste'.home = bcPaste.home /\ bcPaste'.asking = bcPaste.asking /\ bcPaste.left > 0 /\ bcView' = bcView
      BY <2>1
    <3>2. \A d \in Calls : bcCall'[d] = IF d = "paste" THEN BCRequest("paste", bcPaste.home) ELSE bcCall[d]
      BY <2>1
    <3> QED BY <2>0, <3>1, <3>2 DEF BCRequest, Tokenless
  <2>2. ASSUME NEW c \in Listings, bcCall[c].at = "none", bcPaste' = NoPaste,
               bcCall' = Listed(Over("paste"), c), AwaitList(c)
        PROVE  AllMine'
    <3>1. bcPaste'.home = BCNone /\ bcPaste'.left = 0 /\ ~bcPaste'.asking /\ bcView'.home = bcView.home /\ bcView'.files = bcView.files
      BY <2>2 DEF AwaitList, NoPaste
    <3>2. \A d \in Calls : bcCall'[d] = IF d = c THEN BCRequest(c, bcTab.id) ELSE IF d = "paste" THEN NoCall ELSE bcCall[d]
      BY <2>0, <2>2 DEF Listed, Over
    <3> QED BY <2>0, <3>1, <3>2 DEF BCRequest, NoCall, Tokenless
  <2> QED BY <1>24, <2>1, <2>2 DEF BCPasted
<1>25. CASE BCZip
  BY <1>25 DEF BCZip, Free, BCRequest, bcServer, bcWork, Tokenless
<1>26. CASE BCZipped
  BY <1>26 DEF BCZipped, Settled, Came, Over, bcServer, bcWork, NoCall
<1>27. CASE BCErrorRead
  BY <1>27 DEF BCErrorRead, Settled, Over, Losing, LoseSession, bcServer, bcWork, NoCall, Retire,
      Invalidated, DropWork, EmptyView, NoPaste, Cancelled
<1>28. CASE \E c \in Calls : BCRefused(c)
  BY <1>28 DEF BCRefused, Settled, Came, Over, Raises, LoseSession, NoCall, Losing, Retire, bcServer,
      Invalidated, DropWork, EmptyView, NoPaste, Cancelled
<1>29. CASE \E c \in {"connect", "sso"} : BCServeLogin(c)
  BY <1>29 DEF BCServeLogin, Answered, bcWork
<1>30. CASE \E c \in {"connect", "sso"} : BCServePrompt(c)
  BY <1>30 DEF BCServePrompt, Answered, bcServer, bcWork
<1>31. CASE \E c \in Unregistered : BCServeStatus(c)
  BY <1>31 DEF BCServeStatus, Answered, bcServer, bcWork
<1>32. CASE \E c \in Bound : BCServeWork(c)
  BY <1>32 DEF BCServeWork, Admitted, Answered, bcServer, bcWork, Tokenless
<1>33. CASE \E c \in Clicks : BCServeDisconnect(c)
  BY <1>33 DEF BCServeDisconnect, Admitted, Answered, bcWork, Tokenless
<1>34. CASE \E c \in Calls : BCFail(c)
  BY <1>34 DEF BCFail, Answered, bcServer, bcWork
<1>35. CASE \E c \in Listings \cup Unregistered : BCRepeat(c)
  BY <1>35 DEF BCRepeat, bcServer, bcWork
<1>36. CASE BCOtherLogin
  BY <1>36 DEF BCOtherLogin, bcWork
<1>37. CASE BCOtherLogout
  BY <1>37 DEF BCOtherLogout, bcWork
<1>38. CASE \E s \in BCSessions : BCSessionEnds(s)
  BY <1>38 DEF BCSessionEnds, bcWork
<1>39. CASE UNCHANGED bcvars
  BY <1>39 DEF bcvars, bcServer, bcWork
<1> QED BY <1>1, <1>2, <1>3, <1>4, <1>5, <1>6, <1>7, <1>8, <1>9, <1>10, <1>11, <1>12, <1>13, <1>14, <1>15,
    <1>16, <1>17, <1>18, <1>19, <1>20, <1>21, <1>22, <1>23, <1>24, <1>25, <1>26, <1>27, <1>28, <1>29,
    <1>30, <1>31, <1>32, <1>33, <1>34, <1>35, <1>36, <1>37, <1>38, <1>39 DEF BCNext, BCLogin, BCLogout,
    BCWorking, BCEnvironment

\* A token is handed over with its session, and opens it as long as it lives.
LEMMA TokensMineStep ==
  ASSUME BCTypeOK, NamesMade, TokensMine, [BCNext]_bcvars
  PROVE  TokensMine'
<1> USE BCAssumption DEF TokensMine, NamesMade, Made, Mine, BCTypeOK, CallRecords, Calls, Bound, Writes,
    Unregistered, Logins
<1>1. CASE BCConnect
  BY <1>1 DEF BCConnect, Settled, Free, BCRequest, bcServer, bcWork, Tokenless
<1>2. CASE BCSsoConnect
  BY <1>2 DEF BCSsoConnect, Settled, Free, BCRequest, bcServer, bcWork, Tokenless
<1>3. CASE BCCancelSso
  BY <1>3 DEF BCCancelSso, Settled, Free, bcServer, bcWork
<1>4. CASE BCBoot
  BY <1>4 DEF BCBoot, Settled, BCRequest, bcServer, bcWork, Tokenless
<1>5. CASE BCBooted
  <2>0. /\ "boot" \in Calls /\ bcCall["boot"] \in CallRecords /\ bcCall["boot"].by \in Maybe
        /\ Over("boot") \in [Calls -> CallRecords]
        /\ \A c \in Calls : Over("boot")[c] = IF c = "boot" THEN NoCall ELSE bcCall[c]
    BY OverType DEF Over
  <2> DEFINE by == bcCall["boot"].by
  <2>1. CASE /\ bcTab.id = by /\ bcCall' = Over("boot") /\ bcView' = bcView /\ bcItem' = bcItem /\ bcPaste' = bcPaste
             /\ bcTab'.id = by /\ bcTab'.csrf = by /\ bcTab'.connected /\ bcCall["boot"].says = "ok"
    BY <1>5, <2>0, <2>1, BootedCases DEF Came, NoCall
  <2>2. CASE /\ bcTab.id # by /\ bcCall' = Invalidated(Over("boot")) /\ bcView' = EmptyView
             /\ bcItem' = Cancelled(bcItem) /\ bcPaste' = NoPaste
             /\ bcTab'.id = by /\ bcTab'.csrf = by /\ bcTab'.connected /\ bcCall["boot"].says = "ok"
    <3>1. /\ \A c \in Calls : Left(c, bcCall[c], bcCall'[c])
          /\ bcCall'["boot"] = NoCall /\ bcCall'["ping"] = bcCall["ping"]
      BY <2>0, <2>2, RetiredCalls
    <3>2. bcItem'.home = bcItem.home /\ bcItem'.status \notin {"queued", "uploading"} /\ (bcItem'.status = bcItem.status \/ bcItem'.status = "cancelled")
      BY <2>2, CancelledFields
    <3>3. bcView'.home = BCNone /\ bcView'.files = "none" /\ bcPaste'.home = BCNone /\ bcPaste'.left = 0 /\ bcPaste'.asking = FALSE
      BY <2>2 DEF EmptyView, NoPaste
    <3>4. Settled /\ Came("boot") /\ bcLive' = bcLive /\ bcMade' = bcMade /\ bcCookie' = bcCookie /\ bcSso' = bcSso
      BY <1>5, BootedCases
    <3> HIDE <2>2
    <3>6. by = bcCall["boot"].by
      OBVIOUS
    <3> HIDE DEF by
    <3>5. /\ bcTab.id # by /\ bcTab'.id = by /\ bcTab'.csrf = by /\ bcTab'.connected /\ bcCall["boot"].says = "ok"
      BY <2>2
    <3> QED BY <3>1, <3>2, <3>3, <3>4, <3>5, <3>6 DEF Came, NoCall, Left
  <2>3. CASE /\ bcCall' = Over("boot") /\ bcView' = bcView /\ bcItem' = bcItem /\ bcPaste' = bcPaste
             /\ \/ bcTab' = bcTab
                \/ /\ bcCall["boot"].says = "disconnected"
                   /\ bcTab'.id = bcTab.id /\ ~bcTab'.connected /\ bcTab'.csrf \in {bcTab.csrf, bcCall["boot"].csrf}
    BY <1>5, <2>0, <2>3, BootedCases DEF Came, NoCall
  <2> QED BY <1>5, <2>0, <2>1, <2>2, <2>3, BootedCases, AdoptEffect
<1>6. CASE \E c \in {"connect", "sso"} : BCLoggedIn(c)
  BY <1>6 DEF BCLoggedIn, Settled, Came, Over, NoCall, Adopt, bcServer, Retire, bcWork, Invalidated,
      DropWork, EmptyView, NoPaste, Cancelled
<1>7. CASE \E c \in {"connect", "sso"} : BCNotLoggedIn(c)
  BY <1>7 DEF BCNotLoggedIn, Settled, Came, Over, bcServer, bcWork, NoCall
<1>8. CASE \E c \in Clicks : BCDisconnect(c)
  BY <1>8 DEF BCDisconnect, Invalidated, Settled, Free, BCRequest, DropWork, bcServer, NoCall, Tokenless,
      EmptyView, NoPaste, Cancelled
<1>9. CASE \E c \in Clicks : BCDisconnected(c)
  BY <1>9 DEF BCDisconnected, Settled, Came, LoggedOff, Over, EmptyView, LoggedOut, bcServer, NoCall
<1>10. CASE \E c \in Clicks : BCDisconnectAborted(c)
  BY <1>10 DEF BCDisconnectAborted, LoggedOff, Over, EmptyView, LoggedOut, bcServer, NoCall
<1>11. CASE BCCheck
  BY <1>11 DEF BCCheck, Settled, Free, BCRequest, bcServer, bcWork, Tokenless
<1>12. CASE BCChecked
  BY <1>12 DEF BCChecked, Settled, Came, Over, Losing, LoseSession, bcServer, bcWork, NoCall, Retire,
      Invalidated, DropWork, EmptyView, NoPaste, Cancelled
<1>13. CASE BCAcknowledge
  BY <1>13 DEF BCAcknowledge, Settled, EmptyView, Cancelled, LoggedOut, bcServer
<1>14. CASE \E c \in Listings : BCList(c)
  BY <1>14 DEF BCList, Settled, Free, AwaitList, Listed, bcServer, BCRequest, Tokenless
<1>15. CASE \E c \in Listings : BCListed(c)
  BY <1>15 DEF BCListed, Settled, Came, Over, Raises, Shown, bcServer, NoCall, Losing
<1>16. CASE BCAddEntry
  BY <1>16 DEF BCAddEntry, bcServer
<1>17. CASE BCCancelItem
  BY <1>17 DEF BCCancelItem, Over, Cancelled, bcServer, NoCall
<1>18. CASE BCRetryItem
  BY <1>18 DEF BCRetryItem, bcServer
<1>19. CASE \E c \in Tries : BCTransfer(c)
  BY <1>19 DEF BCTransfer, Settled, Free, BCRequest, bcServer, Tokenless
<1>20. CASE \E c \in Tries : BCSent(c)
  BY <1>20 DEF BCSent, Settled, Came, Over, Raises, NoCall, bcServer, Losing
<1>21. CASE \E c \in Tries : BCBackoff(c)
  BY <1>21 DEF BCBackoff, Settled, Over, BCRequest, bcServer, bcWork, NoCall, Tokenless
<1>22. CASE BCPaste
  BY <1>22 DEF BCPaste, Free, BCRequest, NoPaste, bcServer, Tokenless
<1>23. CASE BCPasteChoice
  BY <1>23 DEF BCPasteChoice, Free, BCRequest, NoPaste, bcServer, Tokenless
<1>24. CASE BCPasted
  <2>0. /\ bcLive' = bcLive /\ bcMade' = bcMade /\ bcCookie' = bcCookie /\ bcSso' = bcSso /\ bcTab' = bcTab /\ bcItem' = bcItem
        /\ bcCall["paste"].at = "answered" /\ "paste" \in Calls /\ Listings \subseteq Calls
    BY <1>24 DEF BCPasted, Came, bcServer
  <2>1. CASE /\ bcPaste' = [bcPaste EXCEPT !.left = @ - 1] /\ bcPaste.left > 1
             /\ bcCall' = [bcCall EXCEPT !["paste"] = BCRequest("paste", bcPaste.home)]
             /\ UNCHANGED bcView
    <3>1. bcPaste'.home = bcPaste.home /\ bcPaste'.asking = bcPaste.asking /\ bcPaste.left > 0 /\ bcView' = bcView
      BY <2>1
    <3>2. \A d \in Calls : bcCall'[d] = IF d = "paste" THEN BCRequest("paste", bcPaste.home) ELSE bcCall[d]
      BY <2>1
    <3> QED BY <2>0, <3>1, <3>2 DEF BCRequest, Tokenless
  <2>2. ASSUME NEW c \in Listings, bcCall[c].at = "none", bcPaste' = NoPaste,
               bcCall' = Listed(Over("paste"), c), AwaitList(c)
        PROVE  TokensMine'
    <3>1. bcPaste'.home = BCNone /\ bcPaste'.left = 0 /\ ~bcPaste'.asking /\ bcView'.home = bcView.home /\ bcView'.files = bcView.files
      BY <2>2 DEF AwaitList, NoPaste
    <3>2. \A d \in Calls : bcCall'[d] = IF d = c THEN BCRequest(c, bcTab.id) ELSE IF d = "paste" THEN NoCall ELSE bcCall[d]
      BY <2>0, <2>2 DEF Listed, Over
    <3> QED BY <2>0, <3>1, <3>2 DEF BCRequest, NoCall, Tokenless
  <2> QED BY <1>24, <2>1, <2>2 DEF BCPasted
<1>25. CASE BCZip
  BY <1>25 DEF BCZip, Free, BCRequest, bcServer, bcWork, Tokenless
<1>26. CASE BCZipped
  BY <1>26 DEF BCZipped, Settled, Came, Over, bcServer, bcWork, NoCall
<1>27. CASE BCErrorRead
  BY <1>27 DEF BCErrorRead, Settled, Over, Losing, LoseSession, bcServer, bcWork, NoCall, Retire,
      Invalidated, DropWork, EmptyView, NoPaste, Cancelled
<1>28. CASE \E c \in Calls : BCRefused(c)
  BY <1>28 DEF BCRefused, Settled, Came, Over, Raises, LoseSession, NoCall, Losing, Retire, bcServer,
      Invalidated, DropWork, EmptyView, NoPaste, Cancelled
<1>29. CASE \E c \in {"connect", "sso"} : BCServeLogin(c)
  BY <1>29 DEF BCServeLogin, Answered, bcWork
<1>30. CASE \E c \in {"connect", "sso"} : BCServePrompt(c)
  BY <1>30 DEF BCServePrompt, Answered, bcServer, bcWork
<1>31. CASE \E c \in Unregistered : BCServeStatus(c)
  BY <1>31 DEF BCServeStatus, Answered, bcServer, bcWork
<1>32. CASE \E c \in Bound : BCServeWork(c)
  BY <1>32 DEF BCServeWork, Admitted, Answered, bcServer, bcWork, Tokenless
<1>33. CASE \E c \in Clicks : BCServeDisconnect(c)
  BY <1>33 DEF BCServeDisconnect, Admitted, Answered, bcWork, Tokenless
<1>34. CASE \E c \in Calls : BCFail(c)
  BY <1>34 DEF BCFail, Answered, bcServer, bcWork
<1>35. CASE \E c \in Listings \cup Unregistered : BCRepeat(c)
  BY <1>35 DEF BCRepeat, bcServer, bcWork
<1>36. CASE BCOtherLogin
  BY <1>36 DEF BCOtherLogin, bcWork
<1>37. CASE BCOtherLogout
  BY <1>37 DEF BCOtherLogout, bcWork
<1>38. CASE \E s \in BCSessions : BCSessionEnds(s)
  BY <1>38 DEF BCSessionEnds, bcWork
<1>39. CASE UNCHANGED bcvars
  BY <1>39 DEF bcvars, bcServer, bcWork
<1> QED BY <1>1, <1>2, <1>3, <1>4, <1>5, <1>6, <1>7, <1>8, <1>9, <1>10, <1>11, <1>12, <1>13, <1>14, <1>15,
    <1>16, <1>17, <1>18, <1>19, <1>20, <1>21, <1>22, <1>23, <1>24, <1>25, <1>26, <1>27, <1>28, <1>29,
    <1>30, <1>31, <1>32, <1>33, <1>34, <1>35, <1>36, <1>37, <1>38, <1>39 DEF BCNext, BCLogin, BCLogout,
    BCWorking, BCEnvironment

\* A request is sent with the token of the tab, while what it is for is the tab's own.
LEMMA WritesHomeStep ==
  ASSUME BCTypeOK, NamesMade, TokensMine, AllMine, LoginInv, WritesHome, [BCNext]_bcvars
  PROVE  WritesHome'
<1> USE BCAssumption DEF WritesHome, NamesMade, TokensMine, AllMine, Made, Mine, BCTypeOK, CallRecords,
    LoginInv, Calls, Bound, Writes, Unregistered, Logins
<1>1. CASE BCConnect
  BY <1>1 DEF BCConnect, Settled, Free, BCRequest, bcServer, bcWork, Tokenless
<1>2. CASE BCSsoConnect
  BY <1>2 DEF BCSsoConnect, Settled, Free, BCRequest, bcServer, bcWork, Tokenless
<1>3. CASE BCCancelSso
  BY <1>3 DEF BCCancelSso, Settled, Free, bcServer, bcWork
<1>4. CASE BCBoot
  BY <1>4 DEF BCBoot, Settled, BCRequest, bcServer, bcWork, Tokenless
<1>5. CASE BCBooted
  <2>0. /\ "boot" \in Calls /\ bcCall["boot"] \in CallRecords /\ bcCall["boot"].by \in Maybe
        /\ Over("boot") \in [Calls -> CallRecords]
        /\ \A c \in Calls : Over("boot")[c] = IF c = "boot" THEN NoCall ELSE bcCall[c]
    BY OverType DEF Over
  <2> DEFINE by == bcCall["boot"].by
  <2>1. CASE /\ bcTab.id = by /\ bcCall' = Over("boot") /\ bcView' = bcView /\ bcItem' = bcItem /\ bcPaste' = bcPaste
             /\ bcTab'.id = by /\ bcTab'.csrf = by /\ bcTab'.connected /\ bcCall["boot"].says = "ok"
    BY <1>5, <2>0, <2>1, BootedCases DEF Came, NoCall
  <2>2. CASE /\ bcTab.id # by /\ bcCall' = Invalidated(Over("boot")) /\ bcView' = EmptyView
             /\ bcItem' = Cancelled(bcItem) /\ bcPaste' = NoPaste
             /\ bcTab'.id = by /\ bcTab'.csrf = by /\ bcTab'.connected /\ bcCall["boot"].says = "ok"
    <3>1. /\ \A c \in Calls : Left(c, bcCall[c], bcCall'[c])
          /\ bcCall'["boot"] = NoCall /\ bcCall'["ping"] = bcCall["ping"]
      BY <2>0, <2>2, RetiredCalls
    <3>2. bcItem'.home = bcItem.home /\ bcItem'.status \notin {"queued", "uploading"} /\ (bcItem'.status = bcItem.status \/ bcItem'.status = "cancelled")
      BY <2>2, CancelledFields
    <3>3. bcView'.home = BCNone /\ bcView'.files = "none" /\ bcPaste'.home = BCNone /\ bcPaste'.left = 0 /\ bcPaste'.asking = FALSE
      BY <2>2 DEF EmptyView, NoPaste
    <3>4. Settled /\ Came("boot") /\ bcLive' = bcLive /\ bcMade' = bcMade /\ bcCookie' = bcCookie /\ bcSso' = bcSso
      BY <1>5, BootedCases
    <3> HIDE <2>2
    <3>6. by = bcCall["boot"].by
      OBVIOUS
    <3> HIDE DEF by
    <3>5. /\ bcTab.id # by /\ bcTab'.id = by /\ bcTab'.csrf = by /\ bcTab'.connected /\ bcCall["boot"].says = "ok"
      BY <2>2
    <3> QED BY <3>1, <3>2, <3>3, <3>4, <3>5, <3>6 DEF Came, NoCall, Left
  <2>3. CASE /\ bcCall' = Over("boot") /\ bcView' = bcView /\ bcItem' = bcItem /\ bcPaste' = bcPaste
             /\ \/ bcTab' = bcTab
                \/ /\ bcCall["boot"].says = "disconnected"
                   /\ bcTab'.id = bcTab.id /\ ~bcTab'.connected /\ bcTab'.csrf \in {bcTab.csrf, bcCall["boot"].csrf}
    BY <1>5, <2>0, <2>3, BootedCases DEF Came, NoCall
  <2> QED BY <1>5, <2>0, <2>1, <2>2, <2>3, BootedCases, AdoptEffect
<1>6. CASE \E c \in {"connect", "sso"} : BCLoggedIn(c)
  <2>1. PICK c \in Logins : BCLoggedIn(c)
    BY <1>6
  <2>2. /\ bcCall[c].says = "ok" /\ bcLive' = bcLive /\ bcMade' = bcMade
        /\ bcCookie' = bcCall[c].by /\ bcTab'.id = bcCall[c].by /\ bcTab'.csrf = bcCall[c].by
        /\ bcTab'.connected /\ bcCall'["ping"] = bcCall["ping"]
        /\ \/ /\ bcTab.id = bcCall[c].by /\ bcItem' = bcItem
              /\ \A d \in Bound : bcCall'[d] = bcCall[d]
           \/ /\ \A d \in Bound : Left(d, bcCall[d], bcCall'[d])
              /\ bcItem'.home = bcItem.home
              /\ bcItem'.status = bcItem.status \/ bcItem'.status = "cancelled"
    BY <2>1, LoggedInEffect
  <2> QED BY <2>2 DEF Left
<1>7. CASE \E c \in {"connect", "sso"} : BCNotLoggedIn(c)
  BY <1>7 DEF BCNotLoggedIn, Settled, Came, Over, bcServer, bcWork, NoCall
<1>8. CASE \E c \in Clicks : BCDisconnect(c)
  BY <1>8 DEF BCDisconnect, Invalidated, Settled, Free, BCRequest, DropWork, bcServer, NoCall, Tokenless,
      EmptyView, NoPaste, Cancelled
<1>9. CASE \E c \in Clicks : BCDisconnected(c)
  BY <1>9 DEF BCDisconnected, Settled, Came, LoggedOff, Over, EmptyView, LoggedOut, bcServer, NoCall
<1>10. CASE \E c \in Clicks : BCDisconnectAborted(c)
  BY <1>10 DEF BCDisconnectAborted, LoggedOff, Over, EmptyView, LoggedOut, bcServer, NoCall
<1>11. CASE BCCheck
  BY <1>11 DEF BCCheck, Settled, Free, BCRequest, bcServer, bcWork, Tokenless
<1>12. CASE BCChecked
  BY <1>12 DEF BCChecked, Settled, Came, Over, Losing, LoseSession, bcServer, bcWork, NoCall, Retire,
      Invalidated, DropWork, EmptyView, NoPaste, Cancelled
<1>13. CASE BCAcknowledge
  BY <1>13 DEF BCAcknowledge, Settled, EmptyView, Cancelled, LoggedOut, bcServer
<1>14. CASE \E c \in Listings : BCList(c)
  BY <1>14 DEF BCList, Settled, Free, AwaitList, Listed, bcServer, BCRequest, Tokenless
<1>15. CASE \E c \in Listings : BCListed(c)
  BY <1>15 DEF BCListed, Settled, Came, Over, Raises, Shown, bcServer, NoCall, Losing
<1>16. CASE BCAddEntry
  BY <1>16 DEF BCAddEntry, bcServer
<1>17. CASE BCCancelItem
  BY <1>17 DEF BCCancelItem, Over, Cancelled, bcServer, NoCall
<1>18. CASE BCRetryItem
  <2>1. /\ bcItem.status # "none" /\ bcItem'.status = "queued" /\ bcItem'.home = bcItem.home /\ bcItem.home = bcTab.id
        /\ bcTab.connected /\ bcCall' = bcCall /\ bcLive' = bcLive
    BY <1>18 DEF BCRetryItem, AtWork, bcServer
  <2>2. \A c \in Writes : bcCall[c].at = "sent" /\ bcCall[c].csrf \in bcLive => bcCall[c].csrf = bcTab.id
    BY <2>1
  <2>3. \A c \in Tries : bcCall[c].at = "sent" => bcCall[c].home = bcTab.id
    BY <2>1
  <2> QED BY <2>1, <2>2, <2>3
<1>19. CASE \E c \in Tries : BCTransfer(c)
  BY <1>19 DEF BCTransfer, Settled, Free, BCRequest, bcServer, Tokenless
<1>20. CASE \E c \in Tries : BCSent(c)
  BY <1>20 DEF BCSent, Settled, Came, Over, Raises, NoCall, bcServer, Losing
<1>21. CASE \E c \in Tries : BCBackoff(c)
  BY <1>21 DEF BCBackoff, Settled, Over, BCRequest, bcServer, bcWork, NoCall, Tokenless
<1>22. CASE BCPaste
  BY <1>22 DEF BCPaste, Free, BCRequest, NoPaste, bcServer, Tokenless
<1>23. CASE BCPasteChoice
  <2>1. /\ bcItem' = bcItem /\ bcLive' = bcLive /\ bcTab.connected /\ bcPaste.asking /\ "paste" \notin Tries
    BY <1>23 DEF BCPasteChoice, AtWork, bcServer
  <2>2. CASE bcCall' = bcCall
    BY <2>1, <2>2
  <2>3. CASE bcCall' = [bcCall EXCEPT !["paste"] = BCRequest("paste", bcPaste.home)]
    <3>1. bcPaste.home = bcTab.id /\ bcTab.csrf = bcTab.id
      BY <2>1
    <3>2. \A d \in Calls : bcCall'[d] = IF d = "paste" THEN BCRequest("paste", bcPaste.home) ELSE bcCall[d]
      BY <2>3
    <3> QED BY <2>1, <3>1, <3>2 DEF BCRequest, Tokenless
  <2> QED BY <1>23, <2>2, <2>3 DEF BCPasteChoice
<1>24. CASE BCPasted
  <2>0. /\ bcLive' = bcLive /\ bcMade' = bcMade /\ bcCookie' = bcCookie /\ bcSso' = bcSso /\ bcTab' = bcTab /\ bcItem' = bcItem
        /\ bcCall["paste"].at = "answered" /\ "paste" \in Calls /\ Listings \subseteq Calls
    BY <1>24 DEF BCPasted, Came, bcServer
  <2>1. CASE /\ bcPaste' = [bcPaste EXCEPT !.left = @ - 1] /\ bcPaste.left > 1
             /\ bcCall' = [bcCall EXCEPT !["paste"] = BCRequest("paste", bcPaste.home)]
             /\ UNCHANGED bcView
    <3>1. bcPaste'.home = bcPaste.home /\ bcPaste'.asking = bcPaste.asking /\ bcPaste.left > 0 /\ bcView' = bcView
      BY <2>1
    <3>2. \A d \in Calls : bcCall'[d] = IF d = "paste" THEN BCRequest("paste", bcPaste.home) ELSE bcCall[d]
      BY <2>1
    <3> QED BY <2>0, <3>1, <3>2 DEF BCRequest, Tokenless
  <2>2. ASSUME NEW c \in Listings, bcCall[c].at = "none", bcPaste' = NoPaste,
               bcCall' = Listed(Over("paste"), c), AwaitList(c)
        PROVE  WritesHome'
    <3>1. bcPaste'.home = BCNone /\ bcPaste'.left = 0 /\ ~bcPaste'.asking /\ bcView'.home = bcView.home /\ bcView'.files = bcView.files
      BY <2>2 DEF AwaitList, NoPaste
    <3>2. \A d \in Calls : bcCall'[d] = IF d = c THEN BCRequest(c, bcTab.id) ELSE IF d = "paste" THEN NoCall ELSE bcCall[d]
      BY <2>0, <2>2 DEF Listed, Over
    <3> QED BY <2>0, <3>1, <3>2 DEF BCRequest, NoCall, Tokenless
  <2> QED BY <1>24, <2>1, <2>2 DEF BCPasted
<1>25. CASE BCZip
  BY <1>25 DEF BCZip, Free, BCRequest, bcServer, bcWork, Tokenless
<1>26. CASE BCZipped
  BY <1>26 DEF BCZipped, Settled, Came, Over, bcServer, bcWork, NoCall
<1>27. CASE BCErrorRead
  BY <1>27 DEF BCErrorRead, Settled, Over, Losing, LoseSession, bcServer, bcWork, NoCall, Retire,
      Invalidated, DropWork, EmptyView, NoPaste, Cancelled
<1>28. CASE \E c \in Calls : BCRefused(c)
  BY <1>28 DEF BCRefused, Settled, Came, Over, Raises, LoseSession, NoCall, Losing, Retire, bcServer,
      Invalidated, DropWork, EmptyView, NoPaste, Cancelled
<1>29. CASE \E c \in {"connect", "sso"} : BCServeLogin(c)
  BY <1>29 DEF BCServeLogin, Answered, bcWork
<1>30. CASE \E c \in {"connect", "sso"} : BCServePrompt(c)
  BY <1>30 DEF BCServePrompt, Answered, bcServer, bcWork
<1>31. CASE \E c \in Unregistered : BCServeStatus(c)
  BY <1>31 DEF BCServeStatus, Answered, bcServer, bcWork
<1>32. CASE \E c \in Bound : BCServeWork(c)
  BY <1>32 DEF BCServeWork, Admitted, Answered, bcServer, bcWork, Tokenless
<1>33. CASE \E c \in Clicks : BCServeDisconnect(c)
  BY <1>33 DEF BCServeDisconnect, Admitted, Answered, bcWork, Tokenless
<1>34. CASE \E c \in Calls : BCFail(c)
  BY <1>34 DEF BCFail, Answered, bcServer, bcWork
<1>35. CASE \E c \in Listings \cup Unregistered : BCRepeat(c)
  BY <1>35 DEF BCRepeat, bcServer, bcWork
<1>36. CASE BCOtherLogin
  BY <1>36 DEF BCOtherLogin, bcWork
<1>37. CASE BCOtherLogout
  BY <1>37 DEF BCOtherLogout, bcWork
<1>38. CASE \E s \in BCSessions : BCSessionEnds(s)
  BY <1>38 DEF BCSessionEnds, bcWork
<1>39. CASE UNCHANGED bcvars
  BY <1>39 DEF bcvars, bcServer, bcWork
<1> QED BY <1>1, <1>2, <1>3, <1>4, <1>5, <1>6, <1>7, <1>8, <1>9, <1>10, <1>11, <1>12, <1>13, <1>14, <1>15,
    <1>16, <1>17, <1>18, <1>19, <1>20, <1>21, <1>22, <1>23, <1>24, <1>25, <1>26, <1>27, <1>28, <1>29,
    <1>30, <1>31, <1>32, <1>33, <1>34, <1>35, <1>36, <1>37, <1>38, <1>39 DEF BCNext, BCLogin, BCLogout,
    BCWorking, BCEnvironment

\* A login of another site is confirmed before init asks for the status once more.
LEMMA LoginInvStep ==
  ASSUME BCTypeOK, LoginInv, NamesMade, [BCNext]_bcvars
  PROVE  LoginInv'
<1> USE BCAssumption DEF LoginInv, NamesMade, BCTypeOK, CallRecords, Made, Calls, Bound, Writes,
    Unregistered, Logins
<1>1. CASE BCConnect
  BY <1>1 DEF BCConnect, Settled, Free, BCRequest, bcServer, bcWork, Tokenless
<1>2. CASE BCSsoConnect
  BY <1>2 DEF BCSsoConnect, Settled, Free, BCRequest, bcServer, bcWork, Tokenless
<1>3. CASE BCCancelSso
  BY <1>3 DEF BCCancelSso, Settled, Free, bcServer, bcWork
<1>4. CASE BCBoot
  BY <1>4 DEF BCBoot, Settled, BCRequest, bcServer, bcWork, Tokenless
<1>5. CASE BCBooted
  <2>0. /\ "boot" \in Calls /\ bcCall["boot"] \in CallRecords /\ bcCall["boot"].by \in Maybe
        /\ Over("boot") \in [Calls -> CallRecords]
        /\ \A c \in Calls : Over("boot")[c] = IF c = "boot" THEN NoCall ELSE bcCall[c]
    BY OverType DEF Over
  <2> DEFINE by == bcCall["boot"].by
  <2>1. CASE /\ bcTab.id = by /\ bcCall' = Over("boot") /\ bcView' = bcView /\ bcItem' = bcItem /\ bcPaste' = bcPaste
             /\ bcTab'.id = by /\ bcTab'.csrf = by /\ bcTab'.connected /\ bcCall["boot"].says = "ok"
    BY <1>5, <2>0, <2>1, BootedCases DEF Came, NoCall
  <2>2. CASE /\ bcTab.id # by /\ bcCall' = Invalidated(Over("boot")) /\ bcView' = EmptyView
             /\ bcItem' = Cancelled(bcItem) /\ bcPaste' = NoPaste
             /\ bcTab'.id = by /\ bcTab'.csrf = by /\ bcTab'.connected /\ bcCall["boot"].says = "ok"
    <3>1. /\ \A c \in Calls : Left(c, bcCall[c], bcCall'[c])
          /\ bcCall'["boot"] = NoCall /\ bcCall'["ping"] = bcCall["ping"]
      BY <2>0, <2>2, RetiredCalls
    <3>2. bcItem'.home = bcItem.home /\ bcItem'.status \notin {"queued", "uploading"} /\ (bcItem'.status = bcItem.status \/ bcItem'.status = "cancelled")
      BY <2>2, CancelledFields
    <3>3. bcView'.home = BCNone /\ bcView'.files = "none" /\ bcPaste'.home = BCNone /\ bcPaste'.left = 0 /\ bcPaste'.asking = FALSE
      BY <2>2 DEF EmptyView, NoPaste
    <3>4. Settled /\ Came("boot") /\ bcLive' = bcLive /\ bcMade' = bcMade /\ bcCookie' = bcCookie /\ bcSso' = bcSso
      BY <1>5, BootedCases
    <3> HIDE <2>2
    <3>6. by = bcCall["boot"].by
      OBVIOUS
    <3> HIDE DEF by
    <3>5. /\ bcTab.id # by /\ bcTab'.id = by /\ bcTab'.csrf = by /\ bcTab'.connected /\ bcCall["boot"].says = "ok"
      BY <2>2
    <3> QED BY <3>1, <3>2, <3>3, <3>4, <3>5, <3>6 DEF Came, NoCall, Left
  <2>3. CASE /\ bcCall' = Over("boot") /\ bcView' = bcView /\ bcItem' = bcItem /\ bcPaste' = bcPaste
             /\ \/ bcTab' = bcTab
                \/ /\ bcCall["boot"].says = "disconnected"
                   /\ bcTab'.id = bcTab.id /\ ~bcTab'.connected /\ bcTab'.csrf \in {bcTab.csrf, bcCall["boot"].csrf}
    BY <1>5, <2>0, <2>3, BootedCases DEF Came, NoCall
  <2> QED BY <1>5, <2>0, <2>1, <2>2, <2>3, BootedCases, AdoptEffect
<1>6. CASE \E c \in {"connect", "sso"} : BCLoggedIn(c)
  <2>1. PICK c \in {"connect", "sso"} : BCLoggedIn(c)
    BY <1>6
  <2> DEFINE by == bcCall[c].by
             at == IF c = "sso" THEN [Over(c) EXCEPT !["boot"] = [NoCall EXCEPT !.at = "waiting"]] ELSE Over(c)
  <2>2. /\ c \in Calls /\ by \in Maybe /\ by # BCNone /\ bcCall[c].at = "answered"
        /\ Adopt(by, at) /\ (bcSso' <=> bcSso /\ c # "sso")
    BY <2>1 DEF BCLoggedIn, Came
  <2>3. /\ at \in [Calls -> CallRecords] /\ at[c] = NoCall
        /\ c # "sso" => at["boot"] = bcCall["boot"]
        /\ c = "sso" => at["boot"].says = "nothing"
        /\ \A d \in Calls \ {c, "boot"} : at[d] = bcCall[d]
    BY <2>2, OverType, WaitingType DEF Over, NoCall
  <2> HIDE DEF by, at
  <2>4. bcTab'.id = by /\ bcTab'.csrf = by /\ bcTab'.connected /\ (bcCall' = at \/ bcCall' = Invalidated(at))
    BY <2>2, AdoptEffect
  <2>5. \A d \in Calls : bcCall'[d] = at[d] \/ Left(d, at[d], bcCall'[d])
    BY <2>3, <2>4, InvalidatedLeft
  <2>6. (c = "sso" => ~bcSso') /\ (c = "connect" => (bcSso' <=> bcSso))
    BY <2>2
  <2>7. bcCall'["sso"].at # "none" => bcSso'
    <3>1. at["sso"].at # "none" => c = "connect" /\ bcCall["sso"].at # "none"
      BY <2>1, <2>3 DEF NoCall
    <3> QED BY <3>1, <2>5, <2>6 DEF Left
  <2>8. bcCall'["boot"].at # "none" => ~bcSso'
    <3>1. CASE c = "sso"
      BY <3>1, <2>6
    <3>2. CASE c = "connect"
      BY <3>2, <2>3, <2>5, <2>6 DEF Left
    <3> QED BY <2>1, <3>1, <3>2
  <2>9. ASSUME NEW d \in {"connect", "sso", "boot"}, bcCall'[d].says = "ok" PROVE bcCall'[d].by # BCNone
    <3>1. at[d].says = "ok" /\ bcCall'[d].by = at[d].by
      BY <2>5, <2>9 DEF Left
    <3>a. d # c
      <4>1. at[c].says = "nothing"
        BY <2>3 DEF NoCall
      <4> QED BY <4>1, <3>1
    <3>b. d = "boot" => c # "sso"
      BY <3>1, <2>3
    <3>2. d # c /\ (d = "boot" => c # "sso")
      BY <3>a, <3>b
    <3>3. at[d] = bcCall[d]
      BY <3>2, <2>3, <2>9
    <3> QED BY <3>1, <3>3, <2>9
  <2> QED BY <2>2, <2>4, <2>7, <2>8, <2>9
<1>7. CASE \E c \in {"connect", "sso"} : BCNotLoggedIn(c)
  <2>1. PICK c \in {"connect", "sso"} : BCNotLoggedIn(c)
    BY <1>7
  <2>2. (bcSso' => bcSso) /\ (c = "connect" => (bcSso <=> bcSso'))
    BY <2>1 DEF BCNotLoggedIn
  <2>3. bcTab' = bcTab /\ bcCall' = [bcCall EXCEPT ![c] = NoCall]
    BY <2>1 DEF BCNotLoggedIn, Over
  <2> QED BY <2>1, <2>2, <2>3 DEF NoCall
<1>8. CASE \E c \in Clicks : BCDisconnect(c)
  BY <1>8 DEF BCDisconnect, Invalidated, Settled, Free, BCRequest, DropWork, bcServer, NoCall, Tokenless,
      EmptyView, NoPaste, Cancelled
<1>9. CASE \E c \in Clicks : BCDisconnected(c)
  BY <1>9 DEF BCDisconnected, Settled, Came, LoggedOff, Over, EmptyView, LoggedOut, bcServer, NoCall
<1>10. CASE \E c \in Clicks : BCDisconnectAborted(c)
  BY <1>10 DEF BCDisconnectAborted, LoggedOff, Over, EmptyView, LoggedOut, bcServer, NoCall
<1>11. CASE BCCheck
  BY <1>11 DEF BCCheck, Settled, Free, BCRequest, bcServer, bcWork, Tokenless
<1>12. CASE BCChecked
  BY <1>12 DEF BCChecked, Settled, Came, Over, Losing, LoseSession, bcServer, bcWork, NoCall, Retire,
      Invalidated, DropWork, EmptyView, NoPaste, Cancelled
<1>13. CASE BCAcknowledge
  BY <1>13 DEF BCAcknowledge, Settled, EmptyView, Cancelled, LoggedOut, bcServer
<1>14. CASE \E c \in Listings : BCList(c)
  BY <1>14 DEF BCList, Settled, Free, AwaitList, Listed, bcServer, BCRequest, Tokenless
<1>15. CASE \E c \in Listings : BCListed(c)
  BY <1>15 DEF BCListed, Settled, Came, Over, Raises, Shown, bcServer, NoCall, Losing
<1>16. CASE BCAddEntry
  BY <1>16 DEF BCAddEntry, bcServer
<1>17. CASE BCCancelItem
  BY <1>17 DEF BCCancelItem, Over, Cancelled, bcServer, NoCall
<1>18. CASE BCRetryItem
  BY <1>18 DEF BCRetryItem, bcServer
<1>19. CASE \E c \in Tries : BCTransfer(c)
  BY <1>19 DEF BCTransfer, Settled, Free, BCRequest, bcServer, Tokenless
<1>20. CASE \E c \in Tries : BCSent(c)
  BY <1>20 DEF BCSent, Settled, Came, Over, Raises, NoCall, bcServer, Losing
<1>21. CASE \E c \in Tries : BCBackoff(c)
  BY <1>21 DEF BCBackoff, Settled, Over, BCRequest, bcServer, bcWork, NoCall, Tokenless
<1>22. CASE BCPaste
  BY <1>22 DEF BCPaste, Free, BCRequest, NoPaste, bcServer, Tokenless
<1>23. CASE BCPasteChoice
  BY <1>23 DEF BCPasteChoice, Free, BCRequest, NoPaste, bcServer, Tokenless
<1>24. CASE BCPasted
  <2>0. /\ bcLive' = bcLive /\ bcMade' = bcMade /\ bcCookie' = bcCookie /\ bcSso' = bcSso /\ bcTab' = bcTab /\ bcItem' = bcItem
        /\ bcCall["paste"].at = "answered" /\ "paste" \in Calls /\ Listings \subseteq Calls
    BY <1>24 DEF BCPasted, Came, bcServer
  <2>1. CASE /\ bcPaste' = [bcPaste EXCEPT !.left = @ - 1] /\ bcPaste.left > 1
             /\ bcCall' = [bcCall EXCEPT !["paste"] = BCRequest("paste", bcPaste.home)]
             /\ UNCHANGED bcView
    <3>1. bcPaste'.home = bcPaste.home /\ bcPaste'.asking = bcPaste.asking /\ bcPaste.left > 0 /\ bcView' = bcView
      BY <2>1
    <3>2. \A d \in Calls : bcCall'[d] = IF d = "paste" THEN BCRequest("paste", bcPaste.home) ELSE bcCall[d]
      BY <2>1
    <3> QED BY <2>0, <3>1, <3>2 DEF BCRequest, Tokenless
  <2>2. ASSUME NEW c \in Listings, bcCall[c].at = "none", bcPaste' = NoPaste,
               bcCall' = Listed(Over("paste"), c), AwaitList(c)
        PROVE  LoginInv'
    <3>1. bcPaste'.home = BCNone /\ bcPaste'.left = 0 /\ ~bcPaste'.asking /\ bcView'.home = bcView.home /\ bcView'.files = bcView.files
      BY <2>2 DEF AwaitList, NoPaste
    <3>2. \A d \in Calls : bcCall'[d] = IF d = c THEN BCRequest(c, bcTab.id) ELSE IF d = "paste" THEN NoCall ELSE bcCall[d]
      BY <2>0, <2>2 DEF Listed, Over
    <3> QED BY <2>0, <3>1, <3>2 DEF BCRequest, NoCall, Tokenless
  <2> QED BY <1>24, <2>1, <2>2 DEF BCPasted
<1>25. CASE BCZip
  BY <1>25 DEF BCZip, Free, BCRequest, bcServer, bcWork, Tokenless
<1>26. CASE BCZipped
  BY <1>26 DEF BCZipped, Settled, Came, Over, bcServer, bcWork, NoCall
<1>27. CASE BCErrorRead
  BY <1>27 DEF BCErrorRead, Settled, Over, Losing, LoseSession, bcServer, bcWork, NoCall, Retire,
      Invalidated, DropWork, EmptyView, NoPaste, Cancelled
<1>28. CASE \E c \in Calls : BCRefused(c)
  BY <1>28 DEF BCRefused, Settled, Came, Over, Raises, LoseSession, NoCall, Losing, Retire, bcServer,
      Invalidated, DropWork, EmptyView, NoPaste, Cancelled
<1>29. CASE \E c \in {"connect", "sso"} : BCServeLogin(c)
  BY <1>29 DEF BCServeLogin, Answered, bcWork
<1>30. CASE \E c \in {"connect", "sso"} : BCServePrompt(c)
  BY <1>30 DEF BCServePrompt, Answered, bcServer, bcWork
<1>31. CASE \E c \in Unregistered : BCServeStatus(c)
  BY <1>31 DEF BCServeStatus, Answered, bcServer, bcWork
<1>32. CASE \E c \in Bound : BCServeWork(c)
  BY <1>32 DEF BCServeWork, Admitted, Answered, bcServer, bcWork, Tokenless
<1>33. CASE \E c \in Clicks : BCServeDisconnect(c)
  BY <1>33 DEF BCServeDisconnect, Admitted, Answered, bcWork, Tokenless
<1>34. CASE \E c \in Calls : BCFail(c)
  BY <1>34 DEF BCFail, Answered, bcServer, bcWork
<1>35. CASE \E c \in Listings \cup Unregistered : BCRepeat(c)
  BY <1>35 DEF BCRepeat, bcServer, bcWork
<1>36. CASE BCOtherLogin
  BY <1>36 DEF BCOtherLogin, bcWork
<1>37. CASE BCOtherLogout
  BY <1>37 DEF BCOtherLogout, bcWork
<1>38. CASE \E s \in BCSessions : BCSessionEnds(s)
  BY <1>38 DEF BCSessionEnds, bcWork
<1>39. CASE UNCHANGED bcvars
  BY <1>39 DEF bcvars, bcServer, bcWork
<1> QED BY <1>1, <1>2, <1>3, <1>4, <1>5, <1>6, <1>7, <1>8, <1>9, <1>10, <1>11, <1>12, <1>13, <1>14, <1>15,
    <1>16, <1>17, <1>18, <1>19, <1>20, <1>21, <1>22, <1>23, <1>24, <1>25, <1>26, <1>27, <1>28, <1>29,
    <1>30, <1>31, <1>32, <1>33, <1>34, <1>35, <1>36, <1>37, <1>38, <1>39 DEF BCNext, BCLogin, BCLogout,
    BCWorking, BCEnvironment

\* A session that a login has made is not in the tab's hands before its answer.
LEMMA SecretStep ==
  ASSUME BCTypeOK, NamesMade, LoginInv, Secret, [BCNext]_bcvars
  PROVE  Secret'
<1> USE BCAssumption DEF Secret, NamesMade, LoginInv, Made, BCTypeOK, CallRecords, Calls, Bound, Writes,
    Unregistered, Logins
<1>1. CASE BCConnect
  BY <1>1 DEF BCConnect, Settled, Free, BCRequest, bcServer, bcWork, Tokenless
<1>2. CASE BCSsoConnect
  BY <1>2 DEF BCSsoConnect, Settled, Free, BCRequest, bcServer, bcWork, Tokenless
<1>3. CASE BCCancelSso
  BY <1>3 DEF BCCancelSso, Settled, Free, bcServer, bcWork
<1>4. CASE BCBoot
  BY <1>4 DEF BCBoot, Settled, BCRequest, bcServer, bcWork, Tokenless
<1>5. CASE BCBooted
  <2>0. /\ "boot" \in Calls /\ bcCall["boot"] \in CallRecords /\ bcCall["boot"].by \in Maybe
        /\ Over("boot") \in [Calls -> CallRecords]
        /\ \A c \in Calls : Over("boot")[c] = IF c = "boot" THEN NoCall ELSE bcCall[c]
    BY OverType DEF Over
  <2> DEFINE by == bcCall["boot"].by
  <2>1. CASE /\ bcTab.id = by /\ bcCall' = Over("boot") /\ bcView' = bcView /\ bcItem' = bcItem /\ bcPaste' = bcPaste
             /\ bcTab'.id = by /\ bcTab'.csrf = by /\ bcTab'.connected /\ bcCall["boot"].says = "ok"
    BY <1>5, <2>0, <2>1, BootedCases DEF Came, NoCall
  <2>2. CASE /\ bcTab.id # by /\ bcCall' = Invalidated(Over("boot")) /\ bcView' = EmptyView
             /\ bcItem' = Cancelled(bcItem) /\ bcPaste' = NoPaste
             /\ bcTab'.id = by /\ bcTab'.csrf = by /\ bcTab'.connected /\ bcCall["boot"].says = "ok"
    <3>1. /\ \A c \in Calls : Left(c, bcCall[c], bcCall'[c])
          /\ bcCall'["boot"] = NoCall /\ bcCall'["ping"] = bcCall["ping"]
      BY <2>0, <2>2, RetiredCalls
    <3>2. bcItem'.home = bcItem.home /\ bcItem'.status \notin {"queued", "uploading"} /\ (bcItem'.status = bcItem.status \/ bcItem'.status = "cancelled")
      BY <2>2, CancelledFields
    <3>3. bcView'.home = BCNone /\ bcView'.files = "none" /\ bcPaste'.home = BCNone /\ bcPaste'.left = 0 /\ bcPaste'.asking = FALSE
      BY <2>2 DEF EmptyView, NoPaste
    <3>4. Settled /\ Came("boot") /\ bcLive' = bcLive /\ bcMade' = bcMade /\ bcCookie' = bcCookie /\ bcSso' = bcSso
      BY <1>5, BootedCases
    <3> HIDE <2>2
    <3>6. by = bcCall["boot"].by
      OBVIOUS
    <3> HIDE DEF by
    <3>5. /\ bcTab.id # by /\ bcTab'.id = by /\ bcTab'.csrf = by /\ bcTab'.connected /\ bcCall["boot"].says = "ok"
      BY <2>2
    <3> QED BY <3>1, <3>2, <3>3, <3>4, <3>5, <3>6 DEF Came, NoCall, Left
  <2>3. CASE /\ bcCall' = Over("boot") /\ bcView' = bcView /\ bcItem' = bcItem /\ bcPaste' = bcPaste
             /\ \/ bcTab' = bcTab
                \/ /\ bcCall["boot"].says = "disconnected"
                   /\ bcTab'.id = bcTab.id /\ ~bcTab'.connected /\ bcTab'.csrf \in {bcTab.csrf, bcCall["boot"].csrf}
    BY <1>5, <2>0, <2>3, BootedCases DEF Came, NoCall
  <2> QED BY <1>5, <2>0, <2>1, <2>2, <2>3, BootedCases, AdoptEffect
<1>6. CASE \E c \in {"connect", "sso"} : BCLoggedIn(c)
  BY <1>6 DEF BCLoggedIn, Settled, Came, Over, NoCall, Adopt, bcServer, Retire, bcWork, Invalidated,
      DropWork, EmptyView, NoPaste, Cancelled
<1>7. CASE \E c \in {"connect", "sso"} : BCNotLoggedIn(c)
  BY <1>7 DEF BCNotLoggedIn, Settled, Came, Over, bcServer, bcWork, NoCall
<1>8. CASE \E c \in Clicks : BCDisconnect(c)
  <2>1. PICK c \in Clicks : BCDisconnect(c)
    BY <1>8
  <2>2. /\ bcCookie' = bcCookie /\ bcTab'.id = bcTab.id /\ bcItem'.home = bcItem.home
        /\ bcPaste'.home = BCNone /\ bcCall'[c] = BCRequest(c, bcTab.id)
        /\ \A d \in Calls \ {c} : Left(d, bcCall[d], bcCall'[d])
    BY <2>1, DisconnectEffect
  <2>3. bcCall'[c].by = BCNone /\ bcCall'[c].cookie = bcCookie /\ bcCall'[c].home = bcTab.id
    BY <2>2 DEF BCRequest
  <2>4. c \notin Logins
    OBVIOUS
  <2> QED BY <2>2, <2>3, <2>4 DEF Left
<1>9. CASE \E c \in Clicks : BCDisconnected(c)
  BY <1>9 DEF BCDisconnected, Settled, Came, LoggedOff, Over, EmptyView, LoggedOut, bcServer, NoCall
<1>10. CASE \E c \in Clicks : BCDisconnectAborted(c)
  BY <1>10 DEF BCDisconnectAborted, LoggedOff, Over, EmptyView, LoggedOut, bcServer, NoCall
<1>11. CASE BCCheck
  BY <1>11 DEF BCCheck, Settled, Free, BCRequest, bcServer, bcWork, Tokenless
<1>12. CASE BCChecked
  BY <1>12 DEF BCChecked, Settled, Came, Over, Losing, LoseSession, bcServer, bcWork, NoCall, Retire,
      Invalidated, DropWork, EmptyView, NoPaste, Cancelled
<1>13. CASE BCAcknowledge
  BY <1>13 DEF BCAcknowledge, Settled, EmptyView, Cancelled, LoggedOut, bcServer
<1>14. CASE \E c \in Listings : BCList(c)
  BY <1>14 DEF BCList, Settled, Free, AwaitList, Listed, bcServer, BCRequest, Tokenless
<1>15. CASE \E c \in Listings : BCListed(c)
  BY <1>15 DEF BCListed, Settled, Came, Over, Raises, Shown, bcServer, NoCall, Losing
<1>16. CASE BCAddEntry
  BY <1>16 DEF BCAddEntry, bcServer
<1>17. CASE BCCancelItem
  BY <1>17 DEF BCCancelItem, Over, Cancelled, bcServer, NoCall
<1>18. CASE BCRetryItem
  BY <1>18 DEF BCRetryItem, bcServer
<1>19. CASE \E c \in Tries : BCTransfer(c)
  BY <1>19 DEF BCTransfer, Settled, Free, BCRequest, bcServer, Tokenless
<1>20. CASE \E c \in Tries : BCSent(c)
  BY <1>20 DEF BCSent, Settled, Came, Over, Raises, NoCall, bcServer, Losing
<1>21. CASE \E c \in Tries : BCBackoff(c)
  BY <1>21 DEF BCBackoff, Settled, Over, BCRequest, bcServer, bcWork, NoCall, Tokenless
<1>22. CASE BCPaste
  BY <1>22 DEF BCPaste, Free, BCRequest, NoPaste, bcServer, Tokenless
<1>23. CASE BCPasteChoice
  BY <1>23 DEF BCPasteChoice, Free, BCRequest, NoPaste, bcServer, Tokenless
<1>24. CASE BCPasted
  <2>0. /\ bcLive' = bcLive /\ bcMade' = bcMade /\ bcCookie' = bcCookie /\ bcSso' = bcSso /\ bcTab' = bcTab /\ bcItem' = bcItem
        /\ bcCall["paste"].at = "answered" /\ "paste" \in Calls /\ Listings \subseteq Calls
    BY <1>24 DEF BCPasted, Came, bcServer
  <2>1. CASE /\ bcPaste' = [bcPaste EXCEPT !.left = @ - 1] /\ bcPaste.left > 1
             /\ bcCall' = [bcCall EXCEPT !["paste"] = BCRequest("paste", bcPaste.home)]
             /\ UNCHANGED bcView
    <3>1. bcPaste'.home = bcPaste.home /\ bcPaste'.asking = bcPaste.asking /\ bcPaste.left > 0 /\ bcView' = bcView
      BY <2>1
    <3>2. \A d \in Calls : bcCall'[d] = IF d = "paste" THEN BCRequest("paste", bcPaste.home) ELSE bcCall[d]
      BY <2>1
    <3> QED BY <2>0, <3>1, <3>2 DEF BCRequest, Tokenless
  <2>2. ASSUME NEW c \in Listings, bcCall[c].at = "none", bcPaste' = NoPaste,
               bcCall' = Listed(Over("paste"), c), AwaitList(c)
        PROVE  Secret'
    <3>1. bcPaste'.home = BCNone /\ bcPaste'.left = 0 /\ ~bcPaste'.asking /\ bcView'.home = bcView.home /\ bcView'.files = bcView.files
      BY <2>2 DEF AwaitList, NoPaste
    <3>2. \A d \in Calls : bcCall'[d] = IF d = c THEN BCRequest(c, bcTab.id) ELSE IF d = "paste" THEN NoCall ELSE bcCall[d]
      BY <2>0, <2>2 DEF Listed, Over
    <3> QED BY <2>0, <3>1, <3>2 DEF BCRequest, NoCall, Tokenless
  <2> QED BY <1>24, <2>1, <2>2 DEF BCPasted
<1>25. CASE BCZip
  BY <1>25 DEF BCZip, Free, BCRequest, bcServer, bcWork, Tokenless
<1>26. CASE BCZipped
  BY <1>26 DEF BCZipped, Settled, Came, Over, bcServer, bcWork, NoCall
<1>27. CASE BCErrorRead
  BY <1>27 DEF BCErrorRead, Settled, Over, Losing, LoseSession, bcServer, bcWork, NoCall, Retire,
      Invalidated, DropWork, EmptyView, NoPaste, Cancelled
<1>28. CASE \E c \in Calls : BCRefused(c)
  <2>1. PICK c \in Calls : BCRefused(c)
    BY <1>28
  <2>2. \A d \in Calls : Left(d, bcCall[d], bcCall'[d])
    BY <2>1, RetiredCalls DEF BCRefused, LoseSession, Retire
  <2>3. /\ bcLive' = bcLive /\ bcMade' = bcMade /\ bcCookie' = bcCookie /\ bcTab'.id = bcTab.id
        /\ bcItem'.home = bcItem.home /\ bcPaste'.home = BCNone
    BY <2>1, CancelledFields DEF BCRefused, LoseSession, Retire, DropWork, NoPaste, bcServer
  <2> QED BY <2>2, <2>3 DEF Left
<1>29. CASE \E c \in {"connect", "sso"} : BCServeLogin(c)
  BY <1>29 DEF BCServeLogin, Answered, bcWork
<1>30. CASE \E c \in {"connect", "sso"} : BCServePrompt(c)
  BY <1>30 DEF BCServePrompt, Answered, bcServer, bcWork
<1>31. CASE \E c \in Unregistered : BCServeStatus(c)
  BY <1>31 DEF BCServeStatus, Answered, bcServer, bcWork
<1>32. CASE \E c \in Bound : BCServeWork(c)
  BY <1>32 DEF BCServeWork, Admitted, Answered, bcServer, bcWork, Tokenless
<1>33. CASE \E c \in Clicks : BCServeDisconnect(c)
  BY <1>33 DEF BCServeDisconnect, Admitted, Answered, bcWork, Tokenless
<1>34. CASE \E c \in Calls : BCFail(c)
  BY <1>34 DEF BCFail, Answered, bcServer, bcWork
<1>35. CASE \E c \in Listings \cup Unregistered : BCRepeat(c)
  BY <1>35 DEF BCRepeat, bcServer, bcWork
<1>36. CASE BCOtherLogin
  BY <1>36 DEF BCOtherLogin, bcWork
<1>37. CASE BCOtherLogout
  BY <1>37 DEF BCOtherLogout, bcWork
<1>38. CASE \E s \in BCSessions : BCSessionEnds(s)
  BY <1>38 DEF BCSessionEnds, bcWork
<1>39. CASE UNCHANGED bcvars
  BY <1>39 DEF bcvars, bcServer, bcWork
<1> QED BY <1>1, <1>2, <1>3, <1>4, <1>5, <1>6, <1>7, <1>8, <1>9, <1>10, <1>11, <1>12, <1>13, <1>14, <1>15,
    <1>16, <1>17, <1>18, <1>19, <1>20, <1>21, <1>22, <1>23, <1>24, <1>25, <1>26, <1>27, <1>28, <1>29,
    <1>30, <1>31, <1>32, <1>33, <1>34, <1>35, <1>36, <1>37, <1>38, <1>39 DEF BCNext, BCLogin, BCLogout,
    BCWorking, BCEnvironment

\* A refusal is kept with the reason for it: a session that has ended stays so.
LEMMA LostInvStep ==
  ASSUME BCTypeOK, NamesMade, LoginInv, Secret, LostInv, [BCNext]_bcvars
  PROVE  LostInv'
<1> USE BCAssumption DEF LostInv, Lost, LoginInv, Secret, NamesMade, Made, BCTypeOK, CallRecords, Calls,
    Bound, Writes, Unregistered, Logins
<1>1. CASE BCConnect
  BY <1>1 DEF BCConnect, Settled, Free, BCRequest, bcServer, bcWork, Tokenless
<1>2. CASE BCSsoConnect
  BY <1>2 DEF BCSsoConnect, Settled, Free, BCRequest, bcServer, bcWork, Tokenless
<1>3. CASE BCCancelSso
  BY <1>3 DEF BCCancelSso, Settled, Free, bcServer, bcWork
<1>4. CASE BCBoot
  BY <1>4 DEF BCBoot, Settled, BCRequest, bcServer, bcWork, Tokenless
<1>5. CASE BCBooted
  <2>0. /\ "boot" \in Calls /\ bcCall["boot"] \in CallRecords /\ bcCall["boot"].by \in Maybe
        /\ Over("boot") \in [Calls -> CallRecords]
        /\ \A c \in Calls : Over("boot")[c] = IF c = "boot" THEN NoCall ELSE bcCall[c]
    BY OverType DEF Over
  <2> DEFINE by == bcCall["boot"].by
  <2>1. CASE /\ bcTab.id = by /\ bcCall' = Over("boot") /\ bcView' = bcView /\ bcItem' = bcItem /\ bcPaste' = bcPaste
             /\ bcTab'.id = by /\ bcTab'.csrf = by /\ bcTab'.connected /\ bcCall["boot"].says = "ok"
    BY <1>5, <2>0, <2>1, BootedCases DEF Came, NoCall
  <2>2. CASE /\ bcTab.id # by /\ bcCall' = Invalidated(Over("boot")) /\ bcView' = EmptyView
             /\ bcItem' = Cancelled(bcItem) /\ bcPaste' = NoPaste
             /\ bcTab'.id = by /\ bcTab'.csrf = by /\ bcTab'.connected /\ bcCall["boot"].says = "ok"
    <3>1. /\ \A c \in Calls : Left(c, bcCall[c], bcCall'[c])
          /\ bcCall'["boot"] = NoCall /\ bcCall'["ping"] = bcCall["ping"]
      BY <2>0, <2>2, RetiredCalls
    <3>2. bcItem'.home = bcItem.home /\ bcItem'.status \notin {"queued", "uploading"} /\ (bcItem'.status = bcItem.status \/ bcItem'.status = "cancelled")
      BY <2>2, CancelledFields
    <3>3. bcView'.home = BCNone /\ bcView'.files = "none" /\ bcPaste'.home = BCNone /\ bcPaste'.left = 0 /\ bcPaste'.asking = FALSE
      BY <2>2 DEF EmptyView, NoPaste
    <3>4. Settled /\ Came("boot") /\ bcLive' = bcLive /\ bcMade' = bcMade /\ bcCookie' = bcCookie /\ bcSso' = bcSso
      BY <1>5, BootedCases
    <3> HIDE <2>2
    <3>6. by = bcCall["boot"].by
      OBVIOUS
    <3> HIDE DEF by
    <3>5. /\ bcTab.id # by /\ bcTab'.id = by /\ bcTab'.csrf = by /\ bcTab'.connected /\ bcCall["boot"].says = "ok"
      BY <2>2
    <3> QED BY <3>1, <3>2, <3>3, <3>4, <3>5, <3>6 DEF Came, NoCall, Left
  <2>3. CASE /\ bcCall' = Over("boot") /\ bcView' = bcView /\ bcItem' = bcItem /\ bcPaste' = bcPaste
             /\ \/ bcTab' = bcTab
                \/ /\ bcCall["boot"].says = "disconnected"
                   /\ bcTab'.id = bcTab.id /\ ~bcTab'.connected /\ bcTab'.csrf \in {bcTab.csrf, bcCall["boot"].csrf}
    BY <1>5, <2>0, <2>3, BootedCases DEF Came, NoCall
  <2> QED BY <1>5, <2>0, <2>1, <2>2, <2>3, BootedCases, AdoptEffect
<1>6. CASE \E c \in {"connect", "sso"} : BCLoggedIn(c)
  <2>1. PICK c \in Logins : BCLoggedIn(c)
    BY <1>6
  <2>2. /\ bcCall[c].says = "ok" /\ bcLive' = bcLive /\ bcMade' = bcMade
        /\ bcCookie' = bcCall[c].by /\ bcTab'.id = bcCall[c].by /\ bcTab'.csrf = bcCall[c].by
        /\ bcTab'.connected /\ bcCall'["ping"] = bcCall["ping"]
        /\ \/ /\ bcTab.id = bcCall[c].by /\ bcItem' = bcItem
              /\ \A d \in Bound : bcCall'[d] = bcCall[d]
           \/ /\ \A d \in Bound : Left(d, bcCall[d], bcCall'[d])
              /\ bcItem'.home = bcItem.home
              /\ bcItem'.status = bcItem.status \/ bcItem'.status = "cancelled"
    BY <2>1, LoggedInEffect
  <2>3. bcCall[c].by # BCNone /\ bcCall[c].by # bcTab.id /\ bcCall[c].by # bcCookie /\ bcCall[c].by # bcCall["ping"].home
    BY <2>1, <2>2
  <2>4. \A d \in Bound : bcCall'[d].at \notin {"sent", "answered", "reading"}
    BY <2>2, <2>3 DEF Left
  <2> QED BY <2>2, <2>3, <2>4
<1>7. CASE \E c \in {"connect", "sso"} : BCNotLoggedIn(c)
  BY <1>7 DEF BCNotLoggedIn, Settled, Came, Over, bcServer, bcWork, NoCall
<1>8. CASE \E c \in Clicks : BCDisconnect(c)
  <2>1. PICK c \in Clicks : BCDisconnect(c)
    BY <1>8
  <2>2. /\ bcLive' = bcLive /\ bcCookie' = bcCookie /\ bcTab.connected /\ bcTab'.id = bcTab.id
        /\ \A d \in Calls \ {c} : Left(d, bcCall[d], bcCall'[d])
        /\ bcCall'["ping"] = bcCall["ping"]
    BY <2>1, DisconnectEffect
  <2>3. \A d \in Bound : d \in Calls \ {c} /\ d \notin Unregistered
    OBVIOUS
  <2>4. \A d \in Bound : bcCall'[d].at \notin {"sent", "answered", "reading"}
    BY <2>2, <2>3 DEF Left
  <2> QED BY <2>2, <2>4
<1>9. CASE \E c \in Clicks : BCDisconnected(c)
  BY <1>9 DEF BCDisconnected, Settled, Came, LoggedOff, Over, EmptyView, LoggedOut, bcServer, NoCall
<1>10. CASE \E c \in Clicks : BCDisconnectAborted(c)
  BY <1>10 DEF BCDisconnectAborted, LoggedOff, Over, EmptyView, LoggedOut, bcServer, NoCall
<1>11. CASE BCCheck
  BY <1>11 DEF BCCheck, Settled, Free, BCRequest, bcServer, bcWork, Tokenless
<1>12. CASE BCChecked
  BY <1>12 DEF BCChecked, Settled, Came, Over, Losing, LoseSession, bcServer, bcWork, NoCall, Retire,
      Invalidated, DropWork, EmptyView, NoPaste, Cancelled
<1>13. CASE BCAcknowledge
  BY <1>13 DEF BCAcknowledge, Settled, EmptyView, Cancelled, LoggedOut, bcServer
<1>14. CASE \E c \in Listings : BCList(c)
  BY <1>14 DEF BCList, Settled, Free, AwaitList, Listed, bcServer, BCRequest, Tokenless
<1>15. CASE \E c \in Listings : BCListed(c)
  BY <1>15 DEF BCListed, Settled, Came, Over, Raises, Shown, bcServer, NoCall, Losing
<1>16. CASE BCAddEntry
  BY <1>16 DEF BCAddEntry, bcServer
<1>17. CASE BCCancelItem
  BY <1>17 DEF BCCancelItem, Over, Cancelled, bcServer, NoCall
<1>18. CASE BCRetryItem
  BY <1>18 DEF BCRetryItem, bcServer
<1>19. CASE \E c \in Tries : BCTransfer(c)
  BY <1>19 DEF BCTransfer, Settled, Free, BCRequest, bcServer, Tokenless
<1>20. CASE \E c \in Tries : BCSent(c)
  BY <1>20 DEF BCSent, Settled, Came, Over, Raises, NoCall, bcServer, Losing
<1>21. CASE \E c \in Tries : BCBackoff(c)
  BY <1>21 DEF BCBackoff, Settled, Over, BCRequest, bcServer, bcWork, NoCall, Tokenless
<1>22. CASE BCPaste
  BY <1>22 DEF BCPaste, Free, BCRequest, NoPaste, bcServer, Tokenless
<1>23. CASE BCPasteChoice
  BY <1>23 DEF BCPasteChoice, Free, BCRequest, NoPaste, bcServer, Tokenless
<1>24. CASE BCPasted
  <2>0. /\ bcLive' = bcLive /\ bcMade' = bcMade /\ bcCookie' = bcCookie /\ bcSso' = bcSso /\ bcTab' = bcTab /\ bcItem' = bcItem
        /\ bcCall["paste"].at = "answered" /\ "paste" \in Calls /\ Listings \subseteq Calls
    BY <1>24 DEF BCPasted, Came, bcServer
  <2>1. CASE /\ bcPaste' = [bcPaste EXCEPT !.left = @ - 1] /\ bcPaste.left > 1
             /\ bcCall' = [bcCall EXCEPT !["paste"] = BCRequest("paste", bcPaste.home)]
             /\ UNCHANGED bcView
    <3>1. bcPaste'.home = bcPaste.home /\ bcPaste'.asking = bcPaste.asking /\ bcPaste.left > 0 /\ bcView' = bcView
      BY <2>1
    <3>2. \A d \in Calls : bcCall'[d] = IF d = "paste" THEN BCRequest("paste", bcPaste.home) ELSE bcCall[d]
      BY <2>1
    <3> QED BY <2>0, <3>1, <3>2 DEF BCRequest, Tokenless
  <2>2. ASSUME NEW c \in Listings, bcCall[c].at = "none", bcPaste' = NoPaste,
               bcCall' = Listed(Over("paste"), c), AwaitList(c)
        PROVE  LostInv'
    <3>1. bcPaste'.home = BCNone /\ bcPaste'.left = 0 /\ ~bcPaste'.asking /\ bcView'.home = bcView.home /\ bcView'.files = bcView.files
      BY <2>2 DEF AwaitList, NoPaste
    <3>2. \A d \in Calls : bcCall'[d] = IF d = c THEN BCRequest(c, bcTab.id) ELSE IF d = "paste" THEN NoCall ELSE bcCall[d]
      BY <2>0, <2>2 DEF Listed, Over
    <3> QED BY <2>0, <3>1, <3>2 DEF BCRequest, NoCall, Tokenless
  <2> QED BY <1>24, <2>1, <2>2 DEF BCPasted
<1>25. CASE BCZip
  BY <1>25 DEF BCZip, Free, BCRequest, bcServer, bcWork, Tokenless
<1>26. CASE BCZipped
  BY <1>26 DEF BCZipped, Settled, Came, Over, bcServer, bcWork, NoCall
<1>27. CASE BCErrorRead
  BY <1>27 DEF BCErrorRead, Settled, Over, Losing, LoseSession, bcServer, bcWork, NoCall, Retire,
      Invalidated, DropWork, EmptyView, NoPaste, Cancelled
<1>28. CASE \E c \in Calls : BCRefused(c)
  <2>1. PICK c \in Calls : BCRefused(c)
    BY <1>28
  <2>2. \A d \in Calls : Left(d, bcCall[d], bcCall'[d])
    BY <2>1, RetiredCalls DEF BCRefused, LoseSession, Retire
  <2>3. /\ bcLive' = bcLive /\ bcMade' = bcMade /\ bcCookie' = bcCookie /\ bcTab'.id = bcTab.id
        /\ bcItem'.home = bcItem.home /\ bcPaste'.home = BCNone
    BY <2>1, CancelledFields DEF BCRefused, LoseSession, Retire, DropWork, NoPaste, bcServer
  <2>4. \A d \in Bound : d \in Calls /\ bcCall'[d].at \notin {"sent", "answered", "reading"}
    BY <2>2 DEF Left
  <2>5. c # "ping" /\ "ping" \in Unregistered
    BY <2>1 DEF BCRefused
  <2>6. bcCall'["ping"] = bcCall["ping"]
    BY <2>1, <2>5, RetiredCalls DEF BCRefused, LoseSession, Retire
  <2> QED BY <2>3, <2>4, <2>6
<1>29. CASE \E c \in {"connect", "sso"} : BCServeLogin(c)
  BY <1>29 DEF BCServeLogin, Answered, bcWork
<1>30. CASE \E c \in {"connect", "sso"} : BCServePrompt(c)
  BY <1>30 DEF BCServePrompt, Answered, bcServer, bcWork
<1>31. CASE \E c \in Unregistered : BCServeStatus(c)
  BY <1>31 DEF BCServeStatus, Answered, bcServer, bcWork
<1>32. CASE \E c \in Bound : BCServeWork(c)
  BY <1>32 DEF BCServeWork, Admitted, Answered, bcServer, bcWork, Tokenless
<1>33. CASE \E c \in Clicks : BCServeDisconnect(c)
  BY <1>33 DEF BCServeDisconnect, Admitted, Answered, bcWork, Tokenless
<1>34. CASE \E c \in Calls : BCFail(c)
  BY <1>34 DEF BCFail, Answered, bcServer, bcWork
<1>35. CASE \E c \in Listings \cup Unregistered : BCRepeat(c)
  BY <1>35 DEF BCRepeat, bcServer, bcWork
<1>36. CASE BCOtherLogin
  BY <1>36 DEF BCOtherLogin, bcWork
<1>37. CASE BCOtherLogout
  BY <1>37 DEF BCOtherLogout, bcWork
<1>38. CASE \E s \in BCSessions : BCSessionEnds(s)
  BY <1>38 DEF BCSessionEnds, bcWork
<1>39. CASE UNCHANGED bcvars
  BY <1>39 DEF bcvars, bcServer, bcWork
<1> QED BY <1>1, <1>2, <1>3, <1>4, <1>5, <1>6, <1>7, <1>8, <1>9, <1>10, <1>11, <1>12, <1>13, <1>14, <1>15,
    <1>16, <1>17, <1>18, <1>19, <1>20, <1>21, <1>22, <1>23, <1>24, <1>25, <1>26, <1>27, <1>28, <1>29,
    <1>30, <1>31, <1>32, <1>33, <1>34, <1>35, <1>36, <1>37, <1>38, <1>39 DEF BCNext, BCLogin, BCLogout,
    BCWorking, BCEnvironment

-----------------------------------------------------------------------------
(* The theorems.                                                                *)

LEMMA TypeInit == BCInit => BCTypeOK
<1> SUFFICES ASSUME BCInit PROVE BCTypeOK
  OBVIOUS
<1>1. PICK s \in Maybe : /\ bcLive = {s} \ {BCNone} /\ bcMade = {s} \ {BCNone} /\ bcCookie = s
                         /\ bcTab = [LoggedOut EXCEPT !.id = s, !.csrf = s, !.connected = s # BCNone]
  BY DEF BCInit
<1>2. bcTab = [id |-> s, csrf |-> s, connected |-> s # BCNone, lost |-> FALSE, leaving |-> FALSE]
  BY <1>1 DEF LoggedOut
<1>3. bcMade \subseteq BCSessions /\ bcLive \subseteq bcMade /\ bcCookie \in Maybe
  BY <1>1 DEF Maybe
<1>7. bcTab \in TabRecords
  BY <1>2 DEF TabRecords
<1>4. bcCall \in [Calls -> CallRecords]
  BY NoCallType DEF BCInit
<1>5. bcView \in ViewRecords /\ bcItem \in ItemRecords /\ bcPaste \in PasteRecords
  BY BCAssumption DEF BCInit, EmptyView, NoPaste, ViewRecords, ItemRecords, PasteRecords, Maybe
<1>6. bcSso \in BOOLEAN
  BY DEF BCInit
<1> QED BY <1>3, <1>4, <1>5, <1>6, <1>7 DEF BCTypeOK, TabRecords, ViewRecords, ItemRecords, PasteRecords

LEMMA InvInit == BCInit => BCInv
<1> SUFFICES ASSUME BCInit PROVE BCInv
  OBVIOUS
<1> USE BCAssumption
<1>1. PICK s \in Maybe : /\ bcLive = {s} \ {BCNone} /\ bcMade = {s} \ {BCNone} /\ bcCookie = s
                         /\ bcTab = [LoggedOut EXCEPT !.id = s, !.csrf = s, !.connected = s # BCNone]
  BY DEF BCInit
<1>2. bcTab = [id |-> s, csrf |-> s, connected |-> s # BCNone, lost |-> FALSE, leaving |-> FALSE]
  BY <1>1 DEF LoggedOut
<1>3. \A c \in Calls : /\ bcCall[c].at = "none" /\ bcCall[c].says = "nothing"
                       /\ bcCall[c].cookie = BCNone /\ bcCall[c].csrf = BCNone
                       /\ bcCall[c].home = BCNone /\ bcCall[c].by = BCNone
  BY DEF BCInit, NoCall
<1>4. /\ bcView.files = "none" /\ bcView.home = BCNone
      /\ bcItem.status = "none" /\ bcItem.home = BCNone
      /\ bcPaste.left = 0 /\ bcPaste.home = BCNone /\ ~bcPaste.asking
  BY DEF BCInit, EmptyView, NoPaste
<1>5. Bound \cup Logins \cup {"boot", "ping"} \subseteq Calls
  BY DEF Bound, Writes, Logins, Calls
<1>6. NamesMade
  BY <1>1, <1>2, <1>3, <1>4 DEF NamesMade, Made
<1>7. AllMine
  BY <1>3, <1>4, <1>5 DEF AllMine, Bound, Writes
<1>8. TokensMine
  BY <1>1, <1>2, <1>3, <1>5, TypeInit DEF TokensMine, Bound, BCTypeOK
<1>9. WritesHome
  BY <1>3, <1>5 DEF WritesHome, Bound, Writes
<1>10. NewestShown
  BY <1>4 DEF NewestShown
<1>11. LoginInv
  BY <1>2, <1>3 DEF LoginInv, Calls
<1>12. Secret
  BY <1>3, <1>5 DEF Secret
<1>13. LostInv
  BY <1>3, <1>5 DEF LostInv, Bound, Writes
<1> QED BY <1>6, <1>7, <1>8, <1>9, <1>10, <1>11, <1>12, <1>13, TypeInit DEF BCInv

LEMMA InvStep == BCInv /\ [BCNext]_bcvars => BCInv'
<1> SUFFICES ASSUME BCInv, [BCNext]_bcvars PROVE BCInv'
  OBVIOUS
<1>1. /\ BCTypeOK /\ NamesMade /\ AllMine /\ TokensMine /\ WritesHome /\ NewestShown
      /\ LoginInv /\ Secret /\ LostInv
  BY DEF BCInv
<1>2. BCTypeOK' /\ NamesMade' /\ AllMine' /\ NewestShown'
  BY <1>1, TypeStep, NamesMadeStep, AllMineStep, NewestStep
<1>3. TokensMine' /\ WritesHome'
  BY <1>1, TokensMineStep, WritesHomeStep
<1>4. LoginInv' /\ Secret' /\ LostInv'
  BY <1>1, LoginInvStep, SecretStep, LostInvStep
<1> QED BY <1>2, <1>3, <1>4 DEF BCInv

\* The state of the tab keeps its types, whatever is answered, lost or repeated.
THEOREM BrowserTypes == BCSpec => []BCTypeOK
<1>1. BCInit => BCTypeOK
  BY TypeInit
<1>2. BCTypeOK /\ [BCNext]_bcvars => BCTypeOK'
  BY TypeStep
<1> QED BY <1>1, <1>2, PTL DEF BCSpec

\* What is known of every call, token and answer in every state.
THEOREM BrowserInvariant == BCSpec => []BCInv
<1> QED BY InvInit, InvStep, PTL DEF BCSpec

\* What a tab shows without a remark is what the newest listing of its connection brought.
THEOREM BrowserShowsCurrent == BCSpec => []ShownIsCurrent
<1>1. BCInv => ShownIsCurrent
  <2> SUFFICES ASSUME BCInv, bcTab.connected, ~bcView.loading, ~bcView.error, bcView.files # "none"
               PROVE  bcView.files = bcView.newest /\ bcView.home = bcTab.id
    BY DEF ShownIsCurrent
  <2>1. bcView.files = bcView.newest
    BY DEF BCInv, NewestShown
  <2>2. bcTab.id # BCNone
    BY DEF BCInv, LoginInv
  <2> QED BY <2>1, <2>2 DEF BCInv, AllMine, Mine
<1> QED BY <1>1, BrowserInvariant, PTL

\* A write that a server admits is for the server it was begun on.
THEOREM BrowserWorkStaysHome == BCSpec => []WorkStaysHome
<1>1. BCInv => WorkStaysHome
  <2> SUFFICES ASSUME BCInv, NEW c \in Tries \cup {"paste", "zip"}, bcCall[c].at = "sent", Admitted(c),
                      c \in Tries => bcItem.status \notin {"done", "error"}
               PROVE  bcCall[c].home = bcCall[c].cookie
    BY DEF WorkStaysHome
  <2>1. c \in Writes /\ c \notin Tokenless
    BY BCAssumption DEF Writes, Tokenless, Unregistered
  <2>2. bcCall[c].csrf = bcCall[c].cookie /\ bcCall[c].csrf \in bcLive
    BY <2>1 DEF Admitted
  <2> QED BY <2>1, <2>2 DEF BCInv, WritesHome
<1> QED BY <1>1, BrowserInvariant, PTL

\* The steps that mark the session lost have an answer about the session of the tab.
LEMMA LosingHasReason ==
  ASSUME BCInv, [BCNext]_bcvars, ~bcTab.lost, bcTab'.lost
  PROVE  Lost(bcTab.id)
<1> USE BCAssumption
<1>1. /\ BCTypeOK /\ LoginInv /\ LostInv
  BY DEF BCInv
<1>2. Losing => bcTab.connected /\ bcTab.id # BCNone
  BY <1>1 DEF Losing, LoginInv
<1>3. CASE BCChecked
  <2>1. Gone(bcCall["ping"]) /\ Losing
    BY <1>3 DEF BCChecked, LoseSession
  <2>2. bcCall["ping"].home = bcTab.id /\ bcCall["ping"].says = "disconnected"
    BY <2>1 DEF Gone
  <2> QED BY <1>1, <1>2, <2>1, <2>2 DEF LostInv
<1>4. CASE BCErrorRead
  <2>1. bcCall["zip"].at = "reading" /\ Losing
    BY <1>4 DEF BCErrorRead, LoseSession
  <2> QED BY <1>1, <1>2, <2>1 DEF LostInv, Bound, Writes, Lost
<1>5. CASE \E c \in Calls : BCRefused(c)
  <2>1. PICK c \in Bound : Came(c) /\ Raises(c)
    BY <1>5 DEF BCRefused, Bound, Writes
  <2> QED BY <1>1, <1>2, <2>1 DEF LostInv, Came, Raises, Lost
<1>6. CASE \/ BCConnect \/ BCSsoConnect \/ BCCancelSso \/ BCBoot
           \/ \E c \in {"connect", "sso"} : BCNotLoggedIn(c)
  BY <1>6 DEF BCConnect, BCSsoConnect, BCCancelSso, BCBoot, BCNotLoggedIn
<1>7. CASE BCBooted
  <2>1. "boot" \in Calls /\ bcCall["boot"].by \in Maybe
    BY <1>1 DEF BCTypeOK, CallRecords, Calls
  <2> QED BY <1>1, <1>7, <2>1, BootedCases, AdoptEffect
<1>8. CASE \E c \in {"connect", "sso"} : BCLoggedIn(c)
  BY <1>1, <1>8 DEF BCLoggedIn, Adopt, BCTypeOK
<1>9. CASE \E c \in Clicks : BCDisconnect(c) \/ BCDisconnected(c) \/ BCDisconnectAborted(c)
  BY <1>1, <1>9 DEF BCDisconnect, BCDisconnected, BCDisconnectAborted, LoggedOff, LoggedOut, BCTypeOK
<1>10. CASE BCCheck \/ BCAcknowledge
  BY <1>10 DEF BCCheck, BCAcknowledge, LoggedOut
<1>11. CASE \/ \E c \in Listings : BCList(c) \/ BCListed(c)
            \/ BCAddEntry \/ BCCancelItem \/ BCRetryItem
            \/ \E c \in Tries : BCTransfer(c) \/ BCSent(c) \/ BCBackoff(c)
  BY <1>11 DEF BCList, BCListed, BCAddEntry, BCCancelItem, BCRetryItem, BCTransfer, BCSent, BCBackoff
<1>12. CASE BCPaste \/ BCPasteChoice \/ BCPasted \/ BCZip \/ BCZipped
  BY <1>12 DEF BCPaste, BCPasteChoice, BCPasted, BCZip, BCZipped
<1>13. CASE BCEnvironment
  BY <1>13 DEF BCEnvironment, BCServeLogin, BCServePrompt, BCServeStatus, BCServeWork, BCServeDisconnect,
     BCFail, BCRepeat, BCOtherLogin, BCOtherLogout, BCSessionEnds
<1>14. CASE UNCHANGED bcvars
  BY <1>14 DEF bcvars
<1> QED BY <1>3, <1>4, <1>5, <1>6, <1>7, <1>8, <1>9, <1>10, <1>11, <1>12, <1>13, <1>14 DEF BCNext, BCLogin,
    BCLogout, BCWorking

\* The dialog comes up only over a session that is gone, or that the browser gave up.
THEOREM BrowserLosesReally == BCSpec => LostIsReal
<1>1. BCInv /\ [BCNext]_bcvars
        => [~bcTab.lost /\ bcTab'.lost => bcTab.id \notin bcLive \/ bcCookie # bcTab.id]_bcvars
  BY LosingHasReason DEF Lost
<1> QED BY <1>1, BrowserInvariant, PTL DEF BCSpec, LostIsReal

-----------------------------------------------------------------------------
(* The browser as MCBrowser runs it.                                            *)

\* A behaviour of the browser is one of the queue and one of the tab: one of them takes
\* its steps and the other takes none.
THEOREM BrowserParts == BrowserSpec => Spec /\ BCSpec
<1>1. BrowserInit => Init /\ BCInit
  BY DEF BrowserInit
<1>2. [BrowserNext]_<<part, vars, bcvars>> => [Next]_vars /\ [BCNext]_bcvars
  BY DEF BrowserNext, TabNext
<1>3. QED  BY <1>1, <1>2, PTL DEF BrowserSpec, Spec, BCSpec

\* What is proved of the queue and of the tab holds of the browser: no worker idles
\* beside a queued file, what is shown is current, writes reach the connection they were
\* begun on, and a session that is reported lost is lost.  With one worker, chunks on
\* the server have an owner and a cancelled file sends nothing more.
THEOREM BrowserCorrect ==
  BrowserSpec =>
    /\ []WorkIsTaken
    /\ []ShownIsCurrent /\ []WorkStaysHome /\ LostIsReal
    /\ OneAtATime => []StagedIsOwned /\ CancelStops
BY BrowserParts, WorkIsTakenHolds, StagedIsOwnedHolds, CancelStopsHolds, BrowserShowsCurrent,
   BrowserWorkStaysHome, BrowserLosesReally
=============================================================================
