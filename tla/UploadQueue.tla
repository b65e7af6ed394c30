------------------------------ MODULE UploadQueue ------------------------------
(***************************************************************************)
(* The upload queue of the browser (stores/upload.ts) with the conflict     *)
(* dialog (stores/modal.ts, UploadConflictModal.vue).                       *)
(*                                                                         *)
(* The code has one thread, but every await of an answer, a timer or the    *)
(* user lets other handlers run.  An action is what runs between two of      *)
(* those; what promises run on by themselves belongs to the same action.    *)
(* The exception is a dialog that another upload's supersedes: its asker goes *)
(* on in a step of its own, before anything else happens.  The other dialogs   *)
(* of the page are seen only where one hides the upload's.                    *)
(*                                                                         *)
(* One connection; what its end does to the queue is left out.              *)
(***************************************************************************)
EXTENDS Naturals, FiniteSets, Functions

CONSTANTS
  Items,       \* files dropped on the browser, each an item of its own
  Small,       \* those sent in one request
  Batches,     \* calls of addEntries
  Dropped,     \* the files of each
  Workers,     \* uploads that may run at once, maxConcurrentUploads of them
  Chunks,      \* chunks of a large file
  MaxRetries,  \* MAX_RETRIES
  MaxUploads,  \* bound on the upload ids the server hands out, for TLC alone
  None         \* no id, no action, nobody

Uploads == 1..MaxUploads
Actions == {"overwrite", "rename", "skip"}

ASSUME QueueAssumption ==
  /\ Small \subseteq Items
  /\ Dropped \in [Batches -> SUBSET Items]
  /\ \A a, b \in Batches : a # b => Dropped[a] \cap Dropped[b] = {}
  /\ Workers \cap Batches = {}
  /\ Chunks \in Nat \ {0} /\ MaxRetries \in Nat \ {0} /\ MaxUploads \in Nat
  /\ None \notin Items \cup Batches \cup Workers
  /\ None \notin Uploads /\ None \notin Actions

VARIABLES
  listed,      \* the items of the queue
  items,       \* each item, also after it has left the queue
  job,         \* the upload each worker runs
  retrying,    \* retryItem calls that wait for an abort: <<item, id>>
  adding,      \* where each addEntries call is
  clash,       \* the conflicts its pre-flight found
  policy,      \* _blanketPolicy
  applied,     \* appliedToAll of the dialog
  asker,       \* whom uploadResolver answers
  hidden,      \* that dialog is not shown: another one took its place, or closed it
  superseded,  \* an asker whose dialog has just been taken over
  open,        \* ids the server has told and still holds chunks for
  given,       \* the last id it has handed out
  aborting     \* ids whose abort is under way

queue   == <<listed, items, job, retrying>>
calls   == <<adding, clash>>
dialog  == <<policy, applied, asker, hidden, superseded>>
server  == <<open, given, aborting>>
vars    == <<queue, calls, dialog, server>>

NewItem == [status |-> "new", overwrite |-> FALSE, uploadId |-> None,
            finalizing |-> FALSE, reprompted |-> FALSE, controller |-> None]
Idle == [step |-> "idle", item |-> None, upload |-> None, chunk |-> 0, tries |-> 0]

Cancellable == {"checking", "queued", "uploading"}
Retryable == {"error", "cancelled", "skipped"}

At(step) == {w \in Workers : job[w].step = step}

Init ==
  /\ listed = {}
  /\ items = [i \in Items |-> NewItem]
  /\ job = [w \in Workers |-> Idle]
  /\ retrying = {}
  /\ adding = [b \in Batches |-> "no"]
  /\ clash = [b \in Batches |-> {}]
  /\ policy = None
  /\ applied = None
  /\ asker = None
  /\ hidden = FALSE
  /\ superseded = None
  /\ open = {}
  /\ given = 0
  /\ aborting = {}

-----------------------------------------------------------------------------
(* The parts of a run.  They take the items and jobs as the handler has left  *)
(* them so far.                                                             *)

\* hasActive
HasActive(its) == \E i \in listed : its[i].status \in Cancellable

\* _transfer: the first request of an attempt.  A file whose chunks are staged is
\* committed at once.
Request(i, it) ==
  IF i \in Small THEN "posting" ELSE IF it.uploadId = None THEN "reserving" ELSE "committing"

\* A request that can be aborted registers its controller; a commit is finalizing.
Sending(it, step, w) ==
  [it EXCEPT !.controller = IF step \in {"posting", "sending"} THEN w ELSE @,
             !.finalizing = IF step = "committing" THEN TRUE ELSE @]

Attempt(i, it) ==
  [step |-> Request(i, it), item |-> i, upload |-> it.uploadId, chunk |-> 0, tries |-> 0]

\* _processQueue
ProcessQueue(its, js) ==
  LET queued == {i \in listed : its[i].status = "queued"}
      free   == {w \in Workers : js[w] = Idle}
  IN \E W \in SUBSET free : \E next \in Injection(W, queued) :
       /\ W = free \/ Range(next) = queued
       /\ items' = [i \in Items |->
            IF i \in Range(next)
            THEN [Sending(its[i], Request(i, its[i]), CHOOSE w \in W : next[w] = i)
                   EXCEPT !.status = "uploading"]
            ELSE its[i]]
       /\ job' = [w \in Workers |-> IF w \in W THEN Attempt(next[w], its[next[w]]) ELSE js[w]]

\* The end of _runUpload: the worker is free, and a policy ends with the batch.  The
\* controller of a request that is over could abort nothing.
Finish(its, js, w, pol) ==
  /\ ProcessQueue([its EXCEPT ![js[w].item].controller = IF @ = w THEN None ELSE @],
                  [js EXCEPT ![w] = Idle])
  /\ policy' = IF HasActive(its) THEN pol ELSE None

\* _discardStaged up to its request.
SendAbort(u) == aborting' = aborting \cup ({u} \ {None})

\* The server has discarded the chunks, if it had any.
AbortAnswered(u) ==
  /\ aborting' = aborting \ {u}
  /\ open' = open \ {u}
  /\ UNCHANGED given

\* _transfer has returned.
Returned(s) == IF s = "cancelled" THEN s ELSE "done"

\* _transfer has thrown.
Thrown(s) == IF s \in {"cancelled", "skipped"} THEN s ELSE "error"

\* An attempt ends by an exception, or after the user has decided.
Outcome(step, s) == IF step = "discarding" THEN Thrown(s) ELSE Returned(s)

\* What is staged is discarded first; the run ends with the answer, or at once if
\* there is nothing.
Unwind(its, js, w, pol, step) ==
  LET i == js[w].item
      u == its[i].uploadId
  IN /\ SendAbort(u)
     /\ IF u = None
        THEN Finish([its EXCEPT ![i].status = Outcome(step, @)], js, w, pol)
        ELSE /\ items' = [its EXCEPT ![i].uploadId = None]
             /\ job' = [js EXCEPT ![w].step = step, ![w].upload = u]
             /\ policy' = pol

Fail(its, w) == Unwind(its, job, w, policy, "discarding")

\* Mutant: the user is asked as often as the server finds a conflict.
OccupiedAgain(its, w) ==
  /\ items' = its
  /\ job' = [job EXCEPT ![w].step = "rechecking"]
  /\ UNCHANGED <<policy, aborting>>

\* The conflict is new to the user once per attempt.
Occupied(its, w) ==
  IF its[job[w].item].reprompted
  THEN Fail(its, w)
  ELSE /\ items' = [its EXCEPT ![job[w].item].reprompted = TRUE]
       /\ job' = [job EXCEPT ![w].step = "rechecking"]
       /\ UNCHANGED <<policy, aborting>>

\* _transfer goes on once the conflict is decided or gone.
Continue(its, js, w, pol) ==
  LET i == js[w].item IN
  IF its[i].status \in {"skipped", "cancelled"}
  THEN Finish([its EXCEPT ![i].status = Returned(@)], js, w, pol)
  ELSE /\ items' = [its EXCEPT ![i] = Sending(@, Request(i, @), w)]
       /\ job' = [js EXCEPT ![w] = Attempt(i, its[i])]
       /\ policy' = pol

\* _applyDecision.  A renamed item keeps its identity here.
ApplyDecision(it, action) ==
  CASE action = "overwrite" -> [it EXCEPT !.overwrite = TRUE]
    [] action = "skip"      -> [it EXCEPT !.status = "skipped"]
    [] action = "rename"    -> it

\* The decision about a conflict met during the transfer.
Decide(its, js, w, action, pol) ==
  LET decided == [its EXCEPT ![js[w].item] = ApplyDecision(@, action)] IN
  IF action = "skip"
  THEN Unwind(decided, js, w, pol, "dropping")
  ELSE Continue(decided, js, w, pol) /\ UNCHANGED aborting

-----------------------------------------------------------------------------
(* The answers of the server to a worker.                                   *)

Reserved(w) ==
  LET i == job[w].item
      u == given + 1
      its == [items EXCEPT ![i].uploadId = u]
  IN /\ job[w].step = "reserving"
     /\ u \in Uploads
     /\ given' = u
     /\ open' = open \cup {u}
     /\ IF items[i].status = "cancelled"
        THEN Fail(its, w)
        ELSE /\ items' = [its EXCEPT ![i] = Sending(@, "sending", w)]
             /\ job' = [job EXCEPT ![w] = [@ EXCEPT !.step = "sending", !.upload = u,
                                                    !.chunk = 1]]
             /\ UNCHANGED <<policy, aborting>>
     /\ UNCHANGED <<listed, retrying, calls, applied, asker, hidden, superseded>>

\* A chunk has arrived: the next one, or the commit.
ChunkStored(w) ==
  LET i == job[w].item
      last == job[w].chunk = Chunks
      next == IF last THEN "committing" ELSE "sending"
  IN /\ job[w].step = "sending"
     /\ job[w].upload \in open
     /\ IF ~last /\ items[i].status = "cancelled"
        THEN Fail(items, w)
        ELSE /\ items' = [items EXCEPT ![i] = Sending(@, next, w)]
             /\ job' = [job EXCEPT ![w] =
                  [job[w] EXCEPT !.step = next, !.tries = 0,
                                 !.upload = IF last THEN items[i].uploadId ELSE @,
                                 !.chunk = IF last THEN 0 ELSE @ + 1]]
             /\ UNCHANGED <<policy, aborting>>
     /\ UNCHANGED <<listed, retrying, calls, applied, asker, hidden, superseded, open, given>>

\* A transient failure of a chunk or of a small file.
SendFails(w) ==
  /\ job[w].step \in {"sending", "posting"}
  /\ job' = [job EXCEPT ![w].step = "backoff", ![w].tries = @ + 1]
  /\ UNCHANGED <<listed, items, retrying, calls, dialog, server>>

\* Mutant: the item is not looked at when the wait is over.
BackoffEndsBlind(w) ==
  /\ job[w].step = "backoff"
  /\ IF job[w].tries = MaxRetries
     THEN Fail(items, w)
     ELSE LET again == IF job[w].item \in Small THEN "posting" ELSE "sending" IN
          /\ items' = [items EXCEPT ![job[w].item] = Sending(@, again, w)]
          /\ job' = [job EXCEPT ![w].step = again]
          /\ UNCHANGED <<policy, aborting>>
  /\ UNCHANGED <<listed, retrying, calls, applied, asker, hidden, superseded, open, given>>

\* The wait is cut short by a cancel; the last one ends in the failure.
BackoffEnds(w) ==
  LET i == job[w].item
      again == IF i \in Small THEN "posting" ELSE "sending"
  IN /\ job[w].step = "backoff"
     /\ IF job[w].tries = MaxRetries \/ items[i].status \in {"cancelled", "skipped"}
        THEN Fail(items, w)
        ELSE /\ items' = [items EXCEPT ![i] = Sending(@, again, w)]
             /\ job' = [job EXCEPT ![w].step = again]
             /\ UNCHANGED <<policy, aborting>>
     /\ UNCHANGED <<listed, retrying, calls, applied, asker, hidden, superseded, open, given>>

\* An answer a retry cannot change; a reservation is not retried at all.
Refused(w) ==
  /\ job[w].step \in {"reserving", "sending", "posting"}
  /\ Fail(items, w)
  /\ UNCHANGED <<listed, retrying, calls, applied, asker, hidden, superseded, open, given>>

\* ERR_FILE_EXISTS, which consent waives.
Conflicts(w) ==
  /\ job[w].step \in {"reserving", "posting"}
  /\ ~items[job[w].item].overwrite
  /\ Occupied(items, w)
  /\ UNCHANGED <<listed, retrying, calls, applied, asker, hidden, superseded, open, given>>

PostStored(w) ==
  LET i == job[w].item IN
  /\ job[w].step = "posting"
  /\ Finish([items EXCEPT ![i].status = Returned(@)], job, w, policy)
  /\ UNCHANGED <<listed, retrying, calls, applied, asker, hidden, superseded, server>>

\* The server commits, or keeps the chunks for a destination that is taken; its answer
\* is another step.
CommitStores(w) ==
  /\ job[w].step = "committing"
  /\ job[w].upload \in open
  /\ open' = open \ {job[w].upload}
  /\ job' = [job EXCEPT ![w].step = "stored"]
  /\ UNCHANGED <<listed, items, retrying, calls, dialog, given, aborting>>

CommitOccupied(w) ==
  /\ job[w].step = "committing"
  /\ job[w].upload \in open
  /\ ~items[job[w].item].overwrite
  /\ job' = [job EXCEPT ![w].step = "occupied"]
  /\ UNCHANGED <<listed, items, retrying, calls, dialog, server>>

CommitAnswered(w) ==
  LET i == job[w].item IN
  /\ job[w].step = "stored"
  /\ Finish([items EXCEPT ![i].finalizing = FALSE, ![i].uploadId = None,
                          ![i].status = Returned(@)], job, w, policy)
  /\ UNCHANGED <<listed, retrying, calls, applied, asker, hidden, superseded, server>>

CommitRefused(w) ==
  /\ job[w].step = "occupied"
  /\ Occupied([items EXCEPT ![job[w].item].finalizing = FALSE], w)
  /\ UNCHANGED <<listed, retrying, calls, applied, asker, hidden, superseded, open, given>>

\* The commit or its answer is lost, or it failed with or without its chunks.
CommitFails(w) ==
  /\ job[w].step \in {"committing", "stored", "occupied"}
  /\ open' \in IF job[w].step = "committing" THEN {open, open \ {job[w].upload}} ELSE {open}
  /\ Fail([items EXCEPT ![job[w].item].finalizing = FALSE], w)
  /\ UNCHANGED <<listed, retrying, calls, applied, asker, hidden, superseded, given>>

DiscardAnswered(w) ==
  LET i == job[w].item IN
  /\ job[w].step \in {"discarding", "dropping"}
  /\ AbortAnswered(job[w].upload)
  /\ Finish([items EXCEPT ![i].status = Outcome(job[w].step, @)], job, w, policy)
  /\ UNCHANGED <<listed, retrying, calls, applied, asker, hidden, superseded>>

-----------------------------------------------------------------------------
(* The dialog.                                                             *)

\* There is one place for a dialog.  open, close, pasteConflict and editorConflict take it
\* without an answer to uploadResolver, and nothing shows that conflict again.
Hide ==
  /\ asker # None
  /\ hidden' = TRUE
  /\ UNCHANGED <<queue, calls, policy, applied, asker, superseded, server>>

\* uploadConflict: whoever was asked before is answered "cancel".
Show(a) ==
  /\ asker' = a
  /\ hidden' = FALSE
  /\ superseded' = asker

\* What the user answers about the conflicts C: every decision starts as "rename";
\* "apply to all" decides them all and is remembered, a single decision forgets it.
Answers(C) ==
  {[decide |-> [i \in C |-> "rename"], all |-> applied]}
    \cup {[decide |-> [i \in C |-> a], all |-> a] : a \in Actions}
    \cup {[decide |-> d, all |-> None] : d \in [C -> Actions]}

\* _conflictChain: the next worker in line asks as soon as one has its answer.
InLine(v) == IF At("waiting") = {} THEN v = None ELSE v \in At("waiting")
Asking(v) == IF v = None THEN job ELSE [job EXCEPT ![v].step = "asking"]

RecheckFree(w) ==
  /\ job[w].step = "rechecking"
  /\ Continue(items, job, w, policy)
  /\ UNCHANGED <<listed, retrying, calls, applied, asker, hidden, superseded, server>>

RecheckOccupied(w) ==
  /\ job[w].step = "rechecking"
  /\ IF policy # None
     THEN Decide(items, job, w, policy, policy) /\ UNCHANGED <<asker, hidden, superseded>>
     ELSE /\ IF At("asking") \cup At("waiting") = {}
             THEN Show(w) /\ job' = [job EXCEPT ![w].step = "asking"]
             ELSE job' = [job EXCEPT ![w].step = "waiting"]
                  /\ UNCHANGED <<asker, hidden, superseded>>
          /\ UNCHANGED <<items, policy, aborting>>
  /\ UNCHANGED <<listed, retrying, calls, applied, open, given>>

RacedAnswered(w) ==
  LET i == job[w].item IN
  /\ asker = w /\ ~hidden
  /\ \E answer \in Answers({i}), v \in Workers \cup {None} :
       /\ InLine(v)
       /\ asker' = v
       /\ applied' = answer.all
       /\ Decide(items, Asking(v), w, answer.decide[i], answer.all)
  /\ UNCHANGED <<listed, retrying, calls, hidden, superseded, open, given>>

DropRaced(w, js) ==
  Unwind([items EXCEPT ![js[w].item].status = "cancelled"], js, w, policy, "dropping")

RacedCancelled(w) ==
  /\ asker = w /\ ~hidden
  /\ \E v \in Workers \cup {None} : InLine(v) /\ asker' = v /\ DropRaced(w, Asking(v))
  /\ UNCHANGED <<listed, retrying, calls, applied, hidden, superseded, open, given>>

\* The next in line takes the dialog over in its turn.
RacedSuperseded(w) ==
  /\ superseded = w
  /\ \E v \in Workers \cup {None} :
       /\ InLine(v)
       /\ IF v = None THEN superseded' = None /\ UNCHANGED <<asker, hidden>> ELSE Show(v)
       /\ DropRaced(w, Asking(v))
  /\ UNCHANGED <<listed, retrying, calls, applied, open, given>>

-----------------------------------------------------------------------------
(* addEntries.                                                             *)

AddEntries(b) ==
  /\ adding[b] = "no"
  /\ adding' = [adding EXCEPT ![b] = "checking"]
  /\ listed' = listed \cup Dropped[b]
  /\ items' = [i \in Items |->
       IF i \in Dropped[b] THEN [items[i] EXCEPT !.status = "checking"] ELSE items[i]]
  /\ UNCHANGED <<job, retrying, clash, dialog, server>>

Live(b) == {i \in Dropped[b] \cap listed : items[i].status = "checking"}

Queued(b, its) ==
  /\ ProcessQueue([i \in Items |-> IF i \in Live(b) /\ its[i].status = "checking"
                                   THEN [its[i] EXCEPT !.status = "queued"] ELSE its[i]], job)
  /\ adding' = [adding EXCEPT ![b] = "over"]
  /\ clash' = [clash EXCEPT ![b] = {}]

\* No conflict, or the check failed.
PreflightFree(b) ==
  /\ adding[b] = "checking"
  /\ Queued(b, items)
  /\ UNCHANGED <<listed, retrying, dialog, server>>

PreflightOccupied(b) ==
  /\ adding[b] = "checking"
  /\ \E C \in SUBSET Dropped[b] \ {{}} : clash' = [clash EXCEPT ![b] = C]
  /\ adding' = [adding EXCEPT ![b] = "asking"]
  /\ Show(b)
  /\ UNCHANGED <<queue, policy, applied, server>>

BatchAnswered(b) ==
  /\ asker = b /\ ~hidden
  /\ asker' = None
  /\ \E answer \in Answers(clash[b]) :
       /\ applied' = answer.all
       /\ policy' = answer.all
       /\ Queued(b, [i \in Items |->
            IF i \in Live(b) \cap clash[b] THEN ApplyDecision(items[i], answer.decide[i])
            ELSE items[i]])
  /\ UNCHANGED <<listed, retrying, hidden, superseded, server>>

DropBatch(b) ==
  /\ items' = [i \in Items |->
       IF i \in Live(b) THEN [items[i] EXCEPT !.status = "cancelled"] ELSE items[i]]
  /\ adding' = [adding EXCEPT ![b] = "over"]
  /\ clash' = [clash EXCEPT ![b] = {}]

BatchCancelled(b) ==
  /\ asker = b /\ ~hidden
  /\ asker' = None
  /\ DropBatch(b)
  /\ UNCHANGED <<listed, job, retrying, policy, applied, hidden, superseded, server>>

BatchSuperseded(b) ==
  /\ superseded = b
  /\ superseded' = None
  /\ DropBatch(b)
  /\ UNCHANGED <<listed, job, retrying, policy, applied, asker, hidden, server>>

-----------------------------------------------------------------------------
(* The user.                                                               *)

\* cancelItem and cancelAll: a request under way is aborted and its attempt unwinds;
\* chunks are discarded unless a commit owns them.
CancelItems(S) ==
  LET aborted == {w \in At("sending") \cup At("posting") :
                    job[w].item \in S /\ items[job[w].item].controller = w}
      kept(i) == items[i].finalizing
      unwound(i) == \E w \in aborted : job[w].item = i
      its == [i \in Items |->
        IF i \notin S THEN items[i]
        ELSE [items[i] EXCEPT !.status = "cancelled", !.controller = None,
                              !.uploadId = IF kept(i) /\ ~unwound(i) THEN @ ELSE None]]
      js == [w \in Workers |->
        IF w \notin aborted THEN job[w]
        ELSE IF kept(job[w].item) /\ items[job[w].item].uploadId # None
             THEN [job[w] EXCEPT !.step = "discarding", !.upload = items[job[w].item].uploadId]
             ELSE Idle]
      dropped == {items[i].uploadId : i \in {j \in S : its[j].uploadId = None}} \ {None}
  IN /\ S # {} /\ S \subseteq {i \in listed : items[i].status \in Cancellable}
     /\ aborting' = aborting \cup dropped
     /\ IF \A w \in aborted : js[w] # Idle
        THEN items' = its /\ job' = js /\ UNCHANGED policy
        ELSE /\ ProcessQueue(its, js)
             /\ policy' = IF HasActive(its) THEN policy ELSE None
     /\ UNCHANGED <<listed, retrying, calls, applied, asker, hidden, superseded, open, given>>

\* Mutant: the queue is not looked at after a retry.
RequeueLater(its, i) ==
  /\ items' = [its EXCEPT ![i] = [@ EXCEPT !.status = "queued", !.finalizing = FALSE,
                                          !.reprompted = FALSE]]
  /\ UNCHANGED job

Requeue(its, i) ==
  ProcessQueue([its EXCEPT ![i] = [@ EXCEPT !.status = "queued", !.finalizing = FALSE,
                                            !.reprompted = FALSE]], job)

RetryItem(i) ==
  LET u == items[i].uploadId IN
  /\ i \in listed
  /\ items[i].status \in Retryable
  /\ SendAbort(u)
  /\ IF u = None
     THEN Requeue(items, i) /\ UNCHANGED retrying
     ELSE /\ items' = [items EXCEPT ![i].uploadId = None]
          /\ retrying' = retrying \cup {<<i, u>>}
          /\ UNCHANGED job
  /\ UNCHANGED <<listed, calls, dialog, open, given>>

RetryResumes(i, u) ==
  /\ <<i, u>> \in retrying
  /\ retrying' = retrying \ {<<i, u>>}
  /\ AbortAnswered(u)
  /\ Requeue(items, i)
  /\ UNCHANGED <<listed, calls, dialog>>

\* Mutant: what is cleared keeps its chunks on the server.
ClearDoneStranding ==
  /\ listed # {}
  /\ ~HasActive(items)
  /\ listed' = {}
  /\ UNCHANGED <<items, job, retrying, calls, dialog, server>>

\* The list is offered for clearing when nothing in it is active; an attempt may still
\* be unwinding.
ClearDone ==
  /\ listed # {}
  /\ ~HasActive(items)
  /\ listed' = {}
  /\ items' = [i \in Items |->
       IF i \in listed THEN [items[i] EXCEPT !.uploadId = None] ELSE items[i]]
  /\ aborting' = aborting \cup ({items[i].uploadId : i \in listed} \ {None})
  /\ UNCHANGED <<job, retrying, calls, dialog, open, given>>

\* An abort nobody waits for is answered.
AbortForgotten(u) ==
  /\ u \in aborting
  /\ \A i \in Items : <<i, u>> \notin retrying
  /\ \A w \in At("discarding") \cup At("dropping") : job[w].upload # u
  /\ AbortAnswered(u)
  /\ UNCHANGED <<queue, calls, dialog>>

-----------------------------------------------------------------------------
\* Answers and timers a worker waits for.
Answer(w) ==
  \/ Reserved(w) \/ ChunkStored(w) \/ SendFails(w) \/ BackoffEnds(w) \/ Refused(w)
  \/ Conflicts(w) \/ PostStored(w) \/ CommitStores(w) \/ CommitOccupied(w)
  \/ CommitAnswered(w) \/ CommitRefused(w) \/ CommitFails(w) \/ DiscardAnswered(w)
  \/ RecheckFree(w) \/ RecheckOccupied(w)

Preflight(b) == PreflightFree(b) \/ PreflightOccupied(b)

Aborts == \E u \in Uploads : AbortForgotten(u) \/ \E i \in Items : RetryResumes(i, u)

Dialog ==
  \/ \E w \in Workers : RacedAnswered(w) \/ RacedCancelled(w)
  \/ \E b \in Batches : BatchAnswered(b) \/ BatchCancelled(b)

\* The dialog covers the page while it is shown.
User ==
  /\ asker = None \/ hidden
  /\ \/ \E b \in Batches : AddEntries(b)
     \/ \E i \in Items : CancelItems({i}) \/ RetryItem(i)
     \/ CancelItems({i \in listed : items[i].status \in Cancellable})
     \/ ClearDone

TakenOver ==
  \/ \E w \in Workers : RacedSuperseded(w)
  \/ \E b \in Batches : BatchSuperseded(b)

Event ==
  \/ \E w \in Workers : Answer(w)
  \/ \E b \in Batches : Preflight(b)
  \/ Aborts \/ Hide \/ Dialog \/ User

Next == TakenOver \/ (superseded = None /\ Event)

Spec == Init /\ [][Next]_vars

\* Every request is answered, every timer fires, and a dialog that stays shown is answered.
FairSpec ==
  /\ Spec
  /\ WF_vars(TakenOver)
  /\ \A w \in Workers : WF_vars(superseded = None /\ Answer(w))
  /\ \A b \in Batches : WF_vars(superseded = None /\ Preflight(b))
  /\ WF_vars(superseded = None /\ Dialog)

-----------------------------------------------------------------------------
Statuses == {"new", "checking", "queued", "uploading", "done"} \cup Retryable
Steps == {"idle", "reserving", "sending", "posting", "backoff", "committing", "stored", "occupied",
          "rechecking", "waiting", "asking", "discarding", "dropping"}

ItemType == [status : Statuses, overwrite : BOOLEAN, uploadId : Uploads \cup {None},
             finalizing : BOOLEAN, reprompted : BOOLEAN, controller : Workers \cup {None}]
JobType == [step : Steps, item : Items \cup {None}, upload : Uploads \cup {None},
            chunk : 0..Chunks, tries : 0..MaxRetries]

TypeOK ==
  /\ listed \subseteq Items
  /\ items \in [Items -> ItemType]
  /\ job \in [Workers -> JobType]
  /\ retrying \subseteq Items \X Uploads
  /\ clash \in [Batches -> SUBSET Items]
  /\ adding \in [Batches -> {"no", "checking", "asking", "over"}]
  /\ policy \in Actions \cup {None} /\ applied \in Actions \cup {None}
  /\ asker \in Workers \cup Batches \cup {None}
  /\ hidden \in BOOLEAN
  /\ superseded \in Workers \cup Batches \cup {None}
  /\ given \in 0..MaxUploads
  /\ open \subseteq 1..given /\ aborting \subseteq 1..given

\* Items and jobs as a handler has left them, with g ids handed out: an attempt has an
\* item, and no chunk is sent more often than MaxRetries.
Sound(its, js, g) ==
  /\ its \in [Items -> ItemType] /\ js \in [Workers -> JobType]
  /\ \A i \in Items : its[i].uploadId \in 1..g \cup {None}
  /\ \A w \in Workers :
       /\ js[w].upload \in 1..g \cup {None}
       /\ IF js[w].step = "idle" THEN js[w] = Idle ELSE js[w].item \in Items
       /\ js[w].step \in {"reserving", "sending", "posting"} => js[w].tries < MaxRetries

\* Nobody idles while an item of the list is queued.
Taken(its, js) == (\E i \in listed : its[i].status = "queued") => \A w \in Workers : js[w] # Idle

\* No worker is idle while an item is queued.
WorkIsTaken == Taken(items, job)

\* A worker that a dialog answers, or has just stopped answering, waits for it.
Asks ==
  \A w \in Workers :
    /\ w \in {asker, superseded} => job[w].step = "asking"
    /\ ~(asker = w /\ superseded = w)

\* The inductive invariant.
IInv == TypeOK /\ Sound(items, job, given) /\ WorkIsTaken /\ Asks

\* Chunks that are held can be released by somebody: an item in the list has their id, or
\* an attempt that is still running.
Owned(its, js, held) ==
  \A u \in held : \E i \in Items :
    its[i].uploadId = u /\ (i \in listed \/ \E w \in Workers : js[w].item = i)

\* Chunks the server holds can be released, or their abort has been sent.
StagedIsOwned == Owned(items, job, open \ aborting)

\* A cancelled item sends nothing more: no request of it starts.
CancelStops ==
  [][\A w \in Workers :
       job'[w] # job[w] /\ job'[w].step \in {"sending", "posting", "committing"} =>
         items'[job'[w].item].status # "cancelled"]_vars

\* "Completed" means that the server has just stored the file.
DoneMeansStored ==
  [][\A i \in Items :
       items'[i].status = "done" /\ items[i].status # "done" =>
         \E w \in At("stored") \cup At("posting") : job[w].item = i]_vars

\* A policy the user gives for all is what was decided for every file shown.
PolicyIsShown ==
  [][\A b \in Batches :
       asker = b /\ asker' = None /\ policy' = "overwrite" =>
         \A i \in Live(b) \cap clash[b] : items'[i].overwrite]_vars

\* Every file comes to an end, unless the user keeps queueing files again or a dialog has
\* been hidden for good: then the upload that asked keeps its place and its batch waits.
QueueDrains ==
  []<><<\E i \in Items : RetryItem(i)>>_vars
    \/ <>[]hidden
    \/ \A i \in Items :
         (i \in listed /\ items[i].status \in Cancellable)
           ~> (i \notin listed \/ items[i].status \notin Cancellable)
=============================================================================
