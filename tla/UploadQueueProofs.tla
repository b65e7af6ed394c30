--------------------------- MODULE UploadQueueProofs ---------------------------
(***************************************************************************)
(* Proofs about UploadQueue.  For any number of workers: its types, and that *)
(* no worker idles while a file waits.  For one, the default: chunks on the  *)
(* server have an owner, and a cancelled file sends nothing more.            *)
(***************************************************************************)
EXTENDS UploadQueue, TLAPS

-----------------------------------------------------------------------------
(* The parts of a run keep the items and jobs sound and take queued items.   *)

\* What the constants tell apart.
LEMMA Apart ==
  /\ None \notin Items /\ None \notin Workers /\ None \notin Batches /\ None \notin Uploads
  /\ None \notin Actions /\ Workers \cap Batches = {}
BY QueueAssumption

\* A worker in use is not idle.
LEMMA Busy == \A j : j.step # "idle" => j # Idle
BY DEF Idle

\* What _processQueue makes of an item.
Started(i, it, w) == [Sending(it, Request(i, it), w) EXCEPT !.status = "uploading"]

\* The first step of an attempt.
LEMMA Start ==
  ASSUME NEW i \in Items, NEW it \in ItemType, NEW w \in Workers
  PROVE  /\ Attempt(i, it) \in JobType /\ Attempt(i, it).step = Request(i, it)
         /\ Attempt(i, it).step # "idle" /\ Attempt(i, it).tries = 0
         /\ Attempt(i, it).upload = it.uploadId /\ Attempt(i, it).item = i
         /\ Started(i, it, w) \in ItemType
         /\ Started(i, it, w).uploadId = it.uploadId
         /\ Started(i, it, w).status = "uploading"
<1>1. Request(i, it) \in {"posting", "reserving", "committing"}
  BY DEF Request
<1>2. Attempt(i, it) = [step |-> Request(i, it), item |-> i, upload |-> it.uploadId, chunk |-> 0, tries |-> 0]
  BY DEF Attempt
<1>3. it.uploadId \in Uploads \cup {None}
  BY DEF ItemType
<1>4. Attempt(i, it) \in JobType
  <2>1. 0 \in 0..Chunks /\ 0 \in 0..MaxRetries /\ Request(i, it) \in Steps
    BY <1>1, QueueAssumption DEF Steps
  <2> QED BY <1>2, <1>3, <2>1 DEF JobType
<1>5. /\ Sending(it, Request(i, it), w) \in ItemType
      /\ Sending(it, Request(i, it), w).uploadId = it.uploadId
  BY DEF Sending, ItemType
<1> QED BY <1>1, <1>2, <1>4, <1>5 DEF Started, ItemType, Statuses

\* _processQueue takes items of the list, gives each to a free worker, and leaves none
\* while a worker is free.
LEMMA Pull ==
  ASSUME NEW its, NEW js, NEW g \in Nat, g <= MaxUploads, listed \subseteq Items,
         Sound(its, js, g), ProcessQueue(its, js)
  PROVE  /\ Sound(items', job', g)
         /\ Taken(items', job')
         /\ \A w \in Workers :
              \/ job'[w] = js[w]
              \/ /\ js[w] = Idle
                 /\ \E i \in listed \cap Items :
                      /\ its[i].status = "queued" /\ job'[w] = Attempt(i, its[i])
                      /\ items'[i] = Started(i, its[i], w)
         /\ \A i \in Items :
              \/ items'[i] = its[i]
              \/ /\ i \in listed /\ its[i].status = "queued"
                 /\ \E w \in Workers :
                      /\ js[w] = Idle /\ job'[w] = Attempt(i, its[i])
                      /\ items'[i] = Started(i, its[i], w)
<1> DEFINE queued == {i \in listed : its[i].status = "queued"}
           free == {w \in Workers : js[w] = Idle}
<1>1. PICK W \in SUBSET free : \E f \in Injection(W, queued) :
        /\ W = free \/ Range(f) = queued
        /\ items' = [i \in Items |->
             IF i \in Range(f)
             THEN [Sending(its[i], Request(i, its[i]), CHOOSE w \in W : f[w] = i)
                    EXCEPT !.status = "uploading"]
             ELSE its[i]]
        /\ job' = [w \in Workers |-> IF w \in W THEN Attempt(f[w], its[f[w]]) ELSE js[w]]
  BY DEF ProcessQueue
<1>2. PICK next \in Injection(W, queued) :
        /\ W = free \/ Range(next) = queued
        /\ items' = [i \in Items |->
             IF i \in Range(next)
             THEN [Sending(its[i], Request(i, its[i]), CHOOSE w \in W : next[w] = i)
                    EXCEPT !.status = "uploading"]
             ELSE its[i]]
        /\ job' = [w \in Workers |-> IF w \in W THEN Attempt(next[w], its[next[w]]) ELSE js[w]]
  BY <1>1
<1>3. /\ next \in [W -> queued] /\ Range(next) = {next[w] : w \in W}
      /\ \A v, w \in W : next[v] = next[w] => v = w
  BY DEF Injection, Range, IsInjective
<1>4. ASSUME NEW w \in W
      PROVE  /\ next[w] \in listed \cap Items /\ its[next[w]].status = "queued"
             /\ js[w] = Idle /\ w \in Workers
             /\ job'[w] = Attempt(next[w], its[next[w]])
             /\ items'[next[w]] = Started(next[w], its[next[w]], w)
  <2>1. next[w] \in listed \cap Items /\ its[next[w]].status = "queued" /\ w \in Workers /\ js[w] = Idle
    BY <1>3
  <2>2. (CHOOSE v \in W : next[v] = next[w]) = w
    BY <1>3
  <2> QED BY <1>2, <1>3, <2>1, <2>2 DEF Started
<1>5. ASSUME NEW i \in listed \cap Items, its[i].status = "queued", NEW w \in Workers
      PROVE  /\ Attempt(i, its[i]) \in JobType /\ Attempt(i, its[i]).step # "idle"
             /\ Attempt(i, its[i]).upload \in 1..g \cup {None} /\ Attempt(i, its[i]).item \in Items
             /\ Attempt(i, its[i]).tries < MaxRetries
             /\ Started(i, its[i], w) \in ItemType
             /\ Started(i, its[i], w).uploadId = its[i].uploadId
             /\ Started(i, its[i], w).status = "uploading"
  <2>1. its[i] \in ItemType /\ its[i].uploadId \in 1..g \cup {None}
    BY DEF Sound
  <2> QED BY <2>1, Start, QueueAssumption
<1> HIDE DEF queued, free
<1>6. \A w \in Workers :
        \/ job'[w] = js[w]
        \/ /\ js[w] = Idle
           /\ \E i \in listed \cap Items :
                /\ its[i].status = "queued" /\ job'[w] = Attempt(i, its[i])
                /\ items'[i] = Started(i, its[i], w)
  BY <1>2, <1>4
<1>7. \A i \in Items :
        \/ items'[i] = its[i]
        \/ /\ i \in listed /\ its[i].status = "queued"
           /\ \E w \in Workers :
                /\ js[w] = Idle /\ job'[w] = Attempt(i, its[i])
                /\ items'[i] = Started(i, its[i], w)
  <2> SUFFICES ASSUME NEW i \in Items, items'[i] # its[i]
               PROVE  /\ i \in listed /\ its[i].status = "queued"
                      /\ \E w \in Workers :
                           /\ js[w] = Idle /\ job'[w] = Attempt(i, its[i])
                           /\ items'[i] = Started(i, its[i], w)
    OBVIOUS
  <2>1. i \in Range(next)
    BY <1>2
  <2>2. PICK w \in W : next[w] = i
    BY <1>3, <2>1
  <2> QED BY <1>4, <2>2
<1>8. Taken(items', job')
  <2> SUFFICES ASSUME NEW i \in listed, items'[i].status = "queued", NEW w \in Workers
               PROVE  job'[w] # Idle
    BY DEF Taken
  <2>1. i \notin Range(next)
    BY <1>3, <1>4, <1>5
  <2>2. its[i].status = "queued"
    BY <1>2, <2>1
  <2>3. W = free
    BY <1>2, <2>1, <2>2 DEF queued
  <2>4. CASE w \in W
    BY <2>4, <1>4, <1>5, Busy
  <2>5. CASE w \notin W
    BY <2>5, <2>3, <1>2 DEF free
  <2> QED BY <2>4, <2>5
<1>9. Sound(items', job', g)
  <2>1. items' \in [Items -> ItemType]
    BY <1>2, <1>5, <1>7 DEF Sound
  <2>2. job' \in [Workers -> JobType]
    BY <1>2, <1>5, <1>6 DEF Sound
  <2>3. \A i \in Items : items'[i].uploadId \in 1..g \cup {None}
    BY <1>5, <1>7 DEF Sound
  <2>4. ASSUME NEW w \in Workers
        PROVE  /\ job'[w].upload \in 1..g \cup {None}
               /\ IF job'[w].step = "idle" THEN job'[w] = Idle ELSE job'[w].item \in Items
               /\ job'[w].step \in {"reserving", "sending", "posting"} => job'[w].tries < MaxRetries
    BY <1>5, <1>6 DEF Sound
  <2> QED BY <2>1, <2>2, <2>3, <2>4 DEF Sound
<1> QED BY <1>6, <1>7, <1>8, <1>9

\* Finish keeps what it is given sound, and disturbs no other worker in use.
LEMMA FinishKeeps ==
  ASSUME NEW its, NEW js, NEW g \in Nat, g <= MaxUploads, listed \subseteq Items,
         NEW w \in Workers, NEW pol \in Actions \cup {None},
         Sound(its, js, g), Finish(its, js, w, pol)
  PROVE  /\ Sound(items', job', g) /\ Taken(items', job') /\ policy' \in Actions \cup {None}
         /\ \A v \in Workers \ {w} : js[v] # Idle => job'[v] = js[v]
<1> DEFINE c == [its EXCEPT ![js[w].item].controller = IF @ = w THEN None ELSE @]
           f == [js EXCEPT ![w] = Idle]
<1>1. ProcessQueue(c, f) /\ policy' \in Actions \cup {None}
  BY DEF Finish
<1>2. Sound(c, f, g)
  <2>1. c \in [Items -> ItemType] /\ \A i \in Items : c[i].uploadId = its[i].uploadId
    <3>1. ASSUME NEW it \in ItemType
          PROVE  LET x == [it EXCEPT !.controller = IF @ = w THEN None ELSE @]
                 IN  x \in ItemType /\ x.uploadId = it.uploadId
      BY DEF ItemType
    <3>2. c = [i \in Items |-> IF i = js[w].item
                               THEN [its[i] EXCEPT !.controller = IF @ = w THEN None ELSE @]
                               ELSE its[i]]
      BY DEF Sound
    <3> HIDE DEF c
    <3> QED BY <3>1, <3>2 DEF Sound
  <2>2. Idle \in JobType /\ Idle.step = "idle" /\ Idle.upload = None
    <3>1. 0 \in 0..Chunks /\ 0 \in 0..MaxRetries
      BY QueueAssumption
    <3> QED BY <3>1 DEF Idle, JobType, Steps
  <2>3. f \in [Workers -> JobType] /\ f[w] = Idle /\ \A v \in Workers \ {w} : f[v] = js[v]
    BY <2>2 DEF Sound
  <2>4. \A i \in Items : c[i].uploadId \in 1..g \cup {None}
    BY <2>1 DEF Sound
  <2>5. ASSUME NEW v \in Workers
        PROVE  /\ f[v].upload \in 1..g \cup {None}
               /\ IF f[v].step = "idle" THEN f[v] = Idle ELSE f[v].item \in Items
               /\ f[v].step \in {"reserving", "sending", "posting"} => f[v].tries < MaxRetries
    BY <2>2, <2>3 DEF Sound
  <2> QED BY <2>1, <2>3, <2>4, <2>5 DEF Sound
<1>3. \A v \in Workers \ {w} : f[v] = js[v]
  BY DEF Sound
<1> HIDE DEF c, f
<1> QED BY <1>1, <1>2, <1>3, Pull

\* An item that changes without being queued, and a worker that changes without becoming
\* idle, keep the items and jobs sound and the queue taken.
LEMMA Change ==
  ASSUME NEW its, NEW js, NEW g \in Nat, NEW i \in Items, NEW w \in Workers,
         Sound(its, js, g), Taken(its, js),
         NEW it \in ItemType, it.uploadId \in 1..g \cup {None},
         it.status # "queued" \/ it.status = its[i].status,
         NEW j \in JobType, j.step # "idle", j.upload \in 1..g \cup {None}, j.item \in Items,
         j.step \in {"reserving", "sending", "posting"} => j.tries < MaxRetries
  PROVE  /\ Sound([its EXCEPT ![i] = it], [js EXCEPT ![w] = j], g)
         /\ Taken([its EXCEPT ![i] = it], [js EXCEPT ![w] = j])
<1>1. Sound([its EXCEPT ![i] = it], [js EXCEPT ![w] = j], g)
  BY DEF Sound
<1>2. Taken([its EXCEPT ![i] = it], [js EXCEPT ![w] = j])
  BY Busy DEF Sound, Taken
<1> QED BY <1>1, <1>2

\* The end of an attempt, with or without something to discard.
LEMMA UnwindKeeps ==
  ASSUME NEW its, NEW js, NEW g \in Nat, g <= MaxUploads, listed \subseteq Items,
         NEW w \in Workers, NEW pol \in Actions \cup {None}, NEW step, step = "discarding" \/ step = "dropping",
         js[w].step # "idle", Sound(its, js, g), Taken(its, js), aborting \subseteq 1..g,
         Unwind(its, js, w, pol, step)
  PROVE  /\ Sound(items', job', g) /\ Taken(items', job')
         /\ policy' \in Actions \cup {None} /\ aborting' \subseteq 1..g
         /\ \A v \in Workers \ {w} : js[v] # Idle => job'[v] = js[v]
<1> DEFINE i == js[w].item
           u == its[i].uploadId
<1>1. i \in Items /\ its[i] \in ItemType /\ js[w] \in JobType /\ u \in 1..g \cup {None}
  BY DEF Sound
<1>2. aborting' \subseteq 1..g
  BY <1>1 DEF Unwind, SendAbort
<1>3. CASE u = None
  <2> DEFINE c == [its EXCEPT ![i].status = Outcome(step, @)]
  <2>1. Finish(c, js, w, pol)
    BY <1>3 DEF Unwind
  <2>2. [its[i] EXCEPT !.status = Outcome(step, @)] \in ItemType
    <3>1. Outcome(step, its[i].status) \in Statuses
      BY <1>1 DEF ItemType, Outcome, Thrown, Returned, Statuses, Retryable
    <3> QED BY <1>1, <3>1 DEF ItemType
  <2>3. c = [its EXCEPT ![i] = [its[i] EXCEPT !.status = Outcome(step, @)]]
    OBVIOUS
  <2>4. Sound(c, js, g)
    BY <1>1, <2>2, <2>3 DEF Sound, ItemType
  <2> HIDE DEF c
  <2> QED BY <1>2, <2>1, <2>4, FinishKeeps
<1>4. CASE u # None
  <2> DEFINE it == [its[i] EXCEPT !.uploadId = None]
             j == [js[w] EXCEPT !.step = step, !.upload = u]
  <2>1. items' = [its EXCEPT ![i] = it] /\ job' = [js EXCEPT ![w] = j] /\ policy' = pol
    BY <1>4 DEF Unwind, Sound
  <2>2. it \in ItemType /\ it.uploadId = None /\ it.status = its[i].status
    BY <1>1 DEF ItemType
  <2>3. u \in Uploads
    BY <1>1, <1>4, QueueAssumption DEF Uploads
  <2>4. j \in JobType /\ j.step = step /\ j.upload = u /\ j.item = i
    BY <1>1, <2>3 DEF JobType, Steps
  <2>5. \A v \in Workers \ {w} : job'[v] = js[v]
    BY <2>1 DEF Sound
  <2> HIDE DEF it, j, i, u
  <2>6. Sound(items', job', g) /\ Taken(items', job')
    BY <1>1, <2>1, <2>2, <2>4, Change
  <2> QED BY <1>2, <2>1, <2>5, <2>6
<1> QED BY <1>3, <1>4

\* An attempt goes on, or ends with what was decided.
LEMMA ContinueKeeps ==
  ASSUME NEW its, NEW js, NEW g \in Nat, g <= MaxUploads, listed \subseteq Items,
         NEW w \in Workers, NEW pol \in Actions \cup {None},
         js[w].step # "idle", Sound(its, js, g), Taken(its, js),
         Continue(its, js, w, pol)
  PROVE  /\ Sound(items', job', g) /\ Taken(items', job') /\ policy' \in Actions \cup {None}
         /\ \A v \in Workers \ {w} : js[v] # Idle => job'[v] = js[v]
<1> DEFINE i == js[w].item
<1>1. i \in Items /\ its[i] \in ItemType /\ its[i].uploadId \in 1..g \cup {None}
  BY DEF Sound
<1>2. CASE its[i].status \in {"skipped", "cancelled"}
  <2> DEFINE c == [its EXCEPT ![i].status = Returned(@)]
  <2>1. Finish(c, js, w, pol)
    BY <1>2 DEF Continue
  <2>2. [its[i] EXCEPT !.status = Returned(@)] \in ItemType
    BY <1>1 DEF ItemType, Returned, Statuses
  <2>3. c = [its EXCEPT ![i] = [its[i] EXCEPT !.status = Returned(@)]]
    OBVIOUS
  <2>4. Sound(c, js, g)
    BY <1>1, <2>2, <2>3 DEF Sound, ItemType
  <2> HIDE DEF c
  <2> QED BY <2>1, <2>4, FinishKeeps
<1>3. CASE its[i].status \notin {"skipped", "cancelled"}
  <2> DEFINE it == Sending(its[i], Request(i, its[i]), w)
             j == Attempt(i, its[i])
  <2>1. items' = [its EXCEPT ![i] = it] /\ job' = [js EXCEPT ![w] = j] /\ policy' = pol
    BY <1>3 DEF Continue
  <2>2. it \in ItemType /\ it.uploadId = its[i].uploadId /\ it.status = its[i].status
    BY <1>1 DEF ItemType, Sending
  <2>3. /\ j \in JobType /\ j.step # "idle" /\ j.upload \in 1..g \cup {None} /\ j.item \in Items
        /\ j.tries < MaxRetries
    BY <1>1, Start, QueueAssumption
  <2>4. \A v \in Workers \ {w} : job'[v] = js[v]
    BY <2>1 DEF Sound
  <2> HIDE DEF it, j, i
  <2>5. Sound(items', job', g) /\ Taken(items', job')
    BY <1>1, <2>1, <2>2, <2>3, Change
  <2> QED BY <2>1, <2>4, <2>5
<1> QED BY <1>2, <1>3

\* An item that a handler touches without queueing it.
LEMMA Touch ==
  ASSUME NEW its, NEW js, NEW g \in Nat, NEW i \in Items, Sound(its, js, g), Taken(its, js),
         NEW it \in ItemType, it.uploadId \in 1..g \cup {None},
         it.status # "queued" \/ it.status = its[i].status
  PROVE  Sound([its EXCEPT ![i] = it], js, g) /\ Taken([its EXCEPT ![i] = it], js)
<1>1. Sound([its EXCEPT ![i] = it], js, g)
  BY DEF Sound
<1>2. Taken([its EXCEPT ![i] = it], js)
  BY DEF Sound, Taken
<1> QED BY <1>1, <1>2

\* A status of which the queue takes no notice.
LEMMA Restatus ==
  ASSUME NEW its, NEW js, NEW g \in Nat, NEW i \in Items, NEW st \in Statuses \ {"queued"},
         Sound(its, js, g), Taken(its, js)
  PROVE  /\ Sound([its EXCEPT ![i].status = st], js, g)
         /\ Taken([its EXCEPT ![i].status = st], js)
<1> DEFINE it == [its[i] EXCEPT !.status = st]
<1>1. it \in ItemType /\ it.uploadId = its[i].uploadId /\ it.status = st
  BY DEF Sound, ItemType
<1>2. [its EXCEPT ![i].status = st] = [its EXCEPT ![i] = it]
  OBVIOUS
<1> HIDE DEF it
<1>3. Sound([its EXCEPT ![i] = it], js, g)
  BY <1>1 DEF Sound
<1>4. Taken([its EXCEPT ![i] = it], js)
  BY <1>1 DEF Sound, Taken
<1> QED BY <1>2, <1>3, <1>4

\* A decision leaves an item an item, with its id and its place in the queue.
LEMMA Applied ==
  ASSUME NEW it \in ItemType, NEW action \in Actions
  PROVE  /\ ApplyDecision(it, action) \in ItemType
         /\ ApplyDecision(it, action).uploadId = it.uploadId
         /\ ApplyDecision(it, action).status \in {it.status, "skipped"}
         /\ action # "skip" => ApplyDecision(it, action).status = it.status
<1>1. CASE action = "overwrite"
  BY <1>1 DEF ApplyDecision, ItemType
<1>2. CASE action = "skip"
  BY <1>2 DEF ApplyDecision, ItemType, Statuses, Retryable
<1>3. CASE action = "rename"
  BY <1>3 DEF ApplyDecision
<1> QED BY <1>1, <1>2, <1>3 DEF Actions

\* A decision about a conflict met during the transfer.
LEMMA DecideKeeps ==
  ASSUME NEW its, NEW js, NEW g \in Nat, g <= MaxUploads, listed \subseteq Items,
         NEW w \in Workers, NEW action \in Actions, NEW pol \in Actions \cup {None},
         js[w].step # "idle", Sound(its, js, g), Taken(its, js), aborting \subseteq 1..g,
         Decide(its, js, w, action, pol)
  PROVE  /\ Sound(items', job', g) /\ Taken(items', job')
         /\ policy' \in Actions \cup {None} /\ aborting' \subseteq 1..g
         /\ \A v \in Workers \ {w} : js[v] # Idle => job'[v] = js[v]
<1> DEFINE i == js[w].item
           it == ApplyDecision(its[i], action)
           decided == [its EXCEPT ![i] = it]
<1>1. i \in Items /\ its[i] \in ItemType /\ its[i].uploadId \in 1..g \cup {None}
  BY DEF Sound
<1>2. it \in ItemType /\ it.uploadId = its[i].uploadId /\ it.status \in {its[i].status, "skipped"}
  BY <1>1, Applied
<1>3. IF action = "skip" THEN Unwind(decided, js, w, pol, "dropping")
                         ELSE Continue(decided, js, w, pol) /\ UNCHANGED aborting
  BY DEF Decide
<1> HIDE DEF i, it
<1>4. Sound(decided, js, g) /\ Taken(decided, js)
  BY <1>1, <1>2, Touch
<1> HIDE DEF decided
<1>5. CASE action = "skip"
  <2>1. Unwind(decided, js, w, pol, "dropping")
    BY <1>3, <1>5
  <2> QED BY <1>4, <2>1, UnwindKeeps
<1>6. CASE action # "skip"
  <2>1. Continue(decided, js, w, pol) /\ aborting' = aborting
    BY <1>3, <1>6
  <2> QED BY <1>4, <2>1, ContinueKeeps
<1> QED BY <1>5, <1>6

-----------------------------------------------------------------------------
(* One lemma per action, or per kind of action.                              *)

\* The empty queue satisfies the invariant.
LEMMA InitIInv == Init => IInv
<1> SUFFICES ASSUME Init PROVE IInv
  OBVIOUS
<1>1. 0 \in 0..Chunks /\ 0 \in 0..MaxRetries /\ 0 \in 0..MaxUploads
  BY QueueAssumption
<1>2. NewItem \in ItemType /\ NewItem.uploadId = None
  BY DEF NewItem, ItemType, Statuses
<1>3. Idle \in JobType /\ Idle.step = "idle" /\ Idle.upload = None
  BY <1>1 DEF Idle, JobType, Steps
<1>4. Sound(items, job, given)
  BY <1>2, <1>3 DEF Init, Sound
<1>5. TypeOK
  BY <1>1, <1>4 DEF Init, TypeOK, Sound
<1>6. WorkIsTaken /\ Asks
  BY Apart DEF Init, WorkIsTaken, Taken, Asks
<1> QED BY <1>4, <1>5, <1>6 DEF IInv

\* A dialog goes on asking the same worker when nothing but another one changes.
LEMMA SameDialog ==
  ASSUME IInv, NEW w \in Workers, job[w].step # "asking", UNCHANGED <<asker, superseded>>,
         \A v \in Workers \ {w} : job[v] # Idle => job'[v] = job[v]
  PROVE  Asks'
BY Busy DEF IInv, Asks

\* What a step about one worker has to show.
LEMMA WorkerStep ==
  ASSUME IInv, NEW w \in Workers, job[w].step # "asking",
         UNCHANGED <<listed, retrying, calls, applied, asker, hidden, superseded>>,
         given' \in 0..MaxUploads, open' \subseteq 1..given', aborting' \subseteq 1..given',
         policy' \in Actions \cup {None},
         Sound(items', job', given'), Taken(items', job'),
         \A v \in Workers \ {w} : job[v] # Idle => job'[v] = job[v]
  PROVE  IInv'
<1>1. Asks'
  BY SameDialog
<1>2. TypeOK'
  BY DEF IInv, TypeOK, Sound, calls
<1>3. WorkIsTaken'
  BY DEF WorkIsTaken, Taken
<1>4. Sound(items, job, given)'
  BY DEF Sound
<1> QED BY <1>1, <1>2, <1>3, <1>4 DEF IInv

\* What the invariant says of the variables the parts of a run take.
LEMMA Given ==
  ASSUME IInv
  PROVE  /\ given \in Nat /\ given <= MaxUploads /\ given \in 0..MaxUploads /\ listed \subseteq Items
         /\ Sound(items, job, given) /\ Taken(items, job)
         /\ policy \in Actions \cup {None} /\ applied \in Actions \cup {None}
         /\ open \subseteq 1..given /\ aborting \subseteq 1..given
         /\ \A w \in Workers : job[w].step # "idle" => job[w].item \in Items
BY QueueAssumption DEF IInv, TypeOK, WorkIsTaken, Sound

\* A step that moves an attempt on: its item is not queued by it.
LEMMA Move ==
  ASSUME IInv, NEW w \in Workers, job[w].step # "idle", job[w].step # "asking",
         UNCHANGED <<listed, retrying, calls, applied, asker, hidden, superseded, policy, aborting>>,
         NEW it \in ItemType, it.uploadId \in 1..given' \cup {None},
         it.status = items[job[w].item].status,
         NEW j \in JobType, j.step # "idle", j.upload \in 1..given' \cup {None}, j.item \in Items,
         j.step \in {"reserving", "sending", "posting"} => j.tries < MaxRetries,
         items' = [items EXCEPT ![job[w].item] = it], job' = [job EXCEPT ![w] = j],
         given' \in 0..MaxUploads, given <= given', open' \subseteq 1..given'
  PROVE  IInv'
<1>1. given' \in Nat /\ \A k \in 1..given : k \in 1..given'
  BY Given, QueueAssumption
<1>2. Sound(items, job, given') /\ Taken(items, job) /\ job[w].item \in Items
  BY <1>1, Given DEF Sound
<1>3. Sound(items', job', given') /\ Taken(items', job')
  BY <1>1, <1>2, Change
<1>4. \A v \in Workers \ {w} : job'[v] = job[v]
  BY Given DEF Sound
<1>5. aborting' \subseteq 1..given' /\ policy' \in Actions \cup {None}
  BY <1>1, Given
<1> QED BY <1>3, <1>4, <1>5, WorkerStep

\* A failure ends the attempt.
LEMMA FailStep ==
  ASSUME IInv, NEW w \in Workers, NEW its, job[w].step # "idle", job[w].step # "asking",
         UNCHANGED <<listed, retrying, calls, applied, asker, hidden, superseded>>,
         given' \in 0..MaxUploads, given <= given', open' \subseteq 1..given',
         Sound(its, job, given'), Taken(its, job), Fail(its, w)
  PROVE  IInv'
<1>1. given' \in Nat /\ given' <= MaxUploads /\ aborting \subseteq 1..given'
  BY Given, QueueAssumption
<1>2. /\ Sound(items', job', given') /\ Taken(items', job')
      /\ policy' \in Actions \cup {None} /\ aborting' \subseteq 1..given'
      /\ \A v \in Workers \ {w} : job[v] # Idle => job'[v] = job[v]
  BY <1>1, Given, UnwindKeeps DEF Fail
<1> QED BY <1>2, WorkerStep

\* A request starts.
LEMMA SendingType ==
  ASSUME NEW it \in ItemType, NEW w \in Workers, NEW step
  PROVE  /\ Sending(it, step, w) \in ItemType
         /\ Sending(it, step, w).uploadId = it.uploadId
         /\ Sending(it, step, w).status = it.status
BY DEF Sending, ItemType

\* The id becomes the item's, and is handed out before it is used.
LEMMA ReservedStep == ASSUME IInv, NEW w \in Workers, Reserved(w) PROVE IInv'
<1> DEFINE i == job[w].item
           u == given + 1
           it == [items[i] EXCEPT !.uploadId = u]
           its == [items EXCEPT ![i] = it]
<1>1. i \in Items /\ items[i] \in ItemType
  BY Given DEF Reserved, Sound
<1>2. /\ u \in Uploads /\ given' = u /\ given' \in 0..MaxUploads /\ given <= given'
      /\ given' \in Nat /\ open' \subseteq 1..given'
      /\ \A k \in 1..given \cup {None} : k \in 1..given' \cup {None}
  BY Given, QueueAssumption DEF Reserved, Uploads
<1>3. it \in ItemType /\ it.uploadId = u /\ it.status = items[i].status /\ u \in 1..given'
  BY <1>1, <1>2, Given DEF ItemType
<1>4. CASE items[i].status = "cancelled"
  <2>1. Fail(its, w)
    BY <1>4 DEF Reserved
  <2>2. Sound(items, job, given') /\ Taken(items, job)
    BY <1>2, Given DEF Sound
  <2> HIDE DEF it
  <2>3. Sound(its, job, given')
    BY <1>1, <1>2, <1>3, <2>2 DEF Sound
  <2>4. Taken(its, job)
    BY <1>1, <1>3, <2>2, Given DEF Taken, Sound
  <2> HIDE DEF its
  <2> QED BY <1>2, <2>1, <2>3, <2>4, FailStep DEF Reserved
<1>5. CASE items[i].status # "cancelled"
  <2> DEFINE st == Sending(it, "sending", w)
             j == [job[w] EXCEPT !.step = "sending", !.upload = u, !.chunk = 1]
  <2>1. items' = [items EXCEPT ![i] = st] /\ job' = [job EXCEPT ![w] = j]
    BY <1>1, <1>5, Given DEF Reserved, Sound
  <2>2. st \in ItemType /\ st.uploadId = u /\ st.status = items[i].status
    <3> HIDE DEF it
    <3> QED BY <1>3, SendingType
  <2>3. job[w] \in JobType /\ job[w].tries < MaxRetries /\ 1 \in 0..Chunks
    BY Given, QueueAssumption DEF Reserved, Sound
  <2>4. j \in JobType /\ j.step = "sending" /\ j.upload = u /\ j.item = i /\ j.tries < MaxRetries
    BY <1>2, <2>3 DEF JobType, Steps
  <2>5. UNCHANGED <<policy, aborting>>
    BY <1>5 DEF Reserved
  <2> HIDE DEF st, j, i, u
  <2> QED BY <1>1, <1>2, <1>3, <2>1, <2>2, <2>4, <2>5, Move DEF Reserved, i
<1> QED BY <1>4, <1>5

\* A step that hands out no id.
LEMMA NoneGiven ==
  ASSUME IInv, given' = given, open' \subseteq open
  PROVE  /\ given' \in 0..MaxUploads /\ given <= given' /\ open' \subseteq 1..given'
         /\ 1..given' = 1..given /\ Sound(items, job, given') /\ Taken(items, job)
         /\ aborting \subseteq 1..given'
BY Given

\* An item as it is, given back to the function it is in.
LEMMA Same == ASSUME IInv, NEW i \in Items PROVE items = [items EXCEPT ![i] = items[i]]
BY Given DEF Sound

\* The next chunk starts without tries; the commit needs none.
LEMMA ChunkStoredStep == ASSUME IInv, NEW w \in Workers, ChunkStored(w) PROVE IInv'
<1> DEFINE i == job[w].item
           last == job[w].chunk = Chunks
           next == IF last THEN "committing" ELSE "sending"
           it == Sending(items[i], next, w)
           j == [job[w] EXCEPT !.step = next, !.tries = 0,
                               !.upload = IF last THEN items[i].uploadId ELSE @,
                               !.chunk = IF last THEN 0 ELSE @ + 1]
<1>1. /\ i \in Items /\ items[i] \in ItemType /\ items[i].uploadId \in 1..given \cup {None}
      /\ job[w] \in JobType /\ job[w].upload \in 1..given \cup {None}
  BY Given DEF ChunkStored, Sound
<1>2. CASE Fail(items, w)
  BY <1>2, NoneGiven, FailStep DEF ChunkStored
<1>3. CASE ~Fail(items, w)
  <2>1. items' = [items EXCEPT ![i] = it] /\ job' = [job EXCEPT ![w] = j]
    BY <1>3, Zenon DEF ChunkStored
  <2>2. it \in ItemType /\ it.uploadId = items[i].uploadId /\ it.status = items[i].status
    BY <1>1, SendingType
  <2>3. /\ 0 \in 0..MaxRetries /\ 0 < MaxRetries /\ 0 \in 0..Chunks
        /\ ~last => job[w].chunk + 1 \in 0..Chunks
    BY <1>1, QueueAssumption DEF JobType
  <2>4. next \in Steps /\ next # "idle"
    BY DEF Steps
  <2>5. (IF last THEN items[i].uploadId ELSE job[w].upload) \in Uploads \cup {None}
    BY <1>1 DEF ItemType, JobType
  <2> HIDE DEF next, last
  <2>6. j \in JobType /\ j.step = next /\ j.item = i /\ j.tries = 0
    BY <1>1, <2>3, <2>4, <2>5 DEF JobType
  <2>7. j.upload \in 1..given \cup {None}
    BY <1>1
  <2>8. UNCHANGED <<policy, aborting, given>>
    BY <1>3 DEF ChunkStored
  <2> HIDE DEF it, j, i
  <2> QED BY <1>1, <2>1, <2>2, <2>3, <2>4, <2>6, <2>7, <2>8, NoneGiven, Move DEF ChunkStored, i
<1> QED BY <1>2, <1>3

\* A try that counts up was below the limit.
LEMMA SendFailsStep == ASSUME IInv, NEW w \in Workers, SendFails(w) PROVE IInv'
<1> DEFINE j == [job[w] EXCEPT !.step = "backoff", !.tries = @ + 1]
<1>1. /\ job[w].item \in Items /\ job[w] \in JobType /\ job[w].upload \in 1..given \cup {None}
      /\ job[w].tries < MaxRetries
  BY Given DEF SendFails, Sound
<1>2. job[w].tries + 1 \in 0..MaxRetries
  BY <1>1, QueueAssumption DEF JobType
<1>3. j \in JobType /\ j.step = "backoff" /\ j.item = job[w].item /\ j.upload = job[w].upload
  BY <1>1, <1>2 DEF JobType, Steps
<1>4. job' = [job EXCEPT ![w] = j] /\ items' = [items EXCEPT ![job[w].item] = items[job[w].item]]
  BY <1>1, Same, Given DEF SendFails, Sound
<1>5. items[job[w].item] \in ItemType /\ items[job[w].item].uploadId \in 1..given \cup {None}
  BY <1>1, Given DEF Sound
<1> HIDE DEF j
<1> QED BY <1>1, <1>3, <1>4, <1>5, NoneGiven, Move, ZenonT(40) DEF SendFails, dialog, server

\* Only a wait below the limit is followed by another try.
LEMMA BackoffEndsStep == ASSUME IInv, NEW w \in Workers, BackoffEnds(w) PROVE IInv'
<1> DEFINE i == job[w].item
           again == IF i \in Small THEN "posting" ELSE "sending"
           it == Sending(items[i], again, w)
           j == [job[w] EXCEPT !.step = again]
<1>1. /\ i \in Items /\ items[i] \in ItemType /\ items[i].uploadId \in 1..given \cup {None}
      /\ job[w] \in JobType /\ job[w].upload \in 1..given \cup {None}
  BY Given DEF BackoffEnds, Sound
<1>2. CASE Fail(items, w)
  BY <1>2, NoneGiven, FailStep DEF BackoffEnds
<1>3. CASE ~Fail(items, w)
  <2>1. items' = [items EXCEPT ![i] = it] /\ job' = [job EXCEPT ![w] = j]
    BY <1>1, <1>3, Given DEF BackoffEnds, Sound
  <2>2. it \in ItemType /\ it.uploadId = items[i].uploadId /\ it.status = items[i].status
    BY <1>1, SendingType
  <2>3. job[w].tries < MaxRetries
    BY <1>1, <1>3, QueueAssumption DEF BackoffEnds, JobType
  <2>4. again \in Steps /\ again # "idle"
    BY DEF Steps
  <2> HIDE DEF again
  <2>5. j \in JobType /\ j.step = again /\ j.item = i /\ j.tries = job[w].tries /\ j.upload = job[w].upload
    BY <1>1, <2>4 DEF JobType
  <2>6. UNCHANGED <<policy, aborting, given>>
    BY <1>3 DEF BackoffEnds
  <2> HIDE DEF it, j, i
  <2> QED BY <1>1, <2>1, <2>2, <2>3, <2>4, <2>5, <2>6, NoneGiven, Move DEF BackoffEnds, i
<1> QED BY <1>2, <1>3

\* A refusal unwinds.
LEMMA RefusedStep == ASSUME IInv, NEW w \in Workers, Refused(w) PROVE IInv'
BY NoneGiven, FailStep DEF Refused

\* A worker finds its destination taken.
LEMMA OccupiedStep ==
  ASSUME IInv, NEW w \in Workers, job[w].step # "idle", job[w].step # "asking",
         UNCHANGED <<listed, retrying, calls, applied, asker, hidden, superseded, open, given>>,
         NEW it \in ItemType, it.uploadId = items[job[w].item].uploadId,
         it.status = items[job[w].item].status,
         Occupied([items EXCEPT ![job[w].item] = it], w)
  PROVE  IInv'
<1> DEFINE i == job[w].item
           its == [items EXCEPT ![i] = it]
<1>1. /\ i \in Items /\ job[w] \in JobType /\ job[w].upload \in 1..given \cup {None}
      /\ it.uploadId \in 1..given \cup {None} /\ its[i] = it
  BY Given DEF Sound
<1>2. CASE it.reprompted
  <2>1. Fail(its, w)
    BY <1>1, <1>2 DEF Occupied
  <2>2. Sound(its, job, given) /\ Taken(its, job)
    BY <1>1, Given, Touch
  <2> HIDE DEF its
  <2> QED BY <2>1, <2>2, NoneGiven, FailStep
<1>3. CASE ~it.reprompted
  <2> DEFINE jt == [it EXCEPT !.reprompted = TRUE]
             j == [job[w] EXCEPT !.step = "rechecking"]
  <2>1. items' = [its EXCEPT ![i] = jt] /\ job' = [job EXCEPT ![w] = j] /\ UNCHANGED <<policy, aborting>>
    BY <1>1, <1>3 DEF Occupied
  <2>2. jt \in ItemType /\ jt.uploadId = it.uploadId /\ jt.status = it.status
    BY DEF ItemType
  <2>3. j \in JobType /\ j.step = "rechecking" /\ j.item = i /\ j.upload = job[w].upload
    BY <1>1 DEF JobType, Steps
  <2> HIDE DEF jt, j
  <2>4. items' = [items EXCEPT ![i] = jt]
    BY <2>1, Given DEF Sound
  <2> HIDE DEF i, its
  <2> QED BY <1>1, <2>1, <2>2, <2>3, <2>4, NoneGiven, Move DEF i
<1> QED BY <1>2, <1>3

\* A worker is done.
LEMMA FinishStep ==
  ASSUME IInv, NEW w \in Workers, NEW its, job[w].step # "asking",
         UNCHANGED <<listed, retrying, calls, applied, asker, hidden, superseded, given>>,
         open' \subseteq open, aborting' \subseteq aborting,
         Sound(its, job, given), Finish(its, job, w, policy)
  PROVE  IInv'
<1>1. /\ Sound(items', job', given) /\ Taken(items', job') /\ policy' \in Actions \cup {None}
      /\ \A v \in Workers \ {w} : job[v] # Idle => job'[v] = job[v]
  BY Given, FinishKeeps
<1>2. given' \in 0..MaxUploads /\ open' \subseteq 1..given' /\ aborting' \subseteq 1..given'
  BY Given
<1> QED BY <1>1, <1>2, WorkerStep

\* The user is asked, or the attempt unwinds.
LEMMA ConflictsStep == ASSUME IInv, NEW w \in Workers, Conflicts(w) PROVE IInv'
<1>1. job[w].item \in Items /\ items[job[w].item] \in ItemType
  BY Given DEF Conflicts, Sound
<1>2. Occupied([items EXCEPT ![job[w].item] = items[job[w].item]], w)
  BY <1>1, Same DEF Conflicts
<1> QED BY <1>1, <1>2, OccupiedStep DEF Conflicts

\* The end of an upload that went well.
LEMMA Finished ==
  ASSUME NEW it \in ItemType
  PROVE  /\ [it EXCEPT !.status = Returned(@)] \in ItemType
         /\ [it EXCEPT !.status = Returned(@)].uploadId = it.uploadId
<1>1. Returned(it.status) \in Statuses
  BY DEF ItemType, Returned, Statuses, Retryable
<1> QED BY <1>1 DEF ItemType

\* A small file is done, and the worker looks at the queue.
LEMMA PostStoredStep == ASSUME IInv, NEW w \in Workers, PostStored(w) PROVE IInv'
<1> DEFINE i == job[w].item
           it == [items[i] EXCEPT !.status = Returned(@)]
           its == [items EXCEPT ![i] = it]
<1>1. i \in Items /\ items[i] \in ItemType /\ items[i].uploadId \in 1..given \cup {None}
  BY Given DEF PostStored, Sound
<1>2. it \in ItemType /\ it.uploadId = items[i].uploadId
  BY <1>1, Finished
<1>3. Finish(its, job, w, policy)
  BY DEF PostStored
<1> HIDE DEF it
<1>4. Sound(its, job, given)
  BY <1>1, <1>2, Given DEF Sound
<1> HIDE DEF its
<1> QED BY <1>3, <1>4, FinishStep DEF PostStored, server

\* A step after which a worker is somewhere else and its item as before.
LEMMA JobMoves ==
  ASSUME IInv, NEW w \in Workers, job[w].step # "idle", job[w].step # "asking",
         UNCHANGED <<listed, items, retrying, calls, dialog, aborting, given>>, open' \subseteq open,
         NEW j \in JobType, j.item = job[w].item, j.upload = job[w].upload,
         j.step \notin {"idle", "reserving", "sending", "posting"},
         job' = [job EXCEPT ![w] = j]
  PROVE  IInv'
<1>1. /\ job[w].item \in Items /\ job[w].upload \in 1..given \cup {None}
      /\ items[job[w].item] \in ItemType /\ items[job[w].item].uploadId \in 1..given \cup {None}
  BY Given DEF Sound
<1>2. items' = [items EXCEPT ![job[w].item] = items[job[w].item]]
  BY <1>1, Same
<1> QED BY <1>1, <1>2, NoneGiven, Move DEF dialog

\* Only the server's chunks and the worker's step change.
LEMMA CommitStoresStep == ASSUME IInv, NEW w \in Workers, CommitStores(w) PROVE IInv'
<1> DEFINE j == [job[w] EXCEPT !.step = "stored"]
<1>1. job' = [job EXCEPT ![w] = j] /\ job[w] \in JobType
  BY Given DEF CommitStores, Sound
<1>2. j \in JobType /\ j.step = "stored" /\ j.item = job[w].item /\ j.upload = job[w].upload
  BY <1>1 DEF JobType, Steps
<1> HIDE DEF j
<1> QED BY <1>1, <1>2, JobMoves DEF CommitStores

\* Only the worker's step changes.
LEMMA CommitOccupiedStep == ASSUME IInv, NEW w \in Workers, CommitOccupied(w) PROVE IInv'
<1> DEFINE j == [job[w] EXCEPT !.step = "occupied"]
<1>1. job' = [job EXCEPT ![w] = j] /\ job[w] \in JobType
  BY Given DEF CommitOccupied, Sound
<1>2. j \in JobType /\ j.step = "occupied" /\ j.item = job[w].item /\ j.upload = job[w].upload
  BY <1>1 DEF JobType, Steps
<1> HIDE DEF j
<1> QED BY <1>1, <1>2, JobMoves DEF CommitOccupied, server

\* A large file is done, and the worker looks at the queue.
LEMMA CommitAnsweredStep == ASSUME IInv, NEW w \in Workers, CommitAnswered(w) PROVE IInv'
<1> DEFINE i == job[w].item
           kt == [items[i] EXCEPT !.finalizing = FALSE, !.uploadId = None]
           it == [kt EXCEPT !.status = Returned(@)]
           its == [items EXCEPT ![i] = it]
<1>1. i \in Items /\ items[i] \in ItemType
  BY Given DEF CommitAnswered, Sound
<1>2. kt \in ItemType /\ kt.uploadId = None
  BY <1>1 DEF ItemType
<1>3. Finish(its, job, w, policy)
  BY <1>1, Given, ZenonT(40) DEF CommitAnswered, Sound
<1> HIDE DEF kt
<1>4. it \in ItemType /\ it.uploadId = None
  BY <1>2, Finished
<1> HIDE DEF it
<1>5. Sound(its, job, given)
  BY <1>1, <1>4, Given DEF Sound
<1> HIDE DEF its
<1> QED BY <1>3, <1>5, FinishStep DEF CommitAnswered, server

\* An item whose commit is over.
LEMMA SettledJob ==
  ASSUME NEW it \in ItemType
  PROVE  /\ [it EXCEPT !.finalizing = FALSE] \in ItemType
         /\ [it EXCEPT !.finalizing = FALSE].uploadId = it.uploadId
         /\ [it EXCEPT !.finalizing = FALSE].status = it.status
BY DEF ItemType

\* The commit is over; then as for any conflict.
LEMMA CommitRefusedStep == ASSUME IInv, NEW w \in Workers, CommitRefused(w) PROVE IInv'
<1> DEFINE it == [items[job[w].item] EXCEPT !.finalizing = FALSE]
<1>1. items[job[w].item] \in ItemType
  BY Given DEF CommitRefused, Sound
<1>2. Occupied([items EXCEPT ![job[w].item] = it], w)
  BY DEF CommitRefused
<1>3. /\ it \in ItemType /\ it.uploadId = items[job[w].item].uploadId
      /\ it.status = items[job[w].item].status
  BY <1>1, SettledJob
<1> HIDE DEF it
<1> QED BY <1>2, <1>3, OccupiedStep DEF CommitRefused

\* The commit is over; then the attempt unwinds.
LEMMA CommitFailsStep == ASSUME IInv, NEW w \in Workers, CommitFails(w) PROVE IInv'
<1> DEFINE it == [items[job[w].item] EXCEPT !.finalizing = FALSE]
           its == [items EXCEPT ![job[w].item] = it]
<1>1. /\ job[w].item \in Items /\ items[job[w].item] \in ItemType
      /\ items[job[w].item].uploadId \in 1..given \cup {None}
  BY Given DEF CommitFails, Sound
<1>2. Fail(its, w) /\ open' \subseteq open
  BY DEF CommitFails
<1>3. /\ it \in ItemType /\ it.uploadId = items[job[w].item].uploadId
      /\ it.status = items[job[w].item].status
  BY <1>1, SettledJob
<1> HIDE DEF it
<1>4. Sound(its, job, given) /\ Taken(its, job)
  BY <1>1, <1>3, Given, Touch
<1> HIDE DEF its
<1> QED BY <1>2, <1>4, NoneGiven, FailStep DEF CommitFails

\* The attempt ends, and the worker looks at the queue.
LEMMA DiscardAnsweredStep == ASSUME IInv, NEW w \in Workers, DiscardAnswered(w) PROVE IInv'
<1> DEFINE i == job[w].item
           it == [items[i] EXCEPT !.status = Outcome(job[w].step, @)]
           its == [items EXCEPT ![i] = it]
<1>1. i \in Items /\ items[i] \in ItemType /\ items[i].uploadId \in 1..given \cup {None}
  BY Given DEF DiscardAnswered, Sound
<1>2. it \in ItemType /\ it.uploadId = items[i].uploadId
  <2>1. Outcome(job[w].step, items[i].status) \in Statuses
    BY <1>1 DEF ItemType, Outcome, Thrown, Returned, Statuses, Retryable
  <2> QED BY <1>1, <2>1 DEF ItemType
<1>3. Finish(its, job, w, policy)
  BY DEF DiscardAnswered
<1> HIDE DEF it
<1>4. Sound(its, job, given)
  BY <1>1, <1>2, Given DEF Sound
<1> HIDE DEF its
<1>5. open' \subseteq open /\ aborting' \subseteq aborting /\ given' = given
  BY DEF DiscardAnswered, AbortAnswered
<1> QED BY <1>3, <1>4, <1>5, FinishStep DEF DiscardAnswered

\* The transfer goes on, or ends.
LEMMA RecheckFreeStep == ASSUME IInv, NEW w \in Workers, RecheckFree(w) PROVE IInv'
<1>1. /\ Sound(items', job', given) /\ Taken(items', job') /\ policy' \in Actions \cup {None}
      /\ \A v \in Workers \ {w} : job[v] # Idle => job'[v] = job[v]
  BY Given, ContinueKeeps DEF RecheckFree
<1>2. /\ given' = given /\ open' = open /\ aborting' = aborting
      /\ given' \in 0..MaxUploads /\ open' \subseteq 1..given' /\ aborting' \subseteq 1..given'
  BY Given DEF RecheckFree, server
<1> QED BY <1>1, <1>2, WorkerStep DEF RecheckFree

\* What the user answers is an action for every conflict, and maybe one for all.
LEMMA AnswersType ==
  ASSUME NEW C, NEW answer \in Answers(C), applied \in Actions \cup {None}
  PROVE  answer.all \in Actions \cup {None} /\ \A i \in C : answer.decide[i] \in Actions
<1>1. "rename" \in Actions
  BY DEF Actions
<1>2. CASE answer \in {[decide |-> [i \in C |-> "rename"], all |-> applied]}
  BY <1>1, <1>2
<1>3. CASE answer \in {[decide |-> [i \in C |-> a], all |-> a] : a \in Actions}
  BY <1>3
<1>4. CASE answer \in {[decide |-> d, all |-> None] : d \in [C -> Actions]}
  BY <1>4
<1> QED BY <1>2, <1>3, <1>4 DEF Answers

\* The next worker in line, if there is one, waits for the dialog from now on.
LEMMA NextAsks ==
  ASSUME IInv, NEW w \in Workers, job[w].step = "asking", NEW v \in Workers \cup {None}, InLine(v)
  PROVE  /\ v # w /\ Sound(items, Asking(v), given) /\ Taken(items, Asking(v))
         /\ Asking(v)[w] = job[w]
         /\ \A x \in Workers : job[x].step = "asking" => Asking(v)[x] = job[x]
         /\ v \in Workers => Asking(v)[v].step = "asking" /\ job[v].step = "waiting"
<1>1. CASE v = None
  BY <1>1, Apart, Given DEF Asking
<1>2. CASE v \in Workers
  <2> DEFINE j == [job[v] EXCEPT !.step = "asking"]
  <2>1. job[v].step = "waiting" /\ v # w
    BY <1>2, Apart DEF InLine, At
  <2>2. job[v] \in JobType /\ job[v].item \in Items /\ job[v].upload \in 1..given \cup {None}
    BY <1>2, <2>1, Given DEF Sound
  <2>3. j \in JobType /\ j.step = "asking" /\ j.item = job[v].item /\ j.upload = job[v].upload
    BY <2>2 DEF JobType, Steps
  <2>4. Asking(v) = [job EXCEPT ![v] = j]
    BY <1>2, Apart DEF Asking
  <2> HIDE DEF j
  <2>5. items[job[v].item] \in ItemType /\ items[job[v].item].uploadId \in 1..given \cup {None}
    BY <2>2, Given DEF Sound
  <2>6. Sound(items, Asking(v), given) /\ Taken(items, Asking(v))
    <3> DEFINE k == job[v].item
    <3>1. j.step # "idle" /\ j.step \notin {"reserving", "sending", "posting"}
      BY <2>3
    <3> HIDE DEF k
    <3>2. /\ Sound([items EXCEPT ![k] = items[k]], [job EXCEPT ![v] = j], given)
          /\ Taken([items EXCEPT ![k] = items[k]], [job EXCEPT ![v] = j])
      BY <1>2, <2>2, <2>3, <2>5, <3>1, Given, Change DEF k
    <3>3. items = [items EXCEPT ![k] = items[k]]
      BY <2>2, Same DEF k
    <3> QED BY <2>4, <3>2, <3>3
  <2>7. \A x \in Workers : Asking(v)[x] = IF x = v THEN j ELSE job[x]
    BY <2>4, Given DEF Sound
  <2> QED BY <1>2, <2>1, <2>3, <2>6, <2>7
<1> QED BY <1>1, <1>2

\* A worker has its answer, and the dialog is handed on.
LEMMA DialogStep ==
  ASSUME IInv, NEW w \in Workers, job[w].step = "asking", NEW v \in Workers \cup {None}, InLine(v),
         UNCHANGED <<listed, retrying, calls, open, given>>,
         applied' \in Actions \cup {None}, policy' \in Actions \cup {None},
         aborting' \subseteq 1..given, Sound(items', job', given), Taken(items', job'),
         \A x \in Workers \ {w} : Asking(v)[x] # Idle => job'[x] = Asking(v)[x],
         asker' \in Workers \cup Batches \cup {None}, superseded' \in Workers \cup Batches \cup {None},
         hidden' \in BOOLEAN,
         \A x \in Workers :
           /\ x \in {asker', superseded'} => x # w /\ (x = v \/ job[x].step = "asking")
           /\ ~(asker' = x /\ superseded' = x)
  PROVE  IInv'
<1>1. ASSUME NEW x \in Workers, x \in {asker', superseded'} PROVE job'[x].step = "asking"
  <2>1. x # w /\ Asking(v)[x].step = "asking"
    BY <1>1, NextAsks
  <2> QED BY <2>1, Busy
<1>2. Asks'
  BY <1>1 DEF Asks
<1>3. TypeOK'
  BY Given DEF IInv, TypeOK, Sound, calls
<1>4. WorkIsTaken' /\ Sound(items, job, given)'
  BY DEF WorkIsTaken, Taken, Sound
<1> QED BY <1>2, <1>3, <1>4 DEF IInv

\* The next in line asks, and the decision is carried out.
LEMMA RacedAnsweredStep ==
  ASSUME IInv, superseded = None, NEW w \in Workers, RacedAnswered(w) PROVE IInv'
<1> DEFINE i == job[w].item
<1>1. job[w].step = "asking" /\ i \in Items
  BY Given DEF RacedAnswered, IInv, Asks
<1>2. PICK answer \in Answers({i}), v \in Workers \cup {None} :
        /\ InLine(v) /\ asker' = v /\ applied' = answer.all
        /\ Decide(items, Asking(v), w, answer.decide[i], answer.all)
  BY DEF RacedAnswered
<1>3. /\ v # w /\ Sound(items, Asking(v), given) /\ Taken(items, Asking(v))
      /\ Asking(v)[w] = job[w]
  BY <1>1, <1>2, NextAsks
<1>4. answer.all \in Actions \cup {None} /\ answer.decide[i] \in Actions
  BY Given, AnswersType
<1> DEFINE action == answer.decide[i]
           all == answer.all
           js == Asking(v)
<1>5. js[w].step # "idle" /\ Decide(items, js, w, action, all)
  BY <1>1, <1>2, <1>3
<1> HIDE DEF action, all, js, i
<1>6. /\ Sound(items', job', given) /\ Taken(items', job')
      /\ policy' \in Actions \cup {None} /\ aborting' \subseteq 1..given
      /\ \A x \in Workers \ {w} : js[x] # Idle => job'[x] = js[x]
  BY <1>3, <1>4, <1>5, Given, DecideKeeps DEF action, all, js
<1>7. hidden' \in BOOLEAN
  BY DEF RacedAnswered, IInv, TypeOK
<1> QED BY <1>1, <1>2, <1>3, <1>4, <1>6, <1>7, Apart, DialogStep DEF RacedAnswered, js

\* Whatever the dialog of a worker is dropped for, its attempt ends.
LEMMA DropRacedKeeps ==
  ASSUME IInv, NEW w \in Workers, job[w].step = "asking", NEW v \in Workers \cup {None}, InLine(v),
         DropRaced(w, Asking(v))
  PROVE  /\ Sound(items', job', given) /\ Taken(items', job')
         /\ policy' \in Actions \cup {None} /\ aborting' \subseteq 1..given
         /\ \A x \in Workers \ {w} : Asking(v)[x] # Idle => job'[x] = Asking(v)[x]
<1> DEFINE js == Asking(v)
           its == [items EXCEPT ![js[w].item].status = "cancelled"]
<1>1. v # w /\ Sound(items, js, given) /\ Taken(items, js) /\ js[w] = job[w]
  BY NextAsks
<1>2. Unwind(its, js, w, policy, "dropping")
  BY DEF DropRaced
<1>3. js[w].step # "idle" /\ js[w].item \in Items
  BY <1>1, Given
<1> HIDE DEF js
<1>4. Sound(its, js, given) /\ Taken(its, js)
  BY <1>1, <1>3, Given, Restatus DEF Statuses, Retryable
<1> HIDE DEF its
<1> QED BY <1>2, <1>3, <1>4, Given, UnwindKeeps DEF js

\* The next in line asks, and the attempt unwinds.
LEMMA RacedCancelledStep ==
  ASSUME IInv, superseded = None, NEW w \in Workers, RacedCancelled(w) PROVE IInv'
<1>1. job[w].step = "asking"
  BY DEF RacedCancelled, IInv, Asks
<1>2. PICK v \in Workers \cup {None} : InLine(v) /\ asker' = v /\ DropRaced(w, Asking(v))
  BY DEF RacedCancelled
<1>3. v # w
  BY <1>1, <1>2, NextAsks
<1>4. UNCHANGED <<listed, retrying, calls, applied, superseded, open, given>> /\ hidden' \in BOOLEAN
  BY DEF RacedCancelled, IInv, TypeOK
<1> QED BY <1>1, <1>2, <1>3, <1>4, Apart, Given, DropRacedKeeps, DialogStep

\* The next in line takes the dialog over, or nobody does; the attempt unwinds.
LEMMA RacedSupersededStep ==
  ASSUME IInv, NEW w \in Workers, RacedSuperseded(w) PROVE IInv'
<1>1. job[w].step = "asking" /\ superseded = w /\ asker # w
  BY DEF RacedSuperseded, IInv, Asks
<1>2. PICK v \in Workers \cup {None} :
        /\ InLine(v) /\ DropRaced(w, Asking(v))
        /\ IF v = None THEN superseded' = None /\ UNCHANGED <<asker, hidden>> ELSE Show(v)
  BY DEF RacedSuperseded
<1>3. v # w /\ (v \in Workers => job[v].step = "waiting")
  BY <1>1, <1>2, NextAsks
<1>4. UNCHANGED <<listed, retrying, calls, applied, open, given>>
  BY DEF RacedSuperseded
<1>5. \A x \in Workers : x = asker => job[x].step = "asking"
  BY DEF IInv, Asks
<1>6. asker \in Workers \cup Batches \cup {None} /\ hidden \in BOOLEAN
  BY DEF IInv, TypeOK
<1>7. /\ hidden' \in BOOLEAN
      /\ asker' \in Workers \cup Batches \cup {None} /\ superseded' \in Workers \cup Batches \cup {None}
      /\ \A x \in Workers :
           /\ x \in {asker', superseded'} => x # w /\ (x = v \/ job[x].step = "asking")
           /\ ~(asker' = x /\ superseded' = x)
  BY <1>1, <1>2, <1>3, <1>5, <1>6, Apart DEF Show
<1> QED BY <1>1, <1>2, <1>4, <1>7, Given, DropRacedKeeps, DialogStep

\* A policy decides; else the worker asks, or waits in line.
LEMMA RecheckOccupiedStep ==
  ASSUME IInv, NEW w \in Workers, RecheckOccupied(w) PROVE IInv'
<1>1. /\ job[w].step = "rechecking" /\ job[w] \in JobType /\ asker # w
      /\ UNCHANGED <<listed, retrying, calls, applied, open, given>>
  BY Given DEF RecheckOccupied, Sound, IInv, Asks
<1>2. CASE policy # None
  <2>1. Decide(items, job, w, policy, policy) /\ UNCHANGED <<asker, hidden, superseded>>
    BY <1>2 DEF RecheckOccupied
  <2>2. policy \in Actions
    BY <1>2, Given
  <2>3. /\ Sound(items', job', given) /\ Taken(items', job')
        /\ policy' \in Actions \cup {None} /\ aborting' \subseteq 1..given
        /\ \A v \in Workers \ {w} : job[v] # Idle => job'[v] = job[v]
    BY <1>1, <2>1, <2>2, Given, DecideKeeps
  <2>4. given' \in 0..MaxUploads /\ open' \subseteq 1..given' /\ given' = given
    BY <1>1, Given
  <2> QED BY <1>1, <2>1, <2>3, <2>4, WorkerStep
<1>3. CASE policy = None /\ At("asking") \cup At("waiting") # {}
  <2> DEFINE j == [job[w] EXCEPT !.step = "waiting"]
  <2>1. j \in JobType /\ j.step = "waiting" /\ j.item = job[w].item /\ j.upload = job[w].upload
    BY <1>1 DEF JobType, Steps
  <2>2. job' = [job EXCEPT ![w] = j] /\ UNCHANGED <<items, policy, aborting, asker, hidden, superseded>>
    BY <1>3 DEF RecheckOccupied
  <2> HIDE DEF j
  <2> QED BY <1>1, <2>1, <2>2, JobMoves DEF dialog
<1>4. CASE policy = None /\ At("asking") \cup At("waiting") = {}
  <2> DEFINE j == [job[w] EXCEPT !.step = "asking"]
             k == job[w].item
  <2>1. j \in JobType /\ j.step = "asking" /\ j.item = k /\ j.upload = job[w].upload
    BY <1>1 DEF JobType, Steps
  <2>2. /\ job' = [job EXCEPT ![w] = j] /\ UNCHANGED <<items, policy, aborting>>
        /\ asker' = w /\ hidden' = FALSE /\ superseded' = asker
    BY <1>4 DEF RecheckOccupied, Show
  <2>3. /\ k \in Items /\ items[k] \in ItemType /\ items[k].uploadId \in 1..given \cup {None}
        /\ job[w].upload \in 1..given \cup {None}
    BY <1>1, Given DEF Sound
  <2>4. j.step # "idle" /\ j.step \notin {"reserving", "sending", "posting"}
    BY <2>1
  <2> HIDE DEF j, k
  <2>5. /\ Sound([items EXCEPT ![k] = items[k]], [job EXCEPT ![w] = j], given)
        /\ Taken([items EXCEPT ![k] = items[k]], [job EXCEPT ![w] = j])
    BY <2>1, <2>3, <2>4, Given, Change
  <2>6. Sound(items', job', given) /\ Taken(items', job')
    BY <2>2, <2>3, <2>5, Same
  <2>7. Asks'
    <3>1. \A v \in Workers : job'[v] = IF v = w THEN j ELSE job[v]
      BY <2>2, Given DEF Sound
    <3>2. \A v \in Workers : v = asker => job[v].step = "asking"
      BY DEF IInv, Asks
    <3> QED BY <1>1, <2>1, <2>2, <3>1, <3>2 DEF Asks
  <2>8. TypeOK'
    BY <1>1, <2>2, <2>6, Given DEF IInv, TypeOK, Sound, calls
  <2>9. WorkIsTaken' /\ Sound(items, job, given)'
    BY <1>1, <2>6 DEF WorkIsTaken, Taken, Sound
  <2> QED BY <2>7, <2>8, <2>9 DEF IInv
<1> QED BY <1>2, <1>3, <1>4

\* Items that change without new ids are as sound as before.
LEMMA Remap ==
  ASSUME NEW its, NEW js, NEW g \in Nat, Sound(its, js, g), NEW jts \in [Items -> ItemType],
         \A i \in Items : jts[i].uploadId \in {its[i].uploadId, None}
  PROVE  Sound(jts, js, g)
BY DEF Sound

\* What a step of a batch or of the user has to show: a worker that is asked goes on waiting.
LEMMA OutsideStep ==
  ASSUME IInv, listed' \subseteq Items, retrying' \subseteq Items \X Uploads, UNCHANGED given,
         adding' \in [Batches -> {"no", "checking", "asking", "over"}],
         clash' \in [Batches -> SUBSET Items],
         policy' \in Actions \cup {None}, applied' \in Actions \cup {None},
         asker' \in Workers \cup Batches \cup {None}, superseded' \in Workers \cup Batches \cup {None},
         hidden' \in BOOLEAN,
         open' \subseteq 1..given, aborting' \subseteq 1..given,
         Sound(items', job', given), WorkIsTaken',
         \A x \in Workers : job[x].step = "asking" => job'[x] = job[x],
         \A x \in Workers : /\ x \in {asker', superseded'} => x \in {asker, superseded}
                            /\ ~(asker' = x /\ superseded' = x)
  PROVE  IInv'
<1>1. Asks'
  BY DEF IInv, Asks
<1>2. TypeOK'
  BY Given DEF IInv, TypeOK, Sound
<1>3. Sound(items, job, given)'
  BY DEF Sound
<1> QED BY <1>1, <1>2, <1>3 DEF IInv

\* The files of a batch are queued.
LEMMA QueuedKeeps ==
  ASSUME IInv, NEW b \in Batches, NEW its, Sound(its, job, given), UNCHANGED listed, Queued(b, its)
  PROVE  /\ Sound(items', job', given) /\ WorkIsTaken'
         /\ \A x \in Workers : job[x] # Idle => job'[x] = job[x]
         /\ adding' \in [Batches -> {"no", "checking", "asking", "over"}]
         /\ clash' \in [Batches -> SUBSET Items]
<1> DEFINE jts == [i \in Items |-> IF i \in Live(b) /\ its[i].status = "checking"
                                  THEN [its[i] EXCEPT !.status = "queued"] ELSE its[i]]
<1>1. ProcessQueue(jts, job)
  BY DEF Queued
<1>2. jts \in [Items -> ItemType] /\ \A i \in Items : jts[i].uploadId = its[i].uploadId
  <2>1. ASSUME NEW i \in Items
        PROVE  /\ [its[i] EXCEPT !.status = "queued"] \in ItemType
               /\ [its[i] EXCEPT !.status = "queued"].uploadId = its[i].uploadId
               /\ its[i] \in ItemType
    BY DEF Sound, ItemType, Statuses
  <2> QED BY <2>1
<1> HIDE DEF jts
<1>3. Sound(jts, job, given)
  BY <1>2, Given, Remap
<1>4. /\ Sound(items', job', given) /\ Taken(items', job')
      /\ \A x \in Workers : job[x] # Idle => job'[x] = job[x]
  BY <1>1, <1>3, Given, Pull
<1>5. /\ adding' \in [Batches -> {"no", "checking", "asking", "over"}]
      /\ clash' \in [Batches -> SUBSET Items]
  BY DEF Queued, IInv, TypeOK
<1>6. WorkIsTaken'
  BY <1>4 DEF WorkIsTaken, Taken
<1> QED BY <1>4, <1>5, <1>6

\* New items are not queued yet.
LEMMA AddEntriesStep == ASSUME IInv, NEW b \in Batches, AddEntries(b) PROVE IInv'
<1>1. Dropped[b] \subseteq Items
  BY QueueAssumption
<1>2. items' = [i \in Items |->
       IF i \in Dropped[b] THEN [items[i] EXCEPT !.status = "checking"] ELSE items[i]]
  BY DEF AddEntries
<1>3. ASSUME NEW i \in Items
      PROVE  /\ [items[i] EXCEPT !.status = "checking"] \in ItemType
             /\ [items[i] EXCEPT !.status = "checking"].uploadId = items[i].uploadId
             /\ [items[i] EXCEPT !.status = "checking"].status = "checking"
             /\ items[i] \in ItemType
  BY Given DEF Sound, ItemType, Statuses
<1>4. items' \in [Items -> ItemType] /\ \A i \in Items : items'[i].uploadId = items[i].uploadId
  BY <1>2, <1>3
<1>5. Sound(items', job, given)
  BY <1>4, Given, Remap
<1>6. WorkIsTaken'
  BY <1>1, <1>2, <1>3, Given DEF AddEntries, WorkIsTaken, Taken
<1>7. adding' \in [Batches -> {"no", "checking", "asking", "over"}] /\ listed' \subseteq Items
  BY <1>1 DEF AddEntries, IInv, TypeOK
<1> QED BY <1>5, <1>6, <1>7, OutsideStep DEF AddEntries, IInv, TypeOK, Asks, dialog, server

\* The batch is queued, and the queue looked at.
LEMMA PreflightFreeStep == ASSUME IInv, NEW b \in Batches, PreflightFree(b) PROVE IInv'
<1>1. Queued(b, items) /\ UNCHANGED <<listed, retrying, dialog, server>>
  BY DEF PreflightFree
<1>2. /\ Sound(items', job', given) /\ WorkIsTaken'
      /\ \A x \in Workers : job[x] # Idle => job'[x] = job[x]
      /\ adding' \in [Batches -> {"no", "checking", "asking", "over"}]
      /\ clash' \in [Batches -> SUBSET Items]
  BY <1>1, Given, QueuedKeeps
<1> QED BY <1>1, <1>2, Busy, OutsideStep DEF IInv, TypeOK, Asks, dialog, server

\* The batch takes the dialog; no item changes.
LEMMA PreflightOccupiedStep ==
  ASSUME IInv, superseded = None, NEW b \in Batches, PreflightOccupied(b) PROVE IInv'
<1>1. /\ UNCHANGED <<queue, policy, applied, server>> /\ asker' = b /\ superseded' = asker
      /\ hidden' = FALSE
      /\ adding' = [adding EXCEPT ![b] = "asking"]
  BY DEF PreflightOccupied, Show
<1>2. clash' \in [Batches -> SUBSET Items]
  <2>1. PICK C \in SUBSET Dropped[b] \ {{}} : clash' = [clash EXCEPT ![b] = C]
    BY DEF PreflightOccupied
  <2>2. C \subseteq Items
    BY <2>1, QueueAssumption
  <2> QED BY <2>1, <2>2 DEF IInv, TypeOK
<1>3. b \notin Workers
  BY Apart
<1>4. WorkIsTaken' /\ Sound(items', job', given) /\ adding' \in [Batches -> {"no", "checking", "asking", "over"}]
  BY <1>1 DEF IInv, TypeOK, WorkIsTaken, Taken, queue
<1>5. \A x \in Workers : /\ x \in {asker', superseded'} => x \in {asker, superseded}
                         /\ ~(asker' = x /\ superseded' = x)
  BY <1>1, <1>3
<1> QED BY <1>1, <1>2, <1>4, <1>5, OutsideStep DEF IInv, TypeOK, queue, server

\* The decisions are applied, and the rest is queued.
LEMMA BatchAnsweredStep == ASSUME IInv, NEW b \in Batches, BatchAnswered(b) PROVE IInv'
<1>1. /\ asker' = None /\ UNCHANGED <<listed, retrying, hidden, superseded, server>>
  BY DEF BatchAnswered
<1> DEFINE After(answer) ==
             [i \in Items |->
               IF i \in Live(b) \cap clash[b] THEN ApplyDecision(items[i], answer.decide[i])
               ELSE items[i]]
<1>2. PICK answer \in Answers(clash[b]) :
        applied' = answer.all /\ policy' = answer.all /\ Queued(b, After(answer))
  BY DEF BatchAnswered
<1>3. answer.all \in Actions \cup {None} /\ \A i \in clash[b] : answer.decide[i] \in Actions
  BY Given, AnswersType
<1>4. /\ After(answer) \in [Items -> ItemType]
      /\ \A i \in Items : After(answer)[i].uploadId = items[i].uploadId
  <2>1. ASSUME NEW i \in Items, i \in Live(b) \cap clash[b]
        PROVE  /\ ApplyDecision(items[i], answer.decide[i]) \in ItemType
               /\ ApplyDecision(items[i], answer.decide[i]).uploadId = items[i].uploadId
    <3>1. items[i] \in ItemType /\ answer.decide[i] \in Actions
      BY <2>1, <1>3, Given DEF Sound
    <3> QED BY <3>1, Applied
  <2> QED BY <2>1, Given DEF Sound
<1> DEFINE its == After(answer)
<1>5. its \in [Items -> ItemType] /\ Queued(b, its) /\ \A i \in Items : its[i].uploadId = items[i].uploadId
  BY <1>2, <1>4
<1> HIDE DEF its
<1>6. Sound(its, job, given)
  BY <1>5, Given, Remap
<1>7. /\ Sound(items', job', given) /\ WorkIsTaken'
      /\ \A x \in Workers : job[x] # Idle => job'[x] = job[x]
      /\ adding' \in [Batches -> {"no", "checking", "asking", "over"}]
      /\ clash' \in [Batches -> SUBSET Items]
  BY <1>1, <1>5, <1>6, Given, QueuedKeeps
<1>8. applied' \in Actions \cup {None} /\ policy' \in Actions \cup {None}
  BY <1>2, <1>3
<1> HIDE DEF After
<1> QED BY <1>1, <1>7, <1>8, Busy, Apart, OutsideStep DEF IInv, TypeOK, Asks, server

\* A batch nobody decides about is dropped.
LEMMA DropBatchKeeps ==
  ASSUME IInv, NEW b \in Batches, DropBatch(b), UNCHANGED <<listed, job>>
  PROVE  /\ Sound(items', job', given) /\ WorkIsTaken'
         /\ adding' \in [Batches -> {"no", "checking", "asking", "over"}]
         /\ clash' \in [Batches -> SUBSET Items]
<1>1. items' = [i \in Items |->
       IF i \in Live(b) THEN [items[i] EXCEPT !.status = "cancelled"] ELSE items[i]]
  BY DEF DropBatch
<1>2. ASSUME NEW i \in Items
      PROVE  /\ [items[i] EXCEPT !.status = "cancelled"] \in ItemType
             /\ [items[i] EXCEPT !.status = "cancelled"].uploadId = items[i].uploadId
             /\ [items[i] EXCEPT !.status = "cancelled"].status = "cancelled"
             /\ items[i] \in ItemType
  BY Given DEF Sound, ItemType, Statuses, Retryable
<1>3. items' \in [Items -> ItemType] /\ \A i \in Items : items'[i].uploadId = items[i].uploadId
  BY <1>1, <1>2
<1>4. Sound(items', job', given)
  BY <1>3, Given, Remap
<1>5. WorkIsTaken'
  BY <1>1, <1>2, Given DEF WorkIsTaken, Taken
<1>6. /\ adding' \in [Batches -> {"no", "checking", "asking", "over"}]
      /\ clash' \in [Batches -> SUBSET Items]
  BY DEF DropBatch, IInv, TypeOK
<1> QED BY <1>4, <1>5, <1>6

\* The batch is cancelled; nothing is queued.
LEMMA BatchCancelledStep == ASSUME IInv, NEW b \in Batches, BatchCancelled(b) PROVE IInv'
<1>1. /\ asker' = None /\ DropBatch(b)
      /\ UNCHANGED <<listed, job, retrying, policy, applied, hidden, superseded, server>>
  BY DEF BatchCancelled
<1> QED BY <1>1, Apart, DropBatchKeeps, OutsideStep DEF IInv, TypeOK, Asks, server

\* The same when another dialog came in between.
LEMMA BatchSupersededStep == ASSUME IInv, NEW b \in Batches, BatchSuperseded(b) PROVE IInv'
<1>1. /\ superseded' = None /\ DropBatch(b)
      /\ UNCHANGED <<listed, job, retrying, policy, applied, asker, hidden, server>>
  BY DEF BatchSuperseded
<1> QED BY <1>1, Apart, DropBatchKeeps, OutsideStep DEF IInv, TypeOK, Asks, server

\* Another dialog hides the one that asks; who is asked waits on.
LEMMA HideStep == ASSUME IInv, Hide PROVE IInv'
<1>1. UNCHANGED <<queue, calls, policy, applied, asker, superseded, server>> /\ hidden' = TRUE
  BY DEF Hide
<1>2. Sound(items', job', given) /\ WorkIsTaken'
  BY <1>1, Given DEF WorkIsTaken, Taken, queue
<1> QED BY <1>1, <1>2, OutsideStep DEF IInv, TypeOK, Asks, queue, calls, server

\* The item is queued again, at once or after its abort.
LEMMA RetryItemStep == ASSUME IInv, NEW i \in Items, RetryItem(i) PROVE IInv'
<1> DEFINE u == items[i].uploadId
<1>1. /\ UNCHANGED <<listed, calls, dialog, open, given>> /\ SendAbort(u)
      /\ items[i] \in ItemType /\ u \in 1..given \cup {None} /\ u \in Uploads \cup {None}
  BY Given DEF RetryItem, Sound, ItemType
<1>2. aborting' \subseteq 1..given
  BY <1>1, Given DEF SendAbort
<1>3. CASE u = None
  <2> DEFINE it == [items[i] EXCEPT !.status = "queued", !.finalizing = FALSE, !.reprompted = FALSE]
             its == [items EXCEPT ![i] = it]
  <2>1. ProcessQueue(its, job) /\ UNCHANGED <<retrying, policy>>
    BY <1>3 DEF RetryItem, Requeue, dialog
  <2>2. it \in ItemType /\ it.uploadId = items[i].uploadId
    BY <1>1 DEF ItemType, Statuses
  <2> HIDE DEF it
  <2>3. Sound(its, job, given)
    BY <2>2, Given DEF Sound
  <2> HIDE DEF its
  <2>4. /\ Sound(items', job', given) /\ Taken(items', job')
        /\ \A x \in Workers : job[x] # Idle => job'[x] = job[x]
    BY <2>1, <2>3, Given, Pull
  <2>5. WorkIsTaken'
    BY <1>1, <2>4 DEF WorkIsTaken, Taken
  <2> QED BY <1>1, <1>2, <2>1, <2>4, <2>5, Busy, OutsideStep DEF IInv, TypeOK, Asks, dialog, calls
<1>4. CASE u # None
  <2> DEFINE it == [items[i] EXCEPT !.uploadId = None]
  <2>1. items' = [items EXCEPT ![i] = it] /\ retrying' = retrying \cup {<<i, u>>} /\ job' = job
    BY <1>4 DEF RetryItem
  <2>2. it \in ItemType /\ it.uploadId = None /\ it.status = items[i].status
    BY <1>1 DEF ItemType
  <2>3. retrying' \subseteq Items \X Uploads
    BY <1>1, <1>4, <2>1 DEF IInv, TypeOK
  <2> HIDE DEF it, u
  <2>4. Sound([items EXCEPT ![i] = it], job, given) /\ Taken([items EXCEPT ![i] = it], job)
    BY <2>2, Given, Touch
  <2>5. WorkIsTaken' /\ Sound(items', job', given)
    BY <1>1, <2>1, <2>4 DEF WorkIsTaken, Taken
  <2> QED BY <1>1, <1>2, <2>1, <2>3, <2>5, OutsideStep DEF IInv, TypeOK, Asks, dialog, calls
<1> QED BY <1>3, <1>4

\* The abort is answered and the item queued again.
LEMMA RetryResumesStep ==
  ASSUME IInv, NEW i \in Items, NEW v \in Uploads, RetryResumes(i, v) PROVE IInv'
<1> DEFINE it == [items[i] EXCEPT !.status = "queued", !.finalizing = FALSE, !.reprompted = FALSE]
           its == [items EXCEPT ![i] = it]
<1>1. /\ UNCHANGED <<listed, calls, dialog, given>> /\ ProcessQueue(its, job)
      /\ retrying' \subseteq retrying /\ aborting' \subseteq aborting /\ open' \subseteq open
  BY DEF RetryResumes, Requeue, AbortAnswered
<1>2. it \in ItemType /\ it.uploadId = items[i].uploadId
  BY Given, ZenonT(40) DEF Sound, ItemType, Statuses
<1> HIDE DEF it
<1>3. Sound(its, job, given)
  BY <1>2, Given DEF Sound
<1> HIDE DEF its
<1>4. /\ Sound(items', job', given) /\ Taken(items', job')
      /\ \A x \in Workers : job[x] # Idle => job'[x] = job[x]
  BY <1>1, <1>3, Given, Pull
<1>5. WorkIsTaken'
  BY <1>1, <1>4 DEF WorkIsTaken, Taken
<1>6. open' \subseteq 1..given /\ aborting' \subseteq 1..given /\ retrying' \subseteq Items \X Uploads
  BY <1>1, Given DEF IInv, TypeOK
<1> QED BY <1>1, <1>4, <1>5, <1>6, Busy, OutsideStep DEF IInv, TypeOK, Asks, dialog, calls

\* What is cancelled is queued no more, and every worker it frees looks at the queue.
LEMMA CancelItemsStep ==
  ASSUME IInv, NEW S \in SUBSET Items, CancelItems(S) PROVE IInv'
<1> DEFINE aborted == {w \in At("sending") \cup At("posting") :
                         job[w].item \in S /\ items[job[w].item].controller = w}
           kept(i) == items[i].finalizing
           unwound(i) == \E w \in aborted : job[w].item = i
           its == [i \in Items |->
             IF i \notin S THEN items[i]
             ELSE [items[i] EXCEPT !.status = "cancelled", !.controller = None,
                                   !.uploadId = IF kept(i) /\ ~unwound(i) THEN @ ELSE None]]
           js == [w \in Workers |->
             IF w \notin aborted THEN job[w]
             ELSE IF kept(job[w].item) /\ items[job[w].item].uploadId # None
                  THEN [job[w] EXCEPT !.step = "discarding", !.upload = items[job[w].item].uploadId]
                  ELSE Idle]
           dropped == {items[i].uploadId : i \in {j \in S : its[j].uploadId = None}} \ {None}
<1>1. /\ aborting' = aborting \cup dropped
      /\ UNCHANGED <<listed, retrying, calls, applied, asker, hidden, superseded, open, given>>
      /\ IF \A w \in aborted : js[w] # Idle
         THEN items' = its /\ job' = js /\ UNCHANGED policy
         ELSE ProcessQueue(its, js) /\ policy' = IF HasActive(its) THEN policy ELSE None
  BY DEF CancelItems
<1>2. ASSUME NEW i \in Items
      PROVE  its[i] \in ItemType /\ its[i].uploadId \in {items[i].uploadId, None}
             /\ its[i].status \in {items[i].status, "cancelled"}
  <2>1. items[i] \in ItemType
    BY Given DEF Sound
  <2>2. CASE i \notin S
    BY <2>1, <2>2
  <2>3. CASE i \in S
    <3> DEFINE x == IF kept(i) /\ ~unwound(i) THEN items[i].uploadId ELSE None
    <3>1. its[i] = [items[i] EXCEPT !.status = "cancelled", !.controller = None, !.uploadId = x]
      BY <2>3
    <3>2. x \in {items[i].uploadId, None} /\ x \in Uploads \cup {None}
      BY <2>1 DEF ItemType
    <3> HIDE DEF x, its
    <3> QED BY <2>1, <3>1, <3>2 DEF ItemType, Statuses, Retryable
  <2> QED BY <2>2, <2>3
<1>3. aborted \subseteq Workers /\ \A w \in aborted : job[w].step \in {"sending", "posting"}
  BY DEF At
<1>4. dropped \subseteq 1..given
  BY Given DEF Sound
<1>5. its \in [Items -> ItemType]
  BY <1>2
<1> HIDE DEF dropped, aborted, kept, unwound
<1>6. Sound(its, job, given)
  <2> HIDE DEF its
  <2> QED BY <1>2, <1>5, Given, Remap
<1>7. ASSUME NEW w \in Workers
      PROVE  /\ js[w] \in JobType /\ js[w].upload \in 1..given \cup {None}
             /\ IF js[w].step = "idle" THEN js[w] = Idle ELSE js[w].item \in Items
             /\ js[w].step \in {"reserving", "sending", "posting"} => js[w].tries < MaxRetries
             /\ w \notin aborted => js[w] = job[w]
  <2>1. CASE w \notin aborted
    BY <2>1, Given DEF Sound
  <2>2. CASE js[w] = Idle /\ w \in aborted
    <3>1. 0 \in 0..Chunks /\ 0 \in 0..MaxRetries
      BY QueueAssumption
    <3>2. Idle \in JobType /\ Idle.step = "idle" /\ Idle.upload = None
      BY <3>1 DEF Idle, JobType, Steps
    <3> HIDE DEF js
    <3> QED BY <2>2, <3>2
  <2>3. CASE js[w] # Idle /\ w \in aborted
    <3> DEFINE u == items[job[w].item].uploadId
               j == [job[w] EXCEPT !.step = "discarding", !.upload = u]
    <3>1. js[w] = j
      BY <2>3
    <3>2. job[w] \in JobType /\ job[w].item \in Items
      BY <1>3, <2>3, Given DEF Sound
    <3>3. u \in 1..given \cup {None} /\ u \in Uploads \cup {None}
      BY <3>2, Given DEF Sound, ItemType
    <3> HIDE DEF u
    <3>4. j \in JobType /\ j.step = "discarding" /\ j.item = job[w].item /\ j.upload = u
      BY <3>2, <3>3 DEF JobType, Steps
    <3> HIDE DEF j, js
    <3> QED BY <2>3, <3>1, <3>2, <3>3, <3>4
  <2> QED BY <2>1, <2>2, <2>3
<1>8. js \in [Workers -> JobType]
  BY <1>7
<1>9. Sound(its, js, given)
  <2> HIDE DEF its, js
  <2> QED BY <1>6, <1>7, <1>8 DEF Sound
<1>10. Sound(items', job', given) /\ Taken(items', job') /\ policy' \in Actions \cup {None}
       /\ \A w \in Workers : js[w] # Idle => job'[w] = js[w]
  <2>1. CASE \A w \in aborted : js[w] # Idle
    <3>1. items' = its /\ job' = js /\ policy' = policy
      BY <1>1, <2>1
    <3> HIDE DEF its, js
    <3>2. Taken(its, js)
      BY <1>2, <1>7, <2>1, Given DEF Taken
    <3> QED BY <1>9, <3>1, <3>2, Given
  <2>2. CASE ~(\A w \in aborted : js[w] # Idle)
    <3>1. ProcessQueue(its, js) /\ policy' \in Actions \cup {None}
      BY <1>1, <2>2, Given
    <3> HIDE DEF its, js
    <3> QED BY <1>9, <3>1, Given, Pull
  <2> QED BY <2>1, <2>2
<1> HIDE DEF its, js
<1>11. \A w \in Workers : job[w].step = "asking" => job'[w] = job[w]
  BY <1>3, <1>7, <1>10, Busy
<1>12. WorkIsTaken' /\ aborting' \subseteq 1..given
  BY <1>1, <1>4, <1>10, Given DEF WorkIsTaken, Taken
<1> QED BY <1>1, <1>10, <1>11, <1>12, OutsideStep DEF IInv, TypeOK, Asks, calls

\* An empty list has nothing queued.
LEMMA ClearDoneStep == ASSUME IInv, ClearDone PROVE IInv'
<1>1. /\ listed' = {} /\ UNCHANGED <<job, retrying, calls, dialog, open, given>>
      /\ items' = [i \in Items |-> IF i \in listed THEN [items[i] EXCEPT !.uploadId = None] ELSE items[i]]
      /\ aborting' = aborting \cup ({items[i].uploadId : i \in listed} \ {None})
  BY DEF ClearDone
<1>2. ASSUME NEW i \in Items
      PROVE  /\ [items[i] EXCEPT !.uploadId = None] \in ItemType
             /\ [items[i] EXCEPT !.uploadId = None].uploadId = None
             /\ items[i] \in ItemType
  BY Given DEF Sound, ItemType
<1>3. items' \in [Items -> ItemType] /\ \A i \in Items : items'[i].uploadId \in {items[i].uploadId, None}
  BY <1>1, <1>2
<1>4. Sound(items', job, given)
  BY <1>3, Given, Remap
<1>5. aborting' \subseteq 1..given
  BY <1>1, Given DEF Sound
<1>6. WorkIsTaken'
  BY <1>1 DEF WorkIsTaken, Taken
<1> QED BY <1>1, <1>4, <1>5, <1>6, OutsideStep DEF IInv, TypeOK, Asks, calls, dialog

\* An abort that nobody waits for touches the server alone.
LEMMA AbortForgottenStep == ASSUME IInv, NEW u \in Uploads, AbortForgotten(u) PROVE IInv'
<1>1. /\ UNCHANGED <<queue, calls, dialog, given>>
      /\ open' \subseteq 1..given /\ aborting' \subseteq 1..given
  BY Given DEF AbortForgotten, AbortAnswered
<1>2. WorkIsTaken' /\ Sound(items', job', given)
  BY <1>1, Given DEF queue, WorkIsTaken, Taken
<1> QED BY <1>1, <1>2, OutsideStep DEF IInv, TypeOK, Asks, queue, calls, dialog

-----------------------------------------------------------------------------

\* Every step of the queue keeps the invariant.
LEMMA NextIInv == IInv /\ [Next]_vars => IInv'
<1> SUFFICES ASSUME IInv, [Next]_vars PROVE IInv'
  OBVIOUS
<1>1. CASE TakenOver
  BY <1>1, RacedSupersededStep, BatchSupersededStep DEF TakenOver
<1>2. ASSUME NEW w \in Workers, Answer(w) PROVE IInv'
  <2> USE <1>2
  <2>1. CASE Reserved(w) \/ ChunkStored(w) \/ SendFails(w) \/ BackoffEnds(w) \/ Refused(w)
    BY <2>1, ReservedStep, ChunkStoredStep, SendFailsStep, BackoffEndsStep, RefusedStep
  <2>2. CASE Conflicts(w) \/ PostStored(w) \/ CommitStores(w) \/ CommitOccupied(w)
    BY <2>2, ConflictsStep, PostStoredStep, CommitStoresStep, CommitOccupiedStep
  <2>3. CASE CommitAnswered(w) \/ CommitRefused(w) \/ CommitFails(w) \/ DiscardAnswered(w)
    BY <2>3, CommitAnsweredStep, CommitRefusedStep, CommitFailsStep, DiscardAnsweredStep
  <2>4. CASE RecheckFree(w) \/ RecheckOccupied(w)
    BY <2>4, RecheckFreeStep, RecheckOccupiedStep
  <2> QED BY <2>1, <2>2, <2>3, <2>4 DEF Answer
<1>3. ASSUME superseded = None, NEW b \in Batches, Preflight(b) PROVE IInv'
  BY <1>3, PreflightFreeStep, PreflightOccupiedStep DEF Preflight
<1>4. CASE Aborts
  BY <1>4, AbortForgottenStep, RetryResumesStep DEF Aborts
<1>5. CASE superseded = None /\ Dialog
  BY <1>5, RacedAnsweredStep, RacedCancelledStep, BatchAnsweredStep, BatchCancelledStep DEF Dialog
<1>6. CASE User
  <2>1. \A i \in Items : {i} \in SUBSET Items
    OBVIOUS
  <2>2. {i \in listed : items[i].status \in Cancellable} \in SUBSET Items
    BY Given
  <2> QED BY <1>6, <2>1, <2>2, AddEntriesStep, CancelItemsStep, RetryItemStep, ClearDoneStep DEF User
<1>7. CASE UNCHANGED vars
  <2>1. WorkIsTaken' /\ Asks'
    BY <1>7 DEF IInv, WorkIsTaken, Taken, Asks, vars, queue, dialog
  <2> QED BY <1>7, <2>1 DEF IInv, TypeOK, Sound, vars, queue, calls, dialog, server
<1> QED BY <1>1, <1>2, <1>3, <1>4, <1>5, <1>6, <1>7, HideStep DEF Next, Event

\* The inductive invariant of the queue (stores/upload.ts) holds for any number of files,
\* batches and workers.
THEOREM IInvHolds == Spec => []IInv
<1>1. Init => IInv
  BY InitIInv
<1>2. IInv /\ [Next]_vars => IInv'
  BY NextIInv
<1> QED BY <1>1, <1>2, PTL DEF Spec

\* Every variable keeps its type; in particular no chunk is sent more than MAX_RETRIES
\* times (_withRetry), and aborts only go to ids the server has handed out.
THEOREM TypeCorrect == Spec => []TypeOK
<1>1. IInv => TypeOK
  BY DEF IInv
<1> QED BY <1>1, IInvHolds, PTL

\* No worker is idle while an item of the list is queued: whatever ends an attempt or
\* queues an item goes through _processQueue.
THEOREM WorkIsTakenHolds == Spec => []WorkIsTaken
<1>1. IInv => WorkIsTaken
  BY DEF IInv
<1> QED BY <1>1, IInvHolds, PTL

-----------------------------------------------------------------------------
(* One worker: what is staged has an owner, and what is cancelled sends      *)
(* nothing more.                                                            *)

\* One upload at a time, the default of maxConcurrentUploads.
OneAtATime == \A v, w \in Workers : v = w

\* An attempt and its item, while there is no other.  What it reserves comes into an item
\* that has no id, and what it sends can be aborted by the worker's controller.
Fits(it, j, w) ==
  /\ it.status # "checking"
  /\ j.step \notin {"discarding", "dropping"} => it.status # "skipped"
  /\ j.step \in {"reserving", "discarding", "dropping"} => it.uploadId = None
  /\ j.step \in {"committing", "stored", "occupied"} => it.uploadId \in {j.upload, None}
  /\ j.step \in {"sending", "posting"} => it.controller = w /\ it.status # "cancelled"
  /\ j.step = "posting" => j.item \in Small
  /\ j.step = "reserving" => j.item \notin Small

\* Every id that is held is some item's, and an item that is not listed has one only while
\* its attempt will come to commit or discard it.
Kept(its, js, held) ==
  /\ \A i \in Small : its[i].uploadId = None
  /\ \A i \in Items : its[i].uploadId # None =>
       \/ i \in listed
       \/ /\ its[i].status \notin {"cancelled", "skipped"}
          /\ \E w \in Workers : js[w].item = i
  /\ \A w \in Workers : js[w].step # "idle" => Fits(its[js[w].item], js[w], w)
  /\ \A w \in Workers : js[w].step = "stored" => js[w].upload \notin held
  /\ \A u \in held : \E i \in Items : its[i].uploadId = u

\* The files of a batch that was not dropped yet are nowhere.
NotYet ==
  \A b \in Batches : adding[b] = "no" =>
    \A i \in Dropped[b] : i \notin listed /\ \A w \in Workers : job[w].item # i

\* The inductive invariant with one worker.
OneInv == IInv /\ Kept(items, job, open \ aborting) /\ NotYet

\* What every step does: a worker's file was its own or is one of the list, and no commit
\* of a cancelled file starts.
Tidy(js) ==
  \A w \in Workers :
    /\ job'[w].item \in {js[w].item, None} \cup listed
    /\ job'[w] # js[w] /\ job'[w].step = "committing" => items'[job'[w].item].status # "cancelled"

\* The same as Kept, but for item i, whose attempt is about to change or to end.
Loose(its, i, held) ==
  /\ \A k \in Small : its[k].uploadId = None
  /\ \A k \in Items \ {i} : its[k].uploadId # None => k \in listed
  /\ \A u \in held : \E k \in Items : its[k].uploadId = u

\* Who idles has no file.
LEMMA IdleIs ==
  /\ Idle.step = "idle" /\ Idle.item = None /\ Idle.upload = None
BY DEF Idle

\* The first step of an attempt is one it may take.
LEMMA FirstFits ==
  ASSUME NEW i \in Items, NEW it \in ItemType, NEW w \in Workers, it.status = "queued",
         i \in Small => it.uploadId = None
  PROVE  Fits(Started(i, it, w), Attempt(i, it), w)
<1>1. Request(i, it) = IF i \in Small THEN "posting" ELSE IF it.uploadId = None THEN "reserving" ELSE "committing"
  BY DEF Request
<1> DEFINE st == Sending(it, Request(i, it), w)
<1>2. /\ st \in ItemType /\ st.uploadId = it.uploadId
      /\ Request(i, it) = "posting" => st.controller = w
  BY DEF Sending, ItemType
<1>3. Started(i, it, w) = [st EXCEPT !.status = "uploading"]
  BY DEF Started
<1> HIDE DEF st
<1>4. /\ Started(i, it, w).status = "uploading" /\ Started(i, it, w).uploadId = it.uploadId
      /\ Started(i, it, w).controller = st.controller
  BY <1>2, <1>3 DEF ItemType
<1>5. /\ Attempt(i, it).step = Request(i, it) /\ Attempt(i, it).item = i
      /\ Attempt(i, it).upload = it.uploadId
  BY Start
<1> QED BY <1>1, <1>2, <1>4, <1>5 DEF Fits

\* _processQueue starts an attempt of its own, if the worker is free.
LEMMA PullKept ==
  ASSUME OneAtATime, NEW its, NEW js, NEW g \in Nat, g <= MaxUploads, listed \subseteq Items,
         NEW held, Sound(its, js, g), Kept(its, js, held), ProcessQueue(its, js)
  PROVE  Kept(items', job', held) /\ Tidy(js)
<1>1. ASSUME NEW w \in Workers
      PROVE  \/ job'[w] = js[w]
             \/ /\ js[w] = Idle
                /\ \E i \in listed \cap Items :
                     /\ its[i].status = "queued" /\ job'[w] = Attempt(i, its[i])
                     /\ items'[i] = Started(i, its[i], w)
  BY Pull
<1>2. ASSUME NEW i \in Items
      PROVE  \/ items'[i] = its[i]
             \/ /\ i \in listed /\ its[i].status = "queued"
                /\ \E w \in Workers :
                     /\ js[w] = Idle /\ job'[w] = Attempt(i, its[i])
                     /\ items'[i] = Started(i, its[i], w)
  BY Pull
<1>3. ASSUME NEW i \in Items, its[i].status = "queued", NEW w \in Workers
      PROVE  /\ Fits(Started(i, its[i], w), Attempt(i, its[i]), w)
             /\ Attempt(i, its[i]).step # "idle" /\ Attempt(i, its[i]).step # "stored"
             /\ Attempt(i, its[i]).item = i
             /\ Started(i, its[i], w).uploadId = its[i].uploadId
             /\ Started(i, its[i], w).status = "uploading"
  <2>1. its[i] \in ItemType /\ (i \in Small => its[i].uploadId = None)
    BY DEF Sound, Kept
  <2>2. Attempt(i, its[i]).step = Request(i, its[i]) /\ Request(i, its[i]) # "stored"
    BY <2>1, Start DEF Request
  <2> QED BY <1>3, <2>1, <2>2, FirstFits, Start
<1>4. \A i \in Items : items'[i].uploadId = its[i].uploadId
  BY <1>2, <1>3
<1>5. ASSUME NEW w \in Workers, js[w] # Idle
      PROVE  job'[w] = js[w] /\ \A i \in Items : items'[i] = its[i]
  BY <1>1, <1>2, <1>5 DEF OneAtATime
<1>6. \A i \in Small : items'[i].uploadId = None
  BY <1>4, QueueAssumption DEF Kept
<1>7. ASSUME NEW i \in Items, items'[i].uploadId # None, i \notin listed
      PROVE  /\ items'[i].status \notin {"cancelled", "skipped"}
             /\ \E w \in Workers : job'[w].item = i
  <2>1. its[i].status \notin {"cancelled", "skipped"} /\ \E w \in Workers : js[w].item = i
    BY <1>4, <1>7 DEF Kept
  <2>2. PICK w \in Workers : js[w].item = i
    BY <2>1
  <2>3. js[w] # Idle
    BY <2>2, IdleIs, Apart
  <2> QED BY <1>5, <2>1, <2>2, <2>3
<1>8. ASSUME NEW w \in Workers, job'[w].step # "idle"
      PROVE  Fits(items'[job'[w].item], job'[w], w)
  <2>1. CASE job'[w] = js[w]
    <3>1. js[w] # Idle /\ js[w].item \in Items /\ Fits(its[js[w].item], js[w], w)
      BY <1>8, <2>1, IdleIs DEF Sound, Kept
    <3> QED BY <1>5, <2>1, <3>1
  <2>2. CASE job'[w] # js[w]
    BY <1>1, <1>3, <2>2
  <2> QED BY <2>1, <2>2
<1>9. ASSUME NEW w \in Workers, job'[w].step = "stored"
      PROVE  job'[w].upload \notin held
  BY <1>1, <1>3, <1>9 DEF Kept
<1>10. \A u \in held : \E i \in Items : items'[i].uploadId = u
  BY <1>4 DEF Kept
<1>11. Tidy(js)
  BY <1>1, <1>3 DEF Tidy
<1> QED BY <1>6, <1>7, <1>8, <1>9, <1>10, <1>11 DEF Kept

\* The worker is free, and its file keeps no id the list does not show.
LEMMA FinishKept ==
  ASSUME OneAtATime, NEW its, NEW js, NEW g \in Nat, g <= MaxUploads, listed \subseteq Items,
         NEW w \in Workers, NEW pol, NEW held, js[w].item \in Items,
         Sound(its, js, g), Loose(its, js[w].item, held),
         its[js[w].item].uploadId # None => js[w].item \in listed,
         Finish(its, js, w, pol)
  PROVE  Kept(items', job', held) /\ Tidy(js)
<1> DEFINE i == js[w].item
           it == [its[i] EXCEPT !.controller = IF @ = w THEN None ELSE @]
           c == [its EXCEPT ![i] = it]
           f == [js EXCEPT ![w] = Idle]
<1>1. ProcessQueue(c, f)
  BY DEF Finish
<1>2. it \in ItemType /\ it.uploadId = its[i].uploadId
  BY DEF Sound, ItemType
<1>3. f[w] = Idle /\ \A v \in Workers : v = w
  BY DEF Sound, OneAtATime
<1> HIDE DEF it
<1>4. c \in [Items -> ItemType] /\ \A k \in Items : c[k].uploadId = its[k].uploadId
  BY <1>2 DEF Sound
<1>5. Idle \in JobType
  <2>1. 0 \in 0..Chunks /\ 0 \in 0..MaxRetries
    BY QueueAssumption
  <2> QED BY <2>1 DEF Idle, JobType, Steps
<1>6. f \in [Workers -> JobType]
  BY <1>5 DEF Sound
<1> HIDE DEF c, f
<1>7. Sound(c, f, g)
  BY <1>3, <1>4, <1>6, IdleIs DEF Sound
<1>8. Kept(c, f, held)
  <2>1. \A k \in Small : c[k].uploadId = None
    BY <1>4, QueueAssumption DEF Loose
  <2>2. \A k \in Items : c[k].uploadId # None => k \in listed
    BY <1>4 DEF Loose
  <2>3. \A u \in held : \E k \in Items : c[k].uploadId = u
    BY <1>4 DEF Loose
  <2> QED BY <2>1, <2>2, <2>3, <1>3, IdleIs DEF Kept
<1>9. Kept(items', job', held) /\ Tidy(f)
  BY <1>1, <1>7, <1>8, PullKept
<1>10. Tidy(js)
  <2>1. Idle.step # "committing"
    BY IdleIs
  <2>2. \A v \in Workers : job'[v].item \in {js[v].item, None} \cup listed
    BY <1>3, <1>9, IdleIs DEF Tidy
  <2>3. ASSUME NEW v \in Workers, job'[v].step = "committing"
        PROVE  items'[job'[v].item].status # "cancelled"
    BY <1>3, <1>9, <2>1, <2>3 DEF Tidy
  <2> QED BY <2>2, <2>3 DEF Tidy
<1> QED BY <1>9, <1>10

\* What is about to change keeps its id.
LEMMA LooseTouch ==
  ASSUME NEW its, NEW i \in Items, NEW held, Loose(its, i, held),
         its \in [Items -> ItemType], NEW it, it.uploadId = its[i].uploadId
  PROVE  Loose([its EXCEPT ![i] = it], i, held)
<1>1. \A k \in Items : [its EXCEPT ![i] = it][k].uploadId = its[k].uploadId
  OBVIOUS
<1> QED BY <1>1, QueueAssumption DEF Loose

\* What is staged is told to the server, or the worker is free.
LEMMA UnwindKept ==
  ASSUME OneAtATime, NEW its, NEW js, NEW g \in Nat, g <= MaxUploads, listed \subseteq Items,
         NEW w \in Workers, NEW pol, NEW step, step = "discarding" \/ step = "dropping",
         NEW held, js[w].item \in Items,
         Sound(its, js, g), Loose(its, js[w].item, held),
         its[js[w].item].status # "checking", 
         step = "discarding" \/ step = "dropping",
         Unwind(its, js, w, pol, step)
  PROVE  Kept(items', job', held \ aborting') /\ Tidy(js)
<1> DEFINE i == js[w].item
           u == its[i].uploadId
<1>1. its[i] \in ItemType /\ \A v \in Workers : v = w
  BY DEF Sound, OneAtATime
<1>2. CASE u = None
  <2> DEFINE it == [its[i] EXCEPT !.status = Outcome(step, @)]
             c == [its EXCEPT ![i] = it]
  <2>1. Finish(c, js, w, pol)
    BY <1>2 DEF Unwind
  <2>2. it \in ItemType /\ it.uploadId = u
    <3>1. Outcome(step, its[i].status) \in Statuses
      BY <1>1 DEF ItemType, Outcome, Thrown, Returned, Statuses, Retryable
    <3> QED BY <1>1, <3>1 DEF ItemType
  <2> HIDE DEF it
  <2>3. Loose(c, i, held)
    BY <2>2, LooseTouch DEF Sound
  <2>4. Loose(c, i, held \ aborting')
    BY <2>3 DEF Loose
  <2>5. Sound(c, js, g)
    BY <2>2 DEF Sound
  <2>6. c[i].uploadId = None
    BY <1>2, <2>2 DEF Sound
  <2> HIDE DEF c
  <2> QED BY <2>1, <2>4, <2>5, <2>6, FinishKept
<1>3. CASE u # None
  <2> DEFINE it == [its[i] EXCEPT !.uploadId = None]
             j == [js[w] EXCEPT !.step = step, !.upload = u]
  <2>1. items' = [its EXCEPT ![i] = it] /\ job' = [js EXCEPT ![w] = j]
    BY <1>3 DEF Unwind, Sound
  <2>2. u \in aborting'
    BY <1>3 DEF Unwind, SendAbort
  <2>3. it.uploadId = None /\ it.status = its[i].status
    BY <1>1 DEF ItemType
  <2>4. j.step = step /\ j.item = i
    BY DEF Sound, JobType
  <2> HIDE DEF it, j
  <2>5. items'[i] = it /\ (\A k \in Items \ {i} : items'[k] = its[k]) /\ job'[w] = j
    BY <2>1 DEF Sound
  <2> HIDE DEF u, i
  <2>6. Kept(items', job', held \ aborting')
    <3>1. \A k \in Small : items'[k].uploadId = None
      BY <2>3, <2>5, QueueAssumption DEF Loose, i
    <3>2. \A k \in Items : items'[k].uploadId # None => k \in listed
      BY <2>3, <2>5 DEF Loose, i
    <3>3. Fits(it, j, w)
      BY <2>3, <2>4 DEF Fits, i
    <3>4. ASSUME NEW x \in held \ aborting' PROVE \E k \in Items : items'[k].uploadId = x
      <4>1. PICK k \in Items : its[k].uploadId = x
        BY DEF Loose
      <4>2. k # i
        BY <2>2, <3>4, <4>1 DEF u
      <4> QED BY <2>5, <4>1, <4>2
    <3> QED BY <1>1, <2>4, <2>5, <3>1, <3>2, <3>3, <3>4 DEF Kept
  <2>7. Tidy(js)
    BY <1>1, <2>4, <2>5 DEF Tidy, i
  <2> QED BY <2>6, <2>7
<1> QED BY <1>2, <1>3

\* The worker goes on with its file.
LEMMA OnKept ==
  ASSUME OneAtATime, NEW its, NEW js, NEW w \in Workers, NEW held,
         its \in [Items -> ItemType], js \in [Workers -> JobType],
         NEW i \in Items, js[w].item = i, Loose(its, i, held),
         NEW it, it.uploadId = its[i].uploadId,
         it.uploadId = None \/ i \in listed \/ it.status \notin {"cancelled", "skipped"},
         NEW j, j.item = i, j.step # "idle", Fits(it, j, w),
         j.step = "stored" => j.upload \notin held,
         j.step = "committing" => j = js[w] \/ it.status # "cancelled",
         items' = [its EXCEPT ![i] = it], job' = [js EXCEPT ![w] = j]
  PROVE  Kept(items', job', held) /\ Tidy(js)
<1>1. \A v \in Workers : v = w
  BY DEF OneAtATime
<1>2. items'[i] = it /\ (\A k \in Items \ {i} : items'[k] = its[k]) /\ job'[w] = j
  OBVIOUS
<1>3. \A k \in Items : items'[k].uploadId = its[k].uploadId
  BY <1>2
<1>4. \A k \in Small : items'[k].uploadId = None
  BY <1>3, QueueAssumption DEF Loose
<1>5. ASSUME NEW k \in Items, items'[k].uploadId # None
      PROVE  \/ k \in listed
             \/ /\ items'[k].status \notin {"cancelled", "skipped"}
                /\ \E v \in Workers : job'[v].item = k
  BY <1>2, <1>3, <1>5 DEF Loose
<1>6. \A u \in held : \E k \in Items : items'[k].uploadId = u
  BY <1>3 DEF Loose
<1>7. Kept(items', job', held)
  BY <1>1, <1>2, <1>4, <1>5, <1>6 DEF Kept
<1>8. Tidy(js)
  BY <1>1, <1>2 DEF Tidy
<1> QED BY <1>7, <1>8

\* Less is held.
LEMMA Shrinks ==
  ASSUME NEW its, NEW js, NEW held, NEW left \in SUBSET held, Kept(its, js, held)
  PROVE  Kept(its, js, left)
BY DEF Kept

\* Less is held by the others.
LEMMA LooseShrinks ==
  ASSUME NEW its, NEW i, NEW held, NEW left \in SUBSET held, Loose(its, i, held)
  PROVE  Loose(its, i, left)
BY DEF Loose

\* A request of an item that is still wanted.
LEMMA SendingFits ==
  ASSUME NEW i \in Items, NEW it \in ItemType, NEW w \in Workers,
         it.status \notin {"checking", "cancelled", "skipped"}
  PROVE  /\ Fits(Sending(it, Request(i, it), w), Attempt(i, it), w)
         /\ Attempt(i, it).step \notin {"idle", "stored"}
         /\ Sending(it, Request(i, it), w).status = it.status
         /\ Sending(it, Request(i, it), w).uploadId = it.uploadId
         /\ Attempt(i, it).item = i
<1>1. Request(i, it) = IF i \in Small THEN "posting" ELSE IF it.uploadId = None THEN "reserving" ELSE "committing"
  BY DEF Request
<1> DEFINE st == Sending(it, Request(i, it), w)
<1>2. /\ st.uploadId = it.uploadId /\ st.status = it.status
      /\ Request(i, it) = "posting" => st.controller = w
  BY DEF Sending, ItemType
<1> HIDE DEF st
<1>3. /\ Attempt(i, it).step = Request(i, it) /\ Attempt(i, it).item = i
      /\ Attempt(i, it).upload = it.uploadId
  BY Start
<1>4. Fits(st, Attempt(i, it), w)
  BY <1>1, <1>2, <1>3 DEF Fits
<1> QED BY <1>1, <1>2, <1>3, <1>4 DEF st

\* The attempt goes on, or ends with what was decided.
LEMMA ContinueKept ==
  ASSUME OneAtATime, NEW its, NEW js, NEW g \in Nat, g <= MaxUploads, listed \subseteq Items,
         NEW w \in Workers, NEW pol, NEW held, NEW i \in Items, js[w].item = i,
         Sound(its, js, g), Loose(its, i, held), its[i].status # "checking",
         its[i].uploadId = None \/ i \in listed \/ its[i].status \notin {"cancelled", "skipped"},
         Continue(its, js, w, pol)
  PROVE  Kept(items', job', held) /\ Tidy(js)
<1>1. its[i] \in ItemType
  BY DEF Sound
<1>2. CASE its[i].status \in {"skipped", "cancelled"}
  <2> DEFINE it == [its[i] EXCEPT !.status = Returned(@)]
             c == [its EXCEPT ![i] = it]
  <2>1. Finish(c, js, w, pol)
    BY <1>2 DEF Continue
  <2>2. it \in ItemType /\ it.uploadId = its[i].uploadId
    BY <1>1 DEF ItemType, Returned, Statuses
  <2> HIDE DEF it
  <2>3. Loose(c, i, held)
    BY <2>2, LooseTouch DEF Sound
  <2>4. Sound(c, js, g) /\ (c[i].uploadId # None => i \in listed)
    BY <1>2, <2>2 DEF Sound
  <2> HIDE DEF c
  <2> QED BY <2>1, <2>3, <2>4, FinishKept
<1>3. CASE its[i].status \notin {"skipped", "cancelled"}
  <2> DEFINE it == Sending(its[i], Request(i, its[i]), w)
             j == Attempt(i, its[i])
  <2>1. items' = [its EXCEPT ![i] = it] /\ job' = [js EXCEPT ![w] = j]
    BY <1>3 DEF Continue
  <2>2. /\ Fits(it, j, w) /\ j.step \notin {"idle", "stored"} /\ j.item = i
        /\ it.status = its[i].status /\ it.uploadId = its[i].uploadId
    BY <1>1, <1>3, SendingFits
  <2> HIDE DEF it, j
  <2> QED BY <1>3, <2>1, <2>2, OnKept DEF Sound
<1> QED BY <1>2, <1>3

\* Whatever is decided.
LEMMA DecideKept ==
  ASSUME OneAtATime, NEW its, NEW js, NEW g \in Nat, g <= MaxUploads, listed \subseteq Items,
         NEW w \in Workers, NEW pol, NEW held, NEW i \in Items, js[w].item = i, NEW action \in Actions,
         Sound(its, js, g), Loose(its, i, held), its[i].status # "checking",
         its[i].uploadId = None \/ i \in listed \/ its[i].status \notin {"cancelled", "skipped"},
         Decide(its, js, w, action, pol)
  PROVE  Kept(items', job', held \ aborting') /\ Tidy(js)
<1> DEFINE it == ApplyDecision(its[i], action)
           decided == [its EXCEPT ![i] = it]
<1>1. its[i] \in ItemType
  BY DEF Sound
<1>2. /\ it \in ItemType /\ it.uploadId = its[i].uploadId /\ it.status \in {its[i].status, "skipped"}
      /\ action # "skip" => it.status = its[i].status
  BY <1>1, Applied
<1>3. IF action = "skip" THEN Unwind(decided, js, w, pol, "dropping")
                         ELSE Continue(decided, js, w, pol)
  BY DEF Decide
<1> HIDE DEF it
<1>4. Loose(decided, i, held)
  BY <1>2, LooseTouch DEF Sound
<1>5. Sound(decided, js, g) /\ decided[i] = it
  BY <1>2 DEF Sound
<1> HIDE DEF decided
<1>6. CASE action = "skip"
  <2>1. Unwind(decided, js, w, pol, "dropping")
    BY <1>3, <1>6
  <2>2. decided[js[w].item].status # "checking"
    BY <1>2, <1>5
  <2> QED BY <1>4, <1>5, <2>1, <2>2, UnwindKept
<1>7. CASE action # "skip"
  <2>1. Continue(decided, js, w, pol)
    BY <1>3, <1>7
  <2>2. Kept(items', job', held) /\ Tidy(js)
    BY <1>2, <1>4, <1>5, <1>7, <2>1, ContinueKept
  <2> QED BY <2>2, Shrinks
<1> QED BY <1>6, <1>7

-----------------------------------------------------------------------------
(* One lemma per action of a worker.                                         *)

\* What each step has to show of items, jobs and chunks.
StaysKept == Kept(items', job', open' \ aborting') /\ Tidy(job)

\* What is held has an id.
LEMMA HeldIsId == IInv => None \notin open
<1>1. IInv => open \subseteq Uploads
  BY Given, QueueAssumption DEF Uploads
<1> QED BY <1>1, Apart

\* A worker in use, and its item.
LEMMA Here ==
  ASSUME OneAtATime, OneInv, NEW w \in Workers, job[w].step # "idle"
  PROVE  LET i == job[w].item IN
         /\ i \in Items /\ items[i] \in ItemType /\ job[w] \in JobType
         /\ items \in [Items -> ItemType] /\ job \in [Workers -> JobType]
         /\ given \in Nat /\ given <= MaxUploads /\ listed \subseteq Items
         /\ Sound(items, job, given)
         /\ Loose(items, i, open \ aborting)
         /\ Fits(items[i], job[w], w) /\ items[i].status # "checking"
         /\ items[i].uploadId = None \/ i \in listed \/ items[i].status \notin {"cancelled", "skipped"}
         /\ job[w].step = "stored" => job[w].upload \notin open \ aborting
<1>1. IInv /\ Kept(items, job, open \ aborting)
  BY DEF OneInv
<1>2. /\ job[w].item \in Items /\ items[job[w].item] \in ItemType /\ job[w] \in JobType
      /\ items \in [Items -> ItemType] /\ job \in [Workers -> JobType]
      /\ given \in Nat /\ given <= MaxUploads /\ listed \subseteq Items /\ Sound(items, job, given)
  BY <1>1, Given DEF Sound
<1>3. Loose(items, job[w].item, open \ aborting)
  <2>1. \A v \in Workers : v = w
    BY DEF OneAtATime
  <2> QED BY <1>1, <2>1 DEF Kept, Loose
<1>4. Fits(items[job[w].item], job[w], w) /\ items[job[w].item].status # "checking"
  BY <1>1 DEF Kept, Fits
<1> QED BY <1>1, <1>2, <1>3, <1>4 DEF Kept

\* A failure, of which the handler has touched the item.
LEMMA FailKept ==
  ASSUME OneAtATime, OneInv, NEW w \in Workers, job[w].step # "idle",
         NEW it \in ItemType, it.uploadId = items[job[w].item].uploadId, it.status # "checking",
         Fail([items EXCEPT ![job[w].item] = it], w), open' \subseteq open
  PROVE  StaysKept
<1> DEFINE i == job[w].item
           its == [items EXCEPT ![i] = it]
           held == open' \ aborting
<1>1. /\ i \in Items /\ items \in [Items -> ItemType] /\ given \in Nat /\ given <= MaxUploads
      /\ listed \subseteq Items /\ Sound(items, job, given) /\ Loose(items, i, open \ aborting)
  BY Here
<1>2. Unwind(its, job, w, policy, "discarding")
  BY DEF Fail
<1>3. held \in SUBSET (open \ aborting)
  OBVIOUS
<1> HIDE DEF held
<1>4. Loose(items, i, held)
  BY <1>1, <1>3, LooseShrinks
<1> HIDE DEF i
<1>5. Loose(its, i, held)
  BY <1>1, <1>4, LooseTouch DEF i
<1>6. Sound(its, job, given) /\ its[i].status # "checking"
  BY <1>1 DEF Sound, i
<1> HIDE DEF its
<1>7. Kept(items', job', held \ aborting') /\ Tidy(job)
  BY <1>1, <1>2, <1>5, <1>6, UnwindKept DEF i
<1>8. aborting \subseteq aborting'
  BY <1>2 DEF Unwind, SendAbort
<1>9. held \ aborting' = open' \ aborting'
  BY <1>8 DEF held
<1> QED BY <1>7, <1>9 DEF StaysKept

\* A failure with the item as it is.
LEMMA FailsKept ==
  ASSUME OneAtATime, OneInv, NEW w \in Workers, job[w].step # "idle", Fail(items, w), open' \subseteq open
  PROVE  StaysKept
<1>1. /\ job[w].item \in Items /\ items[job[w].item] \in ItemType
      /\ items[job[w].item].status # "checking" /\ items \in [Items -> ItemType]
  BY Here
<1>2. items = [items EXCEPT ![job[w].item] = items[job[w].item]]
  BY <1>1
<1> DEFINE it == items[job[w].item]
<1>3. Fail([items EXCEPT ![job[w].item] = it], w)
  BY <1>2
<1>4. it \in ItemType /\ it.uploadId = items[job[w].item].uploadId /\ it.status # "checking"
  BY <1>1
<1> HIDE DEF it
<1> QED BY <1>3, <1>4, FailKept

\* The attempt goes on with the item and the chunks it has.
LEMMA MoveKept ==
  ASSUME OneAtATime, OneInv, NEW w \in Workers, job[w].step # "idle",
         NEW it, it.uploadId = items[job[w].item].uploadId, it.status = items[job[w].item].status,
         NEW j, j.item = job[w].item, j.step # "idle", Fits(it, j, w),
         j.step = "stored" => j.upload \notin open',
         j.step = "committing" => it.status # "cancelled",
         items' = [items EXCEPT ![job[w].item] = it], job' = [job EXCEPT ![w] = j],
         open' \subseteq open, UNCHANGED aborting
  PROVE  StaysKept
<1> DEFINE i == job[w].item
           held == open' \ aborting'
<1>1. /\ i \in Items /\ items \in [Items -> ItemType] /\ job \in [Workers -> JobType]
      /\ Loose(items, i, open \ aborting)
      /\ items[i].uploadId = None \/ i \in listed \/ items[i].status \notin {"cancelled", "skipped"}
  BY Here
<1>2. held \in SUBSET (open \ aborting) /\ (j.step = "stored" => j.upload \notin held)
  OBVIOUS
<1> HIDE DEF held
<1>3. Loose(items, i, held)
  BY <1>1, <1>2, LooseShrinks
<1>4. Kept(items', job', held) /\ Tidy(job)
  BY <1>1, <1>2, <1>3, OnKept
<1> QED BY <1>4 DEF held, StaysKept

\* A new id: the item had none.
LEMMA ReservedKept ==
  ASSUME OneAtATime, OneInv, NEW w \in Workers, Reserved(w) PROVE StaysKept
<1> DEFINE i == job[w].item
           u == given + 1
           it == [items[i] EXCEPT !.uploadId = u]
           its == [items EXCEPT ![i] = it]
           held == open' \ aborting
<1>1. /\ job[w].step = "reserving" /\ u \in Uploads /\ open' = open \cup {u}
      /\ i \in Items /\ items[i] \in ItemType /\ job[w] \in JobType
      /\ items \in [Items -> ItemType] /\ job \in [Workers -> JobType]
      /\ given \in Nat /\ listed \subseteq Items
      /\ Sound(items, job, given) /\ Loose(items, i, open \ aborting)
      /\ Fits(items[i], job[w], w) /\ items[i].status # "checking"
  BY Here DEF Reserved
<1>2. items[i].uploadId = None /\ i \notin Small
  BY <1>1 DEF Fits
<1>3. u \in Nat /\ u <= MaxUploads /\ u # None
  BY <1>1, Apart, QueueAssumption DEF Uploads
<1>4. it \in ItemType /\ it.uploadId = u /\ it.status = items[i].status
  BY <1>1 DEF ItemType
<1> HIDE DEF it
<1>5. its[i] = it /\ (\A k \in Items \ {i} : its[k] = items[k]) /\ its \in [Items -> ItemType]
  BY <1>1, <1>4
<1>6. Sound(its, job, u)
  BY <1>1, <1>3, <1>4, <1>5 DEF Sound
<1>7. Loose(its, i, held)
  <2>1. \A k \in Small : its[k].uploadId = None
    BY <1>1, <1>2, <1>5, QueueAssumption DEF Loose
  <2>2. \A k \in Items \ {i} : its[k].uploadId # None => k \in listed
    BY <1>1, <1>5 DEF Loose
  <2>3. ASSUME NEW x \in held PROVE \E k \in Items : its[k].uploadId = x
    <3>1. CASE x = u
      BY <1>1, <1>4, <1>5, <3>1
    <3>2. CASE x \in open \ aborting
      <4>1. PICK k \in Items : items[k].uploadId = x
        BY <1>1, <3>2 DEF Loose
      <4>2. k # i
        BY <1>2, <3>2, <4>1, HeldIsId DEF OneInv
      <4> QED BY <1>5, <4>1, <4>2
    <3> QED BY <1>1, <2>3, <3>1, <3>2
  <2> QED BY <2>1, <2>2, <2>3 DEF Loose
<1>8. CASE items[i].status = "cancelled"
  <2>1. Unwind(its, job, w, policy, "discarding")
    BY <1>8 DEF Reserved, Fail, it
  <2>2. aborting \subseteq aborting'
    BY <2>1 DEF Unwind, SendAbort
  <2>3. held \ aborting' = open' \ aborting'
    BY <2>2
  <2>4. its[job[w].item].status # "checking"
    BY <1>1, <1>4, <1>5
  <2> HIDE DEF held, its, u
  <2>5. Kept(items', job', held \ aborting') /\ Tidy(job)
    BY <1>1, <1>3, <1>6, <1>7, <2>1, <2>4, UnwindKept
  <2> QED BY <2>3, <2>5 DEF StaysKept
<1>9. CASE items[i].status # "cancelled"
  <2> DEFINE st == Sending(it, "sending", w)
             j == [job[w] EXCEPT !.step = "sending", !.upload = u, !.chunk = 1]
  <2>1. /\ items' = [its EXCEPT ![i] = Sending(its[i], "sending", w)]
        /\ job' = [job EXCEPT ![w] = j] /\ aborting' = aborting
    BY <1>1, <1>9 DEF Reserved, it
  <2>2. items' = [its EXCEPT ![i] = st]
    BY <1>5, <2>1
  <2>3. st.uploadId = u /\ st.status = items[i].status /\ st.controller = w
    BY <1>4 DEF Sending, ItemType
  <2>4. j.step = "sending" /\ j.item = i
    BY <1>1 DEF JobType
  <2> HIDE DEF st, j
  <2>5. items[i].status # "skipped"
    BY <1>1 DEF Fits
  <2>6. Fits(st, j, w)
    BY <1>1, <1>9, <2>3, <2>4, <2>5 DEF Fits
  <2>7. st.uploadId = its[i].uploadId
    BY <1>4, <1>5, <2>3
  <2>8. st.status \notin {"cancelled", "skipped"}
    BY <1>9, <2>3, <2>5
  <2>9. j.step # "idle" /\ j.step # "stored" /\ j.step # "committing"
    BY <2>4
  <2> HIDE DEF its, held, u, i
  <2>10. job[w].item = i /\ i \in Items /\ job \in [Workers -> JobType] /\ its \in [Items -> ItemType]
    BY <1>1, <1>5 DEF i
  <2>11. items' = [its EXCEPT ![i] = st] /\ job' = [job EXCEPT ![w] = j]
    BY <2>1, <2>2
  <2>12. Kept(items', job', held) /\ Tidy(job)
    BY <1>7, <2>4, <2>6, <2>7, <2>8, <2>9, <2>10, <2>11, OnKept
  <2> QED BY <2>1, <2>12 DEF StaysKept, held
<1> QED BY <1>8, <1>9

\* The next chunk, or the commit of all of them.
LEMMA ChunkStoredKept ==
  ASSUME OneAtATime, OneInv, NEW w \in Workers, ChunkStored(w) PROVE StaysKept
<1> DEFINE i == job[w].item
           last == job[w].chunk = Chunks
           next == IF last THEN "committing" ELSE "sending"
<1>1. /\ job[w].step = "sending" /\ open' = open
      /\ i \in Items /\ items[i] \in ItemType /\ job[w] \in JobType
      /\ Fits(items[i], job[w], w)
  BY Here DEF ChunkStored
<1>2. items[i].status \notin {"cancelled", "skipped", "checking"} /\ items[i].controller = w
  BY <1>1 DEF Fits
<1> DEFINE it == Sending(items[i], next, w)
           j == [job[w] EXCEPT !.step = next, !.tries = 0,
                               !.upload = IF last THEN items[i].uploadId ELSE @,
                               !.chunk = IF last THEN 0 ELSE @ + 1]
<1>3. items' = [items EXCEPT ![i] = it] /\ job' = [job EXCEPT ![w] = j] /\ aborting' = aborting
  BY <1>1, <1>2 DEF ChunkStored
<1>4. it.uploadId = items[i].uploadId /\ it.status = items[i].status /\ it.controller = w
  BY <1>1, <1>2 DEF Sending, ItemType
<1>5. j.step = next /\ j.item = i /\ j.upload = (IF last THEN items[i].uploadId ELSE job[w].upload)
  BY <1>1 DEF JobType
<1> HIDE DEF it, j
<1>6. Fits(it, j, w)
  BY <1>2, <1>4, <1>5 DEF Fits
<1> QED BY <1>1, <1>2, <1>3, <1>4, <1>5, <1>6, MoveKept

\* The wait before another try.
LEMMA SendFailsKept ==
  ASSUME OneAtATime, OneInv, NEW w \in Workers, SendFails(w) PROVE StaysKept
<1> DEFINE i == job[w].item
           j == [job[w] EXCEPT !.step = "backoff", !.tries = @ + 1]
           it == items[i]
<1>1. /\ job[w].step \in {"sending", "posting"} /\ open' = open /\ aborting' = aborting
      /\ i \in Items /\ job[w] \in JobType /\ Fits(it, job[w], w) /\ items \in [Items -> ItemType]
  BY Here DEF SendFails, server
<1>2. items' = items /\ job' = [job EXCEPT ![w] = j]
  BY DEF SendFails
<1>3. items' = [items EXCEPT ![i] = it]
  BY <1>1, <1>2
<1>4. j.step = "backoff" /\ j.item = i
  BY <1>1 DEF JobType
<1> HIDE DEF j
<1>5. Fits(it, j, w)
  BY <1>1, <1>4 DEF Fits
<1> HIDE DEF it
<1>6. it.uploadId = items[i].uploadId /\ it.status = items[i].status
  BY DEF it
<1> QED BY <1>1, <1>2, <1>3, <1>4, <1>5, <1>6, MoveKept

\* Another try, with the controller of the worker, or the end of the attempt.
LEMMA BackoffEndsKept ==
  ASSUME OneAtATime, OneInv, NEW w \in Workers, BackoffEnds(w) PROVE StaysKept
<1> DEFINE i == job[w].item
           again == IF i \in Small THEN "posting" ELSE "sending"
<1>1. /\ job[w].step = "backoff" /\ open' = open
      /\ i \in Items /\ items[i] \in ItemType /\ job[w] \in JobType /\ Fits(items[i], job[w], w)
  BY Here DEF BackoffEnds
<1>2. CASE job[w].tries = MaxRetries \/ items[i].status \in {"cancelled", "skipped"}
  <2>1. Fail(items, w)
    BY <1>2 DEF BackoffEnds
  <2> QED BY <1>1, <2>1, FailsKept
<1>3. CASE ~(job[w].tries = MaxRetries \/ items[i].status \in {"cancelled", "skipped"})
  <2> DEFINE it == Sending(items[i], again, w)
             j == [job[w] EXCEPT !.step = again]
  <2>1. items' = [items EXCEPT ![i] = it] /\ job' = [job EXCEPT ![w] = j] /\ aborting' = aborting
    BY <1>1, <1>3 DEF BackoffEnds
  <2>2. it.uploadId = items[i].uploadId /\ it.status = items[i].status /\ it.controller = w
    BY <1>1 DEF Sending, ItemType
  <2>3. j.step = again /\ j.item = i
    BY <1>1 DEF JobType
  <2> HIDE DEF it, j
  <2>4. Fits(it, j, w)
    BY <1>1, <1>3, <2>2, <2>3 DEF Fits
  <2> QED BY <1>1, <2>1, <2>2, <2>3, <2>4, MoveKept
<1> QED BY <1>2, <1>3

\* A refusal ends the attempt.
LEMMA RefusedKept ==
  ASSUME OneAtATime, OneInv, NEW w \in Workers, Refused(w) PROVE StaysKept
<1>1. job[w].step # "idle" /\ Fail(items, w) /\ open' = open
  BY DEF Refused
<1> QED BY <1>1, FailsKept

\* The destination is looked at once more, or the attempt fails.
LEMMA OccupiedKept ==
  ASSUME OneAtATime, OneInv, NEW w \in Workers, job[w].step \in {"reserving", "posting", "occupied"},
         NEW it \in ItemType, it.uploadId = items[job[w].item].uploadId,
         it.status = items[job[w].item].status,
         Occupied([items EXCEPT ![job[w].item] = it], w), UNCHANGED open
  PROVE  StaysKept
<1> DEFINE i == job[w].item
           its == [items EXCEPT ![i] = it]
<1>1. /\ i \in Items /\ items \in [Items -> ItemType] /\ job[w] \in JobType
      /\ Fits(items[i], job[w], w) /\ its[i] = it
  BY Here
<1>2. CASE it.reprompted
  <2>1. Fail(its, w)
    BY <1>1, <1>2 DEF Occupied
  <2>2. it.status # "checking"
    BY <1>1 DEF Fits
  <2> QED BY <2>1, <2>2, FailKept
<1>3. CASE ~it.reprompted
  <2> DEFINE rt == [it EXCEPT !.reprompted = TRUE]
             j == [job[w] EXCEPT !.step = "rechecking"]
  <2>1. /\ items' = [its EXCEPT ![i].reprompted = TRUE] /\ job' = [job EXCEPT ![w] = j]
        /\ aborting' = aborting
    BY <1>1, <1>3 DEF Occupied
  <2>2. items' = [items EXCEPT ![i] = rt]
    BY <1>1, <2>1
  <2>3. rt.uploadId = items[i].uploadId /\ rt.status = items[i].status
    BY DEF ItemType
  <2>4. j.step = "rechecking" /\ j.item = i
    BY <1>1 DEF JobType
  <2> HIDE DEF rt, j
  <2>5. Fits(rt, j, w)
    BY <1>1, <2>3, <2>4 DEF Fits
  <2> QED BY <1>1, <2>1, <2>2, <2>3, <2>4, <2>5, MoveKept
<1> QED BY <1>2, <1>3

\* A request finds the destination taken.
LEMMA ConflictsKept ==
  ASSUME OneAtATime, OneInv, NEW w \in Workers, Conflicts(w) PROVE StaysKept
<1> DEFINE it == items[job[w].item]
<1>1. job[w].step \in {"reserving", "posting"} /\ Occupied(items, w) /\ open' = open
  BY DEF Conflicts
<1>2. job[w].item \in Items /\ it \in ItemType /\ items \in [Items -> ItemType]
  BY <1>1, Here
<1>3. items = [items EXCEPT ![job[w].item] = it]
  BY <1>2
<1>4. Occupied([items EXCEPT ![job[w].item] = it], w)
  BY <1>1, <1>3
<1>5. it.uploadId = items[job[w].item].uploadId /\ it.status = items[job[w].item].status
  OBVIOUS
<1> HIDE DEF it
<1> QED BY <1>1, <1>2, <1>4, <1>5, OccupiedKept

\* A small file is stored.
LEMMA PostStoredKept ==
  ASSUME OneAtATime, OneInv, NEW w \in Workers, PostStored(w) PROVE StaysKept
<1> DEFINE i == job[w].item
           it == [items[i] EXCEPT !.status = Returned(@)]
           its == [items EXCEPT ![i] = it]
           held == open' \ aborting'
<1>1. /\ job[w].step = "posting" /\ open' = open /\ aborting' = aborting
      /\ i \in Items /\ items[i] \in ItemType /\ items \in [Items -> ItemType]
      /\ given \in Nat /\ given <= MaxUploads /\ listed \subseteq Items
      /\ Sound(items, job, given) /\ Loose(items, i, open \ aborting)
      /\ Fits(items[i], job[w], w)
  BY Here DEF PostStored, server
<1>2. items[i].uploadId = None
  BY <1>1 DEF Fits, OneInv, Kept
<1>3. it \in ItemType /\ it.uploadId = items[i].uploadId
  BY <1>1 DEF ItemType, Returned, Statuses
<1>4. Finish(its, job, w, policy)
  BY DEF PostStored
<1> HIDE DEF it
<1>5. Loose(its, i, held)
  BY <1>1, <1>3, LooseTouch
<1>6. Sound(its, job, given) /\ its[i].uploadId = None
  BY <1>1, <1>2, <1>3 DEF Sound
<1> HIDE DEF its, held
<1>7. Kept(items', job', held) /\ Tidy(job)
  BY <1>1, <1>4, <1>5, <1>6, FinishKept
<1> QED BY <1>7 DEF StaysKept, held

\* The server no longer holds what it has stored.
LEMMA CommitStoresKept ==
  ASSUME OneAtATime, OneInv, NEW w \in Workers, CommitStores(w) PROVE StaysKept
<1> DEFINE i == job[w].item
           j == [job[w] EXCEPT !.step = "stored"]
           it == items[i]
<1>1. /\ job[w].step = "committing" /\ open' = open \ {job[w].upload} /\ aborting' = aborting
      /\ i \in Items /\ job[w] \in JobType /\ Fits(it, job[w], w) /\ items \in [Items -> ItemType]
  BY Here DEF CommitStores
<1>2. items' = items /\ job' = [job EXCEPT ![w] = j]
  BY DEF CommitStores
<1>3. items' = [items EXCEPT ![i] = it]
  BY <1>1, <1>2
<1>4. j.step = "stored" /\ j.item = i /\ j.upload = job[w].upload
  BY <1>1 DEF JobType
<1> HIDE DEF j
<1>5. Fits(it, j, w)
  BY <1>1, <1>4 DEF Fits
<1> HIDE DEF it
<1>6. it.uploadId = items[i].uploadId /\ it.status = items[i].status
  BY DEF it
<1>7. open' \subseteq open /\ j.upload \notin open'
  BY <1>1, <1>4
<1> QED BY <1>1, <1>2, <1>3, <1>4, <1>5, <1>6, <1>7, MoveKept

\* The server keeps the chunks.
LEMMA CommitOccupiedKept ==
  ASSUME OneAtATime, OneInv, NEW w \in Workers, CommitOccupied(w) PROVE StaysKept
<1> DEFINE i == job[w].item
           j == [job[w] EXCEPT !.step = "occupied"]
           it == items[i]
<1>1. /\ job[w].step = "committing" /\ open' = open /\ aborting' = aborting
      /\ i \in Items /\ job[w] \in JobType /\ Fits(it, job[w], w) /\ items \in [Items -> ItemType]
  BY Here DEF CommitOccupied, server
<1>2. items' = items /\ job' = [job EXCEPT ![w] = j]
  BY DEF CommitOccupied
<1>3. items' = [items EXCEPT ![i] = it]
  BY <1>1, <1>2
<1>4. j.step = "occupied" /\ j.item = i /\ j.upload = job[w].upload
  BY <1>1 DEF JobType
<1> HIDE DEF j
<1>5. Fits(it, j, w)
  BY <1>1, <1>4 DEF Fits
<1> HIDE DEF it
<1>6. it.uploadId = items[i].uploadId /\ it.status = items[i].status
  BY DEF it
<1> QED BY <1>1, <1>2, <1>3, <1>4, <1>5, <1>6, MoveKept

\* The id the item gives up is of no chunks any more.
LEMMA CommitAnsweredKept ==
  ASSUME OneAtATime, OneInv, NEW w \in Workers, CommitAnswered(w) PROVE StaysKept
<1> DEFINE i == job[w].item
           it == [items[i] EXCEPT !.finalizing = FALSE, !.uploadId = None, !.status = Returned(@)]
           its == [items EXCEPT ![i] = it]
           held == open' \ aborting'
<1>1. /\ job[w].step = "stored" /\ open' = open /\ aborting' = aborting
      /\ i \in Items /\ items[i] \in ItemType /\ items \in [Items -> ItemType]
      /\ given \in Nat /\ given <= MaxUploads /\ listed \subseteq Items
      /\ Sound(items, job, given) /\ Loose(items, i, open \ aborting)
      /\ Fits(items[i], job[w], w) /\ job[w].upload \notin open \ aborting
  BY Here DEF CommitAnswered, server
<1>2. items[i].uploadId \notin held
  BY <1>1, HeldIsId DEF Fits, OneInv
<1>3. it \in ItemType /\ it.uploadId = None
  BY <1>1 DEF ItemType, Returned, Statuses
<1>4. Finish(its, job, w, policy)
  <2>1. its = [items EXCEPT ![i].finalizing = FALSE, ![i].uploadId = None, ![i].status = Returned(@)]
    BY <1>1 DEF ItemType
  <2> HIDE DEF its
  <2> QED BY <2>1 DEF CommitAnswered
<1> HIDE DEF it
<1>5. its[i] = it /\ \A k \in Items \ {i} : its[k] = items[k]
  BY <1>1
<1>6. Loose(its, i, held)
  BY <1>1, <1>2, <1>3, <1>5, QueueAssumption DEF Loose
<1>7. Sound(its, job, given) /\ its[i].uploadId = None
  BY <1>1, <1>3 DEF Sound
<1> HIDE DEF its, held
<1>8. Kept(items', job', held) /\ Tidy(job)
  BY <1>1, <1>4, <1>6, <1>7, FinishKept
<1> QED BY <1>8 DEF StaysKept, held

\* The item of a commit that is answered.
LEMMA SettledItem ==
  ASSUME NEW it \in ItemType
  PROVE  LET st == [it EXCEPT !.finalizing = FALSE] IN
         st \in ItemType /\ st.uploadId = it.uploadId /\ st.status = it.status
BY DEF ItemType

\* The commit found the destination taken.
LEMMA CommitRefusedKept ==
  ASSUME OneAtATime, OneInv, NEW w \in Workers, CommitRefused(w) PROVE StaysKept
<1> DEFINE i == job[w].item
           it == [items[i] EXCEPT !.finalizing = FALSE]
<1>1. job[w].step = "occupied" /\ open' = open /\ i \in Items /\ items[i] \in ItemType
  BY Here DEF CommitRefused
<1>2. Occupied([items EXCEPT ![i] = it], w)
  BY DEF CommitRefused
<1>3. it \in ItemType /\ it.uploadId = items[i].uploadId /\ it.status = items[i].status
  BY <1>1, SettledItem
<1> HIDE DEF it
<1> QED BY <1>1, <1>2, <1>3, OccupiedKept

\* The commit failed; its chunks may be gone.
LEMMA CommitFailsKept ==
  ASSUME OneAtATime, OneInv, NEW w \in Workers, CommitFails(w) PROVE StaysKept
<1> DEFINE i == job[w].item
           it == [items[i] EXCEPT !.finalizing = FALSE]
<1>1. /\ job[w].step # "idle" /\ open' \subseteq open /\ i \in Items /\ items[i] \in ItemType
      /\ items[i].status # "checking"
  BY Here DEF CommitFails
<1>2. Fail([items EXCEPT ![i] = it], w)
  BY DEF CommitFails
<1>3. it \in ItemType /\ it.uploadId = items[i].uploadId /\ it.status = items[i].status
  BY <1>1, SettledItem
<1> HIDE DEF it
<1> QED BY <1>1, <1>2, <1>3, FailKept

\* The chunks are gone, and the item has no id.
LEMMA DiscardAnsweredKept ==
  ASSUME OneAtATime, OneInv, NEW w \in Workers, DiscardAnswered(w) PROVE StaysKept
<1> DEFINE i == job[w].item
           it == [items[i] EXCEPT !.status = Outcome(job[w].step, @)]
           its == [items EXCEPT ![i] = it]
           held == open' \ aborting'
<1>1. /\ job[w].step \in {"discarding", "dropping"}
      /\ open' = open \ {job[w].upload} /\ aborting' = aborting \ {job[w].upload}
      /\ i \in Items /\ items[i] \in ItemType /\ items \in [Items -> ItemType]
      /\ given \in Nat /\ given <= MaxUploads /\ listed \subseteq Items
      /\ Sound(items, job, given) /\ Loose(items, i, open \ aborting)
      /\ Fits(items[i], job[w], w)
  BY Here DEF DiscardAnswered, AbortAnswered
<1>2. items[i].uploadId = None /\ held \in SUBSET (open \ aborting)
  BY <1>1 DEF Fits
<1>3. it \in ItemType /\ it.uploadId = items[i].uploadId
  <2>1. Outcome(job[w].step, items[i].status) \in Statuses
    BY <1>1 DEF ItemType, Outcome, Thrown, Returned, Statuses, Retryable
  <2> QED BY <1>1, <2>1 DEF ItemType
<1>4. Finish(its, job, w, policy)
  BY DEF DiscardAnswered
<1> HIDE DEF it, held
<1>5. Loose(items, i, held)
  BY <1>1, <1>2, LooseShrinks
<1>6. Loose(its, i, held)
  BY <1>1, <1>3, <1>5, LooseTouch
<1>7. Sound(its, job, given) /\ its[i].uploadId = None
  BY <1>1, <1>2, <1>3 DEF Sound
<1> HIDE DEF its
<1>8. Kept(items', job', held) /\ Tidy(job)
  BY <1>1, <1>4, <1>6, <1>7, FinishKept
<1> QED BY <1>8 DEF StaysKept, held

\* A decision about the file of a worker.
LEMMA DecisionKept ==
  ASSUME OneAtATime, OneInv, NEW w \in Workers, job[w].step # "idle", NEW action \in Actions, NEW pol,
         Decide(items, job, w, action, pol), UNCHANGED open
  PROVE  StaysKept
<1> DEFINE i == job[w].item
           held == open \ aborting
<1>1. /\ i \in Items /\ given \in Nat /\ given <= MaxUploads /\ listed \subseteq Items
      /\ Sound(items, job, given) /\ Loose(items, i, held) /\ items[i].status # "checking"
      /\ items[i].uploadId = None \/ i \in listed \/ items[i].status \notin {"cancelled", "skipped"}
  BY Here
<1>2. aborting \subseteq aborting'
  BY DEF Decide, Unwind, SendAbort
<1>3. held \ aborting' = open' \ aborting'
  BY <1>2
<1> HIDE DEF held
<1>4. Kept(items', job', held \ aborting') /\ Tidy(job)
  BY <1>1, DecideKept
<1> QED BY <1>3, <1>4 DEF StaysKept

\* The conflict is gone.
LEMMA RecheckFreeKept ==
  ASSUME OneAtATime, OneInv, NEW w \in Workers, RecheckFree(w) PROVE StaysKept
<1> DEFINE i == job[w].item
           held == open' \ aborting'
<1>1. /\ job[w].step = "rechecking" /\ Continue(items, job, w, policy)
      /\ open' = open /\ aborting' = aborting
  BY DEF RecheckFree, server
<1>2. /\ i \in Items /\ given \in Nat /\ given <= MaxUploads /\ listed \subseteq Items
      /\ Sound(items, job, given) /\ Loose(items, i, open \ aborting) /\ items[i].status # "checking"
      /\ items[i].uploadId = None \/ i \in listed \/ items[i].status \notin {"cancelled", "skipped"}
  BY <1>1, Here
<1>3. Loose(items, i, held)
  BY <1>1, <1>2
<1> HIDE DEF held
<1>4. Kept(items', job', held) /\ Tidy(job)
  BY <1>1, <1>2, <1>3, ContinueKept
<1> QED BY <1>4 DEF StaysKept, held

\* A policy decides, or the worker waits for the user.
LEMMA RecheckOccupiedKept ==
  ASSUME OneAtATime, OneInv, NEW w \in Workers, RecheckOccupied(w) PROVE StaysKept
<1>1. job[w].step = "rechecking" /\ open' = open
  BY DEF RecheckOccupied
<1>2. CASE policy # None
  <2>1. Decide(items, job, w, policy, policy) /\ policy \in Actions
    BY <1>2, Given DEF RecheckOccupied, OneInv
  <2> QED BY <1>1, <2>1, DecisionKept
<1>3. CASE policy = None
  <2> DEFINE i == job[w].item
             it == items[i]
  <2>1. /\ i \in Items /\ job[w] \in JobType /\ Fits(it, job[w], w) /\ items \in [Items -> ItemType]
    BY <1>1, Here
  <2>2. PICK step \in {"asking", "waiting"} : job' = [job EXCEPT ![w] = [job[w] EXCEPT !.step = step]]
    BY <1>3 DEF RecheckOccupied
  <2> DEFINE j == [job[w] EXCEPT !.step = step]
  <2>3. job' = [job EXCEPT ![w] = j] /\ items' = items /\ aborting' = aborting
    BY <1>3, <2>2 DEF RecheckOccupied
  <2>4. items' = [items EXCEPT ![i] = it]
    BY <2>1, <2>3
  <2>5. j.step = step /\ j.item = i
    BY <2>1 DEF JobType
  <2> HIDE DEF j
  <2>6. Fits(it, j, w)
    BY <1>1, <2>1, <2>5 DEF Fits
  <2> HIDE DEF it
  <2>7. it.uploadId = items[i].uploadId /\ it.status = items[i].status
    BY DEF it
  <2>8. j.step \notin {"idle", "stored", "committing"}
    BY <2>5
  <2> QED BY <1>1, <2>1, <2>3, <2>4, <2>5, <2>6, <2>7, <2>8, MoveKept
<1> QED BY <1>2, <1>3

-----------------------------------------------------------------------------
(* The dialog of a worker: no other one waits for it.                        *)

\* There is nobody next in line.
LEMMA NobodyWaits ==
  ASSUME OneAtATime, OneInv, NEW w \in Workers, w \in {asker, superseded}, NEW v \in Workers \cup {None},
         InLine(v)
  PROVE  job[w].step = "asking" /\ Asking(v) = job
<1>1. job[w].step = "asking"
  BY DEF OneInv, IInv, Asks
<1>2. At("waiting") = {}
  BY <1>1 DEF At, OneAtATime
<1>3. v = None
  BY <1>2 DEF InLine
<1> QED BY <1>1, <1>3 DEF Asking

\* The decision of the user is carried out.
LEMMA RacedAnsweredKept ==
  ASSUME OneAtATime, OneInv, NEW w \in Workers, RacedAnswered(w) PROVE StaysKept
<1> DEFINE i == job[w].item
<1>1. asker = w /\ open' = open
  BY DEF RacedAnswered
<1>2. PICK answer \in Answers({i}), v \in Workers \cup {None} :
        /\ InLine(v) /\ Decide(items, Asking(v), w, answer.decide[i], answer.all)
  BY DEF RacedAnswered
<1>3. job[w].step = "asking" /\ Asking(v) = job
  BY <1>1, <1>2, NobodyWaits
<1>4. answer.decide[i] \in Actions
  BY Given, AnswersType DEF OneInv
<1> DEFINE action == answer.decide[i]
           all == answer.all
<1>5. Decide(items, job, w, action, all) /\ action \in Actions
  BY <1>2, <1>3, <1>4
<1> HIDE DEF action, all
<1> QED BY <1>1, <1>3, <1>5, DecisionKept

\* The dialog is dropped, and the attempt with it.
LEMMA DropRacedKept ==
  ASSUME OneAtATime, OneInv, NEW w \in Workers, w \in {asker, superseded}, NEW v \in Workers \cup {None},
         InLine(v), DropRaced(w, Asking(v)), UNCHANGED open
  PROVE  StaysKept
<1> DEFINE i == job[w].item
           it == [items[i] EXCEPT !.status = "cancelled"]
           its == [items EXCEPT ![i] = it]
           held == open \ aborting
<1>1. job[w].step = "asking" /\ Asking(v) = job
  BY NobodyWaits
<1>2. Unwind(its, job, w, policy, "dropping")
  BY <1>1 DEF DropRaced
<1>3. /\ i \in Items /\ items[i] \in ItemType /\ items \in [Items -> ItemType]
      /\ given \in Nat /\ given <= MaxUploads /\ listed \subseteq Items
      /\ Sound(items, job, given) /\ Loose(items, i, held)
  BY <1>1, Here
<1>4. it \in ItemType /\ it.uploadId = items[i].uploadId /\ it.status = "cancelled"
  BY <1>3 DEF ItemType, Statuses, Retryable
<1>5. aborting \subseteq aborting'
  BY <1>2 DEF Unwind, SendAbort
<1>6. held \ aborting' = open' \ aborting'
  BY <1>5
<1> HIDE DEF it, held
<1>7. Loose(its, i, held)
  BY <1>3, <1>4, LooseTouch
<1>8. Sound(its, job, given) /\ its[i].status # "checking"
  BY <1>3, <1>4 DEF Sound
<1> HIDE DEF its
<1>9. Kept(items', job', held \ aborting') /\ Tidy(job)
  BY <1>2, <1>3, <1>7, <1>8, UnwindKept
<1> QED BY <1>6, <1>9 DEF StaysKept

\* The user cancels the dialog of a worker.
LEMMA RacedCancelledKept ==
  ASSUME OneAtATime, OneInv, NEW w \in Workers, RacedCancelled(w) PROVE StaysKept
BY DropRacedKept DEF RacedCancelled

\* Another dialog takes the place of the worker's.
LEMMA RacedSupersededKept ==
  ASSUME OneAtATime, OneInv, NEW w \in Workers, RacedSuperseded(w) PROVE StaysKept
BY DropRacedKept DEF RacedSuperseded

-----------------------------------------------------------------------------
(* The batches and the user.                                                 *)

\* A file that is being checked is nobody's upload.
LEMMA CheckedIsNobodys ==
  ASSUME OneInv, NEW i \in Items, items[i].status = "checking"
  PROVE  \A w \in Workers : job[w].item # i
<1> SUFFICES ASSUME NEW w \in Workers, job[w].item = i PROVE FALSE
  OBVIOUS
<1>1. job[w].step # "idle"
  BY IdleIs, Apart, Given DEF OneInv, Sound
<1> QED BY <1>1 DEF OneInv, Kept, Fits

\* What becomes of files that are being checked touches no attempt and no id.
LEMMA CheckedKept ==
  ASSUME OneInv, NEW its \in [Items -> ItemType],
         \A i \in Items : its[i].uploadId = items[i].uploadId,
         \A i \in Items : its[i] = items[i] \/ (i \in listed /\ items[i].status = "checking")
  PROVE  Kept(its, job, open \ aborting)
<1>1. Kept(items, job, open \ aborting) /\ Sound(items, job, given)
  BY Given DEF OneInv
<1>2. \A i \in Small : its[i].uploadId = None
  BY <1>1, QueueAssumption DEF Kept
<1>3. ASSUME NEW i \in Items, its[i].uploadId # None
      PROVE  \/ i \in listed
             \/ /\ its[i].status \notin {"cancelled", "skipped"}
                /\ \E w \in Workers : job[w].item = i
  BY <1>1, <1>3 DEF Kept
<1>4. ASSUME NEW w \in Workers, job[w].step # "idle"
      PROVE  Fits(its[job[w].item], job[w], w)
  <2>1. job[w].item \in Items /\ Fits(items[job[w].item], job[w], w)
    BY <1>1, <1>4 DEF Kept, Sound
  <2>2. its[job[w].item] = items[job[w].item]
    BY <2>1 DEF Fits
  <2> QED BY <2>1, <2>2
<1>5. \A u \in open \ aborting : \E i \in Items : its[i].uploadId = u
  BY <1>1 DEF Kept
<1> QED BY <1>1, <1>2, <1>3, <1>4, <1>5 DEF Kept

\* The files of a batch join the list, and are checked first.
LEMMA AddEntriesKept ==
  ASSUME OneInv, NEW b \in Batches, AddEntries(b)
  PROVE  Kept(items, job, open \ aborting)' /\ Tidy(job) /\ NotYet'
<1>1. /\ adding[b] = "no" /\ adding' = [adding EXCEPT ![b] = "checking"]
      /\ listed' = listed \cup Dropped[b] /\ job' = job /\ open' = open /\ aborting' = aborting
      /\ items' = [i \in Items |->
           IF i \in Dropped[b] THEN [items[i] EXCEPT !.status = "checking"] ELSE items[i]]
  BY DEF AddEntries, server
<1>2. Kept(items, job, open \ aborting) /\ Sound(items, job, given) /\ NotYet
  BY Given DEF OneInv
<1>3. Dropped[b] \subseteq Items /\ \A i \in Dropped[b] : i \notin listed /\ \A w \in Workers : job[w].item # i
  BY <1>1, <1>2, QueueAssumption DEF NotYet
<1>4. ASSUME NEW i \in Items
      PROVE  /\ items'[i].uploadId = items[i].uploadId
             /\ i \notin Dropped[b] => items'[i] = items[i]
  <2>1. items[i] \in ItemType
    BY <1>2 DEF Sound
  <2> QED BY <1>1, <2>1 DEF ItemType
<1>5. Kept(items, job, open \ aborting)'
  <2>1. \A i \in Small : items'[i].uploadId = None
    BY <1>2, <1>4, QueueAssumption DEF Kept
  <2>2. ASSUME NEW i \in Items, items'[i].uploadId # None
        PROVE  \/ i \in listed'
               \/ /\ items'[i].status \notin {"cancelled", "skipped"}
                  /\ \E w \in Workers : job'[w].item = i
    BY <1>1, <1>2, <1>4, <2>2 DEF Kept
  <2>3. ASSUME NEW w \in Workers, job'[w].step # "idle"
        PROVE  Fits(items'[job'[w].item], job'[w], w)
    <3>1. job[w].item \in Items /\ Fits(items[job[w].item], job[w], w)
      BY <1>1, <1>2, <2>3 DEF Kept, Sound
    <3> QED BY <1>1, <1>3, <1>4, <3>1
  <2>4. \A u \in open' \ aborting' : \E i \in Items : items'[i].uploadId = u
    BY <1>1, <1>2, <1>4 DEF Kept
  <2>5. \A w \in Workers : job'[w].step = "stored" => job'[w].upload \notin open' \ aborting'
    BY <1>1, <1>2 DEF Kept
  <2> QED BY <2>1, <2>2, <2>3, <2>4, <2>5 DEF Kept
<1>6. Tidy(job)
  BY <1>1 DEF Tidy
<1>7. NotYet'
  <2> SUFFICES ASSUME NEW c \in Batches, adding'[c] = "no", NEW i \in Dropped[c]
               PROVE  i \notin listed' /\ \A w \in Workers : job'[w].item # i
    BY DEF NotYet
  <2>1. c # b /\ adding[c] = "no"
    BY <1>1 DEF OneInv, IInv, TypeOK
  <2>2. i \notin Dropped[b]
    BY <2>1, QueueAssumption
  <2> QED BY <1>1, <1>2, <2>1, <2>2 DEF NotYet
<1> QED BY <1>5, <1>6, <1>7

\* A batch is queued, and the worker looks for its next file.
LEMMA QueuedKept ==
  ASSUME OneAtATime, OneInv, NEW b \in Batches, NEW its \in [Items -> ItemType],
         \A i \in Items : its[i].uploadId = items[i].uploadId,
         \A i \in Items : its[i] = items[i] \/ i \in Live(b),
         Queued(b, its), UNCHANGED server
  PROVE  StaysKept
<1> DEFINE jts == [i \in Items |-> IF i \in Live(b) /\ its[i].status = "checking"
                                  THEN [its[i] EXCEPT !.status = "queued"] ELSE its[i]]
           held == open \ aborting
<1>1. ProcessQueue(jts, job) /\ open' = open /\ aborting' = aborting
  BY DEF Queued, server
<1>2. jts \in [Items -> ItemType] /\ \A i \in Items : jts[i].uploadId = items[i].uploadId
  <2>1. ASSUME NEW i \in Items
        PROVE  /\ [its[i] EXCEPT !.status = "queued"] \in ItemType
               /\ [its[i] EXCEPT !.status = "queued"].uploadId = items[i].uploadId
    BY DEF ItemType, Statuses
  <2> QED BY <2>1
<1>3. \A i \in Items : jts[i] = items[i] \/ i \in Live(b)
  OBVIOUS
<1>4. \A i \in Live(b) : i \in listed /\ items[i].status = "checking"
  BY DEF Live
<1> HIDE DEF jts
<1>5. Kept(jts, job, held)
  BY <1>2, <1>3, <1>4, CheckedKept
<1>6. Sound(jts, job, given) /\ given \in Nat /\ given <= MaxUploads /\ listed \subseteq Items
  BY <1>2, Given, Remap DEF OneInv
<1> HIDE DEF held
<1>7. Kept(items', job', held) /\ Tidy(job)
  BY <1>1, <1>5, <1>6, PullKept
<1> QED BY <1>1, <1>7 DEF StaysKept, held

\* A batch without conflict is queued.
LEMMA PreflightFreeKept ==
  ASSUME OneAtATime, OneInv, NEW b \in Batches, PreflightFree(b) PROVE StaysKept
<1>1. Queued(b, items) /\ UNCHANGED server /\ items \in [Items -> ItemType]
  BY Given DEF PreflightFree, OneInv, Sound
<1> QED BY <1>1, QueuedKept

\* The decisions touch the files that are being checked, and no other.
LEMMA BatchAnsweredKept ==
  ASSUME OneAtATime, OneInv, NEW b \in Batches, BatchAnswered(b) PROVE StaysKept
<1> DEFINE After(answer) ==
             [i \in Items |->
               IF i \in Live(b) \cap clash[b] THEN ApplyDecision(items[i], answer.decide[i])
               ELSE items[i]]
<1>1. PICK answer \in Answers(clash[b]) : Queued(b, After(answer))
  BY DEF BatchAnswered
<1>2. UNCHANGED server /\ \A i \in clash[b] : answer.decide[i] \in Actions
  BY Given, AnswersType DEF BatchAnswered, OneInv
<1>3. ASSUME NEW i \in Items
      PROVE  /\ After(answer)[i] \in ItemType /\ After(answer)[i].uploadId = items[i].uploadId
             /\ After(answer)[i] = items[i] \/ i \in Live(b)
  <2>1. items[i] \in ItemType
    BY Given DEF Sound, OneInv
  <2> QED BY <1>2, <2>1, Applied
<1> DEFINE its == After(answer)
<1>4. /\ its \in [Items -> ItemType] /\ Queued(b, its)
      /\ \A i \in Items : its[i].uploadId = items[i].uploadId /\ (its[i] = items[i] \/ i \in Live(b))
  BY <1>1, <1>3
<1> HIDE DEF its
<1> QED BY <1>2, <1>4, QueuedKept

\* The files of a dropped batch were being checked.
LEMMA DropBatchKept ==
  ASSUME OneInv, NEW b \in Batches, DropBatch(b), UNCHANGED <<job, server>> PROVE StaysKept
<1>1. items' = [i \in Items |->
       IF i \in Live(b) THEN [items[i] EXCEPT !.status = "cancelled"] ELSE items[i]]
  BY DEF DropBatch
<1>2. ASSUME NEW i \in Items
      PROVE  /\ [items[i] EXCEPT !.status = "cancelled"] \in ItemType
             /\ [items[i] EXCEPT !.status = "cancelled"].uploadId = items[i].uploadId
             /\ items[i] \in ItemType
  BY Given DEF Sound, ItemType, Statuses, Retryable, OneInv
<1> DEFINE its == [i \in Items |->
                    IF i \in Live(b) THEN [items[i] EXCEPT !.status = "cancelled"] ELSE items[i]]
<1>3. its \in [Items -> ItemType] /\ \A i \in Items : its[i].uploadId = items[i].uploadId
  BY <1>2
<1>4. \A i \in Items : its[i] = items[i] \/ i \in Live(b)
  OBVIOUS
<1>5. \A i \in Live(b) : i \in listed /\ items[i].status = "checking"
  BY DEF Live
<1>6. items' = its
  BY <1>1
<1> HIDE DEF its
<1>7. Kept(its, job, open \ aborting)
  BY <1>3, <1>4, <1>5, CheckedKept
<1>8. job' = job /\ open' = open /\ aborting' = aborting
  BY DEF server
<1> QED BY <1>6, <1>7, <1>8 DEF StaysKept, Tidy

\* An item is queued again: its attempt may still be unwinding, which is nothing to it.
LEMMA RequeueKept ==
  ASSUME OneAtATime, OneInv, NEW i \in Items, Requeue(items, i), open' \ aborting' \subseteq open \ aborting
  PROVE  StaysKept
<1> DEFINE it == [items[i] EXCEPT !.status = "queued", !.finalizing = FALSE, !.reprompted = FALSE]
           its == [items EXCEPT ![i] = it]
           held == open' \ aborting'
<1>1. /\ ProcessQueue(its, job) /\ Sound(items, job, given) /\ given \in Nat /\ given <= MaxUploads
      /\ listed \subseteq Items /\ Kept(items, job, open \ aborting)
  BY Given DEF Requeue, OneInv
<1>2. /\ it \in ItemType /\ it.uploadId = items[i].uploadId /\ it.status = "queued"
      /\ it.controller = items[i].controller
  <2>1. items[i] \in ItemType
    BY <1>1 DEF Sound
  <2> QED BY <2>1 DEF ItemType, Statuses
<1> HIDE DEF it
<1>3. its[i] = it /\ (\A k \in Items \ {i} : its[k] = items[k]) /\ its \in [Items -> ItemType]
  BY <1>1, <1>2 DEF Sound
<1>4. \A k \in Items : its[k].uploadId = items[k].uploadId
  BY <1>2, <1>3
<1> HIDE DEF its
<1>5. Sound(its, job, given)
  BY <1>1, <1>3, <1>4, Remap
<1>6. Kept(its, job, held)
  <2>1. \A k \in Small : its[k].uploadId = None
    BY <1>1, <1>4, QueueAssumption DEF Kept
  <2>2. ASSUME NEW k \in Items, its[k].uploadId # None
        PROVE  \/ k \in listed
               \/ /\ its[k].status \notin {"cancelled", "skipped"}
                  /\ \E w \in Workers : job[w].item = k
    BY <1>1, <1>2, <1>3, <1>4, <2>2 DEF Kept
  <2>3. ASSUME NEW w \in Workers, job[w].step # "idle"
        PROVE  Fits(its[job[w].item], job[w], w)
    <3>1. job[w].item \in Items /\ Fits(items[job[w].item], job[w], w)
      BY <1>1, <2>3 DEF Kept, Sound
    <3>2. CASE job[w].item # i
      BY <1>3, <3>1, <3>2
    <3>3. CASE job[w].item = i
      BY <1>2, <1>3, <3>1, <3>3 DEF Fits
    <3> QED BY <3>2, <3>3
  <2>4. \A u \in held : \E k \in Items : its[k].uploadId = u
    BY <1>1, <1>4 DEF Kept
  <2>5. \A w \in Workers : job[w].step = "stored" => job[w].upload \notin held
    BY <1>1 DEF Kept
  <2> HIDE DEF held
  <2> QED BY <2>1, <2>2, <2>3, <2>4, <2>5 DEF Kept
<1> HIDE DEF held
<1>7. Kept(items', job', held) /\ Tidy(job)
  BY <1>1, <1>5, <1>6, PullKept
<1> QED BY <1>7 DEF StaysKept, held

\* What an item gives up is aborted, and no attempt minds.
LEMMA GivenUp ==
  ASSUME OneInv, NEW G \in SUBSET listed, UNCHANGED <<job, open>>,
         items' \in [Items -> ItemType],
         \A i \in Items : items'[i] = IF i \in G THEN [items[i] EXCEPT !.uploadId = None] ELSE items[i],
         \A i \in G : items[i].uploadId # None => items[i].uploadId \in aborting',
         aborting \subseteq aborting'
  PROVE  StaysKept
<1> DEFINE held == open' \ aborting'
<1>1. Sound(items, job, given) /\ listed \subseteq Items /\ Kept(items, job, open \ aborting) /\ None \notin open
  BY Given, HeldIsId DEF OneInv
<1>2. ASSUME NEW i \in Items
      PROVE  /\ i \in G => /\ items'[i].uploadId = None /\ items'[i].status = items[i].status
                           /\ items'[i].controller = items[i].controller
             /\ i \notin G => items'[i] = items[i]
  <2>1. items[i] \in ItemType
    BY <1>1 DEF Sound
  <2> QED BY <2>1 DEF ItemType
<1>3. held \subseteq open \ aborting
  OBVIOUS
<1>4. \A k \in Small : items'[k].uploadId = None
  BY <1>1, <1>2, QueueAssumption DEF Kept
<1>5. ASSUME NEW k \in Items, items'[k].uploadId # None
      PROVE  \/ k \in listed
             \/ /\ items'[k].status \notin {"cancelled", "skipped"}
                /\ \E w \in Workers : job'[w].item = k
  BY <1>1, <1>2, <1>5 DEF Kept
<1>6. ASSUME NEW w \in Workers, job'[w].step # "idle"
      PROVE  Fits(items'[job'[w].item], job'[w], w)
  <2>1. job[w].item \in Items /\ Fits(items[job[w].item], job[w], w)
    BY <1>1, <1>6 DEF Kept, Sound
  <2>2. CASE job[w].item \notin G
    BY <1>2, <2>1, <2>2
  <2>3. CASE job[w].item \in G
    BY <1>2, <2>1, <2>3 DEF Fits
  <2> QED BY <2>2, <2>3
<1>7. ASSUME NEW u \in held PROVE \E k \in Items : items'[k].uploadId = u
  <2>1. PICK k \in Items : items[k].uploadId = u
    BY <1>1, <1>3 DEF Kept
  <2>2. k \notin G
    BY <1>1, <2>1
  <2> QED BY <1>2, <2>1, <2>2
<1>8. \A w \in Workers : job'[w].step = "stored" => job'[w].upload \notin held
  BY <1>1, <1>3 DEF Kept
<1> HIDE DEF held
<1>9. Kept(items', job', held)
  BY <1>4, <1>5, <1>6, <1>7, <1>8 DEF Kept
<1> QED BY <1>9 DEF StaysKept, Tidy, held

\* A retry waits for the abort of what was staged.
LEMMA RetryItemKept ==
  ASSUME OneAtATime, OneInv, NEW i \in Items, RetryItem(i) PROVE StaysKept
<1> DEFINE u == items[i].uploadId
<1>1. i \in listed /\ open' = open /\ aborting' = aborting \cup ({u} \ {None})
  BY DEF RetryItem, SendAbort
<1>2. CASE u = None
  BY <1>1, <1>2, RequeueKept DEF RetryItem
<1>3. CASE u # None
  <2> DEFINE it == [items[i] EXCEPT !.uploadId = None]
  <2>1. items' = [items EXCEPT ![i] = it] /\ job' = job /\ items \in [Items -> ItemType]
    BY <1>3, Given DEF RetryItem, Sound, OneInv
  <2>2. it \in ItemType
    BY <2>1 DEF ItemType
  <2>3. items' \in [Items -> ItemType]
    BY <2>1, <2>2
  <2>4. \A k \in Items : items'[k] = IF k \in {i} THEN [items[k] EXCEPT !.uploadId = None] ELSE items[k]
    BY <2>1
  <2>5. {i} \in SUBSET listed /\ u \in aborting' /\ aborting \subseteq aborting'
    BY <1>1, <1>3
  <2> QED BY <1>1, <2>1, <2>3, <2>4, <2>5, GivenUp
<1> QED BY <1>2, <1>3

\* The abort is answered, and the item queued.
LEMMA RetryResumesKept ==
  ASSUME OneAtATime, OneInv, NEW i \in Items, NEW u \in Uploads, RetryResumes(i, u) PROVE StaysKept
BY RequeueKept DEF RetryResumes, AbortAnswered

\* Nothing of the list keeps an id.
LEMMA ClearDoneKept ==
  ASSUME OneInv, ClearDone
  PROVE  Kept(items, job, open \ aborting)' /\ Tidy(job) /\ NotYet'
<1>1. /\ listed' = {} /\ job' = job /\ open' = open
      /\ items' = [i \in Items |-> IF i \in listed THEN [items[i] EXCEPT !.uploadId = None] ELSE items[i]]
      /\ aborting' = aborting \cup ({items[i].uploadId : i \in listed} \ {None})
  BY DEF ClearDone, server
<1>2. \A i \in Items : items[i] \in ItemType
  BY Given DEF OneInv, Sound
<1>3. ASSUME NEW i \in Items
      PROVE  /\ [items[i] EXCEPT !.uploadId = None] \in ItemType
             /\ [items[i] EXCEPT !.uploadId = None].uploadId = None
  BY <1>2 DEF ItemType
<1>4. /\ items' \in [Items -> ItemType]
      /\ \A i \in Items : items'[i] = IF i \in listed THEN [items[i] EXCEPT !.uploadId = None] ELSE items[i]
  BY <1>1, <1>2, <1>3
<1>5. /\ \A i \in listed : items[i].uploadId # None => items[i].uploadId \in aborting'
      /\ aborting \subseteq aborting'
  BY <1>1
<1> DEFINE G == listed
<1>6. /\ G \in SUBSET listed
      /\ \A i \in Items : items'[i] = IF i \in G THEN [items[i] EXCEPT !.uploadId = None] ELSE items[i]
      /\ \A i \in G : items[i].uploadId # None => items[i].uploadId \in aborting'
  BY <1>4, <1>5
<1> HIDE DEF G
<1>7. StaysKept
  BY <1>1, <1>4, <1>5, <1>6, GivenUp
<1>8. \A i \in Items : items'[i].uploadId # None => i \notin listed
  BY <1>3, <1>4
<1>9. Kept(items, job, open \ aborting)'
  BY <1>7, <1>8 DEF StaysKept, Kept
<1>10. NotYet'
  BY <1>1 DEF OneInv, NotYet, ClearDone, calls
<1> QED BY <1>7, <1>9, <1>10 DEF StaysKept

\* What is cancelled is in the list.
LEMMA CancelListed ==
  ASSUME NEW S, CancelItems(S)
  PROVE  S \subseteq listed
<1>1. S \subseteq {i \in listed : items[i].status \in Cancellable}
  BY Zenon DEF CancelItems
<1> QED BY <1>1

\* A request under way is aborted, for its controller is the worker's; what the attempt
\* has staged is discarded, unless a commit owns it.
LEMMA CancelItemsKept ==
  ASSUME OneAtATime, OneInv, NEW S \in SUBSET Items, CancelItems(S)
  PROVE  StaysKept /\ UNCHANGED <<listed, calls>>
<1> DEFINE aborted == {w \in At("sending") \cup At("posting") :
                         job[w].item \in S /\ items[job[w].item].controller = w}
           kept(i) == items[i].finalizing
           unwound(i) == \E w \in aborted : job[w].item = i
           its == [i \in Items |->
             IF i \notin S THEN items[i]
             ELSE [items[i] EXCEPT !.status = "cancelled", !.controller = None,
                                   !.uploadId = IF kept(i) /\ ~unwound(i) THEN @ ELSE None]]
           js == [w \in Workers |->
             IF w \notin aborted THEN job[w]
             ELSE IF kept(job[w].item) /\ items[job[w].item].uploadId # None
                  THEN [job[w] EXCEPT !.step = "discarding", !.upload = items[job[w].item].uploadId]
                  ELSE Idle]
           dropped == {items[i].uploadId : i \in {j \in S : its[j].uploadId = None}} \ {None}
<1>1. /\ aborting' = aborting \cup dropped /\ open' = open /\ UNCHANGED <<listed, calls>>
      /\ S \subseteq listed
      /\ IF \A w \in aborted : js[w] # Idle THEN items' = its /\ job' = js ELSE ProcessQueue(its, js)
  <2>1. /\ aborting' = aborting \cup dropped
        /\ UNCHANGED <<listed, retrying, calls, applied, asker, hidden, superseded, open, given>>
        /\ IF \A w \in aborted : js[w] # Idle
           THEN items' = its /\ job' = js /\ UNCHANGED policy
           ELSE ProcessQueue(its, js) /\ policy' = IF HasActive(its) THEN policy ELSE None
    BY DEF CancelItems
  <2> HIDE DEF its, js, dropped, aborted
  <2> QED BY <2>1, CancelListed
<1>2. /\ Sound(items, job, given) /\ given \in Nat /\ given <= MaxUploads /\ listed \subseteq Items
      /\ Kept(items, job, open \ aborting) /\ None \notin open
  BY Given, HeldIsId DEF OneInv
<1>3. ASSUME NEW i \in Items
      PROVE  /\ its[i] \in ItemType /\ its[i].uploadId \in {items[i].uploadId, None}
             /\ i \notin S => its[i] = items[i]
             /\ i \in S => /\ its[i].status = "cancelled"
                           /\ unwound(i) => its[i].uploadId = None
  <2>1. items[i] \in ItemType
    BY <1>2 DEF Sound
  <2>2. CASE i \notin S
    BY <2>1, <2>2
  <2>3. CASE i \in S
    <3> DEFINE x == IF kept(i) /\ ~unwound(i) THEN items[i].uploadId ELSE None
    <3>1. its[i] = [items[i] EXCEPT !.status = "cancelled", !.controller = None, !.uploadId = x]
      BY <2>3
    <3>2. /\ x \in {items[i].uploadId, None} /\ x \in Uploads \cup {None}
          /\ unwound(i) => x = None
      BY <2>1 DEF ItemType
    <3> HIDE DEF x, its, unwound
    <3> QED BY <2>1, <2>3, <3>1, <3>2 DEF ItemType, Statuses, Retryable
  <2> QED BY <2>2, <2>3
<1>4. /\ aborted \subseteq Workers /\ \A w \in aborted : job[w].step \in {"sending", "posting"}
      /\ \A w \in aborted : job[w].item \in S /\ unwound(job[w].item)
  BY DEF At
<1>5. ASSUME NEW w \in Workers, w \notin aborted, job[w].step \in {"sending", "posting"}
      PROVE  job[w].item \notin S
  <2>1. Fits(items[job[w].item], job[w], w)
    BY <1>2, <1>5 DEF Kept
  <2> QED BY <1>5, <2>1 DEF At, Fits
<1>6. its \in [Items -> ItemType]
  BY <1>3
<1>7. \A i \in S : its[i].uploadId = None /\ items[i].uploadId # None => items[i].uploadId \in dropped
  <2> HIDE DEF its
  <2> QED OBVIOUS
<1> HIDE DEF dropped, aborted, kept, unwound
<1>8. ASSUME NEW w \in Workers
      PROVE  /\ w \notin aborted => js[w] = job[w]
             /\ w \in aborted => \/ js[w] = Idle
                                 \/ /\ js[w] \in JobType /\ js[w].step = "discarding"
                                    /\ js[w].item = job[w].item
                                    /\ js[w].upload = items[job[w].item].uploadId
  <2>1. CASE w \notin aborted \/ js[w] = Idle
    BY <2>1
  <2>2. CASE js[w] # Idle /\ w \in aborted
    <3> DEFINE u == items[job[w].item].uploadId
               j == [job[w] EXCEPT !.step = "discarding", !.upload = u]
    <3>1. js[w] = j
      BY <2>2
    <3>2. job[w] \in JobType /\ job[w].item \in Items
      BY <1>2, <1>4, <2>2 DEF Sound
    <3>3. u \in Uploads \cup {None}
      BY <1>2, <3>2 DEF Sound, ItemType
    <3> HIDE DEF u
    <3>4. j \in JobType /\ j.step = "discarding" /\ j.item = job[w].item /\ j.upload = u
      BY <3>2, <3>3 DEF JobType, Steps
    <3> HIDE DEF j, js
    <3> QED BY <2>2, <3>1, <3>4 DEF u
  <2> QED BY <2>1, <2>2
<1>9. js = [w \in Workers |-> js[w]]
  OBVIOUS
<1> HIDE DEF its, js
<1>10. Idle \in JobType
  <2>1. 0 \in 0..Chunks /\ 0 \in 0..MaxRetries
    BY QueueAssumption
  <2> QED BY <2>1 DEF Idle, JobType, Steps
<1>11. Sound(its, js, given)
  <2>1. Sound(its, job, given)
    BY <1>2, <1>3, <1>6, Remap
  <2>2. ASSUME NEW w \in Workers
        PROVE  /\ js[w] \in JobType /\ js[w].upload \in 1..given \cup {None}
               /\ IF js[w].step = "idle" THEN js[w] = Idle ELSE js[w].item \in Items
               /\ js[w].step \in {"reserving", "sending", "posting"} => js[w].tries < MaxRetries
    <3>1. CASE w \notin aborted
      BY <1>2, <1>8, <3>1 DEF Sound
    <3>2. CASE w \in aborted /\ js[w] = Idle
      BY <1>10, <3>2, IdleIs
    <3>3. CASE w \in aborted /\ js[w] # Idle
      <4>1. job[w].item \in Items
        BY <1>2, <1>4, <3>3 DEF Sound
      <4> QED BY <1>2, <1>8, <3>3, <4>1 DEF Sound
    <3> QED BY <3>1, <3>2, <3>3
  <2>3. js \in [Workers -> JobType]
    BY <1>9, <2>2
  <2> QED BY <2>1, <2>2, <2>3 DEF Sound
<1> DEFINE held == open' \ aborting'
<1>12. held \subseteq open \ aborting /\ (\A u \in held : u \notin dropped /\ u # None)
  BY <1>1, <1>2
<1> HIDE DEF held
<1>13. Kept(its, js, held)
  <2>1. \A i \in Small : its[i].uploadId = None
    BY <1>2, <1>3, QueueAssumption DEF Kept
  <2>2. ASSUME NEW i \in Items, its[i].uploadId # None, i \notin listed
        PROVE  /\ its[i].status \notin {"cancelled", "skipped"}
               /\ \E w \in Workers : js[w].item = i
    <3>1. its[i] = items[i] /\ i \notin S
      BY <1>1, <1>3, <2>2
    <3>2. /\ items[i].status \notin {"cancelled", "skipped"}
          /\ \E w \in Workers : job[w].item = i
      BY <1>2, <2>2, <3>1 DEF Kept
    <3> QED BY <1>4, <1>8, <3>1, <3>2
  <2>3. ASSUME NEW w \in Workers, js[w].step # "idle"
        PROVE  Fits(its[js[w].item], js[w], w)
    <3>1. CASE w \in aborted
      <4>1. /\ js[w].step = "discarding" /\ js[w].item = job[w].item /\ job[w].item \in S
            /\ unwound(job[w].item)
        BY <1>4, <1>8, <2>3, <3>1, IdleIs
      <4>2. its[job[w].item].status = "cancelled" /\ its[job[w].item].uploadId = None
        BY <1>3, <4>1
      <4> QED BY <4>1, <4>2 DEF Fits
    <3>2. CASE w \notin aborted
      <4>1. /\ js[w] = job[w] /\ job[w].item \in Items
            /\ Fits(items[job[w].item], job[w], w)
        BY <1>2, <1>8, <2>3, <3>2 DEF Kept, Sound
      <4>2. CASE job[w].item \notin S
        BY <1>3, <4>1, <4>2
      <4>3. CASE job[w].item \in S
        <5>1. job[w].step \notin {"sending", "posting"}
          BY <1>5, <3>2, <4>3
        <5>2. its[job[w].item].status = "cancelled" /\ its[job[w].item].uploadId \in {items[job[w].item].uploadId, None}
          BY <1>3, <4>3
        <5> QED BY <4>1, <5>1, <5>2 DEF Fits
      <4> QED BY <4>2, <4>3
    <3> QED BY <3>1, <3>2
  <2>4. ASSUME NEW w \in Workers, js[w].step = "stored" PROVE js[w].upload \notin held
    <3>1. js[w] = job[w]
      BY <1>8, <2>4, IdleIs
    <3> QED BY <1>2, <1>12, <2>4, <3>1 DEF Kept
  <2>5. ASSUME NEW u \in held PROVE \E i \in Items : its[i].uploadId = u
    <3>1. PICK i \in Items : items[i].uploadId = u
      BY <1>2, <1>12 DEF Kept
    <3>2. its[i].uploadId # None
      BY <1>3, <1>7, <1>12, <3>1
    <3> QED BY <1>3, <3>1, <3>2
  <2> QED BY <2>1, <2>2, <2>3, <2>4, <2>5 DEF Kept
<1>14. ASSUME NEW w \in Workers
       PROVE  js[w].item \in {job[w].item, None} /\ (js[w] = job[w] \/ js[w].step # "committing")
  BY <1>8, IdleIs
<1>15. CASE \A w \in aborted : js[w] # Idle
  <2>1. items' = its /\ job' = js
    BY <1>1, <1>15
  <2>2. Tidy(job)
    BY <1>14, <2>1 DEF Tidy
  <2> QED BY <1>1, <1>13, <2>1, <2>2 DEF StaysKept, held
<1>16. CASE ~(\A w \in aborted : js[w] # Idle)
  <2>1. ProcessQueue(its, js)
    BY <1>1, <1>16
  <2>2. Kept(items', job', held) /\ Tidy(js)
    BY <1>2, <1>11, <1>13, <2>1, PullKept
  <2>3. Tidy(job)
    <3>1. ASSUME NEW w \in Workers PROVE job'[w].item \in {job[w].item, None} \cup listed
      BY <1>14, <2>2 DEF Tidy
    <3>2. ASSUME NEW w \in Workers, job'[w] # job[w], job'[w].step = "committing"
          PROVE  items'[job'[w].item].status # "cancelled"
      <4>1. job'[w] # js[w]
        BY <1>14, <3>2
      <4> QED BY <2>2, <3>2, <4>1 DEF Tidy
    <3> QED BY <3>1, <3>2 DEF Tidy
  <2> QED BY <1>1, <2>2, <2>3 DEF StaysKept, held
<1> QED BY <1>15, <1>16

\* An abort is answered: nothing is held under its id.
LEMMA AbortForgottenKept ==
  ASSUME OneInv, NEW u \in Uploads, AbortForgotten(u) PROVE StaysKept
<1> DEFINE held == open' \ aborting'
<1>1. /\ items' = items /\ job' = job /\ open' = open \ {u} /\ aborting' = aborting \ {u}
      /\ Kept(items, job, open \ aborting)
  BY DEF AbortForgotten, AbortAnswered, queue, OneInv
<1>2. held \in SUBSET (open \ aborting)
  BY <1>1
<1> HIDE DEF held
<1>3. Kept(items, job, held)
  BY <1>1, <1>2, Shrinks
<1> QED BY <1>1, <1>3 DEF StaysKept, Tidy, held

-----------------------------------------------------------------------------
(* The theorems for one worker.                                              *)

\* What is left to show of most steps.
LEMMA StaysOne ==
  ASSUME OneInv, IInv', StaysKept, UNCHANGED listed,
         \A b \in Batches : adding'[b] = "no" => adding[b] = "no"
  PROVE  OneInv' /\ Tidy(job)
<1>1. Kept(items, job, open \ aborting)'
  BY DEF StaysKept, Kept
<1>2. NotYet'
  <2> SUFFICES ASSUME NEW b \in Batches, adding'[b] = "no", NEW i \in Dropped[b]
               PROVE  i \notin listed' /\ \A w \in Workers : job'[w].item # i
    BY DEF NotYet
  <2>1. i \notin listed /\ (\A w \in Workers : job[w].item # i) /\ i # None
    BY Apart, QueueAssumption DEF OneInv, NotYet
  <2> QED BY <2>1 DEF StaysKept, Tidy
<1> QED BY <1>1, <1>2 DEF OneInv, StaysKept

\* An empty queue holds nothing.
LEMMA InitOne == Init => OneInv
<1> SUFFICES ASSUME Init PROVE OneInv
  OBVIOUS
<1>1. \A i \in Items : items[i].uploadId = None
  BY DEF Init, NewItem
<1>2. \A w \in Workers : job[w].step = "idle" /\ job[w].item = None
  BY IdleIs DEF Init
<1>3. Kept(items, job, open \ aborting)
  BY <1>1, <1>2, QueueAssumption DEF Init, Kept
<1>4. NotYet
  BY <1>2, Apart, QueueAssumption DEF Init, NotYet
<1> QED BY <1>3, <1>4, InitIInv DEF OneInv

\* Every step keeps the invariant, and is tidy.
LEMMA NextOne == OneAtATime /\ OneInv /\ [Next]_vars => OneInv' /\ Tidy(job)
<1> SUFFICES ASSUME OneAtATime, OneInv, [Next]_vars PROVE OneInv' /\ Tidy(job)
  OBVIOUS
<1>1. IInv' /\ IInv /\ adding \in [Batches -> {"no", "checking", "asking", "over"}]
  BY NextIInv DEF OneInv, IInv, TypeOK
<1>2. ASSUME StaysKept, UNCHANGED <<listed, calls>> PROVE OneInv' /\ Tidy(job)
  BY <1>1, <1>2, StaysOne DEF calls
<1>3. ASSUME NEW b \in Batches, NEW state \in {"asking", "over"}, StaysKept, UNCHANGED listed,
             adding' = [adding EXCEPT ![b] = state]
      PROVE  OneInv' /\ Tidy(job)
  BY <1>1, <1>3, StaysOne
<1>4. ASSUME NEW w \in Workers, RacedSuperseded(w) \/ RacedAnswered(w) \/ RacedCancelled(w)
      PROVE  OneInv' /\ Tidy(job)
  <2>1. StaysKept
    BY <1>4, RacedSupersededKept, RacedAnsweredKept, RacedCancelledKept
  <2>2. UNCHANGED <<listed, calls>>
    BY <1>4 DEF RacedSuperseded, RacedAnswered, RacedCancelled
  <2> QED BY <1>2, <2>1, <2>2
<1>5. ASSUME NEW b \in Batches, BatchSuperseded(b) \/ BatchCancelled(b)
      PROVE  OneInv' /\ Tidy(job)
  <2>1. DropBatch(b) /\ UNCHANGED <<listed, job, server>>
    BY <1>5 DEF BatchSuperseded, BatchCancelled
  <2>2. StaysKept
    BY <2>1, DropBatchKept
  <2> QED BY <1>3, <2>1, <2>2 DEF DropBatch
<1>6. ASSUME NEW b \in Batches, BatchAnswered(b) \/ PreflightFree(b)
      PROVE  OneInv' /\ Tidy(job)
  <2>1. StaysKept
    BY <1>6, BatchAnsweredKept, PreflightFreeKept
  <2>2. UNCHANGED listed /\ adding' = [adding EXCEPT ![b] = "over"]
    BY <1>6 DEF BatchAnswered, PreflightFree, Queued
  <2> QED BY <1>3, <2>1, <2>2
<1>7. ASSUME NEW b \in Batches, PreflightOccupied(b) PROVE OneInv' /\ Tidy(job)
  <2>1. /\ items' = items /\ job' = job /\ listed' = listed /\ open' = open /\ aborting' = aborting
        /\ adding' = [adding EXCEPT ![b] = "asking"]
    BY <1>7 DEF PreflightOccupied, queue, server
  <2>2. StaysKept
    BY <2>1 DEF OneInv, StaysKept, Tidy
  <2> QED BY <1>3, <2>1, <2>2
<1>8. ASSUME NEW w \in Workers, Answer(w) PROVE OneInv' /\ Tidy(job)
  <2>1. CASE Reserved(w) \/ ChunkStored(w) \/ SendFails(w) \/ BackoffEnds(w) \/ Refused(w)
    <3>1. StaysKept
      BY <2>1, ReservedKept, ChunkStoredKept, SendFailsKept, BackoffEndsKept, RefusedKept
    <3>2. UNCHANGED <<listed, calls>>
      BY <2>1 DEF Reserved, ChunkStored, SendFails, BackoffEnds, Refused
    <3> QED BY <1>2, <3>1, <3>2
  <2>2. CASE Conflicts(w) \/ PostStored(w) \/ CommitStores(w) \/ CommitOccupied(w)
    <3>1. StaysKept
      BY <2>2, ConflictsKept, PostStoredKept, CommitStoresKept, CommitOccupiedKept
    <3>2. UNCHANGED <<listed, calls>>
      BY <2>2 DEF Conflicts, PostStored, CommitStores, CommitOccupied
    <3> QED BY <1>2, <3>1, <3>2
  <2>3. CASE CommitAnswered(w) \/ CommitRefused(w) \/ CommitFails(w) \/ DiscardAnswered(w)
    <3>1. StaysKept
      BY <2>3, CommitAnsweredKept, CommitRefusedKept, CommitFailsKept, DiscardAnsweredKept
    <3>2. UNCHANGED <<listed, calls>>
      BY <2>3 DEF CommitAnswered, CommitRefused, CommitFails, DiscardAnswered
    <3> QED BY <1>2, <3>1, <3>2
  <2>4. CASE RecheckFree(w) \/ RecheckOccupied(w)
    <3>1. StaysKept
      BY <2>4, RecheckFreeKept, RecheckOccupiedKept
    <3>2. UNCHANGED <<listed, calls>>
      BY <2>4 DEF RecheckFree, RecheckOccupied
    <3> QED BY <1>2, <3>1, <3>2
  <2> QED BY <1>8, <2>1, <2>2, <2>3, <2>4 DEF Answer
<1>9. CASE Aborts
  <2>1. PICK u \in Uploads : AbortForgotten(u) \/ \E i \in Items : RetryResumes(i, u)
    BY <1>9 DEF Aborts
  <2>2. StaysKept
    BY <2>1, AbortForgottenKept, RetryResumesKept
  <2>3. UNCHANGED <<listed, calls>>
    BY <2>1 DEF AbortForgotten, RetryResumes, queue
  <2> QED BY <1>2, <2>2, <2>3
<1>10. ASSUME NEW S \in SUBSET Items, CancelItems(S) PROVE OneInv' /\ Tidy(job)
  BY <1>2, <1>10, CancelItemsKept
<1>11. CASE User
  <2>1. ASSUME NEW i \in Items, CancelItems({i}) PROVE OneInv' /\ Tidy(job)
    <3>1. {i} \in SUBSET Items
      OBVIOUS
    <3> QED BY <1>10, <2>1, <3>1
  <2>2. CASE CancelItems({i \in listed : items[i].status \in Cancellable})
    <3>1. {i \in listed : items[i].status \in Cancellable} \in SUBSET Items
      BY <1>1, Given
    <3> QED BY <1>10, <2>2, <3>1
  <2>3. ASSUME NEW i \in Items, RetryItem(i) PROVE OneInv' /\ Tidy(job)
    <3>1. UNCHANGED <<listed, calls>>
      BY <2>3 DEF RetryItem
    <3> QED BY <1>2, <2>3, <3>1, RetryItemKept
  <2>4. ASSUME NEW b \in Batches, AddEntries(b) PROVE OneInv' /\ Tidy(job)
    BY <1>1, <2>4, AddEntriesKept DEF OneInv
  <2>5. CASE ClearDone
    BY <1>1, <2>5, ClearDoneKept DEF OneInv
  <2> QED BY <1>11, <2>1, <2>2, <2>3, <2>4, <2>5 DEF User
<1>12. CASE UNCHANGED vars
  <2>1. /\ UNCHANGED <<listed, calls>> /\ items' = items /\ job' = job
        /\ open' = open /\ aborting' = aborting
    BY <1>12 DEF vars, queue, calls, server
  <2>2. StaysKept
    BY <2>1 DEF OneInv, StaysKept, Tidy
  <2> QED BY <1>2, <2>1, <2>2
<1>13. CASE TakenOver
  BY <1>4, <1>5, <1>13 DEF TakenOver
<1>14. CASE Dialog
  BY <1>4, <1>5, <1>6, <1>14 DEF Dialog
<1>15. CASE \E b \in Batches : Preflight(b)
  BY <1>6, <1>7, <1>15 DEF Preflight
<1>16. CASE Hide
  <2>1. /\ UNCHANGED <<listed, calls>> /\ items' = items /\ job' = job
        /\ open' = open /\ aborting' = aborting
    BY <1>16 DEF Hide, queue, server
  <2>2. StaysKept
    BY <2>1 DEF OneInv, StaysKept, Tidy
  <2> QED BY <1>2, <2>1, <2>2
<1> QED BY <1>8, <1>9, <1>11, <1>12, <1>13, <1>14, <1>15, <1>16 DEF Next, Event

\* The inductive invariant with one worker, the default of maxConcurrentUploads.
THEOREM OneInvHolds == OneAtATime /\ Spec => [](OneAtATime /\ OneInv)
<1>1. OneAtATime /\ Init => OneAtATime /\ OneInv
  BY InitOne
<1>2. (OneAtATime /\ OneInv) /\ [Next]_vars => (OneAtATime /\ OneInv)'
  BY NextOne DEF OneAtATime
<1> QED BY <1>1, <1>2, PTL DEF Spec

\* With one upload at a time, chunks the server holds can always be released: an item of
\* the list, or an attempt that is still running, has their id, or their abort is on its
\* way (_transfer, cancelItem, clearDone and retryItem, and how they overlap).
THEOREM StagedIsOwnedHolds == OneAtATime /\ Spec => []StagedIsOwned
<1>1. OneAtATime /\ OneInv => StagedIsOwned
  <2> SUFFICES ASSUME OneInv, NEW u \in open \ aborting
               PROVE  \E i \in Items : /\ items[i].uploadId = u
                                       /\ i \in listed \/ \E w \in Workers : job[w].item = i
    BY DEF StagedIsOwned, Owned
  <2>1. u # None
    BY HeldIsId DEF OneInv
  <2> QED BY <2>1 DEF OneInv, Kept
<1> QED BY <1>1, OneInvHolds, PTL

\* With one upload at a time, a cancelled item sends nothing more: no request and no commit
\* of it starts, whatever its attempt was waiting for when it was cancelled.
THEOREM CancelStopsHolds == OneAtATime /\ Spec => CancelStops
<1>1. OneAtATime /\ OneInv /\ [Next]_vars =>
        [\A w \in Workers :
           job'[w] # job[w] /\ job'[w].step \in {"sending", "posting", "committing"} =>
             items'[job'[w].item].status # "cancelled"]_vars
  <2> SUFFICES ASSUME OneAtATime, OneInv, [Next]_vars, NEW w \in Workers, job'[w] # job[w],
                      job'[w].step \in {"sending", "posting", "committing"}
               PROVE  items'[job'[w].item].status # "cancelled"
    OBVIOUS
  <2>1. OneInv' /\ Tidy(job)
    BY NextOne
  <2>2. Fits(items'[job'[w].item], job'[w], w)
    BY <2>1 DEF OneInv, Kept
  <2> QED BY <2>1, <2>2 DEF Fits, Tidy
<1> QED BY <1>1, OneInvHolds, PTL DEF Spec, CancelStops
================================================================================
