---------------------------- MODULE RemoteRequests ----------------------------
(***************************************************************************)
(* The file requests of one session on its one connection: api/files.go,     *)
(* archive.go, download.go, upload_conflict.go, UploadSimple, and the calls  *)
(* they make on the adapters ftp/ftp.go and sftp/sftp.go.                    *)
(*                                                                         *)
(* A request takes the client, waits for the session's transfer lock, and    *)
(* then works off a list of tasks.  A task is one call of the server, or the  *)
(* few calls between which the handler does not look at the answer; walking   *)
(* a directory puts tasks for its entries in front of the rest.  A call may    *)
(* fail in every way ErrorClasses tells apart, other users of the server write *)
(* files, and the connection may be lost at any time.                       *)
(*                                                                         *)
(* A file's content is a set of values: one for a plain file, those of its     *)
(* members for an archive; the values Cut and Part mark a lack.                *)
(***************************************************************************)
EXTENDS Integers, SequencesExt, ErrorClasses

CONSTANTS
  Workers,      \* goroutines that serve requests of the session
  Nobody,
  Requests,     \* what the browser may ask
  Segments,     \* what paths are made of
  Tree,         \* the server's files at the start: path -> content
  Dir,
  Cut,          \* what a read that ended early lacks
  Part,         \* what a file on the server lacks after an upload that failed
  Foreign,      \* the content other users write
  ForeignPaths, \* and where
  Faults,       \* how a call may fail: an error of the adapter's library, whether only a
                \* data connection fails that way, and whether the link is gone then
  MaxFaults,    \* bound on failing calls, for TLC alone
  MaxForeign    \* bound on writes of other users, for TLC alone

Kinds == {"list", "mkdir", "delete", "rename", "copy", "chmod", "compress", "zip",
          "extract", "download", "upload", "check", "disconnect", "ping"}

\* The requests that carry contents.
Moving == {"copy", "compress", "zip", "download", "upload"}

\* Those of which the server serves four at a time, for all sessions together.
Expensive == {"list", "copy", "compress", "zip", "extract"}

Path == Seq(Segments)

ASSUME RemoteAssumption ==
  /\ Nobody \notin Workers
  /\ \A r \in Requests : r.kind \in Kinds
  /\ MaxFaults \in Nat /\ MaxForeign \in Nat

\* What a request names are paths; an entry that ends early is found only in an archive.
ASSUME RequestAssumption ==
  \A r \in Requests :
    /\ r.kind \notin {"delete", "extract", "disconnect", "ping"} => r.p \in Path
    /\ r.kind \in {"rename", "copy", "compress"} => r.q \in Path
    /\ r.kind = "delete" => r.paths \in Seq(Path)
    /\ r.kind = "upload" => r.over \in BOOLEAN /\ Cut \notin r.content
    /\ r.kind = "extract" =>
         /\ Len(r.entries) \in Nat /\ DOMAIN r.entries = 1..Len(r.entries)
         /\ \A i \in DOMAIN r.entries :
              /\ DOMAIN r.entries[i] = {"is", "p", "content"}
              /\ r.entries[i].p \in Path

\* A tree of files: each lies in a directory, and none has a reader's mark.
TreeOK(tree) ==
  /\ IsFiniteSet(DOMAIN tree) /\ DOMAIN tree \subseteq Path \ {<<>>}
  /\ \A p \in DOMAIN tree : tree[p] = Dir \/ Cut \notin tree[p]
  /\ \A p \in DOMAIN tree : \A i \in 1..(Len(p) - 1) :
       SubSeq(p, 1, i) \in DOMAIN tree /\ tree[SubSeq(p, 1, i)] = Dir

ASSUME TreeAssumption ==
  /\ TreeOK(Tree) /\ ForeignPaths \subseteq Path
  /\ Cut \notin Foreign /\ Cut # Part

\* The libraries do not know our sentinel of a lost connection; a server that answers 421
\* closes the connection (RFC 959), and an SFTP client says so only of one that is gone.
ASSUME FaultAssumption ==
  \A f \in Faults :
    /\ DOMAIN f = {"err", "data", "lost"} /\ f.data \in BOOLEAN /\ f.lost \in BOOLEAN
    /\ "ErrConnectionLost" \notin f.err.is /\ f.err.deep \subseteq f.err.says
    /\ {"421", "fx connection lost"} \cap f.err.is # {} => f.lost

VARIABLES
  rr,       \* the requests: pc, req, work, spool (what was read and not yet written),
            \* fresh (its directory was just made), answer; gave and had are history:
            \* the contents it handed out, the tree when it got the lock
  rrTree,   \* the server's files
  rrWritten,\* history: the files written since the lock was last taken
  rrProto,  \* "ftp" or "sftp"
  rrClient, \* the session has a client
  rrLink,   \* the connection lives
  rrLock,   \* who holds the transfer lock
  rrRetr,   \* whose download is open on the connection
  rrDesync, \* history: a command was sent while a download was open
  rrMisread,\* history: a call failed, on a connection that lives, as one that is lost
  rrFaults, rrForeign

rrFiles == <<rrTree, rrWritten>>
rrRemote == <<rrFiles, rrLink, rrFaults, rrMisread>>
rrvars == <<rr, rrFiles, rrProto, rrClient, rrLink, rrLock, rrRetr, rrDesync, rrMisread,
            rrFaults, rrForeign>>

-----------------------------------------------------------------------------
(* Paths and the tree.                                                     *)

Kind(p) == IF p = <<>> THEN "dir"
           ELSE IF p \notin DOMAIN rrTree THEN "none"
           ELSE IF rrTree[p] = Dir THEN "dir" ELSE "file"

Children(p) == {c \in DOMAIN rrTree : c # <<>> /\ Front(c) = p}

\* The path of entry c of directory p, below directory q.
Below(q, c) == Append(q, Last(c))

\* A client that the session gave up was closed first.
Live == rrLink /\ rrClient

\* Mutant: only a path itself is not copied onto itself.
SamePath(p, q) == p = q

\* PathsOverlap: q is p or lies below it.
PathsOverlap(p, q) == IsPrefix(p, q)

\* What is new goes over what was there: of a tree, or of a request.
Over(new, old) ==
  [x \in DOMAIN new \cup DOMAIN old |-> IF x \in DOMAIN new THEN new[x] ELSE old[x]]

WithFile(p, content) == Over([x \in {p} |-> content], rrTree)
Without(gone) == [p \in DOMAIN rrTree \ gone |-> rrTree[p]]

\* A file is written, whole or in part.
Writes(p, content) ==
  /\ rrTree' = WithFile(p, content)
  /\ rrWritten' = rrWritten \cup {p}

-----------------------------------------------------------------------------
(* Requests and their tasks.                                               *)

Task(do, p, q) == [do |-> do, p |-> p, q |-> q]
ListTo(how, p, q) == [do |-> "list", p |-> p, q |-> q, how |-> how]
Tasks(do, paths) == [i \in DOMAIN paths |-> Task(do, paths[i], <<>>)]

\* What a request does, once validPath and PathsOverlap let it pass.
WorkOf(r) ==
  CASE r.kind = "list"     -> <<Task("show", r.p, <<>>)>>
    [] r.kind = "check"    -> <<Task("look", r.p, <<>>)>>
    [] r.kind = "mkdir"    -> <<Task("ensure", r.p, <<>>)>>
    [] r.kind = "chmod"    -> <<Task("chmod", r.p, <<>>)>>
    [] r.kind = "delete"   -> Tasks("item", r.paths)
    [] r.kind = "rename"   -> <<Task("move", r.p, r.q)>>
    [] r.kind = "copy"     -> <<Task("copy", r.p, r.q)>>
    [] r.kind = "compress" -> <<Task("size", r.p, <<>>), Task("zip", r.p, <<>>),
                                Task("put", r.q, <<>>)>>
    [] r.kind = "zip"      -> <<Task("size", r.p, <<>>), Task("zip", r.p, <<>>)>>
    [] r.kind = "extract"  -> [i \in DOMAIN r.entries |-> Over(r.entries[i], Task("entry", r.entries[i].p, <<>>))]
    [] r.kind = "download" -> <<Task("open", r.p, <<>>)>>
    [] r.kind = "upload"   -> <<Task("ensure", Front(r.p), <<>>), Task("probe", r.p, <<>>),
                                Task("put", r.p, <<>>)>>
    [] r.kind = "disconnect" -> <<Task("bye", <<>>, <<>>)>>
    [] r.kind = "ping"       -> <<Task("ping", <<>>, <<>>)>>

Valid(r) == r.kind \in {"rename", "copy"} => ~PathsOverlap(r.p, r.q)

Idle == [pc |-> "idle", req |-> Nobody, work |-> <<>>, spool |-> {}, fresh |-> FALSE,
         answer |-> "none", gave |-> {}, had |-> <<>>]

RRInit ==
  /\ rr = [w \in Workers |-> Idle]
  /\ rrTree = Tree /\ rrWritten = {}
  /\ rrProto \in {"ftp", "sftp"}
  /\ rrClient = TRUE /\ rrLink = TRUE
  /\ rrLock = Nobody /\ rrRetr = Nobody
  /\ rrDesync = FALSE /\ rrMisread = FALSE
  /\ rrFaults = 0 /\ rrForeign = 0

Becomes(w, changes) == rr' = [rr EXCEPT ![w] = Over(changes, @)]

\* The client is taken from the session before the lock is; resourceMiddleware came first.
RRArrive(w, r) ==
  /\ rr[w].pc = "idle"
  /\ \/ /\ rrClient /\ Valid(r)
        /\ Becomes(w, [pc |-> "waiting", req |-> r])
     \/ /\ ~(rrClient /\ Valid(r)) \/ r.kind \in Expensive
        /\ Becomes(w, [pc |-> "done", req |-> r, answer |-> "refused"])
  /\ UNCHANGED <<rrRemote, rrProto, rrClient, rrLock, rrRetr, rrDesync, rrForeign>>

\* Mutant: the handler takes no lock.
NoLock(w) == TRUE

LockFree(w) == rrLock = Nobody

RRLock(w) ==
  /\ rr[w].pc = "waiting"
  /\ LockFree(w)
  /\ rrLock' = w
  /\ Becomes(w, [pc |-> "running", work |-> WorkOf(rr[w].req),
                 had |-> IF rr[w].req.kind \in Moving THEN rrTree ELSE <<>>,
                 spool |-> IF rr[w].req.kind = "upload" THEN rr[w].req.content ELSE {}])
  /\ rrWritten' = {}
  /\ UNCHANGED <<rrTree, rrLink, rrFaults, rrMisread, rrProto, rrClient, rrRetr, rrDesync, rrForeign>>

\* The answer, and the deferred calls: an open reader is closed, the lock released.
Finish(w, answer, changes) ==
  /\ Becomes(w, Over(changes, [pc |-> "done", answer |-> answer, work |-> <<>>, spool |-> {},
                               fresh |-> FALSE]))
  /\ rrLock' = Nobody
  /\ rrRetr' = IF rrRetr = w THEN Nobody ELSE rrRetr

-----------------------------------------------------------------------------
(* Errors.                                                                 *)

Adapted(e) == IF rrProto = "ftp" THEN FtpWrapErr(e) ELSE SftpWrapErr(e)

\* A short read, and an SFTP upload that fails once its file is open.
Incomplete(e) == Wrap("ErrTransferIncomplete", e)
AdaptedUpload(e, opened) ==
  IF rrProto = "ftp" THEN FtpUploadErr(e) ELSE
  IF opened THEN Incomplete(SftpWrapErr(e)) ELSE SftpWrapErr(e)

NotFound == Wrap("ErrNotFound", Raw({"550"}, {"no such file"}))
PlainError == Raw({}, {})

\* Mutant: what is wrong with the archive is tested after the connection.
ArchiveErrorLate(w, e) == rr[w].req.kind = "extract" /\ "errArchive" \in e.is /\ ~IsConnLost(e)

\* archiveError looks at it first, in ExtractArchive alone.
ArchiveError(w, e) == rr[w].req.kind = "extract" /\ "errArchive" \in e.is

\* The tasks of the items after the one that failed.
NextItems(work) ==
  SubSeq(work, Len(work) + 1 - Cardinality({i \in DOMAIN work : work[i].do = "item"}), Len(work))

\* failClient finds the session in the request, but for the public download.
HasNoSession(w) == rr[w].req.kind = "download"

\* The answer's code.
Code(w, e) ==
  FailCode(e, IF rr[w].req.kind \in {"list", "check"} THEN "ErrListFailed"
              ELSE "ErrOperationFailed")

\* What a handler does with an error: failClient, and what comes before it.
Fails(w, e) ==
  \/ /\ ArchiveError(w, e)
     /\ Finish(w, "archive", <<>>)
     /\ UNCHANGED rrClient
  \/ /\ ~ArchiveError(w, e) /\ IsConnLost(e)
     /\ Finish(w, Code(w, e), <<>>)
     /\ rrClient' = (rrClient /\ HasNoSession(w))
  \/ /\ ~ArchiveError(w, e) /\ ~IsConnLost(e)
     /\ rr[w].req.kind = "delete"
     /\ Becomes(w, [work |-> NextItems(Tail(rr[w].work))])
     /\ UNCHANGED <<rrClient, rrLock, rrRetr>>
  \/ /\ ~ArchiveError(w, e) /\ ~IsConnLost(e)
     /\ rr[w].req.kind # "delete"
     /\ Finish(w, Code(w, e), <<>>)
     /\ UNCHANGED rrClient

\* A call that fails, with the error of the library; transfers have a data connection.
FaultOf(isTransfer) ==
  IF ~Live THEN {[err |-> Raw({"ErrClosed"}, {}), data |-> FALSE, lost |-> TRUE]}
  ELSE {f \in Faults : /\ rrFaults < MaxFaults
                       /\ f.data => isTransfer /\ rrProto = "ftp"}

\* A socket error, which may be that of a data connection alone, or a refusal of the
\* server that has one of the phrases in it, as when it quotes the name of a file.
SoundsLost(e) == IsSocketLoss(e) \/ e.says \cap LostPhrases # {}

Suffers(f) ==
  /\ rrLink' = (rrLink /\ ~f.lost)
  /\ rrFaults' = IF Live THEN rrFaults + 1 ELSE rrFaults
  /\ rrMisread' = (rrMisread \/ (~f.lost /\ SoundsLost(f.err)))

Undisturbed == UNCHANGED <<rrLink, rrFaults, rrMisread>>

-----------------------------------------------------------------------------
(* Tasks.                                                                  *)

At(w, dos) == rr[w].pc = "running" /\ rr[w].work # <<>> /\ Head(rr[w].work).do \in dos

\* A command goes out on the connection.
Commands(w) ==
  /\ rrDesync' = (rrDesync \/ rrRetr # Nobody)
  /\ UNCHANGED <<rrProto, rrForeign>>

\* The task is done, and these come before the rest.
Proceeds(w, tasks, changes) ==
  /\ Becomes(w, Over(changes, [work |-> tasks \o Tail(rr[w].work)]))
  /\ UNCHANGED <<rrClient, rrLock, rrRetr>>

\* Any call but a transfer may fail so.
RRBroken(w) ==
  /\ At(w, {"copy", "zip", "size", "item", "del", "ensure", "probe", "list", "show",
            "look", "mkdir", "move", "rm", "rmdir"})
  /\ Commands(w)
  /\ \E f \in FaultOf(Head(rr[w].work).do \in {"list", "show", "look"}) :
       Suffers(f) /\ Fails(w, Adapted(f.err))
  /\ UNCHANGED rrFiles

Get(p) == <<Task("get", p, <<>>), Task("close", p, <<>>)>>

\* What a walk does next with a path, by what Stat says it is.
AfterStat(t, kind) ==
  CASE t.do = "copy" -> IF kind = "dir" THEN <<Task("want", t.q, <<>>), ListTo("copy", t.p, t.q)>>
                        ELSE Get(t.p) \o <<Task("put", t.q, <<>>)>>
    [] t.do = "zip"  -> IF kind = "dir" THEN <<ListTo("zip", t.p, <<>>)>> ELSE Get(t.p)
    [] t.do = "size" -> IF kind = "dir" THEN <<ListTo("size", t.p, <<>>)>> ELSE <<>>
    [] t.do \in {"item", "del"} ->
         IF kind = "dir" THEN <<ListTo("del", t.p, <<>>), Task("rmdir", t.p, <<>>)>>
         ELSE <<Task("rm", t.p, <<>>)>>

\* copyTreeDepth, zipInputSizeDepth, addToZipDepth and the adapters' Delete.
RRWalk(w) ==
  /\ At(w, {"copy", "zip", "size", "item", "del"})
  /\ Live
  /\ Commands(w) /\ Undisturbed /\ UNCHANGED rrFiles
  /\ LET t == Head(rr[w].work)
     IN  \/ Kind(t.p) = "none" /\ Fails(w, NotFound)
         \/ Kind(t.p) # "none" /\ Proceeds(w, AfterStat(t, Kind(t.p)), <<>>)

\* The entries of a directory, in the order the server lists them.
RRList(w) ==
  /\ At(w, {"list"})
  /\ Live
  /\ Commands(w) /\ Undisturbed /\ UNCHANGED rrFiles
  /\ LET t == Head(rr[w].work)
     IN  \/ Kind(t.p) # "dir" /\ Fails(w, NotFound)
         \/ /\ Kind(t.p) = "dir"
            /\ \E order \in SetToSeqs(Children(t.p)) :
                 Proceeds(w, [i \in DOMAIN order |->
                                Task(t.how, order[i], IF t.how = "copy" THEN Below(t.q, order[i])
                                                      ELSE <<>>)], <<>>)

\* ListFiles, and UploadCheck, to which a directory that is not there is free.
RRShow(w) ==
  /\ At(w, {"show", "look"})
  /\ Live
  /\ Commands(w) /\ Undisturbed /\ UNCHANGED rrFiles
  /\ LET t == Head(rr[w].work)
     IN  IF Kind(t.p) = "dir" \/ (t.do = "look" /\ Kind(t.p) = "none")
         THEN Proceeds(w, <<>>, <<>>)
         ELSE Fails(w, NotFound)

\* copyTreeDepth makes the directory whenever Stat does not show one.
RRWant(w) ==
  /\ At(w, {"want"})
  /\ Commands(w) /\ UNCHANGED rrFiles
  /\ LET t == Head(rr[w].work)
     IN  \/ /\ Live /\ Undisturbed
            /\ Proceeds(w, IF Kind(t.p) = "none" THEN <<Task("mkdir", t.p, <<>>)>> ELSE <<>>, <<>>)
         \/ \E f \in FaultOf(FALSE) :
              Suffers(f) /\ Proceeds(w, <<Task("mkdir", t.p, <<>>)>>, <<>>)

\* Makes p below a directory; SFTP makes what is missing above it, and finds what is there.
Makes(p) ==
  IF rrProto = "sftp"
  THEN Over([x \in {y \in {SubSeq(p, 1, i) : i \in 1..Len(p)} : Kind(y) = "none"} |-> Dir], rrTree)
  ELSE WithFile(p, Dir)

CanMake(p) ==
  IF rrProto = "sftp" THEN \A i \in 1..Len(p) : Kind(SubSeq(p, 1, i)) # "file"
  ELSE Kind(p) = "none" /\ Kind(Front(p)) = "dir"

RRMakeDir(w) ==
  /\ At(w, {"mkdir"})
  /\ Live
  /\ Commands(w) /\ Undisturbed
  /\ LET t == Head(rr[w].work)
     IN  \/ CanMake(t.p) /\ rrTree' = Makes(t.p) /\ UNCHANGED rrWritten /\ Proceeds(w, <<>>, <<>>)
         \/ ~CanMake(t.p) /\ UNCHANGED rrFiles /\ Fails(w, PlainError)

\* ensureDirAllCreated: one Stat for each level, until a directory is found.
RREnsure(w) ==
  /\ At(w, {"ensure"})
  /\ Live
  /\ Commands(w) /\ Undisturbed /\ UNCHANGED rrFiles
  /\ LET t == Head(rr[w].work)
     IN  \/ Kind(t.p) = "dir" /\ Proceeds(w, <<>>, [fresh |-> FALSE])
         \/ Kind(t.p) = "file" /\ Fails(w, PlainError)
         \/ /\ Kind(t.p) = "none"
            /\ Proceeds(w, <<Task("ensure", Front(t.p), <<>>), Task("make", t.p, <<>>)>>, <<>>)

\* A directory that cannot be made may have been made by somebody else.
RRMake(w) ==
  /\ At(w, {"make"})
  /\ Commands(w)
  /\ LET t == Head(rr[w].work)
         confirm(e) == Proceeds(w, <<[do |-> "confirm", p |-> t.p, err |-> e]>>, <<>>)
     IN  \/ /\ Live /\ Undisturbed
            /\ \/ CanMake(t.p) /\ rrTree' = Makes(t.p) /\ UNCHANGED rrWritten /\ Proceeds(w, <<>>, [fresh |-> TRUE])
               \/ ~CanMake(t.p) /\ UNCHANGED rrFiles /\ confirm(PlainError)
         \/ \E f \in FaultOf(FALSE) : Suffers(f) /\ UNCHANGED rrFiles /\ confirm(Adapted(f.err))

RRConfirm(w) ==
  /\ At(w, {"confirm"})
  /\ Commands(w) /\ UNCHANGED rrFiles
  /\ LET t == Head(rr[w].work)
     IN  \/ Live /\ Undisturbed /\ Kind(t.p) = "dir" /\ Proceeds(w, <<>>, [fresh |-> FALSE])
         \/ Live /\ Undisturbed /\ Kind(t.p) # "dir" /\ Fails(w, t.err)
         \/ \E f \in FaultOf(FALSE) : Suffers(f) /\ Fails(w, t.err)

\* Mutant: what is found at the destination is not looked at.
TakenIfSeen(w, kind) == Proceeds(w, <<>>, <<>>)

\* destinationTaken, and the 409 of an upload that may not overwrite.
Taken(w, kind) ==
  IF kind = "none" THEN Proceeds(w, <<>>, <<>>)
  ELSE Finish(w, "conflict", <<>>) /\ UNCHANGED rrClient

RRProbe(w) ==
  /\ At(w, {"probe"})
  /\ UNCHANGED rrFiles /\ Undisturbed
  /\ \/ /\ rr[w].req.over \/ rr[w].fresh
        /\ Proceeds(w, <<>>, <<>>)
        /\ UNCHANGED <<rrDesync, rrProto, rrForeign>>
     \/ /\ ~(rr[w].req.over \/ rr[w].fresh)
        /\ Live /\ Commands(w)
        /\ Taken(w, Kind(Head(rr[w].work).p))

\* DownloadFile: a directory is refused, a Stat that failed only if the connection did.
RROpen(w) ==
  /\ At(w, {"open"})
  /\ Commands(w) /\ UNCHANGED rrFiles
  /\ LET t == Head(rr[w].work)
     IN  \/ Live /\ Undisturbed /\ Kind(t.p) = "dir" /\ Fails(w, PlainError)
         \/ Live /\ Undisturbed /\ Kind(t.p) # "dir" /\ Proceeds(w, Get(t.p), <<>>)
         \/ \E f \in FaultOf(TRUE) :
              /\ Suffers(f)
              /\ IF IsConnLost(Adapted(f.err)) THEN Fails(w, Adapted(f.err))
                 ELSE Proceeds(w, Get(t.p), <<>>)

\* RETR, or the open of an SFTP file.
RRGet(w) ==
  /\ At(w, {"get"})
  /\ Commands(w) /\ UNCHANGED rrFiles
  /\ LET t == Head(rr[w].work)
     IN  \/ /\ Live /\ Undisturbed /\ Kind(t.p) = "file"
            /\ Becomes(w, [work |-> Tail(rr[w].work)])
            /\ rrRetr' = IF rrProto = "ftp" THEN w ELSE rrRetr
            /\ UNCHANGED <<rrClient, rrLock>>
         \/ Live /\ Undisturbed /\ Kind(t.p) # "file" /\ Fails(w, NotFound)
         \/ \E f \in FaultOf(TRUE) : Suffers(f) /\ Fails(w, Adapted(f.err))

\* Mutant: what Close says of a transfer that ended early is dropped.
ShortReadIgnored(w, e) ==
  /\ Becomes(w, [work |-> Tail(rr[w].work), spool |-> rr[w].spool \cup {Cut}])
  /\ rrRetr' = Nobody
  /\ UNCHANGED <<rrClient, rrLock>>

\* A transfer that ended early: the copy or Close reports it, and a download, whose
\* headers are out, breaks its answer.
ShortRead(w, e) ==
  IF rr[w].req.kind = "download"
  THEN Finish(w, "aborted", [gave |-> {Cut}]) /\ UNCHANGED rrClient
  ELSE Fails(w, Incomplete(e))

\* The data, and Close with the server's verdict.  This is no command.
RRRead(w) ==
  /\ At(w, {"close"})
  /\ UNCHANGED <<rrFiles, rrDesync, rrProto, rrForeign>>
  /\ LET p == Head(rr[w].work).p
     IN  \/ /\ Live /\ Undisturbed /\ Kind(p) = "file"
            /\ Becomes(w, [work |-> Tail(rr[w].work), spool |-> rr[w].spool \cup rrTree[p]])
            /\ rrRetr' = IF rrRetr = w THEN Nobody ELSE rrRetr
            /\ UNCHANGED <<rrClient, rrLock>>
         \/ \E f \in FaultOf(TRUE) : Suffers(f) /\ ShortRead(w, f.err)
         \/ Live /\ Undisturbed /\ Kind(p) # "file" /\ ShortRead(w, PlainError)

\* An archive's payload that ends early reaches the adapter as a tagged error.
CorruptPayload == Raw({"errArchive", "ErrUnexpectedEOF"}, {})

Storable(p) == Kind(p) # "dir" /\ Kind(Front(p)) = "dir"

\* STOR: whole, refused, or cut after a part.
RRPut(w) ==
  /\ At(w, {"put"})
  /\ Commands(w)
  /\ LET p == Head(rr[w].work).p
         content == rr[w].spool
     IN  \/ /\ Live /\ Undisturbed /\ Storable(p)
            /\ IF rr[w].req.kind = "extract" /\ Cut \in content
               THEN Writes(p, {Part}) /\ Fails(w, AdaptedUpload(CorruptPayload, TRUE))
               ELSE /\ Writes(p, content)
                    /\ Proceeds(w, <<>>, [spool |-> {}, gave |-> rr[w].gave \cup content])
         \/ /\ Live /\ Undisturbed /\ ~Storable(p)
            /\ UNCHANGED rrFiles /\ Fails(w, AdaptedUpload(Raw({"553"}, {}), FALSE))
         \/ \E f \in FaultOf(TRUE) :
              /\ Suffers(f)
              /\ \/ UNCHANGED rrFiles /\ Fails(w, AdaptedUpload(f.err, FALSE))
                 \/ /\ Live /\ Storable(p) /\ Writes(p, {Part})
                    /\ Fails(w, AdaptedUpload(f.err, TRUE))

\* Rename, and the two deletes.
RRChange(w) ==
  /\ At(w, {"move", "rm", "rmdir"})
  /\ Live
  /\ Commands(w) /\ Undisturbed
  /\ LET t == Head(rr[w].work)
         tail(c) == SubSeq(c, Len(t.p) + 1, Len(c))
         below == {c \in DOMAIN rrTree : IsPrefix(t.p, c)}
         can == CASE t.do = "rm"    -> Kind(t.p) = "file"
                  [] t.do = "rmdir" -> Kind(t.p) = "dir" /\ Children(t.p) = {}
                  [] t.do = "move"  -> Kind(t.p) # "none" /\ Kind(t.q) = "none" /\ Kind(Front(t.q)) = "dir"
         new == IF t.do = "move"
                THEN [c \in {t.q \o tail(x) : x \in below} |->
                        rrTree[t.p \o SubSeq(c, Len(t.q) + 1, Len(c))]]
                ELSE <<>>
     IN  \/ can /\ rrTree' = Over(new, Without(below)) /\ UNCHANGED rrWritten /\ Proceeds(w, <<>>, <<>>)
         \/ ~can /\ UNCHANGED rrFiles /\ Fails(w, PlainError)

\* The FTP adapter cannot, an SFTP server may refuse.
RRChmod(w) ==
  /\ At(w, {"chmod"})
  /\ UNCHANGED rrFiles
  /\ \/ /\ rrProto = "ftp" /\ Undisturbed
        /\ Fails(w, Wrap("ErrPermissionsNotSupported", PlainError))
        /\ UNCHANGED <<rrDesync, rrProto, rrForeign>>
     \/ /\ rrProto = "sftp" /\ Commands(w)
        /\ \/ Live /\ Undisturbed /\ Proceeds(w, <<>>, <<>>)
           \/ \E f \in FaultOf(FALSE) : Suffers(f) /\ Fails(w, Adapted(f.err))

\* An entry of an archive: budget.next, safeJoin, and what it is.
RREntry(w) ==
  /\ At(w, {"entry"})
  /\ Undisturbed /\ UNCHANGED <<rrFiles, rrDesync, rrProto, rrForeign>>
  /\ LET t == Head(rr[w].work)
     IN  \/ t.is = "dir" /\ Proceeds(w, <<Task("ensure", t.p, <<>>)>>, <<>>)
         \/ /\ t.is = "file"
            /\ Proceeds(w, <<Task("ensure", Front(t.p), <<>>), Task("put", t.p, <<>>)>>,
                        [spool |-> t.content])
         \/ t.is = "link" /\ Proceeds(w, <<>>, <<>>)
         \/ t.is = "bad" /\ Fails(w, CorruptPayload)

\* A limit of our own: the walk's budget and depth, the archive's size, staging space.
RRLimit(w) ==
  /\ At(w, {"copy", "zip", "size", "entry"})
  /\ Finish(w, "failed", <<>>)
  /\ UNCHANGED <<rrRemote, rrProto, rrClient, rrDesync, rrForeign>>

\* Disconnect closes the connection and drops the session.
RRDisconnect(w) ==
  /\ At(w, {"bye"})
  /\ rrClient' = FALSE /\ rrLink' = FALSE
  /\ Finish(w, "bye", <<>>)
  /\ UNCHANGED <<rrFiles, rrFaults, rrMisread, rrProto, rrDesync, rrForeign>>

\* Status?ping=1 only tries the lock, and closes the client whatever the failure is.
RRBusy(w) ==
  /\ rr[w].pc = "waiting" /\ rr[w].req.kind = "ping"
  /\ ~LockFree(w)
  /\ Becomes(w, [pc |-> "done", answer |-> "busy"])
  /\ UNCHANGED <<rrRemote, rrProto, rrClient, rrLock, rrRetr, rrDesync, rrForeign>>

RRPing(w) ==
  /\ At(w, {"ping"})
  /\ Commands(w) /\ UNCHANGED <<rrFiles, rrClient>>
  /\ \/ Live /\ Undisturbed /\ Finish(w, "ok", <<>>)
     \/ \E f \in FaultOf(FALSE) :
          Suffers([f EXCEPT !.lost = TRUE]) /\ Finish(w, "none", [pc |-> "dropping"])

\* The session forgets the client only after the lock is released.
RRForget(w) ==
  /\ rr[w].pc = "dropping"
  /\ rrClient' = FALSE
  /\ Becomes(w, [pc |-> "done", answer |-> "lost"])
  /\ UNCHANGED <<rrRemote, rrProto, rrLock, rrRetr, rrDesync, rrForeign>>

\* Nothing is left to do.  A download and an archive go to the browser now.
RRAnswer(w) ==
  /\ rr[w].pc = "running" /\ rr[w].work = <<>>
  /\ Finish(w, "ok", [gave |-> rr[w].gave \cup rr[w].spool])
  /\ UNCHANGED <<rrRemote, rrProto, rrClient, rrDesync, rrForeign>>

\* External: the server or the network ends the connection.
RRDrop ==
  /\ rrLink /\ rrFaults < MaxFaults
  /\ rrLink' = FALSE /\ rrFaults' = rrFaults + 1
  /\ UNCHANGED <<rr, rrFiles, rrMisread, rrProto, rrClient, rrLock, rrRetr, rrDesync, rrForeign>>

\* External: another user of the server writes a file.
RRForeign(p) ==
  /\ rrForeign < MaxForeign
  /\ Storable(p)
  /\ Writes(p, Foreign)
  /\ rrForeign' = rrForeign + 1
  /\ UNCHANGED <<rr, rrLink, rrFaults, rrMisread, rrProto, rrClient, rrLock, rrRetr, rrDesync>>

RRStep(w) ==
  \/ RRLock(w) \/ RRBroken(w) \/ RRWalk(w) \/ RRList(w) \/ RRShow(w) \/ RRWant(w)
  \/ RRMakeDir(w) \/ RREnsure(w) \/ RRMake(w) \/ RRConfirm(w) \/ RRProbe(w) \/ RROpen(w)
  \/ RRGet(w) \/ RRRead(w) \/ RRPut(w) \/ RRChange(w) \/ RRChmod(w) \/ RREntry(w)
  \/ RRLimit(w) \/ RRDisconnect(w) \/ RRAnswer(w) \/ RRBusy(w) \/ RRPing(w) \/ RRForget(w)

RRNext ==
  \/ \E w \in Workers, r \in Requests : RRArrive(w, r)
  \/ \E w \in Workers : RRStep(w)
  \/ RRDrop
  \/ \E p \in ForeignPaths : RRForeign(p)

RRSpec == RRInit /\ [][RRNext]_rrvars

-----------------------------------------------------------------------------
(* Properties.                                                             *)

RRTypeOK ==
  /\ \A w \in Workers : rr[w].pc \in {"idle", "waiting", "running", "dropping", "done"}
  /\ \A p \in DOMAIN rrTree : p # <<>> /\ Kind(Front(p)) = "dir"
  /\ rrLock = Nobody \/ rr[rrLock].pc = "running"
  /\ rrRetr \in {rrLock, Nobody}
  /\ rrFaults \in 0..MaxFaults /\ rrForeign \in 0..MaxForeign

Succeeded(w) == rr[w].pc = "done" /\ rr[w].answer = "ok"

\* The contents a request that reads a tree owes: of the files below its source that were
\* there when its turn came and that nobody wrote since.
Owed(w) ==
  UNION {rr[w].had[f] : f \in {x \in DOMAIN rr[w].had \ rrWritten :
                                  IsPrefix(rr[w].req.p, x) /\ rr[w].had[x] # Dir}}

\* A copy, an archive or a download that is answered as done is whole: it has every file
\* that was there, and nothing of a transfer that ended early, which FTP tells only when
\* the transfer is closed (copyFile, addToZipDepth, DownloadFile).
RROkIsWhole ==
  [][\A w \in Workers :
       ~Succeeded(w) /\ Succeeded(w)' /\ rr'[w].req.kind \in Moving \ {"upload"}
       => Cut \notin rr'[w].gave /\ Owed(w) \subseteq rr'[w].gave]_rrvars

\* While a file is read over FTP no other command goes out: the control connection can
\* serve one transfer at a time (lockedClient, and copyFile which stages between RETR and
\* STOR).
RROneTransfer == ~rrDesync

\* The session gives its client up only for a connection that is dead, or after a call
\* failed that isConnLost cannot tell from it: no other refusal of the server, no broken
\* archive and no timeout of a data connection does it (failClient, archiveError).
RRLiveClientKept ==
  [][rrClient /\ ~rrClient' => ~rrLink' \/ rrMisread']_rrvars

\* An upload that may not overwrite destroys no file that was there when its turn came,
\* whatever calls failed on the way (ensureDirAllCreated, destinationTaken).
RRNoClobber ==
  \A w \in Workers :
    /\ rr[w].pc = "done" /\ rr[w].req.kind = "upload" /\ ~rr[w].req.over
    /\ rr[w].req.p \in DOMAIN rr[w].had
    => rr[w].answer # "ok" /\ rr[w].gave = {}
-----------------------------------------------------------------------------
(* The inductive invariant of the proofs.                                  *)

Fields == {"pc", "req", "work", "spool", "fresh", "answer", "gave", "had"}
Running(w) == rr[w].pc = "running"

RRShape ==
  /\ DOMAIN rr = Workers /\ rrLock \in Workers \cup {Nobody}
  /\ rrProto \in {"ftp", "sftp"} /\ rrClient \in BOOLEAN /\ rrLink \in BOOLEAN
  /\ rrMisread \in BOOLEAN
  /\ rrFaults \in 0..MaxFaults /\ rrForeign \in 0..MaxForeign
  /\ TreeOK(rrTree)
  /\ \A w \in Workers :
       /\ DOMAIN rr[w] = Fields /\ rr[w].fresh \in BOOLEAN
       /\ rr[w].pc \in {"idle", "waiting", "running", "dropping", "done"}
       /\ Running(w) <=> rrLock = w
       /\ rr[w].pc # "idle" => rr[w].req \in Requests
       /\ rr[w].pc \in {"idle", "waiting"} =>
            rr[w].gave = {} /\ ~rr[w].fresh /\ rr[w].had = <<>>
       /\ rr[w].pc = "waiting" => Valid(rr[w].req)
       /\ rr[w].pc = "dropping" => rr[w].req.kind = "ping" /\ ~rrLink

\* The tasks of a request are such as it may have.
Deletes(t) == t.do \in {"item", "del", "rm", "rmdir"} \/ (t.do = "list" /\ t.how = "del")
Reads(t) == t.do \in {"copy", "zip", "open", "close"} \/ (t.do = "list" /\ t.how \in {"copy", "zip"})
FitsRequest(r, t) ==
  /\ t.p \in Path
  /\ r.kind = "delete" <=> Deletes(t)
  /\ t.do = "list" => t.how \in {"copy", "zip", "size", "del"}
  /\ t.do \in {"copy", "want"} \/ (t.do = "list" /\ t.how = "copy") => t.q \in Path
  /\ t.do = "move" => r.kind = "rename" /\ t.q \in Path /\ ~IsPrefix(t.p, t.q)
  /\ t.do = "entry" => r.kind = "extract"
  /\ t.do = "ping" => r.kind = "ping"

\* A reader that is opened is closed next.
Paired(work) ==
  \A i \in DOMAIN work :
    work[i].do = "get" =>
      i + 1 \in DOMAIN work /\ work[i + 1].do = "close" /\ work[i + 1].p = work[i].p

\* What a confirmation would answer is no lost connection, or there is none any more.
Accounted(t) == t.do = "confirm" /\ IsConnLost(t.err) => ~rrLink \/ rrMisread

RRTasks ==
  \A w \in Workers : Running(w) =>
    /\ rr[w].work \in Seq(Range(rr[w].work)) /\ Paired(rr[w].work)
    /\ \A t \in Range(rr[w].work) : FitsRequest(rr[w].req, t) /\ Accounted(t)
    /\ rr[w].req.kind # "extract" => Cut \notin rr[w].spool

\* A download is open on the connection only while its request is about to read it.
RRReading ==
  /\ RROneTransfer
  /\ rrRetr = Nobody \/ (rrRetr = rrLock /\ At(rrRetr, {"close"}))

\* An upload that may not overwrite, and whose file is there.
MayNotReplace(w) ==
  rr[w].req.kind = "upload" /\ ~rr[w].req.over /\ rr[w].req.p \in DOMAIN rr[w].had

RRGuards ==
  /\ RRNoClobber
  /\ \A w \in Workers : Running(w) /\ MayNotReplace(w) =>
       /\ rr[w].req.p \in DOMAIN rrTree
       /\ rr[w].gave = {} /\ ~rr[w].fresh
       /\ rr[w].work \in {WorkOf(rr[w].req), Tail(WorkOf(rr[w].req))}

\* A request that reads a tree has every file it owes, or will come to it yet.
Wanted(w, f) ==
  f \in DOMAIN rr[w].had \ rrWritten /\ IsPrefix(rr[w].req.p, f) /\ rr[w].had[f] # Dir

RRWhole ==
  \A w \in Workers : Running(w) /\ rr[w].req.kind \in Moving \ {"upload"} =>
    /\ Cut \notin rr[w].gave
    /\ DOMAIN rr[w].had \subseteq DOMAIN rrTree
    /\ \A f \in DOMAIN rr[w].had \ rrWritten : rrTree[f] = rr[w].had[f]
    /\ \A f \in DOMAIN rr[w].had : Wanted(w, f) =>
         \/ rr[w].had[f] \subseteq rr[w].gave \cup rr[w].spool
         \/ \E t \in Range(rr[w].work) : Reads(t) /\ IsPrefix(t.p, f)

RRIInv == RRShape /\ RRTasks /\ RRReading /\ RRGuards /\ RRWhole
=============================================================================
