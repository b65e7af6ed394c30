------------------------------ MODULE MCBackend ------------------------------
(* A small instance of Backend for TLC: one server, one known_hosts file, one    *)
(* staging volume and one remote file that is edited.                          *)
EXTENDS Backend

CONSTANTS d, f, g, e, z, v1, v2, v3, x, host, addr, ed1, ed2, rsa, u1, u2, kept

(* A server with one directory of two files. *)

SmallTree == (<<d>> :> Dir) @@ (<<d, f>> :> {v1}) @@ (<<d, g>> :> {v2})

Req(kind, p, q) == [kind |-> kind, p |-> p, q |-> q]
Upload(p, over) == [kind |-> "upload", p |-> p, over |-> over, content |-> {v3}]
Entry(is, p, c) == [is |-> is, p |-> p, content |-> c]
Extract(entries) == [kind |-> "extract", p |-> <<e>>, entries |-> entries]

\* Both directories are deleted, and one is moved into itself.  One archive has a
\* member safeJoin refuses, the other ends in the middle of a member.
AllRequests ==
  { Req("list", <<d>>, <<>>), Req("check", <<e>>, <<>>), Req("mkdir", <<e, f>>, <<>>),
    Req("chmod", <<d>>, <<>>), Req("rename", <<d>>, <<e>>), Req("rename", <<d>>, <<d, e>>),
    Req("copy", <<d>>, <<e>>), Req("compress", <<d>>, <<z>>), Req("zip", <<d, f>>, <<>>),
    Req("download", <<d, f>>, <<>>), Req("disconnect", <<>>, <<>>), Req("ping", <<>>, <<>>),
    [kind |-> "delete", paths |-> << <<d>>, <<e>> >>],
    Upload(<<d, f>>, FALSE), Upload(<<e, f>>, FALSE), Upload(<<d, f>>, TRUE),
    Extract(<<Entry("dir", <<e>>, {}), Entry("link", <<e>>, {}), Entry("bad", <<e>>, {})>>),
    Extract(<<Entry("file", <<e, f>>, {v3}), Entry("file", <<e, g>>, {Cut})>>) }

\* A refusal, one that quotes the name of a file called "connection lost", a data connection
\* that is not made, is reset or stands still, the end.
AllFaults ==
  { [err |-> Raw({"550"}, {"permission denied"}), data |-> FALSE, lost |-> FALSE],
    [err |-> Raw({"550"}, {"no such file", "connection lost"}), data |-> FALSE, lost |-> FALSE],
    [err |-> Raw({"425"}, {}), data |-> TRUE, lost |-> FALSE],
    [err |-> Raw({"ECONNRESET"}, {}), data |-> TRUE, lost |-> FALSE],
    [err |-> Raw({"timeout"}, {}), data |-> TRUE, lost |-> FALSE],
    [err |-> Raw({"EOF"}, {}), data |-> FALSE, lost |-> TRUE] }

TwoPlaces == {<<d, f>>, <<e, f>>}
Theirs == {x}

(* A known_hosts file. *)

\* An entry with the host's address, a pattern and a marker.
SomeLines ==
  { [names |-> {host, addr}, key |-> ed1, kind |-> "host"],
    [names |-> {host}, key |-> rsa, kind |-> "wild"],
    [names |-> {host}, key |-> ed2, kind |-> "revoked"] }
ToAddr(n) == addr
KeyType(k) == IF k = rsa THEN "rsa" ELSE "ed25519"

(* Goroutines, tabs, uploads and owners are interchangeable with their likes.  A behaviour *)
(* is one part's, and in a part that stands still the likes are all in the same state, so   *)
(* one exchange serves four parts.                                                       *)

Twins == {Workers, Dials, Tabs, {u1, u2}}
TwinOf(v) == CHOOSE w \in (CHOOSE T \in Twins : v \in T) : w # v
Exchange == [v \in UNION Twins |-> TwinOf(v)]
Symmetry == Permutations(Owners) \cup {Exchange}
=============================================================================
