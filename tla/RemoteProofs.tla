----------------------------- MODULE RemoteProofs -----------------------------
(***************************************************************************)
(* Proofs about RemoteRequests and RemoteEditor, for every tree of files, set  *)
(* of requests and way a call may fail, any number of workers, faults and       *)
(* writes of other users.                                                    *)
(*                                                                         *)
(* One command goes out at a time; an upload destroys no file it may not; a    *)
(* request that is answered as done has given all it owes; the session gives    *)
(* its client up only for a connection that is lost or cannot be told from one.  *)
(* The inductive invariant RRIInv follows the tasks of a request: they fit it,  *)
(* a reader that opens is closed next, and what is owed is read or still has a   *)
(* task above it.  The chapters: paths and trees, errors, lists of tasks, the    *)
(* effects of a step, what keeps the invariant, one lemma per action, and the    *)
(* theorems.                                                                *)
(*                                                                         *)
(* A conditional save of the editor destroys a text the tab never saw only if   *)
(* it came in one of the save's own windows, or left the version as it was.     *)
(*                                                                         *)
(* Last, what this module and DiskProofs prove of the parts holds of Backend.   *)
(***************************************************************************)
EXTENDS Backend, DiskProofs, SequenceTheorems

-----------------------------------------------------------------------------
(* Paths.                                                                  *)

LEMMA PathLen ==
  ASSUME NEW x \in Path
  PROVE  /\ Len(x) \in Nat /\ DOMAIN x = 1..Len(x)
         /\ \A i \in 1..Len(x) : x[i] \in Segments
         /\ x # <<>> => Len(x) >= 1
         /\ x = <<>> => Len(x) = 0
BY LenProperties, EmptySeq, ElementOfSeq DEF Path

\* What is cut off the end of a path leaves a path.
LEMMA PrefixPath ==
  ASSUME NEW x \in Path, NEW i \in Int, i <= Len(x)
  PROVE  /\ SubSeq(x, 1, i) \in Path
         /\ i >= 0 => Len(SubSeq(x, 1, i)) = i
         /\ i < 0 => SubSeq(x, 1, i) = <<>>
         /\ \A j \in 1..i : SubSeq(x, 1, i)[j] = x[j]
<1>1. \A j \in 1..i : x[j] \in Segments
  BY PathLen
<1>2. /\ SubSeq(x, 1, i) \in Path
      /\ Len(SubSeq(x, 1, i)) = IF 1 <= i THEN i - 1 + 1 ELSE 0
      /\ \A j \in 1..(i - 1 + 1) : SubSeq(x, 1, i)[j] = x[1 + j - 1]
  BY <1>1, SubSeqProperties, 1 \in Int DEF Path
<1>3. i < 0 => SubSeq(x, 1, i) = <<>>
  BY SubSeqEmpty, 1 \in Int
<1>4. i - 1 + 1 = i /\ \A j \in 1..i : 1 + j - 1 = j
  OBVIOUS
<1> QED BY <1>2, <1>3, <1>4

\* Two paths of one length that agree everywhere are one.
LEMMA SamePaths ==
  ASSUME NEW x \in Path, NEW y \in Path, Len(x) = Len(y), \A i \in 1..Len(x) : x[i] = y[i]
  PROVE  x = y
BY SeqEqual DEF Path

LEMMA PrefixOfPrefix ==
  ASSUME NEW x \in Path, NEW i \in Nat, NEW j \in Nat, j <= i, i <= Len(x)
  PROVE  SubSeq(SubSeq(x, 1, i), 1, j) = SubSeq(x, 1, j)
<1> DEFINE y == SubSeq(x, 1, i)
<1>1. y \in Path /\ Len(y) = i /\ \A k \in 1..i : y[k] = x[k]
  BY PrefixPath
<1>2. SubSeq(x, 1, j) \in Path /\ Len(SubSeq(x, 1, j)) = j
      /\ \A k \in 1..j : SubSeq(x, 1, j)[k] = x[k]
  BY PrefixPath, PathLen
<1> HIDE DEF y
<1>3. SubSeq(y, 1, j) \in Path /\ Len(SubSeq(y, 1, j)) = j
      /\ \A k \in 1..j : SubSeq(y, 1, j)[k] = y[k]
  BY <1>1, PrefixPath
<1>4. \A k \in 1..j : SubSeq(y, 1, j)[k] = SubSeq(x, 1, j)[k]
  BY <1>1, <1>2, <1>3
<1>5. SubSeq(y, 1, j) = SubSeq(x, 1, j)
  BY <1>2, <1>3, <1>4, SamePaths
<1> QED BY <1>5 DEF y

LEMMA WholePrefix ==
  ASSUME NEW x \in Path
  PROVE  SubSeq(x, 1, Len(x)) = x
BY SubSeqFull DEF Path

LEMMA FrontPath ==
  ASSUME NEW x \in Path
  PROVE  Front(x) \in Path /\ Front(x) = SubSeq(x, 1, Len(x) - 1)
<1>1. Len(x) - 1 \in Int /\ Len(x) - 1 <= Len(x)
  BY PathLen
<1> QED BY <1>1, PrefixPath DEF Front

\* A path is below another one if it has its segments.
LEMMA PrefixDef ==
  ASSUME NEW x \in Path, NEW y \in Path
  PROVE  /\ IsPrefix(x, y) <=> Len(x) <= Len(y) /\ x = SubSeq(y, 1, Len(x))
         /\ IsPrefix(x, y) <=> Len(x) <= Len(y) /\ \A i \in 1..Len(x) : x[i] = y[i]
<1>1. IsPrefix(x, y) <=> Len(x) <= Len(y) /\ SubSeq(x, 1, Len(x)) = SubSeq(y, 1, Len(x))
  BY DEF IsPrefix
<1>2. IsPrefix(x, y) <=> Len(x) <= Len(y) /\ x = SubSeq(y, 1, Len(x))
  BY <1>1, WholePrefix
<1>3. ASSUME Len(x) <= Len(y)
      PROVE  x = SubSeq(y, 1, Len(x)) <=> \A i \in 1..Len(x) : x[i] = y[i]
  <2>1. SubSeq(y, 1, Len(x)) \in Path /\ Len(SubSeq(y, 1, Len(x))) = Len(x)
        /\ \A i \in 1..Len(x) : SubSeq(y, 1, Len(x))[i] = y[i]
    BY <1>3, PrefixPath, PathLen
  <2>2. ASSUME \A i \in 1..Len(x) : x[i] = y[i] PROVE x = SubSeq(y, 1, Len(x))
    BY <2>1, <2>2, SamePaths
  <2> QED BY <2>1, <2>2
<1> QED BY <1>2, <1>3

LEMMA PrefixSelf ==
  ASSUME NEW x \in Path
  PROVE  IsPrefix(x, x)
BY PrefixDef, PathLen

LEMMA PrefixTransitive ==
  ASSUME NEW x \in Path, NEW y \in Path, NEW z \in Path, IsPrefix(x, y), IsPrefix(y, z)
  PROVE  IsPrefix(x, z)
BY PrefixDef, PathLen

\* Of two paths above a third the longer one is below the other.
LEMMA PrefixesNest ==
  ASSUME NEW x \in Path, NEW y \in Path, NEW z \in Path, IsPrefix(x, z), IsPrefix(y, z),
         Len(x) <= Len(y)
  PROVE  IsPrefix(x, y)
BY PrefixDef, PathLen

LEMMA PrefixSameLength ==
  ASSUME NEW x \in Path, NEW y \in Path, IsPrefix(x, y), Len(x) = Len(y)
  PROVE  x = y
BY PrefixDef, SamePaths

-----------------------------------------------------------------------------
(* Trees of files.                                                         *)

\* Whatever a path of the tree lies below is a directory of the tree.
LEMMA TreeAbove ==
  ASSUME NEW tree, TreeOK(tree), NEW x \in DOMAIN tree, NEW y \in Path,
         y # <<>>, y # x, IsPrefix(y, x)
  PROVE  y \in DOMAIN tree /\ tree[y] = Dir
<1>1. x \in Path
  BY DEF TreeOK
<1>2. Len(y) <= Len(x) /\ y = SubSeq(x, 1, Len(y)) /\ Len(y) \in Nat /\ Len(y) >= 1
  BY <1>1, PrefixDef, PathLen
<1>3. Len(y) # Len(x)
  BY <1>1, PrefixSameLength
<1>4. Len(x) \in Nat
  BY <1>1, PathLen
<1>5. Len(y) \in 1..(Len(x) - 1)
  BY <1>2, <1>3, <1>4
<1> QED BY <1>2, <1>5 DEF TreeOK

\* And where that is so, there is a tree.
LEMMA TreeFromAbove ==
  ASSUME NEW tree, IsFiniteSet(DOMAIN tree), DOMAIN tree \subseteq Path \ {<<>>},
         \A x \in DOMAIN tree : tree[x] = Dir \/ Cut \notin tree[x],
         \A x \in DOMAIN tree : \A y \in Path :
           y # <<>> /\ y # x /\ IsPrefix(y, x) => y \in DOMAIN tree /\ tree[y] = Dir
  PROVE  TreeOK(tree)
<1>1. ASSUME NEW x \in DOMAIN tree, NEW i \in 1..(Len(x) - 1)
      PROVE  SubSeq(x, 1, i) \in DOMAIN tree /\ tree[SubSeq(x, 1, i)] = Dir
  <2>1. x \in Path /\ Len(x) \in Nat /\ i \in Nat /\ i <= Len(x) /\ i < Len(x) /\ i >= 1
    BY PathLen
  <2> DEFINE y == SubSeq(x, 1, i)
  <2>2. y \in Path /\ Len(y) = i /\ \A j \in 1..i : y[j] = x[j]
    BY <2>1, PrefixPath
  <2> HIDE DEF y
  <2>3. y # <<>> /\ y # x
    BY <2>1, <2>2, PathLen
  <2>4. IsPrefix(y, x)
    BY <2>1, <2>2, PrefixDef
  <2>5. y \in DOMAIN tree /\ tree[y] = Dir
    BY <2>2, <2>3, <2>4
  <2> QED BY <2>5 DEF y
<1> QED BY <1>1 DEF TreeOK

\* What Over gives.
LEMMA OverAt ==
  ASSUME NEW new, NEW old
  PROVE  /\ DOMAIN Over(new, old) = DOMAIN new \cup DOMAIN old
         /\ \A x \in DOMAIN new : Over(new, old)[x] = new[x]
         /\ \A x \in DOMAIN old \ DOMAIN new : Over(new, old)[x] = old[x]
BY DEF Over

\* A tree over a tree: what is new lies in directories, and hides none that is used.
LEMMA TreeOver ==
  ASSUME NEW old, TreeOK(old), NEW new, IsFiniteSet(DOMAIN new),
         DOMAIN new \subseteq Path \ {<<>>},
         \A x \in DOMAIN new : new[x] = Dir \/ Cut \notin new[x],
         \A x \in DOMAIN new : \A y \in Path :
           y # <<>> /\ y # x /\ IsPrefix(y, x) =>
             \/ y \in DOMAIN new /\ new[y] = Dir
             \/ y \notin DOMAIN new /\ y \in DOMAIN old /\ old[y] = Dir,
         \A x \in DOMAIN old \ DOMAIN new : \A y \in DOMAIN new :
           y # x /\ IsPrefix(y, x) => new[y] = Dir
  PROVE  TreeOK(Over(new, old))
<1> DEFINE tree == Over(new, old)
<1>1. /\ DOMAIN tree = DOMAIN new \cup DOMAIN old
      /\ \A x \in DOMAIN new : tree[x] = new[x]
      /\ \A x \in DOMAIN old \ DOMAIN new : tree[x] = old[x]
  BY DEF Over
<1> HIDE DEF tree
<1>2. IsFiniteSet(DOMAIN old) /\ DOMAIN old \subseteq Path \ {<<>>}
      /\ \A x \in DOMAIN old : old[x] = Dir \/ Cut \notin old[x]
  BY DEF TreeOK
<1>3. IsFiniteSet(DOMAIN tree)
  <2>1. IsFiniteSet(DOMAIN new \cup DOMAIN old)
    BY <1>2, FS_Union
  <2> QED BY <1>1, <2>1
<1>4. DOMAIN tree \subseteq Path \ {<<>>}
  BY <1>1, <1>2
<1>5. \A x \in DOMAIN tree : tree[x] = Dir \/ Cut \notin tree[x]
  BY <1>1, <1>2
<1>6. ASSUME NEW x \in DOMAIN tree, NEW y \in Path, y # <<>>, y # x, IsPrefix(y, x)
      PROVE  y \in DOMAIN tree /\ tree[y] = Dir
  <2>1. CASE x \in DOMAIN new
    BY <1>1, <1>6, <2>1
  <2>2. CASE x \notin DOMAIN new
    <3>1. x \in DOMAIN old
      BY <1>1, <2>2
    <3>2. y \in DOMAIN old /\ old[y] = Dir
      BY <3>1, <1>6, TreeAbove
    <3>3. y \in DOMAIN new => new[y] = Dir
      BY <3>1, <2>2, <1>6
    <3> QED BY <1>1, <3>2, <3>3
  <2> QED BY <2>1, <2>2
<1>7. TreeOK(tree)
  BY <1>3, <1>4, <1>5, <1>6, TreeFromAbove
<1> QED BY <1>7 DEF tree

\* A tree from which all that lies below some paths is taken away.
LEMMA TreeWithout ==
  ASSUME TreeOK(rrTree), NEW gone,
         \A x \in gone : \A y \in DOMAIN rrTree : IsPrefix(x, y) => y \in gone
  PROVE  TreeOK(Without(gone))
<1> DEFINE tree == Without(gone)
<1>1. DOMAIN tree = DOMAIN rrTree \ gone /\ \A x \in DOMAIN tree : tree[x] = rrTree[x]
  BY DEF Without
<1> HIDE DEF tree
<1>2. IsFiniteSet(DOMAIN rrTree) /\ DOMAIN rrTree \subseteq Path \ {<<>>}
      /\ \A x \in DOMAIN rrTree : rrTree[x] = Dir \/ Cut \notin rrTree[x]
  BY DEF TreeOK
<1>3. IsFiniteSet(DOMAIN tree)
  BY <1>1, <1>2, FS_Subset
<1>4. ASSUME NEW x \in DOMAIN tree, NEW y \in Path, y # <<>>, y # x, IsPrefix(y, x)
      PROVE  y \in DOMAIN tree /\ tree[y] = Dir
  <2>1. y \in DOMAIN rrTree /\ rrTree[y] = Dir
    BY <1>1, <1>4, TreeAbove
  <2>2. y \notin gone
    BY <1>1, <1>4
  <2> QED BY <1>1, <2>1, <2>2
<1>5. TreeOK(tree)
  BY <1>1, <1>2, <1>3, <1>4, TreeFromAbove
<1> QED BY <1>5 DEF tree

\* What Kind says of a path.
LEMMA KindDef ==
  ASSUME TreeOK(rrTree), NEW p
  PROVE  /\ Kind(p) \in {"dir", "file", "none"}
         /\ Kind(p) = "dir" <=> p = <<>> \/ (p \in DOMAIN rrTree /\ rrTree[p] = Dir)
         /\ Kind(p) = "file" <=> p \in DOMAIN rrTree /\ rrTree[p] # Dir
         /\ Kind(p) = "none" <=> p # <<>> /\ p \notin DOMAIN rrTree
BY DEF Kind, TreeOK

\* All that a directory lies below is a directory.
LEMMA AboveDir ==
  ASSUME TreeOK(rrTree), NEW x \in Path, Kind(x) = "dir", NEW y \in Path, IsPrefix(y, x)
  PROVE  Kind(y) = "dir"
<1>1. CASE x = <<>>
  BY <1>1, PrefixDef, PathLen, PrefixSameLength, KindDef
<1>2. CASE x # <<>> /\ y # <<>> /\ y # x
  BY <1>2, KindDef, TreeAbove
<1> QED BY <1>1, <1>2, KindDef

\* What a path lies below is itself, or lies above its directory.
LEMMA AboveFront ==
  ASSUME NEW x \in Path, NEW y \in Path, IsPrefix(y, x), y # x
  PROVE  IsPrefix(y, Front(x))
<1>1. Len(x) \in Nat /\ Len(y) \in Nat /\ Len(y) <= Len(x) /\ Len(y) # Len(x)
      /\ \A i \in 1..Len(y) : y[i] = x[i]
  BY PathLen, PrefixDef, PrefixSameLength
<1>2. Front(x) \in Path /\ Len(Front(x)) = Len(x) - 1
      /\ \A i \in 1..(Len(x) - 1) : Front(x)[i] = x[i]
  BY <1>1, FrontPath, PrefixPath
<1>3. \A i \in 1..Len(y) : y[i] = Front(x)[i]
  BY <1>1, <1>2
<1> QED BY <1>1, <1>2, <1>3, PrefixDef

\* A file that may be stored leaves a tree.
LEMMA FileStored ==
  ASSUME TreeOK(rrTree), NEW p \in Path, Storable(p),
         NEW content, content = Dir \/ Cut \notin content
  PROVE  TreeOK(WithFile(p, content))
<1> DEFINE new == [x \in {p} |-> content]
<1>1. DOMAIN new = {p} /\ new[p] = content
  OBVIOUS
<1> HIDE DEF new
<1>2. p # <<>> /\ Kind(Front(p)) = "dir" /\ (p \in DOMAIN rrTree => rrTree[p] # Dir)
  BY KindDef DEF Storable
<1>3. IsFiniteSet(DOMAIN new)
  BY <1>1, FS_Singleton
<1>4. ASSUME NEW y \in Path, y # <<>>, y # p, IsPrefix(y, p)
      PROVE  y \in DOMAIN rrTree /\ rrTree[y] = Dir
  <2>1. IsPrefix(y, Front(p)) /\ Front(p) \in Path
    BY <1>4, AboveFront, FrontPath
  <2>2. Kind(y) = "dir"
    BY <1>2, <2>1, AboveDir
  <2> QED BY <1>4, <2>2, KindDef
<1>5. ASSUME NEW x \in DOMAIN rrTree, x # p, IsPrefix(p, x)
      PROVE  FALSE
  BY <1>2, <1>5, TreeAbove
<1>6. TreeOK(Over(new, rrTree))
  BY <1>1, <1>2, <1>3, <1>4, <1>5, TreeOver
<1> QED BY <1>6 DEF WithFile, new

\* The directories above a path, itself among them.
LEMMA PrefixesOf ==
  ASSUME NEW p \in Path
  PROVE  /\ IsFiniteSet({SubSeq(p, 1, i) : i \in 1..Len(p)})
         /\ \A x : x \in {SubSeq(p, 1, i) : i \in 1..Len(p)} <=>
                   x \in Path /\ x # <<>> /\ IsPrefix(x, p)
<1> DEFINE X == {SubSeq(p, 1, i) : i \in 1..Len(p)}
           cut(i) == SubSeq(p, 1, i)
           F == [i \in 1..Len(p) |-> SubSeq(p, 1, i)]
<1>1. IsFiniteSet(1..Len(p))
  BY FS_Interval, PathLen, 1 \in Int
<1>2. F \in Surjection(1..Len(p), X)
  BY DEF Surjection
<1>3. IsFiniteSet(X)
  BY <1>1, <1>2, FS_Surjection
<1>4. ASSUME NEW i \in 1..Len(p)
      PROVE  SubSeq(p, 1, i) \in Path /\ SubSeq(p, 1, i) # <<>> /\ IsPrefix(SubSeq(p, 1, i), p)
  <2>1. i \in Nat /\ i >= 1 /\ i <= Len(p) /\ Len(p) \in Nat
    BY PathLen
  <2> DEFINE y == SubSeq(p, 1, i)
  <2>2. y \in Path /\ Len(y) = i /\ \A j \in 1..i : y[j] = p[j]
    BY <2>1, PrefixPath
  <2> HIDE DEF y
  <2>3. y # <<>> /\ IsPrefix(y, p)
    BY <2>1, <2>2, PathLen, PrefixDef
  <2> QED BY <2>2, <2>3 DEF y
<1>5. ASSUME NEW x \in Path, x # <<>>, IsPrefix(x, p)
      PROVE  x \in X
  <2>1. x = SubSeq(p, 1, Len(x)) /\ Len(x) \in 1..Len(p)
    BY <1>5, PrefixDef, PathLen
  <2> QED BY <2>1
<1> QED BY <1>3, <1>4, <1>5

\* A directory that can be made leaves a tree that lacks nothing.
LEMMA DirMade ==
  ASSUME TreeOK(rrTree), NEW p \in Path, CanMake(p)
  PROVE  /\ TreeOK(Makes(p))
         /\ DOMAIN rrTree \subseteq DOMAIN Makes(p)
         /\ \A x \in DOMAIN rrTree : Makes(p)[x] = rrTree[x]
<1>1. CASE rrProto # "sftp"
  <2>1. Makes(p) = WithFile(p, Dir) /\ Kind(p) = "none" /\ Storable(p)
    BY <1>1, KindDef DEF Makes, CanMake, Storable
  <2>2. p \notin DOMAIN rrTree
    BY <2>1, KindDef
  <2>3. TreeOK(WithFile(p, Dir))
    BY <2>1, FileStored
  <2>4. DOMAIN WithFile(p, Dir) = DOMAIN rrTree \cup {p}
        /\ \A x \in DOMAIN rrTree \ {p} : WithFile(p, Dir)[x] = rrTree[x]
    BY DEF WithFile, Over
  <2> QED BY <2>1, <2>2, <2>3, <2>4
<1>2. CASE rrProto = "sftp"
  <2> DEFINE X == {SubSeq(p, 1, i) : i \in 1..Len(p)}
             Y == {y \in X : Kind(y) = "none"}
             new == [x \in Y |-> Dir]
  <2>1. Makes(p) = Over(new, rrTree)
    BY <1>2 DEF Makes
  <2>2. IsFiniteSet(X) /\ \A x : x \in X <=> x \in Path /\ x # <<>> /\ IsPrefix(x, p)
    BY PrefixesOf
  <2>3. \A x \in X : Kind(x) # "file"
    BY <1>2 DEF CanMake
  <2>4. DOMAIN new = Y /\ \A x \in Y : new[x] = Dir
    OBVIOUS
  <2> HIDE DEF X, new
  <2>5. IsFiniteSet(Y)
    BY <2>2, FS_Subset
  <2>6. ASSUME NEW x \in Y, NEW y \in Path, y # <<>>, y # x, IsPrefix(y, x)
        PROVE  y \in Y \/ (y \in DOMAIN rrTree /\ rrTree[y] = Dir)
    <3>1. x \in Path /\ IsPrefix(x, p)
      BY <2>2
    <3>2. y \in X
      BY <2>2, <2>6, <3>1, PrefixTransitive
    <3> QED BY <2>3, <2>6, <3>2, KindDef
  <2>7. \A y \in Y : y \notin DOMAIN rrTree
    BY KindDef
  <2>8. Y \subseteq Path \ {<<>>}
    BY <2>2
  <2>9. TreeOK(Over(new, rrTree))
    BY <2>4, <2>5, <2>6, <2>7, <2>8, TreeOver
  <2>10. DOMAIN Over(new, rrTree) = DOMAIN new \cup DOMAIN rrTree
         /\ \A x \in DOMAIN rrTree \ DOMAIN new : Over(new, rrTree)[x] = rrTree[x]
    BY DEF Over
  <2> QED BY <2>1, <2>4, <2>7, <2>9, <2>10
<1> QED BY <1>1, <1>2

\* The path that x becomes when p is moved to q.
Moved(p, q, x) == q \o SubSeq(x, Len(p) + 1, Len(x))

LEMMA MovedPath ==
  ASSUME NEW p \in Path, NEW q \in Path, NEW x \in Path, IsPrefix(p, x)
  PROVE  /\ Moved(p, q, x) \in Path
         /\ Len(Moved(p, q, x)) = Len(q) + (Len(x) - Len(p))
         /\ \A i \in 1..Len(q) : Moved(p, q, x)[i] = q[i]
         /\ \A i \in 1..(Len(x) - Len(p)) : Moved(p, q, x)[Len(q) + i] = x[Len(p) + i]
         /\ IsPrefix(q, Moved(p, q, x))
<1>1. Len(p) \in Nat /\ Len(q) \in Nat /\ Len(x) \in Nat /\ Len(p) <= Len(x)
      /\ \A i \in 1..Len(x) : x[i] \in Segments
  BY PathLen, PrefixDef
<1> DEFINE t == SubSeq(x, Len(p) + 1, Len(x))
           n == Len(x) - Len(p)
           y == Moved(p, q, x)
<1>2. \A i \in (Len(p) + 1)..Len(x) : x[i] \in Segments
  BY <1>1
<1>3. Len(p) + 1 \in Int /\ Len(x) \in Int
  BY <1>1
<1>4. /\ t \in Seq(Segments)
      /\ Len(t) = IF Len(p) + 1 <= Len(x) THEN Len(x) - (Len(p) + 1) + 1 ELSE 0
      /\ \A i \in 1..(Len(x) - (Len(p) + 1) + 1) : t[i] = x[Len(p) + 1 + i - 1]
  BY <1>2, <1>3, SubSeqProperties
<1> HIDE DEF t
<1>5. /\ Len(t) = n /\ n \in Nat
      /\ \A i \in 1..n : t[i] = x[Len(p) + i]
  <2>1. Len(x) - (Len(p) + 1) + 1 = n /\ n \in Nat
    BY <1>1
  <2>2. \A i \in 1..n : Len(p) + 1 + i - 1 = Len(p) + i
    BY <1>1
  <2>3. Len(t) = n
    BY <1>1, <1>4
  <2> QED BY <1>4, <2>1, <2>2, <2>3
<1>6. q \in Seq(Segments)
  BY DEF Path
<1>7. /\ q \o t \in Seq(Segments) /\ Len(q \o t) = Len(q) + Len(t)
      /\ \A i \in 1..Len(q) + Len(t) : (q \o t)[i] = IF i <= Len(q) THEN q[i] ELSE t[i - Len(q)]
  BY <1>4, <1>6, ConcatProperties
<1>8. y = q \o t
  BY DEF Moved, t
<1> HIDE DEF y
<1>9. y \in Path /\ Len(y) = Len(q) + n
  BY <1>5, <1>7, <1>8 DEF Path
<1>10. \A i \in 1..Len(q) : y[i] = q[i]
  BY <1>1, <1>5, <1>7, <1>8
<1>11. ASSUME NEW i \in 1..n PROVE y[Len(q) + i] = x[Len(p) + i]
  <2>1. Len(q) + i \in 1..Len(q) + Len(t) /\ ~(Len(q) + i <= Len(q)) /\ Len(q) + i - Len(q) = i
    BY <1>1, <1>5
  <2> QED BY <1>5, <1>7, <1>8, <2>1
<1>12. IsPrefix(q, y)
  BY <1>1, <1>5, <1>9, <1>10, PrefixDef
<1> QED BY <1>9, <1>10, <1>11, <1>12 DEF y

\* Moving there and back leaves a path where it was.
LEMMA MovedBack ==
  ASSUME NEW p \in Path, NEW q \in Path, NEW x \in Path, IsPrefix(p, x)
  PROVE  Moved(q, p, Moved(p, q, x)) = x
<1> DEFINE y == Moved(p, q, x)
           z == Moved(q, p, y)
<1>1. Len(p) \in Nat /\ Len(q) \in Nat /\ Len(x) \in Nat /\ Len(p) <= Len(x)
      /\ \A i \in 1..Len(p) : p[i] = x[i]
  BY PathLen, PrefixDef
<1>2. /\ y \in Path /\ Len(y) = Len(q) + (Len(x) - Len(p)) /\ IsPrefix(q, y)
      /\ \A i \in 1..(Len(x) - Len(p)) : y[Len(q) + i] = x[Len(p) + i]
  BY MovedPath
<1> HIDE DEF y
<1>3. /\ z \in Path /\ Len(z) = Len(p) + (Len(y) - Len(q))
      /\ \A i \in 1..Len(p) : z[i] = p[i]
      /\ \A i \in 1..(Len(y) - Len(q)) : z[Len(p) + i] = y[Len(q) + i]
  BY <1>2, MovedPath
<1> HIDE DEF z
<1>4. Len(y) - Len(q) = Len(x) - Len(p) /\ Len(z) = Len(x)
  BY <1>1, <1>2, <1>3
<1>5. ASSUME NEW i \in 1..Len(z) PROVE z[i] = x[i]
  <2>1. CASE i <= Len(p)
    BY <1>1, <1>3, <1>4, <1>5, <2>1
  <2>2. CASE ~(i <= Len(p))
    <3>1. i - Len(p) \in 1..(Len(x) - Len(p)) /\ Len(p) + (i - Len(p)) = i
      BY <1>1, <1>4, <1>5, <2>2
    <3> QED BY <1>2, <1>3, <1>4, <3>1
  <2> QED BY <2>1, <2>2
<1>6. z = x
  BY <1>3, <1>4, <1>5, SamePaths
<1> QED BY <1>6 DEF y, z

\* All that lies below a path, and the tree without it.
BelowOf(p) == {c \in DOMAIN rrTree : IsPrefix(p, c)}

LEMMA BelowTakenAway ==
  ASSUME TreeOK(rrTree), NEW p \in Path
  PROVE  TreeOK(Without(BelowOf(p)))
<1>1. DOMAIN rrTree \subseteq Path
  BY DEF TreeOK
<1>2. \A x \in BelowOf(p) : \A y \in DOMAIN rrTree : IsPrefix(x, y) => y \in BelowOf(p)
  BY <1>1, PrefixTransitive DEF BelowOf
<1> QED BY <1>2, TreeWithout

\* What a move puts in its place.
MovedTree(p, q) ==
  [c \in {Moved(p, q, x) : x \in BelowOf(p)} |-> rrTree[Moved(q, p, c)]]

LEMMA MovedTreeAt ==
  ASSUME TreeOK(rrTree), NEW p \in Path, NEW q \in Path
  PROVE  /\ \A c \in DOMAIN MovedTree(p, q) :
              /\ c \in Path /\ IsPrefix(q, c)
              /\ Moved(q, p, c) \in BelowOf(p) /\ Moved(p, q, Moved(q, p, c)) = c
              /\ MovedTree(p, q)[c] = rrTree[Moved(q, p, c)]
         /\ \A x \in BelowOf(p) :
              Moved(p, q, x) \in DOMAIN MovedTree(p, q) /\ MovedTree(p, q)[Moved(p, q, x)] = rrTree[x]
         /\ IsFiniteSet(DOMAIN MovedTree(p, q))
<1> DEFINE X == BelowOf(p)
           C == {Moved(p, q, x) : x \in X}
           new == MovedTree(p, q)
<1>1. \A x \in X : x \in Path /\ IsPrefix(p, x) /\ x \in DOMAIN rrTree
  BY DEF BelowOf, TreeOK
<1>2. DOMAIN new = C /\ \A c \in C : new[c] = rrTree[Moved(q, p, c)]
  BY DEF MovedTree
<1> HIDE DEF new
<1>3. \A x \in X : Moved(p, q, x) \in Path /\ IsPrefix(q, Moved(p, q, x))
                   /\ Moved(q, p, Moved(p, q, x)) = x
  BY <1>1, MovedPath, MovedBack
<1>4. IsFiniteSet(X)
  BY FS_Subset DEF BelowOf, TreeOK
<1> HIDE DEF X
<1>5. IsFiniteSet(C)
  <2> DEFINE F == [x \in X |-> Moved(p, q, x)]
  <2>1. F \in Surjection(X, C)
    BY DEF Surjection
  <2> QED BY <1>4, <2>1, FS_Surjection
<1>6. \A c \in C : c \in Path /\ IsPrefix(q, c) /\ Moved(q, p, c) \in X
                   /\ Moved(p, q, Moved(q, p, c)) = c
  BY <1>3
<1>7. \A x \in X : Moved(p, q, x) \in C /\ new[Moved(p, q, x)] = rrTree[x]
  BY <1>2, <1>3
<1> QED BY <1>2, <1>5, <1>6, <1>7 DEF new, X

\* What lies above a moved path lies above its new place, or is a moved one itself.
LEMMA AboveMoved ==
  ASSUME NEW p \in Path, NEW q \in Path, NEW x \in Path, IsPrefix(p, x),
         NEW y \in Path, IsPrefix(y, Moved(p, q, x)), Len(q) <= Len(y)
  PROVE  /\ IsPrefix(q, y) /\ IsPrefix(p, Moved(q, p, y)) /\ Moved(q, p, y) \in Path
         /\ IsPrefix(Moved(q, p, y), x) /\ Moved(p, q, Moved(q, p, y)) = y
<1> DEFINE c == Moved(p, q, x)
           u == Moved(q, p, y)
<1>1. /\ c \in Path /\ Len(c) = Len(q) + (Len(x) - Len(p)) /\ IsPrefix(q, c)
      /\ \A i \in 1..(Len(x) - Len(p)) : c[Len(q) + i] = x[Len(p) + i]
  BY MovedPath
<1> HIDE DEF c
<1>2. /\ Len(p) \in Nat /\ Len(q) \in Nat /\ Len(x) \in Nat /\ Len(y) \in Nat
      /\ Len(p) <= Len(x) /\ \A i \in 1..Len(p) : p[i] = x[i]
      /\ Len(y) <= Len(c) /\ \A i \in 1..Len(y) : y[i] = c[i]
  BY <1>1, PathLen, PrefixDef DEF c
<1>3. IsPrefix(q, y)
  BY <1>1, PrefixesNest DEF c
<1>4. /\ u \in Path /\ Len(u) = Len(p) + (Len(y) - Len(q)) /\ IsPrefix(p, u)
      /\ \A i \in 1..Len(p) : u[i] = p[i]
      /\ \A i \in 1..(Len(y) - Len(q)) : u[Len(p) + i] = y[Len(q) + i]
  <2>1. u \in Path /\ Len(u) = Len(p) + (Len(y) - Len(q)) /\ IsPrefix(p, u)
    BY <1>3, MovedPath
  <2>2. \A i \in 1..Len(p) : u[i] = p[i]
    BY <1>3, MovedPath
  <2>3. \A i \in 1..(Len(y) - Len(q)) : u[Len(p) + i] = y[Len(q) + i]
    BY <1>3, MovedPath
  <2> QED BY <2>1, <2>2, <2>3
<1>5. Moved(p, q, u) = y
  BY <1>3, MovedBack
<1> HIDE DEF u
<1>6. Len(u) <= Len(x) /\ Len(u) \in Nat
  BY <1>1, <1>2, <1>4
<1>7. ASSUME NEW i \in 1..Len(u) PROVE u[i] = x[i]
  <2>1. CASE i <= Len(p)
    BY <1>2, <1>4, <1>7, <2>1
  <2>2. CASE ~(i <= Len(p))
    <3> DEFINE k == i - Len(p)
    <3>1. k \in 1..(Len(y) - Len(q)) /\ k \in 1..(Len(x) - Len(p)) /\ Len(p) + k = i
          /\ Len(q) + k \in 1..Len(y)
      BY <1>1, <1>2, <1>4, <1>7, <2>2
    <3> HIDE DEF k
    <3>2. u[i] = y[Len(q) + k] /\ y[Len(q) + k] = c[Len(q) + k] /\ c[Len(q) + k] = x[i]
      BY <1>1, <1>2, <1>4, <3>1
    <3> QED BY <3>2
  <2> QED BY <2>1, <2>2
<1>8. IsPrefix(u, x)
  BY <1>4, <1>6, <1>7, PrefixDef
<1> QED BY <1>3, <1>4, <1>5, <1>8 DEF u

\* A file or directory that is moved to where nothing is, and not into itself, leaves a tree.
LEMMA TreeMoved ==
  ASSUME TreeOK(rrTree), NEW p \in Path, NEW q \in Path, ~IsPrefix(p, q),
         Kind(p) # "none", Kind(q) = "none", Kind(Front(q)) = "dir"
  PROVE  TreeOK(Over(MovedTree(p, q), Without(BelowOf(p))))
<1> DEFINE old == Without(BelowOf(p))
           new == MovedTree(p, q)
<1>1. TreeOK(old)
  BY BelowTakenAway
<1>2. DOMAIN old = DOMAIN rrTree \ BelowOf(p) /\ \A x \in DOMAIN old : old[x] = rrTree[x]
  BY DEF Without
<1>3. /\ \A c \in DOMAIN new :
           /\ c \in Path /\ IsPrefix(q, c)
           /\ Moved(q, p, c) \in BelowOf(p) /\ Moved(p, q, Moved(q, p, c)) = c
           /\ new[c] = rrTree[Moved(q, p, c)]
      /\ \A x \in BelowOf(p) : Moved(p, q, x) \in DOMAIN new /\ new[Moved(p, q, x)] = rrTree[x]
      /\ IsFiniteSet(DOMAIN new)
  BY MovedTreeAt
<1> HIDE DEF old, new
<1>4. q # <<>> /\ q \notin DOMAIN rrTree /\ Len(q) >= 1 /\ Len(q) \in Nat
  BY KindDef, PathLen
<1>5. \A x \in BelowOf(p) : x \in DOMAIN rrTree /\ x \in Path /\ x # <<>> /\ IsPrefix(p, x)
  BY DEF BelowOf, TreeOK
<1>6. \A c \in DOMAIN new : new[c] = Dir \/ Cut \notin new[c]
  BY <1>3, <1>5 DEF TreeOK
<1>7. DOMAIN new \subseteq Path \ {<<>>}
  BY <1>3, <1>4, PathLen, PrefixDef
<1>8. ASSUME NEW c \in DOMAIN new, NEW y \in Path, y # <<>>, y # c, IsPrefix(y, c)
      PROVE  \/ y \in DOMAIN new /\ new[y] = Dir
             \/ y \notin DOMAIN new /\ y \in DOMAIN old /\ old[y] = Dir
  <2>0. Len(y) \in Nat
    BY PathLen
  <2>1. CASE Len(q) <= Len(y)
    <3> DEFINE x == Moved(q, p, c)
               u == Moved(q, p, y)
    <3>1. x \in BelowOf(p) /\ Moved(p, q, x) = c
      BY <1>3
    <3>2. x \in Path /\ IsPrefix(p, x) /\ x \in DOMAIN rrTree
      BY <1>5, <3>1
    <3> HIDE DEF x
    <3>3. /\ IsPrefix(p, u) /\ u \in Path
          /\ IsPrefix(u, x) /\ Moved(p, q, u) = y
      BY <1>8, <2>1, <3>1, <3>2, AboveMoved
    <3> HIDE DEF u
    <3>4. u # x
      BY <1>8, <3>1, <3>3
    <3>5. p # <<>>
      BY PrefixDef, PathLen
    <3>6. u # <<>>
      BY <3>3, <3>5, PrefixDef, PathLen
    <3>7. u \in DOMAIN rrTree /\ rrTree[u] = Dir
      BY <3>2, <3>3, <3>4, <3>6, TreeAbove
    <3>8. u \in BelowOf(p)
      BY <3>3, <3>7 DEF BelowOf
    <3> QED BY <1>3, <3>3, <3>7, <3>8
  <2>2. CASE ~(Len(q) <= Len(y))
    <3>1. IsPrefix(q, c) /\ c \in Path
      BY <1>3
    <3>2. IsPrefix(y, q)
      BY <1>4, <1>8, <2>0, <2>2, <3>1, PrefixesNest
    <3>3. y # q
      BY <1>4, <2>0, <2>2
    <3>4. IsPrefix(y, Front(q)) /\ Front(q) \in Path
      BY <3>2, <3>3, AboveFront, FrontPath
    <3>5. y \in DOMAIN rrTree /\ rrTree[y] = Dir
      BY <1>8, <3>4, AboveDir, KindDef
    <3>6. y \notin BelowOf(p)
      BY <3>2, PrefixTransitive DEF BelowOf
    <3>7. y \notin DOMAIN new
      BY <1>3, <1>4, <2>0, <2>2, PrefixDef
    <3> QED BY <1>2, <3>5, <3>6, <3>7
  <2> QED BY <2>1, <2>2
<1>9. ASSUME NEW x \in DOMAIN old \ DOMAIN new, NEW y \in DOMAIN new, y # x, IsPrefix(y, x)
      PROVE  new[y] = Dir
  <2>1. x \in DOMAIN rrTree /\ x \in Path /\ y \in Path /\ IsPrefix(q, y)
    BY <1>2, <1>3 DEF TreeOK
  <2>2. IsPrefix(q, x)
    BY <1>9, <2>1, PrefixTransitive
  <2>3. q # x
    BY <1>4, <2>1
  <2>4. q \in DOMAIN rrTree
    BY <1>4, <2>1, <2>2, <2>3, TreeAbove
  <2> QED BY <1>4, <2>4
<1>10. TreeOK(Over(new, old))
  BY <1>1, <1>3, <1>6, <1>7, <1>8, <1>9, TreeOver
<1> QED BY <1>10 DEF new, old

-----------------------------------------------------------------------------
(* Errors.                                                                 *)

\* What a call that fails may fail with.
LEMMA FaultsKnown ==
  ASSUME NEW isTransfer, NEW x \in FaultOf(isTransfer)
  PROVE  /\ DOMAIN x = {"err", "data", "lost"} /\ x.lost \in BOOLEAN
         /\ "ErrConnectionLost" \notin x.err.is /\ x.err.deep \subseteq x.err.says
         /\ {"421", "fx connection lost"} \cap x.err.is # {} => x.lost
         /\ Live => rrFaults < MaxFaults
         /\ ~Live => x.lost
<1>1. CASE Live
  <2>1. x \in Faults /\ rrFaults < MaxFaults
    BY <1>1 DEF FaultOf
  <2> QED BY <1>1, <2>1, FaultAssumption
<1>2. CASE ~Live
  <2>1. x = [err |-> Raw({"ErrClosed"}, {}), data |-> FALSE, lost |-> TRUE]
    BY <1>2 DEF FaultOf
  <2>2. DOMAIN x = {"err", "data", "lost"} /\ x.lost = TRUE /\ x.err = Raw({"ErrClosed"}, {})
    BY <2>1
  <2>3. x.err.is = {"ErrClosed"} /\ x.err.deep = {} /\ x.err.says = {}
    BY <2>2 DEF Raw
  <2> QED BY <1>2, <2>2, <2>3
<1> QED BY <1>1, <1>2

\* The names the adapters put before an error, but for that of a lost connection.
OtherSentinels ==
  {"ErrNotFound", "ErrPermissionDenied", "ErrFileExists", "ErrQuotaExceeded", "ErrDirNotEmpty",
   "ErrDataConnectionFailed", "ErrAuthFailed", "ErrInvalidType", "ErrConnectionTimeout",
   "ErrPermissionsNotSupported", "ErrTransferIncomplete"}

\* Said before an error, these make no lost connection of it.
LEMMA WrapLost ==
  ASSUME NEW s \in OtherSentinels, NEW e, IsConnLost(Wrap(s, e))
  PROVE  "ErrConnectionLost" \in e.is \/ SoundsLost(e)
<1>1. Wrap(s, e).is = e.is \cup {s} /\ Wrap(s, e).deep = Says(s) \cup e.says
  BY DEF Wrap
<1>2. Says(s) \cap LostPhrases = {}
  BY DEF Says, LostPhrases, OtherSentinels
<1>3. s \notin {"ErrConnectionLost"} \cup SocketLoss
  BY DEF SocketLoss, OtherSentinels
<1>4. CASE Wrap(s, e).is \cap ({"ErrConnectionLost"} \cup SocketLoss) # {}
  BY <1>1, <1>3, <1>4 DEF SoundsLost, IsSocketLoss
<1>5. CASE Wrap(s, e).deep \cap LostPhrases # {}
  BY <1>1, <1>2, <1>5 DEF SoundsLost
<1> QED BY <1>4, <1>5 DEF IsConnLost

LEMMA RawLost ==
  ASSUME NEW e, e.deep \subseteq e.says, IsConnLost(e)
  PROVE  "ErrConnectionLost" \in e.is \/ SoundsLost(e)
BY DEF IsConnLost, SoundsLost, IsSocketLoss

\* An adapted error is itself, a lost connection, or named otherwise.
LEMMA FtpWrapped ==
  ASSUME NEW e
  PROVE  \/ FtpWrapErr(e) = e
         \/ FtpWrapErr(e) = Wrap("ErrConnectionLost", e) /\ ("421" \in e.is \/ IsSocketLoss(e))
         \/ \E s \in OtherSentinels : FtpWrapErr(e) = Wrap(s, e)
<1>1. Wrap550(e) = e \/ \E s \in OtherSentinels : Wrap550(e) = Wrap(s, e)
  BY DEF Wrap550, OtherSentinels
<1>2. \/ FtpReply(e) = e
      \/ FtpReply(e) = Wrap("ErrConnectionLost", e) /\ "421" \in e.is
      \/ \E s \in OtherSentinels : FtpReply(e) = Wrap(s, e)
  BY <1>1 DEF FtpReply, OtherSentinels
<1> QED BY <1>2 DEF FtpWrapErr, OtherSentinels

LEMMA SftpWrapped ==
  ASSUME NEW e
  PROVE  \/ SftpWrapErr(e) = e
         \/ SftpWrapErr(e) = Wrap("ErrConnectionLost", e)
              /\ ("fx connection lost" \in e.is \/ IsSocketLoss(e))
         \/ \E s \in OtherSentinels : SftpWrapErr(e) = Wrap(s, e)
BY DEF SftpWrapErr, OtherSentinels

\* An adapted error means a lost connection only if the connection is, or it sounds so.
LEMMA AdaptedLost ==
  ASSUME NEW e, NEW lost, "ErrConnectionLost" \notin e.is, e.deep \subseteq e.says,
         {"421", "fx connection lost"} \cap e.is # {} => lost,
         IsConnLost(Adapted(e))
  PROVE  lost \/ SoundsLost(e)
<1>1. \/ Adapted(e) = e
      \/ Adapted(e) = Wrap("ErrConnectionLost", e)
           /\ ({"421", "fx connection lost"} \cap e.is # {} \/ IsSocketLoss(e))
      \/ \E s \in OtherSentinels : Adapted(e) = Wrap(s, e)
  BY FtpWrapped, SftpWrapped DEF Adapted
<1>2. CASE Adapted(e) = e
  BY <1>2, RawLost
<1>3. CASE {"421", "fx connection lost"} \cap e.is # {} \/ IsSocketLoss(e)
  BY <1>3 DEF SoundsLost
<1>4. CASE \E s \in OtherSentinels : Adapted(e) = Wrap(s, e)
  <2>1. PICK s \in OtherSentinels : Adapted(e) = Wrap(s, e)
    BY <1>4
  <2> QED BY <2>1, WrapLost
<1> QED BY <1>1, <1>2, <1>3, <1>4

LEMMA IncompleteLost ==
  ASSUME NEW e, "ErrConnectionLost" \notin e.is, IsConnLost(Incomplete(e))
  PROVE  SoundsLost(e)
<1>1. "ErrTransferIncomplete" \in OtherSentinels
  BY DEF OtherSentinels
<1> QED BY <1>1, WrapLost DEF Incomplete

\* What an adapted error says and is, for the one that is wrapped once more.
LEMMA WrappedTwice ==
  ASSUME NEW e, "ErrConnectionLost" \notin e.is, e.deep \subseteq e.says,
         NEW v, v = Wrap("ErrTransferIncomplete", e) \/ \E s \in OtherSentinels :
                      v = Wrap("ErrTransferIncomplete", Wrap(s, e)),
         IsConnLost(v)
  PROVE  SoundsLost(e)
<1>1. "ErrTransferIncomplete" \in OtherSentinels /\ "ErrConnectionLost" \notin OtherSentinels
  BY DEF OtherSentinels
<1>2. CASE v = Wrap("ErrTransferIncomplete", e)
  BY <1>1, <1>2, WrapLost
<1>3. CASE \E s \in OtherSentinels : v = Wrap("ErrTransferIncomplete", Wrap(s, e))
  <2>1. PICK s \in OtherSentinels : v = Wrap("ErrTransferIncomplete", Wrap(s, e))
    BY <1>3
  <2>2. "ErrConnectionLost" \in Wrap(s, e).is \/ SoundsLost(Wrap(s, e))
    BY <1>1, <2>1, WrapLost
  <2>3. Wrap(s, e).is = e.is \cup {s} /\ Wrap(s, e).says = Says(s) \cup e.says
    BY DEF Wrap
  <2>4. Says(s) \cap LostPhrases = {} /\ s \notin SocketLoss
    BY DEF Says, LostPhrases, OtherSentinels, SocketLoss
  <2>5. s # "ErrConnectionLost"
    BY <1>1
  <2>6. ~SoundsLost(Wrap(s, e)) \/ SoundsLost(e)
    BY <2>3, <2>4 DEF SoundsLost, IsSocketLoss
  <2> QED BY <2>2, <2>3, <2>5, <2>6
<1> QED BY <1>2, <1>3

LEMMA UploadLost ==
  ASSUME NEW e, NEW lost, NEW opened \in BOOLEAN, "ErrConnectionLost" \notin e.is, e.deep \subseteq e.says,
         {"421", "fx connection lost"} \cap e.is # {} => lost,
         IsConnLost(AdaptedUpload(e, opened))
  PROVE  lost \/ SoundsLost(e)
<1> DEFINE a == Adapted(e)
           v == AdaptedUpload(e, opened)
<1>1. v = a \/ v = Wrap("ErrTransferIncomplete", a)
  BY DEF AdaptedUpload, Adapted, Incomplete, FtpUploadErr
<1>2. \/ a = e
      \/ {"421", "fx connection lost"} \cap e.is # {} \/ IsSocketLoss(e)
      \/ \E s \in OtherSentinels : a = Wrap(s, e)
  BY FtpWrapped, SftpWrapped DEF Adapted
<1> HIDE DEF v
<1>3. CASE v = a
  BY <1>3, AdaptedLost DEF v
<1>4. CASE v = Wrap("ErrTransferIncomplete", a)
  <2> HIDE DEF a
  <2>1. CASE {"421", "fx connection lost"} \cap e.is # {} \/ IsSocketLoss(e)
    BY <2>1 DEF SoundsLost
  <2>2. CASE a = e \/ \E s \in OtherSentinels : a = Wrap(s, e)
    <3>1. v = Wrap("ErrTransferIncomplete", e)
          \/ \E s \in OtherSentinels : v = Wrap("ErrTransferIncomplete", Wrap(s, e))
      BY <1>4, <2>2
    <3>2. IsConnLost(v)
      BY DEF v
    <3> QED BY <3>1, <3>2, WrappedTwice
  <2> QED BY <1>2, <2>1, <2>2
<1> QED BY <1>1, <1>3, <1>4

\* The errors of the handlers' own calls are no lost connections.
LEMMA OwnErrors ==
  /\ ~IsConnLost(NotFound) /\ ~IsConnLost(PlainError)
  /\ ~IsConnLost(Wrap("ErrPermissionsNotSupported", PlainError))
  /\ ~IsConnLost(Incomplete(PlainError))
  /\ \A opened \in BOOLEAN : ~IsConnLost(AdaptedUpload(Raw({"553"}, {}), opened))
<1>1. /\ PlainError.is = {} /\ PlainError.says = {} /\ PlainError.deep = {}
  BY DEF PlainError, Raw
<1>2. ~SoundsLost(PlainError)
  BY <1>1 DEF SoundsLost, IsSocketLoss
<1>3. ~IsConnLost(PlainError)
  BY <1>1, <1>2, RawLost
<1>4. "ErrPermissionsNotSupported" \in OtherSentinels /\ "ErrNotFound" \in OtherSentinels
  BY DEF OtherSentinels
<1>5. ~IsConnLost(Wrap("ErrPermissionsNotSupported", PlainError))
  BY <1>1, <1>2, <1>4, WrapLost
<1>6. ~IsConnLost(Incomplete(PlainError))
  BY <1>1, <1>2, IncompleteLost
<1>7. ~IsConnLost(NotFound)
  <2> DEFINE e == Raw({"550"}, {"no such file"})
  <2>1. e.is = {"550"} /\ e.says = {"no such file"}
    BY DEF Raw
  <2> HIDE DEF e
  <2>2. ~SoundsLost(e) /\ "ErrConnectionLost" \notin e.is
    BY <2>1 DEF SoundsLost, IsSocketLoss, SocketLoss, LostPhrases
  <2> QED BY <1>4, <2>2, WrapLost DEF NotFound, e
<1>8. ASSUME NEW opened \in BOOLEAN PROVE ~IsConnLost(AdaptedUpload(Raw({"553"}, {}), opened))
  <2> DEFINE e == Raw({"553"}, {})
  <2>1. e.is = {"553"} /\ e.says = {} /\ e.deep = {}
    BY DEF Raw
  <2> HIDE DEF e
  <2>2. ~SoundsLost(e) /\ "ErrConnectionLost" \notin e.is /\ e.deep \subseteq e.says
        /\ ({"421", "fx connection lost"} \cap e.is # {} => FALSE)
    BY <2>1 DEF SoundsLost, IsSocketLoss, SocketLoss, LostPhrases
  <2>3. ~IsConnLost(AdaptedUpload(e, opened))
    BY <2>2, UploadLost
  <2> QED BY <2>3 DEF e
<1> QED BY <1>3, <1>5, <1>6, <1>7, <1>8

\* A broken archive is told whatever the adapter makes of it.
LEMMA ArchiveTold ==
  /\ "errArchive" \in CorruptPayload.is
  /\ \A opened \in BOOLEAN : "errArchive" \in AdaptedUpload(CorruptPayload, opened).is
<1>1. "errArchive" \in CorruptPayload.is
  BY DEF CorruptPayload, Raw
<1>2. \A s, e : e.is \subseteq Wrap(s, e).is
  BY DEF Wrap
<1> DEFINE e == CorruptPayload
<1>3. e.is \subseteq FtpWrapErr(e).is /\ e.is \subseteq SftpWrapErr(e).is
  <2>1. FtpWrapErr(e) = e \/ \E s : FtpWrapErr(e) = Wrap(s, e)
    BY FtpWrapped
  <2>2. SftpWrapErr(e) = e \/ \E s : SftpWrapErr(e) = Wrap(s, e)
    BY SftpWrapped
  <2> QED BY <1>2, <2>1, <2>2
<1> HIDE DEF e
<1>4. ASSUME NEW opened \in BOOLEAN PROVE e.is \subseteq AdaptedUpload(e, opened).is
  <2>1. e.is \subseteq Adapted(e).is
    BY <1>3 DEF Adapted
  <2>2. \/ AdaptedUpload(e, opened) = Adapted(e)
        \/ AdaptedUpload(e, opened) = Wrap("ErrTransferIncomplete", Adapted(e))
    BY DEF AdaptedUpload, Adapted, Incomplete, FtpUploadErr
  <2> QED BY <1>2, <2>1, <2>2
<1> QED BY <1>1, <1>4 DEF e

\* No code of an error says that all is well.
LEMMA CodeTold ==
  ASSUME NEW w, NEW e
  PROVE  Code(w, e) # "ok"
<1>1. ClassifyText(e) # "ok"
  BY DEF ClassifyText
<1>2. ClassifyCode(e) # "ok"
  BY <1>1 DEF ClassifyCode
<1> QED BY <1>2 DEF Code, FailCode

-----------------------------------------------------------------------------
(* Lists of tasks.                                                         *)

IsWork(s) == s \in Seq(Range(s))

LEMMA WorkDomain ==
  ASSUME NEW s, IsWork(s)
  PROVE  /\ Len(s) \in Nat /\ DOMAIN s = 1..Len(s)
         /\ \A i \in DOMAIN s : s[i] \in Range(s)
         /\ \A t \in Range(s) : \E i \in DOMAIN s : s[i] = t
<1>1. Len(s) \in Nat /\ DOMAIN s = 1..Len(s)
  BY LenProperties DEF IsWork
<1> QED BY <1>1 DEF Range

LEMMA WorkOver ==
  ASSUME NEW S, NEW s \in Seq(S)
  PROVE  IsWork(s) /\ Range(s) \subseteq S
BY SeqOfRange, RangeOfSeq DEF IsWork

LEMMA WorkSplit ==
  ASSUME NEW s, IsWork(s), s # <<>>
  PROVE  /\ Head(s) = s[1] /\ 1 \in DOMAIN s /\ IsWork(Tail(s))
         /\ Len(Tail(s)) = Len(s) - 1 /\ \A i \in 1..(Len(s) - 1) : Tail(s)[i] = s[i + 1]
         /\ Range(s) = {Head(s)} \cup Range(Tail(s))
<1> DEFINE t == Tail(s)
<1>1. /\ t \in Seq(Range(s)) /\ Len(t) = Len(s) - 1
      /\ \A i \in 1..Len(t) : t[i] = s[i + 1]
  BY HeadTailProperties DEF IsWork
<1>2. Len(s) \in Nat /\ DOMAIN s = 1..Len(s) /\ Len(s) >= 1
  BY WorkDomain, EmptySeq DEF IsWork
<1>3. Head(s) = s[1]
  BY <1>2 DEF IsWork
<1> HIDE DEF t
<1>4. IsWork(t) /\ Range(t) \subseteq Range(s)
  BY <1>1, WorkOver
<1>5. DOMAIN t = 1..Len(t) /\ \A i \in DOMAIN t : t[i] \in Range(t)
  BY <1>4, WorkDomain
<1>6. ASSUME NEW x \in Range(s), x # s[1] PROVE x \in Range(t)
  <2>1. PICK i \in DOMAIN s : s[i] = x
    BY WorkDomain
  <2>2. i - 1 \in 1..Len(t) /\ (i - 1) + 1 = i
    BY <1>1, <1>2, <1>6, <2>1
  <2>3. t[i - 1] = x
    BY <1>1, <2>1, <2>2
  <2> QED BY <1>5, <2>2, <2>3
<1>7. s[1] \in Range(s)
  BY <1>2, WorkDomain
<1>8. Range(s) = {s[1]} \cup Range(t)
  BY <1>4, <1>6, <1>7
<1> QED BY <1>1, <1>2, <1>3, <1>4, <1>8 DEF t

LEMMA WorkJoined ==
  ASSUME NEW s, IsWork(s), NEW t, IsWork(t)
  PROVE  /\ IsWork(s \o t) /\ Range(s \o t) = Range(s) \cup Range(t)
         /\ Len(s \o t) = Len(s) + Len(t)
         /\ \A i \in 1..Len(s) + Len(t) : (s \o t)[i] = IF i <= Len(s) THEN s[i] ELSE t[i - Len(s)]
<1> DEFINE S == Range(s) \cup Range(t)
<1>1. s \in Seq(S) /\ t \in Seq(S)
  BY SeqMonotonic DEF IsWork
<1> HIDE DEF S
<1>2. /\ s \o t \in Seq(S) /\ Len(s \o t) = Len(s) + Len(t)
      /\ \A i \in 1..Len(s) + Len(t) : (s \o t)[i] = IF i <= Len(s) THEN s[i] ELSE t[i - Len(s)]
  BY <1>1, ConcatProperties
<1>3. Range(s \o t) = Range(s) \cup Range(t)
  BY <1>1, RangeConcatenation
<1>4. IsWork(s \o t)
  BY <1>2, WorkOver
<1> QED BY <1>2, <1>3, <1>4

LEMMA PairedTail ==
  ASSUME NEW s, IsWork(s), s # <<>>, Paired(s)
  PROVE  Paired(Tail(s))
<1> DEFINE t == Tail(s)
<1>1. /\ IsWork(t) /\ Len(t) = Len(s) - 1 /\ \A i \in 1..(Len(s) - 1) : t[i] = s[i + 1]
      /\ Len(s) \in Nat /\ DOMAIN s = 1..Len(s)
  BY WorkSplit, WorkDomain
<1> HIDE DEF t
<1>2. DOMAIN t = 1..Len(t)
  BY <1>1, WorkDomain
<1>3. ASSUME NEW i \in DOMAIN t, t[i].do = "get"
      PROVE  i + 1 \in DOMAIN t /\ t[i + 1].do = "close" /\ t[i + 1].p = t[i].p
  <2>1. i + 1 \in DOMAIN s /\ t[i] = s[i + 1] /\ i \in Nat /\ i >= 1
    BY <1>1, <1>2
  <2>2. (i + 1) + 1 \in DOMAIN s /\ s[(i + 1) + 1].do = "close" /\ s[(i + 1) + 1].p = s[i + 1].p
    BY <1>3, <2>1 DEF Paired
  <2>3. i + 1 \in 1..(Len(s) - 1)
    BY <1>1, <2>1, <2>2
  <2>4. t[i + 1] = s[(i + 1) + 1]
    BY <1>1, <2>3
  <2> QED BY <1>1, <1>2, <2>1, <2>2, <2>3, <2>4
<1>4. Paired(t)
  BY <1>3 DEF Paired
<1> QED BY <1>4 DEF t

LEMMA PairedJoined ==
  ASSUME NEW s, IsWork(s), Paired(s), NEW t, IsWork(t), Paired(t)
  PROVE  Paired(s \o t)
<1> DEFINE u == s \o t
<1>1. /\ IsWork(u) /\ Len(u) = Len(s) + Len(t)
      /\ \A i \in 1..Len(s) + Len(t) : u[i] = IF i <= Len(s) THEN s[i] ELSE t[i - Len(s)]
  BY WorkJoined
<1> HIDE DEF u
<1>2. /\ Len(s) \in Nat /\ Len(t) \in Nat /\ DOMAIN s = 1..Len(s) /\ DOMAIN t = 1..Len(t)
      /\ DOMAIN u = 1..Len(u)
  BY <1>1, WorkDomain
<1>3. ASSUME NEW i \in DOMAIN u, u[i].do = "get"
      PROVE  i + 1 \in DOMAIN u /\ u[i + 1].do = "close" /\ u[i + 1].p = u[i].p
  <2>1. i \in Nat /\ i >= 1 /\ i <= Len(s) + Len(t) /\ i \in 1..Len(s) + Len(t)
    BY <1>1, <1>2
  <2>2. CASE i <= Len(s)
    <3>1. u[i] = s[i] /\ i \in DOMAIN s
      BY <1>1, <1>2, <2>1, <2>2
    <3>2. i + 1 \in DOMAIN s /\ s[i + 1].do = "close" /\ s[i + 1].p = s[i].p
      BY <1>3, <3>1 DEF Paired
    <3>3. i + 1 \in 1..Len(s) + Len(t) /\ i + 1 <= Len(s)
      BY <1>2, <2>1, <3>2
    <3>4. u[i + 1] = s[i + 1]
      BY <1>1, <3>3
    <3> QED BY <1>1, <1>2, <3>1, <3>2, <3>3, <3>4
  <2>3. CASE ~(i <= Len(s))
    <3> DEFINE k == i - Len(s)
    <3>1. u[i] = t[k] /\ k \in DOMAIN t
      BY <1>1, <1>2, <2>1, <2>3
    <3>2. k + 1 \in DOMAIN t /\ t[k + 1].do = "close" /\ t[k + 1].p = t[k].p
      BY <1>3, <3>1 DEF Paired
    <3>3. i + 1 \in 1..Len(s) + Len(t) /\ ~(i + 1 <= Len(s)) /\ i + 1 - Len(s) = k + 1
      BY <1>2, <2>1, <2>3, <3>2
    <3>4. u[i + 1] = t[k + 1]
      BY <1>1, <3>3
    <3> QED BY <1>1, <1>2, <3>1, <3>2, <3>3, <3>4
  <2> QED BY <2>2, <2>3
<1>4. Paired(u)
  BY <1>3 DEF Paired
<1> QED BY <1>4 DEF u

LEMMA PairedNone ==
  ASSUME NEW s, IsWork(s), \A t \in Range(s) : t.do # "get"
  PROVE  Paired(s)
BY WorkDomain DEF Paired

\* The rest of the items, after the tasks of the one that failed.
LEMMA WorkNextItems ==
  ASSUME NEW s, IsWork(s)
  PROVE  IsWork(NextItems(s)) /\ Range(NextItems(s)) \subseteq Range(s)
<1> DEFINE I == {i \in DOMAIN s : s[i].do = "item"}
           m == Len(s) + 1 - Cardinality(I)
<1>1. Len(s) \in Nat /\ DOMAIN s = 1..Len(s) /\ \A i \in DOMAIN s : s[i] \in Range(s)
  BY WorkDomain
<1>2. IsFiniteSet(1..Len(s)) /\ Cardinality(1..Len(s)) = Len(s)
  BY <1>1, FS_Interval, 1 \in Int
<1>3. I \subseteq 1..Len(s)
  BY <1>1
<1> HIDE DEF I
<1>4. Cardinality(I) \in Nat /\ Cardinality(I) <= Len(s)
  BY <1>2, <1>3, FS_Subset, FS_CardinalityType
<1>5. m \in Int /\ m >= 1 /\ Len(s) \in Int
  BY <1>1, <1>4
<1>6. NextItems(s) = SubSeq(s, m, Len(s))
  BY DEF NextItems, I
<1> HIDE DEF m
<1>7. \A i \in m..Len(s) : s[i] \in Range(s)
  BY <1>1, <1>5
<1>8. SubSeq(s, m, Len(s)) \in Seq(Range(s))
  BY <1>5, <1>7, SubSeqProperties
<1> QED BY <1>6, <1>8, WorkOver

\* Short lists.
LEMMA WorkOfNone == IsWork(<<>>) /\ Range(<<>>) = {} /\ Paired(<<>>)
<1>1. DOMAIN <<>> = {} /\ <<>> \in Seq({})
  BY EmptySeq
<1> QED BY <1>1 DEF Range, Paired, IsWork

LEMMA WorkOfOne ==
  ASSUME NEW a, a.do # "get"
  PROVE  IsWork(<<a>>) /\ Range(<<a>>) = {a} /\ Paired(<<a>>)
<1>1. DOMAIN <<a>> = 1..1 /\ <<a>>[1] = a /\ <<a>> \in Seq({a})
  OBVIOUS
<1>2. Range(<<a>>) = {a}
  BY <1>1 DEF Range
<1>3. IsWork(<<a>>)
  BY <1>1, <1>2 DEF IsWork
<1> QED BY <1>2, <1>3, PairedNone

LEMMA WorkOfTwo ==
  ASSUME NEW a, NEW b
  PROVE  /\ IsWork(<<a, b>>) /\ Range(<<a, b>>) = {a, b}
         /\ b.do # "get" /\ (a.do = "get" => b.do = "close" /\ b.p = a.p) => Paired(<<a, b>>)
<1>1. DOMAIN <<a, b>> = 1..2 /\ <<a, b>>[1] = a /\ <<a, b>>[2] = b /\ <<a, b>> \in Seq({a, b})
  OBVIOUS
<1>2. Range(<<a, b>>) = {a, b}
  BY <1>1 DEF Range
<1>3. IsWork(<<a, b>>)
  BY <1>1, <1>2 DEF IsWork
<1> QED BY <1>1, <1>2, <1>3 DEF Paired

LEMMA WorkOfThree ==
  ASSUME NEW a, NEW b, NEW c, a.do # "get", b.do # "get", c.do # "get"
  PROVE  IsWork(<<a, b, c>>) /\ Range(<<a, b, c>>) = {a, b, c} /\ Paired(<<a, b, c>>)
<1>1. DOMAIN <<a, b, c>> = 1..3 /\ <<a, b, c>>[1] = a /\ <<a, b, c>>[2] = b
      /\ <<a, b, c>>[3] = c /\ <<a, b, c>> \in Seq({a, b, c})
  OBVIOUS
<1>2. Range(<<a, b, c>>) = {a, b, c}
  BY <1>1 DEF Range
<1>3. IsWork(<<a, b, c>>)
  BY <1>1, <1>2 DEF IsWork
<1> QED BY <1>2, <1>3, PairedNone

-----------------------------------------------------------------------------
(* What a step does to the requests.                                       *)

\* Only one request changes, and of that neither what was asked nor what was found.
Aside(w) ==
  /\ DOMAIN rr' = Workers /\ \A v \in Workers \ {w} : rr'[v] = rr[v]
  /\ DOMAIN rr'[w] = Fields /\ rr'[w].req = rr[w].req /\ rr'[w].had = rr[w].had

LEMMA ShapeOf ==
  ASSUME RRShape, NEW w \in Workers
  PROVE  DOMAIN rr = Workers /\ DOMAIN rr[w] = Fields
BY DEF RRShape

LEMMA BecomesAt ==
  ASSUME RRShape, NEW w \in Workers, NEW changes, DOMAIN changes \subseteq Fields,
         Becomes(w, changes)
  PROVE  /\ DOMAIN rr' = Workers /\ \A v \in Workers \ {w} : rr'[v] = rr[v]
         /\ DOMAIN rr'[w] = Fields
         /\ \A x \in DOMAIN changes : rr'[w][x] = changes[x]
         /\ \A x \in Fields \ DOMAIN changes : rr'[w][x] = rr[w][x]
<1> DEFINE c == Over(changes, rr[w])
<1>1. DOMAIN rr = Workers /\ DOMAIN rr[w] = Fields
  BY ShapeOf
<1>2. /\ DOMAIN c = Fields
      /\ \A x \in DOMAIN changes : c[x] = changes[x]
      /\ \A x \in Fields \ DOMAIN changes : c[x] = rr[w][x]
  BY <1>1 DEF Over
<1>3. rr' = [rr EXCEPT ![w] = c]
  BY DEF Becomes
<1> HIDE DEF c
<1>4. DOMAIN rr' = Workers /\ rr'[w] = c /\ \A v \in Workers \ {w} : rr'[v] = rr[v]
  BY <1>1, <1>3
<1> QED BY <1>2, <1>4

\* A request that goes on: its tasks, and what else changed.
LEMMA ProceedsAt ==
  ASSUME RRShape, NEW w \in Workers, NEW tasks, NEW changes,
         DOMAIN changes \subseteq {"spool", "gave", "fresh"}, Proceeds(w, tasks, changes)
  PROVE  /\ Aside(w) /\ rr'[w].pc = rr[w].pc /\ rr'[w].answer = rr[w].answer
         /\ rr'[w].work = tasks \o Tail(rr[w].work)
         /\ rr'[w].spool = IF "spool" \in DOMAIN changes THEN changes["spool"] ELSE rr[w].spool
         /\ rr'[w].gave = IF "gave" \in DOMAIN changes THEN changes["gave"] ELSE rr[w].gave
         /\ rr'[w].fresh = IF "fresh" \in DOMAIN changes THEN changes["fresh"] ELSE rr[w].fresh
         /\ rrClient' = rrClient /\ rrLock' = rrLock /\ rrRetr' = rrRetr
<1> DEFINE rest == [work |-> tasks \o Tail(rr[w].work)]
           c == Over(changes, rest)
<1>1. DOMAIN rest = {"work"} /\ rest["work"] = tasks \o Tail(rr[w].work)
  OBVIOUS
<1> HIDE DEF rest
<1>2. /\ DOMAIN c = DOMAIN changes \cup {"work"}
      /\ c["work"] = tasks \o Tail(rr[w].work)
      /\ \A x \in DOMAIN changes : c[x] = changes[x]
  BY <1>1 DEF Over
<1>3. Becomes(w, c) /\ rrClient' = rrClient /\ rrLock' = rrLock /\ rrRetr' = rrRetr
  BY DEF Proceeds, rest
<1> HIDE DEF c
<1>4. DOMAIN c \subseteq Fields
  BY <1>2 DEF Fields
<1>5. /\ DOMAIN rr' = Workers /\ \A v \in Workers \ {w} : rr'[v] = rr[v]
      /\ DOMAIN rr'[w] = Fields
      /\ \A x \in DOMAIN c : rr'[w][x] = c[x]
      /\ \A x \in Fields \ DOMAIN c : rr'[w][x] = rr[w][x]
  BY <1>3, <1>4, BecomesAt
<1>6. /\ rr'[w]["req"] = rr[w]["req"] /\ rr'[w]["had"] = rr[w]["had"]
      /\ rr'[w]["pc"] = rr[w]["pc"] /\ rr'[w]["answer"] = rr[w]["answer"]
      /\ rr'[w]["work"] = tasks \o Tail(rr[w].work)
  BY <1>2, <1>5 DEF Fields
<1>7. \A x \in {"spool", "gave", "fresh"} :
        rr'[w][x] = IF x \in DOMAIN changes THEN changes[x] ELSE rr[w][x]
  BY <1>2, <1>5 DEF Fields
<1> QED BY <1>3, <1>5, <1>6, <1>7 DEF Aside

LEMMA ProceedsPlain ==
  ASSUME RRShape, NEW w \in Workers, NEW tasks, Proceeds(w, tasks, <<>>)
  PROVE  /\ Aside(w) /\ rr'[w].pc = rr[w].pc /\ rr'[w].answer = rr[w].answer
         /\ rr'[w].work = tasks \o Tail(rr[w].work)
         /\ rr'[w].spool = rr[w].spool /\ rr'[w].gave = rr[w].gave /\ rr'[w].fresh = rr[w].fresh
         /\ rrClient' = rrClient /\ rrLock' = rrLock /\ rrRetr' = rrRetr
<1> DEFINE c == <<>>
<1>1. DOMAIN c = {} /\ Proceeds(w, tasks, c)
  OBVIOUS
<1> HIDE DEF c
<1> QED BY <1>1, ProceedsAt

LEMMA ProceedsFresh ==
  ASSUME RRShape, NEW w \in Workers, NEW tasks, NEW b, Proceeds(w, tasks, [fresh |-> b])
  PROVE  /\ Aside(w) /\ rr'[w].pc = rr[w].pc /\ rr'[w].answer = rr[w].answer
         /\ rr'[w].work = tasks \o Tail(rr[w].work)
         /\ rr'[w].spool = rr[w].spool /\ rr'[w].gave = rr[w].gave /\ rr'[w].fresh = b
         /\ rrClient' = rrClient /\ rrLock' = rrLock /\ rrRetr' = rrRetr
<1> DEFINE c == [fresh |-> b]
<1>1. DOMAIN c = {"fresh"} /\ c["fresh"] = b /\ Proceeds(w, tasks, c)
  OBVIOUS
<1> HIDE DEF c
<1> QED BY <1>1, ProceedsAt

LEMMA ProceedsSpool ==
  ASSUME RRShape, NEW w \in Workers, NEW tasks, NEW s, Proceeds(w, tasks, [spool |-> s])
  PROVE  /\ Aside(w) /\ rr'[w].pc = rr[w].pc /\ rr'[w].answer = rr[w].answer
         /\ rr'[w].work = tasks \o Tail(rr[w].work)
         /\ rr'[w].spool = s /\ rr'[w].gave = rr[w].gave /\ rr'[w].fresh = rr[w].fresh
         /\ rrClient' = rrClient /\ rrLock' = rrLock /\ rrRetr' = rrRetr
<1> DEFINE c == [spool |-> s]
<1>1. DOMAIN c = {"spool"} /\ c["spool"] = s /\ Proceeds(w, tasks, c)
  OBVIOUS
<1> HIDE DEF c
<1> QED BY <1>1, ProceedsAt

LEMMA ProceedsPut ==
  ASSUME RRShape, NEW w \in Workers, NEW tasks, NEW g,
         Proceeds(w, tasks, [spool |-> {}, gave |-> g])
  PROVE  /\ Aside(w) /\ rr'[w].pc = rr[w].pc /\ rr'[w].answer = rr[w].answer
         /\ rr'[w].work = tasks \o Tail(rr[w].work)
         /\ rr'[w].spool = {} /\ rr'[w].gave = g /\ rr'[w].fresh = rr[w].fresh
         /\ rrClient' = rrClient /\ rrLock' = rrLock /\ rrRetr' = rrRetr
<1> DEFINE c == [spool |-> {}, gave |-> g]
<1>1. DOMAIN c = {"spool", "gave"} /\ c["spool"] = {} /\ c["gave"] = g /\ Proceeds(w, tasks, c)
  OBVIOUS
<1> HIDE DEF c
<1> QED BY <1>1, ProceedsAt

\* A request that ends: it gives the lock back and closes its reader.
Ends(w) ==
  /\ Aside(w) /\ rr'[w].pc \in {"done", "dropping"} /\ rr'[w].fresh = FALSE
  /\ rrLock' = Nobody /\ rrRetr' = IF rrRetr = w THEN Nobody ELSE rrRetr

LEMMA FinishAt ==
  ASSUME RRShape, NEW w \in Workers, NEW answer, NEW changes,
         DOMAIN changes \subseteq {"pc", "gave"}, Finish(w, answer, changes)
  PROVE  /\ Aside(w) /\ rr'[w].fresh = FALSE
         /\ rrLock' = Nobody /\ rrRetr' = IF rrRetr = w THEN Nobody ELSE rrRetr
         /\ rr'[w].answer = answer
         /\ rr'[w].pc = IF "pc" \in DOMAIN changes THEN changes["pc"] ELSE "done"
         /\ rr'[w].gave = IF "gave" \in DOMAIN changes THEN changes["gave"] ELSE rr[w].gave
<1> DEFINE rest == [pc |-> "done", answer |-> answer, work |-> <<>>, spool |-> {}, fresh |-> FALSE]
           c == Over(changes, rest)
<1>1. /\ DOMAIN rest = {"pc", "answer", "work", "spool", "fresh"}
      /\ rest["pc"] = "done" /\ rest["answer"] = answer /\ rest["fresh"] = FALSE
  OBVIOUS
<1> HIDE DEF rest
<1>2. /\ DOMAIN c = DOMAIN changes \cup {"pc", "answer", "work", "spool", "fresh"}
      /\ \A x \in DOMAIN changes : c[x] = changes[x]
      /\ c["answer"] = answer /\ c["fresh"] = FALSE
      /\ "pc" \notin DOMAIN changes => c["pc"] = "done"
  BY <1>1 DEF Over
<1>3. Becomes(w, c) /\ rrLock' = Nobody /\ rrRetr' = IF rrRetr = w THEN Nobody ELSE rrRetr
  BY DEF Finish, rest
<1> HIDE DEF c
<1>4. DOMAIN c \subseteq Fields
  BY <1>2 DEF Fields
<1>5. /\ DOMAIN rr' = Workers /\ \A v \in Workers \ {w} : rr'[v] = rr[v]
      /\ DOMAIN rr'[w] = Fields
      /\ \A x \in DOMAIN c : rr'[w][x] = c[x]
      /\ \A x \in Fields \ DOMAIN c : rr'[w][x] = rr[w][x]
  BY <1>3, <1>4, BecomesAt
<1>6. /\ rr'[w]["req"] = rr[w]["req"] /\ rr'[w]["had"] = rr[w]["had"]
      /\ rr'[w]["answer"] = answer /\ rr'[w]["fresh"] = FALSE
  BY <1>2, <1>5 DEF Fields
<1>7. rr'[w]["pc"] = IF "pc" \in DOMAIN changes THEN changes["pc"] ELSE "done"
  BY <1>2, <1>5
<1>8. rr'[w]["gave"] = IF "gave" \in DOMAIN changes THEN changes["gave"] ELSE rr[w]["gave"]
  BY <1>2, <1>5 DEF Fields
<1> QED BY <1>3, <1>5, <1>6, <1>7, <1>8 DEF Aside

LEMMA FinishPlain ==
  ASSUME RRShape, NEW w \in Workers, NEW answer, Finish(w, answer, <<>>)
  PROVE  Ends(w) /\ rr'[w].pc = "done" /\ rr'[w].answer = answer /\ rr'[w].gave = rr[w].gave
<1> DEFINE c == <<>>
<1>1. DOMAIN c = {} /\ Finish(w, answer, c)
  OBVIOUS
<1> HIDE DEF c
<1>2. /\ Aside(w) /\ rr'[w].fresh = FALSE
      /\ rrLock' = Nobody /\ rrRetr' = IF rrRetr = w THEN Nobody ELSE rrRetr
      /\ rr'[w].answer = answer
  BY <1>1, FinishAt
<1>3. rr'[w].pc = IF "pc" \in DOMAIN c THEN c["pc"] ELSE "done"
  BY <1>1, FinishAt
<1>4. rr'[w].gave = IF "gave" \in DOMAIN c THEN c["gave"] ELSE rr[w].gave
  BY <1>1, FinishAt
<1> QED BY <1>1, <1>2, <1>3, <1>4 DEF Ends

LEMMA FinishGave ==
  ASSUME RRShape, NEW w \in Workers, NEW answer, NEW g, Finish(w, answer, [gave |-> g])
  PROVE  Ends(w) /\ rr'[w].pc = "done" /\ rr'[w].answer = answer /\ rr'[w].gave = g
<1> DEFINE c == [gave |-> g]
<1>1. DOMAIN c = {"gave"} /\ c["gave"] = g /\ Finish(w, answer, c)
  OBVIOUS
<1> HIDE DEF c
<1>2. /\ Aside(w) /\ rr'[w].fresh = FALSE
      /\ rrLock' = Nobody /\ rrRetr' = IF rrRetr = w THEN Nobody ELSE rrRetr
      /\ rr'[w].answer = answer
  BY <1>1, FinishAt
<1>3. rr'[w].pc = IF "pc" \in DOMAIN c THEN c["pc"] ELSE "done"
  BY <1>1, FinishAt
<1>4. rr'[w].gave = IF "gave" \in DOMAIN c THEN c["gave"] ELSE rr[w].gave
  BY <1>1, FinishAt
<1> QED BY <1>1, <1>2, <1>3, <1>4 DEF Ends

LEMMA FinishDropping ==
  ASSUME RRShape, NEW w \in Workers, NEW answer, Finish(w, answer, [pc |-> "dropping"])
  PROVE  Ends(w) /\ rr'[w].pc = "dropping" /\ rr'[w].answer = answer /\ rr'[w].gave = rr[w].gave
<1> DEFINE c == [pc |-> "dropping"]
<1>1. DOMAIN c = {"pc"} /\ c["pc"] = "dropping" /\ Finish(w, answer, c)
  OBVIOUS
<1> HIDE DEF c
<1>2. /\ Aside(w) /\ rr'[w].fresh = FALSE
      /\ rrLock' = Nobody /\ rrRetr' = IF rrRetr = w THEN Nobody ELSE rrRetr
      /\ rr'[w].answer = answer
  BY <1>1, FinishAt
<1>3. rr'[w].pc = IF "pc" \in DOMAIN c THEN c["pc"] ELSE "done"
  BY <1>1, FinishAt
<1>4. rr'[w].gave = IF "gave" \in DOMAIN c THEN c["gave"] ELSE rr[w].gave
  BY <1>1, FinishAt
<1> QED BY <1>1, <1>2, <1>3, <1>4 DEF Ends

\* What a failure does: the request ends with another answer than ok, or it goes on with
\* the next item to delete.
Skips(w) ==
  /\ Aside(w) /\ rr'[w].pc = rr[w].pc /\ rr'[w].work = NextItems(Tail(rr[w].work))
  /\ rr'[w].spool = rr[w].spool /\ rr'[w].gave = rr[w].gave /\ rr'[w].fresh = rr[w].fresh
  /\ rr[w].req.kind = "delete"
  /\ rrLock' = rrLock /\ rrRetr' = rrRetr

LEMMA FailsAt ==
  ASSUME RRShape, NEW w \in Workers, NEW e, Fails(w, e)
  PROVE  /\ \/ Ends(w) /\ rr'[w].pc = "done" /\ rr'[w].answer # "ok" /\ rr'[w].gave = rr[w].gave
            \/ Skips(w)
         /\ rrClient' \in BOOLEAN
         /\ rrClient' = rrClient \/ (IsConnLost(e) /\ ~ArchiveError(w, e))
<1>0. rrClient \in BOOLEAN
  BY DEF RRShape
<1>1. CASE Finish(w, "archive", <<>>) /\ UNCHANGED rrClient
  BY <1>0, <1>1, FinishPlain
<1>2. CASE /\ ~ArchiveError(w, e) /\ IsConnLost(e) /\ Finish(w, Code(w, e), <<>>)
           /\ rrClient' = (rrClient /\ HasNoSession(w))
  BY <1>0, <1>2, FinishPlain, CodeTold
<1>3. CASE /\ rr[w].req.kind = "delete" /\ Becomes(w, [work |-> NextItems(Tail(rr[w].work))])
           /\ UNCHANGED <<rrClient, rrLock, rrRetr>>
  <2> DEFINE c == [work |-> NextItems(Tail(rr[w].work))]
  <2>1. DOMAIN c = {"work"} /\ c["work"] = NextItems(Tail(rr[w].work)) /\ Becomes(w, c)
    BY <1>3
  <2> HIDE DEF c
  <2>2. DOMAIN c \subseteq Fields
    BY <2>1 DEF Fields
  <2>3. /\ DOMAIN rr' = Workers /\ \A v \in Workers \ {w} : rr'[v] = rr[v]
        /\ DOMAIN rr'[w] = Fields
        /\ \A x \in DOMAIN c : rr'[w][x] = c[x]
        /\ \A x \in Fields \ DOMAIN c : rr'[w][x] = rr[w][x]
    BY <2>1, <2>2, BecomesAt
  <2>4. /\ rr'[w]["req"] = rr[w]["req"] /\ rr'[w]["had"] = rr[w]["had"]
        /\ rr'[w]["pc"] = rr[w]["pc"] /\ rr'[w]["work"] = NextItems(Tail(rr[w].work))
        /\ rr'[w]["spool"] = rr[w]["spool"] /\ rr'[w]["gave"] = rr[w]["gave"]
        /\ rr'[w]["fresh"] = rr[w]["fresh"]
    BY <2>1, <2>3 DEF Fields
  <2>5. Skips(w)
    BY <1>3, <2>3, <2>4 DEF Skips, Aside
  <2> QED BY <1>0, <1>3, <2>5
<1>4. CASE Finish(w, Code(w, e), <<>>) /\ UNCHANGED rrClient
  BY <1>0, <1>4, FinishPlain, CodeTold
<1> QED BY <1>1, <1>2, <1>3, <1>4 DEF Fails

-----------------------------------------------------------------------------
(* What keeps the invariant.                                               *)

\* The tree is still one; but for a rename and a delete it lacks nothing it had.
TreeStep(w) ==
  /\ TreeOK(rrTree') /\ rrWritten \subseteq rrWritten'
  /\ rr[w].req.kind \notin {"rename", "delete"} =>
       /\ DOMAIN rrTree \subseteq DOMAIN rrTree'
       /\ \A f \in DOMAIN rrTree \ rrWritten' : rrTree'[f] = rrTree[f]

\* The connection does not come back, what was misread stays so, no command is sent amiss.
LinkStep ==
  /\ rrProto' = rrProto /\ rrForeign' = rrForeign /\ rrFaults' \in 0..MaxFaults
  /\ rrLink' \in BOOLEAN /\ rrMisread' \in BOOLEAN
  /\ (rrLink' => rrLink) /\ (rrMisread => rrMisread') /\ ~rrDesync'

LEMMA OneRuns ==
  ASSUME RRShape, NEW w \in Workers, Running(w)
  PROVE  /\ rrLock = w /\ w # Nobody /\ rr[w].req \in Requests
         /\ \A v \in Workers \ {w} : ~Running(v)
BY RemoteAssumption DEF RRShape, Running

\* The shape after a step of one request.
LEMMA ShapeKept ==
  ASSUME RRShape, NEW w \in Workers, Running(w), Aside(w), TreeOK(rrTree'), LinkStep,
         rrClient' \in BOOLEAN, rr'[w].fresh \in BOOLEAN,
         \/ rr'[w].pc = "running" /\ rrLock' = rrLock
         \/ rr'[w].pc = "done" /\ rrLock' = Nobody
         \/ rr'[w].pc = "dropping" /\ rrLock' = Nobody /\ rr[w].req.kind = "ping" /\ ~rrLink'
  PROVE  RRShape'
<1>1. rrLock = w /\ w # Nobody /\ Nobody \notin Workers /\ rr[w].req \in Requests
      /\ rr[w].pc = "running"
  BY OneRuns, RemoteAssumption DEF Running
<1>2. /\ DOMAIN rr' = Workers /\ rrLock' \in Workers \cup {Nobody}
      /\ rrProto' \in {"ftp", "sftp"} /\ rrLink' \in BOOLEAN /\ rrMisread' \in BOOLEAN
      /\ rrFaults' \in 0..MaxFaults /\ rrForeign' \in 0..MaxForeign
  BY <1>1 DEF RRShape, LinkStep, Aside
<1>3. ASSUME NEW v \in Workers
      PROVE  /\ DOMAIN rr'[v] = Fields /\ rr'[v].fresh \in BOOLEAN
             /\ rr'[v].pc \in {"idle", "waiting", "running", "dropping", "done"}
             /\ rr'[v].pc = "running" <=> rrLock' = v
             /\ rr'[v].pc # "idle" => rr'[v].req \in Requests
             /\ rr'[v].pc \in {"idle", "waiting"} =>
                  rr'[v].gave = {} /\ ~rr'[v].fresh /\ rr'[v].had = <<>>
             /\ rr'[v].pc = "waiting" => Valid(rr'[v].req)
             /\ rr'[v].pc = "dropping" => rr'[v].req.kind = "ping" /\ ~rrLink'
  <2>1. CASE v = w
    BY <1>1, <2>1 DEF Aside
  <2>2. CASE v # w
    <3>1. rr'[v] = rr[v]
      BY <2>2 DEF Aside
    <3>2. /\ DOMAIN rr[v] = Fields /\ rr[v].fresh \in BOOLEAN
          /\ rr[v].pc \in {"idle", "waiting", "running", "dropping", "done"}
          /\ rr[v].pc = "running" <=> rrLock = v
          /\ rr[v].pc # "idle" => rr[v].req \in Requests
          /\ rr[v].pc \in {"idle", "waiting"} =>
               rr[v].gave = {} /\ ~rr[v].fresh /\ rr[v].had = <<>>
          /\ rr[v].pc = "waiting" => Valid(rr[v].req)
          /\ rr[v].pc = "dropping" => rr[v].req.kind = "ping" /\ ~rrLink
      BY DEF RRShape, Running
    <3>3. rrLock' # v /\ rr[v].pc # "running"
      BY <1>1, <2>2, <3>2
    <3>4. ~rrLink => ~rrLink'
      BY DEF LinkStep
    <3> QED BY <3>1, <3>2, <3>3, <3>4
  <2> QED BY <2>1, <2>2
<1> QED BY <1>2, <1>3 DEF RRShape, Running

\* Nobody runs after it.
LEMMA EndKeeps ==
  ASSUME RRIInv, NEW w \in Workers, Running(w), Ends(w), TreeOK(rrTree'), LinkStep,
         rrClient' \in BOOLEAN,
         rr'[w].pc = "dropping" => rr[w].req.kind = "ping" /\ ~rrLink',
         MayNotReplace(w) => rr'[w].answer # "ok" /\ rr'[w].gave = {}
  PROVE  RRIInv'
<1>1. RRShape'
  BY ShapeKept DEF RRIInv, Ends
<1>2. rrLock = w /\ w # Nobody /\ Nobody \notin Workers
  BY OneRuns, RemoteAssumption DEF RRIInv
<1>3. \A v \in Workers : rr'[v].pc # "running"
  BY <1>1, <1>2 DEF RRShape, Running, Ends
<1>4. RRTasks' /\ RRWhole'
  BY <1>3 DEF RRTasks, RRWhole, Running
<1>5. RRReading'
  <2>1. rrRetr' = Nobody
    BY <1>2 DEF Ends, RRIInv, RRReading
  <2> QED BY <2>1 DEF RRReading, RROneTransfer, LinkStep
<1>6. RRGuards'
  <2>1. ASSUME NEW v \in Workers, rr'[v].pc = "done", rr'[v].req.kind = "upload",
               ~rr'[v].req.over, rr'[v].req.p \in DOMAIN rr'[v].had
        PROVE  rr'[v].answer # "ok" /\ rr'[v].gave = {}
    <3>1. CASE v = w
      BY <2>1, <3>1 DEF Ends, Aside, MayNotReplace
    <3>2. CASE v # w
      BY <2>1, <3>2 DEF Ends, Aside, RRIInv, RRGuards, RRNoClobber
    <3> QED BY <3>1, <3>2
  <2> QED BY <1>3, <2>1 DEF RRGuards, RRNoClobber, Running
<1> QED BY <1>1, <1>4, <1>5, <1>6 DEF RRIInv

\* What a request that reads a tree has, or will come to.
Has(w, f) ==
  \/ rr[w].had[f] \subseteq rr[w].gave \cup rr[w].spool
  \/ \E t \in Range(rr[w].work) : Reads(t) /\ IsPrefix(t.p, f)

Whole(w) == rr[w].req.kind \in Moving \ {"upload"}

\* The request goes on.
LEMMA GoOnKeeps ==
  ASSUME RRIInv, NEW w \in Workers, Running(w), Aside(w), rr'[w].pc = "running",
         rrLock' = rrLock, TreeStep(w), LinkStep, rrClient' \in BOOLEAN,
         rr'[w].fresh \in BOOLEAN,
         IsWork(rr'[w].work), Paired(rr'[w].work),
         \A t \in Range(rr'[w].work) : FitsRequest(rr[w].req, t) /\ Accounted(t)',
         rrRetr' = Nobody \/ (rrRetr' = w /\ At(w, {"close"})'),
         MayNotReplace(w) =>
           rr'[w].gave = {} /\ ~rr'[w].fresh /\ rr'[w].work = Tail(WorkOf(rr[w].req)),
         rr[w].req.kind # "extract" => Cut \notin rr'[w].spool,
         Whole(w) =>
           /\ Cut \notin rr'[w].gave
           /\ \A f \in DOMAIN rr[w].had : Wanted(w, f) /\ f \notin rrWritten' => Has(w, f)'
  PROVE  RRIInv'
<1>1. RRShape'
  BY ShapeKept DEF RRIInv, TreeStep
<1>2. rrLock = w /\ rrLock' = w /\ w # Nobody
  BY OneRuns DEF RRIInv
<1>3. \A v \in Workers \ {w} : rr'[v].pc # "running" /\ rr'[v] = rr[v]
  BY <1>1, <1>2 DEF RRShape, Running, Aside
<1>4. rr'[w].req = rr[w].req /\ rr'[w].had = rr[w].had
  BY DEF Aside
<1>5. RRTasks'
  BY <1>3, <1>4 DEF RRTasks, Running, IsWork
<1>6. RRReading'
  BY <1>2 DEF RRReading, RROneTransfer, LinkStep
<1>7. RRGuards'
  <2>1. ASSUME NEW v \in Workers, rr'[v].pc = "done", rr'[v].req.kind = "upload",
               ~rr'[v].req.over, rr'[v].req.p \in DOMAIN rr'[v].had
        PROVE  rr'[v].answer # "ok" /\ rr'[v].gave = {}
    <3>1. v # w
      BY <2>1
    <3> QED BY <1>3, <2>1, <3>1 DEF RRIInv, RRGuards, RRNoClobber
  <2>2. ASSUME MayNotReplace(w)
        PROVE  rr[w].req.p \in DOMAIN rrTree'
    <3>1. rr[w].req.p \in DOMAIN rrTree /\ rr[w].req.kind = "upload"
      BY <2>2 DEF RRIInv, RRGuards, MayNotReplace
    <3> QED BY <3>1 DEF TreeStep
  <2>3. MayNotReplace(w)' <=> MayNotReplace(w)
    BY <1>4 DEF MayNotReplace
  <2> QED BY <1>3, <1>4, <2>1, <2>2, <2>3 DEF RRGuards, RRNoClobber, Running
<1>8. RRWhole'
  <2>1. ASSUME Whole(w)
        PROVE  /\ DOMAIN rr[w].had \subseteq DOMAIN rrTree'
               /\ \A f \in DOMAIN rr[w].had \ rrWritten' : rrTree'[f] = rr[w].had[f]
    <3>1. /\ DOMAIN rr[w].had \subseteq DOMAIN rrTree
          /\ \A f \in DOMAIN rr[w].had \ rrWritten : rrTree[f] = rr[w].had[f]
      BY <2>1 DEF RRIInv, RRWhole, Whole
    <3>2. rr[w].req.kind \notin {"rename", "delete"}
      BY <2>1 DEF Whole, Moving
    <3> QED BY <3>1, <3>2 DEF TreeStep
  <2>2. ASSUME Whole(w), NEW f \in DOMAIN rr[w].had, Wanted(w, f)'
        PROVE  Has(w, f)'
    <3>1. Wanted(w, f) /\ f \notin rrWritten'
      BY <1>4, <2>2 DEF Wanted, TreeStep
    <3> QED BY <2>2, <3>1
  <2>3. Whole(w)' <=> Whole(w)
    BY <1>4 DEF Whole
  <2>4. ASSUME NEW v \in Workers, rr'[v].pc = "running", rr'[v].req.kind \in Moving \ {"upload"}
        PROVE  /\ Cut \notin rr'[v].gave
               /\ DOMAIN rr'[v].had \subseteq DOMAIN rrTree'
               /\ \A f \in DOMAIN rr'[v].had \ rrWritten' : rrTree'[f] = rr'[v].had[f]
               /\ \A f \in DOMAIN rr'[v].had : Wanted(v, f)' => Has(v, f)'
    <3>1. v = w /\ Whole(w)
      BY <1>3, <2>3, <2>4 DEF Whole
    <3> QED BY <1>4, <2>1, <2>2, <3>1
  <2> QED BY <2>4 DEF RRWhole, Running, Has
<1> QED BY <1>1, <1>5, <1>6, <1>7, <1>8 DEF RRIInv

\* What a request that runs has, for the lemmas that follow.
LEMMA WorkOfRunning ==
  ASSUME RRIInv, NEW w \in Workers, Running(w)
  PROVE  /\ IsWork(rr[w].work) /\ Paired(rr[w].work)
         /\ \A t \in Range(rr[w].work) : FitsRequest(rr[w].req, t) /\ Accounted(t)
         /\ rr[w].req.kind # "extract" => Cut \notin rr[w].spool
BY DEF RRIInv, RRTasks, IsWork

LEMMA HeadOfRunning ==
  ASSUME RRIInv, NEW w \in Workers, Running(w), rr[w].work # <<>>
  PROVE  /\ FitsRequest(rr[w].req, Head(rr[w].work)) /\ Accounted(Head(rr[w].work))
         /\ IsWork(Tail(rr[w].work)) /\ Paired(Tail(rr[w].work))
         /\ \A t \in Range(Tail(rr[w].work)) : FitsRequest(rr[w].req, t) /\ Accounted(t)
         /\ Range(rr[w].work) = {Head(rr[w].work)} \cup Range(Tail(rr[w].work))
<1>1. /\ IsWork(rr[w].work) /\ Paired(rr[w].work)
      /\ \A t \in Range(rr[w].work) : FitsRequest(rr[w].req, t) /\ Accounted(t)
  BY WorkOfRunning
<1>2. IsWork(Tail(rr[w].work)) /\ Range(rr[w].work) = {Head(rr[w].work)} \cup Range(Tail(rr[w].work))
  BY <1>1, WorkSplit
<1>3. Paired(Tail(rr[w].work))
  BY <1>1, PairedTail
<1> QED BY <1>1, <1>2, <1>3

\* Nobody's download is open but that of a request about to read it.
LEMMA NotReading ==
  ASSUME RRIInv, NEW w \in Workers, Running(w), rr[w].work = <<>> \/ Head(rr[w].work).do # "close"
  PROVE  rrRetr = Nobody
<1>1. rrLock = w
  BY OneRuns DEF RRIInv
<1> QED BY <1>1 DEF RRIInv, RRReading, At

LEMMA AccountedStays ==
  ASSUME LinkStep, NEW t, Accounted(t)
  PROVE  Accounted(t)'
BY DEF Accounted, LinkStep

\* An upload that may not overwrite is before its directory or before its probe.
LEMMA GuardedHead ==
  ASSUME RRIInv, NEW w \in Workers, Running(w), MayNotReplace(w)
  PROVE  /\ rr[w].gave = {} /\ ~rr[w].fresh /\ rr[w].req.p \in DOMAIN rrTree
         /\ rr[w].work # <<>> /\ Head(rr[w].work).do \in {"ensure", "probe"}
         /\ Head(rr[w].work).do = "ensure" =>
              /\ rr[w].work = WorkOf(rr[w].req)
              /\ Head(rr[w].work).p = Front(rr[w].req.p)
         /\ Head(rr[w].work).do = "probe" => Head(rr[w].work).p = rr[w].req.p
<1>1. /\ rr[w].gave = {} /\ ~rr[w].fresh /\ rr[w].req.p \in DOMAIN rrTree
      /\ rr[w].work \in {WorkOf(rr[w].req), Tail(WorkOf(rr[w].req))}
      /\ rr[w].req.kind = "upload"
  BY DEF RRIInv, RRGuards, MayNotReplace
<1> DEFINE p == rr[w].req.p
           a == Task("ensure", Front(p), <<>>)
           b == Task("probe", p, <<>>)
           c == Task("put", p, <<>>)
<1>2. WorkOf(rr[w].req) = <<a, b, c>>
  BY <1>1 DEF WorkOf
<1>3. a.do = "ensure" /\ a.p = Front(p) /\ b.do = "probe" /\ b.p = p
  BY DEF Task
<1> HIDE DEF a, b, c
<1>4. Head(<<a, b, c>>) = a /\ Tail(<<a, b, c>>) = <<b, c>> /\ Head(<<b, c>>) = b
      /\ <<a, b, c>> # <<>> /\ <<b, c>> # <<>>
  OBVIOUS
<1> QED BY <1>1, <1>2, <1>3, <1>4

\* The request skips to the next item to delete.
LEMMA SkipKeeps ==
  ASSUME RRIInv, NEW w \in Workers, Running(w), rr[w].work # <<>>, Skips(w), TreeStep(w),
         LinkStep, rrClient' \in BOOLEAN
  PROVE  RRIInv'
<1> DEFINE s == Tail(rr[w].work)
<1>1. /\ FitsRequest(rr[w].req, Head(rr[w].work)) /\ IsWork(s)
      /\ \A t \in Range(s) : FitsRequest(rr[w].req, t) /\ Accounted(t)
  BY HeadOfRunning
<1>2. rr[w].req.kind = "delete" /\ Aside(w) /\ rr'[w].pc = "running" /\ rrLock' = rrLock
      /\ rr'[w].work = NextItems(s) /\ rr'[w].fresh = rr[w].fresh /\ rrRetr' = rrRetr
  BY DEF Skips, Running
<1> HIDE DEF s
<1>3. IsWork(rr'[w].work) /\ Range(rr'[w].work) \subseteq Range(s)
  BY <1>1, <1>2, WorkNextItems
<1>4. \A t \in Range(rr'[w].work) : FitsRequest(rr[w].req, t) /\ Accounted(t)'
  BY <1>1, <1>3, AccountedStays
<1>5. \A t : FitsRequest(rr[w].req, t) => t.do \notin {"get", "close"}
  BY <1>2 DEF FitsRequest, Deletes
<1>6. Paired(rr'[w].work)
  BY <1>3, <1>4, <1>5, PairedNone
<1>7. rrRetr' = Nobody
  BY <1>1, <1>2, <1>5, NotReading
<1>8. ~MayNotReplace(w) /\ ~Whole(w)
  BY <1>2 DEF MayNotReplace, Whole, Moving
<1>9. rr'[w].fresh \in BOOLEAN
  BY <1>2 DEF RRIInv, RRShape
<1>10. rr[w].req.kind # "extract" => Cut \notin rr'[w].spool
  BY WorkOfRunning DEF Skips
<1> QED BY <1>2, <1>3, <1>4, <1>6, <1>7, <1>8, <1>9, <1>10, GoOnKeeps

\* A failure keeps the invariant, whatever was called.
LEMMA FailsKeeps ==
  ASSUME RRIInv, NEW w \in Workers, Running(w), rr[w].work # <<>>, NEW e, Fails(w, e),
         TreeStep(w), LinkStep
  PROVE  RRIInv'
<1>1. /\ \/ Ends(w) /\ rr'[w].pc = "done" /\ rr'[w].answer # "ok" /\ rr'[w].gave = rr[w].gave
         \/ Skips(w)
      /\ rrClient' \in BOOLEAN
  BY FailsAt DEF RRIInv
<1>2. CASE Ends(w) /\ rr'[w].pc = "done" /\ rr'[w].answer # "ok" /\ rr'[w].gave = rr[w].gave
  <2>1. MayNotReplace(w) => rr'[w].gave = {}
    BY <1>2, GuardedHead
  <2>2. TreeOK(rrTree')
    BY DEF TreeStep
  <2> QED BY <1>1, <1>2, <2>1, <2>2, EndKeeps
<1>3. CASE Skips(w)
  BY <1>1, <1>3, SkipKeeps
<1> QED BY <1>1, <1>2, <1>3

\* A request that is refused for another reason.
LEMMA RefusalKeeps ==
  ASSUME RRIInv, NEW w \in Workers, Running(w), rr[w].work # <<>>,
         NEW answer, answer # "ok", Finish(w, answer, <<>>), UNCHANGED rrClient,
         TreeStep(w), LinkStep
  PROVE  RRIInv'
<1>1. Ends(w) /\ rr'[w].pc = "done" /\ rr'[w].answer # "ok" /\ rr'[w].gave = rr[w].gave
  BY FinishPlain DEF RRIInv
<1>2. MayNotReplace(w) => rr'[w].gave = {}
  BY <1>1, GuardedHead
<1>3. TreeOK(rrTree') /\ rrClient' \in BOOLEAN
  BY DEF TreeStep, RRIInv, RRShape
<1> QED BY <1>1, <1>2, <1>3, EndKeeps

\* Its first task is done, and these come before the rest.
LEMMA StepKeeps ==
  ASSUME RRIInv, NEW w \in Workers, Running(w), rr[w].work # <<>>, NEW tasks,
         Aside(w), rr'[w].pc = rr[w].pc, rr'[w].work = tasks \o Tail(rr[w].work),
         rr'[w].fresh \in BOOLEAN, rrLock' = rrLock, rrClient' = rrClient,
         rrRetr' = Nobody \/ (rrRetr' = w /\ At(w, {"close"})'),
         TreeStep(w), LinkStep,
         IsWork(tasks), Paired(tasks),
         \A t \in Range(tasks) : FitsRequest(rr[w].req, t) /\ Accounted(t)',
         MayNotReplace(w) =>
           /\ Head(rr[w].work).do = "ensure" /\ tasks = <<>>
           /\ rr'[w].gave = rr[w].gave /\ ~rr'[w].fresh,
         rr[w].req.kind # "extract" => Cut \notin rr'[w].spool,
         Whole(w) =>
           /\ Cut \notin rr'[w].gave
           /\ rr[w].gave \cup rr[w].spool \subseteq rr'[w].gave \cup rr'[w].spool
           /\ \A f \in DOMAIN rrTree :
                rrTree[f] # Dir /\ Reads(Head(rr[w].work)) /\ IsPrefix(Head(rr[w].work).p, f) =>
                  \/ rrTree[f] \subseteq rr'[w].gave \cup rr'[w].spool
                  \/ \E t \in Range(tasks) : Reads(t) /\ IsPrefix(t.p, f)
  PROVE  RRIInv'
<1> DEFINE s == Tail(rr[w].work)
           h == Head(rr[w].work)
           new == rr'[w].work
<1>1. /\ IsWork(s) /\ Paired(s) /\ Range(rr[w].work) = {h} \cup Range(s)
      /\ \A t \in Range(s) : FitsRequest(rr[w].req, t) /\ Accounted(t)
  BY HeadOfRunning
<1>2. new = tasks \o s
  OBVIOUS
<1> HIDE DEF s, h, new
<1>3. IsWork(new) /\ Range(new) = Range(tasks) \cup Range(s)
  BY <1>1, <1>2, WorkJoined
<1>4. Paired(new)
  BY <1>1, <1>2, PairedJoined
<1>5. \A t \in Range(new) : FitsRequest(rr[w].req, t) /\ Accounted(t)'
  BY <1>1, <1>3, AccountedStays
<1>6. ASSUME MayNotReplace(w)
      PROVE  rr'[w].gave = {} /\ ~rr'[w].fresh /\ new = Tail(WorkOf(rr[w].req))
  <2>1. rr[w].gave = {} /\ rr[w].work = WorkOf(rr[w].req)
    BY <1>6, GuardedHead
  <2>2. <<>> \o s = s
    BY <1>1, ConcatEmptySeq DEF IsWork
  <2> QED BY <1>2, <1>6, <2>1, <2>2 DEF s
<1>7. ASSUME Whole(w), NEW f \in DOMAIN rr[w].had, Wanted(w, f), f \notin rrWritten'
      PROVE  Has(w, f)'
  <2>1. Has(w, f) /\ f \in DOMAIN rrTree /\ rrTree[f] = rr[w].had[f] /\ rrTree[f] # Dir
    BY <1>7 DEF RRIInv, RRWhole, Whole, Wanted, Has
  <2>2. rr'[w].had[f] = rrTree[f]
    BY <2>1 DEF Aside
  <2>3. CASE rr[w].had[f] \subseteq rr[w].gave \cup rr[w].spool
    <3>1. rr'[w].had[f] \subseteq rr'[w].gave \cup rr'[w].spool
      BY <1>7, <2>1, <2>2, <2>3
    <3> QED BY <3>1 DEF Has
  <2>4. CASE \E t \in Range(rr[w].work) : Reads(t) /\ IsPrefix(t.p, f)
    <3>1. PICK t \in Range(rr[w].work) : Reads(t) /\ IsPrefix(t.p, f)
      BY <2>4
    <3>2. CASE t \in Range(s)
      <4>1. t \in Range(new)
        BY <1>3, <3>2
      <4> QED BY <3>1, <4>1 DEF Has, new
    <3>3. CASE t = h
      <4>1. \/ rrTree[f] \subseteq rr'[w].gave \cup rr'[w].spool
            \/ \E u \in Range(tasks) : Reads(u) /\ IsPrefix(u.p, f)
        BY <1>7, <2>1, <3>1, <3>3 DEF h
      <4>2. \/ rr'[w].had[f] \subseteq rr'[w].gave \cup rr'[w].spool
            \/ \E u \in Range(new) : Reads(u) /\ IsPrefix(u.p, f)
        BY <1>3, <2>2, <4>1
      <4> QED BY <4>2 DEF Has, new
    <3> QED BY <1>1, <3>2, <3>3
  <2> QED BY <2>1, <2>3, <2>4 DEF Has
<1>8. rr'[w].pc = "running" /\ rrClient' \in BOOLEAN
  BY DEF Running, RRIInv, RRShape
<1>9. Whole(w) => Cut \notin rr'[w].gave
  OBVIOUS
<1> QED BY <1>3, <1>4, <1>5, <1>6, <1>7, <1>8, <1>9, GoOnKeeps DEF new

\* A request that does not read the tree at this step, or puts its readers before the rest.
LEMMA QuietKeeps ==
  ASSUME RRIInv, NEW w \in Workers, Running(w), rr[w].work # <<>>, NEW tasks,
         Proceeds(w, tasks, <<>>), Head(rr[w].work).do # "close",
         TreeStep(w), LinkStep,
         IsWork(tasks), Paired(tasks),
         \A t \in Range(tasks) : FitsRequest(rr[w].req, t) /\ Accounted(t)',
         ~MayNotReplace(w),
         \A f \in DOMAIN rrTree :
           rrTree[f] # Dir /\ Reads(Head(rr[w].work)) /\ IsPrefix(Head(rr[w].work).p, f) =>
             \E t \in Range(tasks) : Reads(t) /\ IsPrefix(t.p, f)
  PROVE  RRIInv'
<1>1. /\ Aside(w) /\ rr'[w].pc = rr[w].pc
      /\ rr'[w].work = tasks \o Tail(rr[w].work)
      /\ rr'[w].spool = rr[w].spool /\ rr'[w].gave = rr[w].gave /\ rr'[w].fresh = rr[w].fresh
      /\ rrClient' = rrClient /\ rrLock' = rrLock /\ rrRetr' = rrRetr
  BY ProceedsPlain DEF RRIInv
<1>2. rrRetr' = Nobody
  BY <1>1, NotReading
<1>3. rr'[w].fresh \in BOOLEAN
  BY <1>1 DEF RRIInv, RRShape
<1>4. /\ Whole(w) => Cut \notin rr'[w].gave
      /\ rr[w].req.kind # "extract" => Cut \notin rr'[w].spool
  BY <1>1, WorkOfRunning DEF RRIInv, RRWhole, Whole
<1> QED BY <1>1, <1>2, <1>3, <1>4, StepKeeps

\* Steps that leave the files alone, and what they do to the connection.
LEMMA FilesStill ==
  ASSUME RRIInv, NEW w, UNCHANGED rrFiles
  PROVE  TreeStep(w)
BY DEF RRIInv, RRShape, rrFiles, TreeStep

LEMMA CommandStill ==
  ASSUME RRIInv, NEW w \in Workers, Running(w), rr[w].work = <<>> \/ Head(rr[w].work).do # "close",
         Commands(w), Undisturbed
  PROVE  LinkStep
<1>1. rrRetr = Nobody
  BY NotReading
<1> QED BY <1>1 DEF RRIInv, RRShape, RRReading, RROneTransfer, Commands, Undisturbed, LinkStep

LEMMA FaultLink ==
  ASSUME RRIInv, NEW isTransfer, NEW x \in FaultOf(isTransfer), Suffers(x),
         rrProto' = rrProto, rrForeign' = rrForeign, ~rrDesync'
  PROVE  LinkStep
<1>1. x.lost \in BOOLEAN /\ (Live => rrFaults < MaxFaults)
  BY FaultsKnown
<1>2. rrLink \in BOOLEAN /\ rrMisread \in BOOLEAN /\ rrFaults \in 0..MaxFaults /\ MaxFaults \in Nat
  BY RemoteAssumption DEF RRIInv, RRShape
<1>3. rrFaults' \in 0..MaxFaults
  BY <1>1, <1>2 DEF Suffers
<1> QED BY <1>1, <1>2, <1>3 DEF Suffers, LinkStep

LEMMA CommandFault ==
  ASSUME RRIInv, NEW w \in Workers, Running(w), rr[w].work = <<>> \/ Head(rr[w].work).do # "close",
         Commands(w), NEW isTransfer, NEW x \in FaultOf(isTransfer), Suffers(x)
  PROVE  LinkStep
<1>1. rrRetr = Nobody
  BY NotReading
<1>2. rrProto' = rrProto /\ rrForeign' = rrForeign /\ ~rrDesync'
  BY <1>1 DEF RRIInv, RRReading, RROneTransfer, Commands
<1> QED BY <1>2, FaultLink

-----------------------------------------------------------------------------
(* Every task keeps the invariant.                                         *)

LEMMA AtRuns ==
  ASSUME RRIInv, NEW w \in Workers, NEW dos, At(w, dos)
  PROVE  /\ Running(w) /\ rr[w].work # <<>> /\ Head(rr[w].work).do \in dos
         /\ FitsRequest(rr[w].req, Head(rr[w].work)) /\ Accounted(Head(rr[w].work))
         /\ Head(rr[w].work).do \notin {"ensure", "probe"} => ~MayNotReplace(w)
<1>1. Running(w) /\ rr[w].work # <<>> /\ Head(rr[w].work).do \in dos
  BY DEF At, Running
<1> QED BY <1>1, HeadOfRunning, GuardedHead

LEMMA BrokenKeeps ==
  ASSUME RRIInv, NEW w \in Workers, RRBroken(w)
  PROVE  RRIInv'
<1> DEFINE dos == {"copy", "zip", "size", "item", "del", "ensure", "probe", "list", "show",
                   "look", "mkdir", "move", "rm", "rmdir"}
           isTransfer == Head(rr[w].work).do \in {"list", "show", "look"}
<1>1. At(w, dos) /\ Commands(w) /\ UNCHANGED rrFiles
  BY DEF RRBroken
<1>2. Running(w) /\ rr[w].work # <<>> /\ Head(rr[w].work).do # "close"
  BY <1>1, AtRuns
<1>3. PICK x \in FaultOf(isTransfer) : Suffers(x) /\ Fails(w, Adapted(x.err))
  BY DEF RRBroken
<1> HIDE DEF isTransfer
<1>4. LinkStep /\ TreeStep(w)
  BY <1>1, <1>2, <1>3, CommandFault, FilesStill
<1> QED BY <1>2, <1>3, <1>4, FailsKeeps

LEMMA GetsAre ==
  ASSUME NEW p
  PROVE  /\ IsWork(Get(p)) /\ Paired(Get(p))
         /\ Range(Get(p)) = {Task("get", p, <<>>), Task("close", p, <<>>)}
<1> DEFINE a == Task("get", p, <<>>)
           b == Task("close", p, <<>>)
<1>1. a.do = "get" /\ b.do = "close" /\ a.p = p /\ b.p = p
  BY DEF Task
<1>2. Get(p) = <<a, b>>
  BY DEF Get
<1> HIDE DEF a, b
<1>3. IsWork(<<a, b>>) /\ Range(<<a, b>>) = {a, b} /\ Paired(<<a, b>>)
  BY <1>1, WorkOfTwo
<1> QED BY <1>2, <1>3 DEF a, b

\* A task of a request that deletes nothing, of a kind that asks for nothing more.
LEMMA PlainFits ==
  ASSUME NEW r, r.kind # "delete", NEW do, NEW p \in Path, NEW q,
         do \in {"want", "mkdir", "get", "close", "put", "ensure", "make", "show", "look", "chmod",
                 "copy", "size", "zip", "open", "probe", "bye"}, q \in Path
  PROVE  FitsRequest(r, Task(do, p, q)) /\ Task(do, p, q).do = do /\ Task(do, p, q).p = p
<1> DEFINE t == Task(do, p, q)
<1>1. t.do = do /\ t.p = p /\ t.q = q
  BY DEF Task
<1> HIDE DEF t
<1>2. FitsRequest(r, t)
  BY <1>1 DEF FitsRequest, Deletes
<1> QED BY <1>1, <1>2 DEF t

LEMMA RootPath == <<>> \in Path
BY EmptySeq DEF Path

LEMMA GetsFit ==
  ASSUME NEW r, r.kind # "delete", NEW p \in Path
  PROVE  \A u \in Range(Get(p)) : FitsRequest(r, u) /\ u.do # "confirm"
BY GetsAre, PlainFits, RootPath

\* What a walk puts in place of a task fits, and reads what the task would.
LEMMA AfterStatFits ==
  ASSUME NEW r, NEW t, FitsRequest(r, t), t.do \in {"copy", "zip", "size", "item", "del"},
         NEW kind \in {"dir", "file"}
  PROVE  /\ IsWork(AfterStat(t, kind)) /\ Paired(AfterStat(t, kind))
         /\ \A u \in Range(AfterStat(t, kind)) : FitsRequest(r, u) /\ u.do # "confirm"
         /\ Reads(t) => \E u \in Range(AfterStat(t, kind)) : Reads(u) /\ u.p = t.p
<1>1. t.p \in Path /\ <<>> \in Path
  BY RootPath DEF FitsRequest
<1>2. CASE t.do = "copy"
  <2>1. t.q \in Path /\ r.kind # "delete"
    BY <1>2 DEF FitsRequest, Deletes
  <2>2. CASE kind = "dir"
    <3> DEFINE a == Task("want", t.q, <<>>)
               b == ListTo("copy", t.p, t.q)
    <3>1. AfterStat(t, kind) = <<a, b>>
      BY <1>2, <2>2 DEF AfterStat
    <3>2. FitsRequest(r, a) /\ a.do = "want"
      BY <1>1, <2>1, PlainFits
    <3>3. b.do = "list" /\ b.p = t.p /\ b.q = t.q /\ b.how = "copy"
      BY DEF ListTo
    <3> HIDE DEF a, b
    <3>4. FitsRequest(r, b) /\ Reads(b)
      BY <1>1, <2>1, <3>3 DEF FitsRequest, Deletes, Reads
    <3>5. IsWork(<<a, b>>) /\ Range(<<a, b>>) = {a, b} /\ Paired(<<a, b>>)
      BY <3>2, <3>3, WorkOfTwo
    <3> QED BY <3>1, <3>2, <3>3, <3>4, <3>5
  <2>3. CASE kind = "file"
    <3> DEFINE a == Task("put", t.q, <<>>)
               b == Task("close", t.p, <<>>)
    <3>1. AfterStat(t, kind) = Get(t.p) \o <<a>>
      BY <1>2, <2>3 DEF AfterStat
    <3>2. FitsRequest(r, a) /\ a.do = "put"
      BY <1>1, <2>1, PlainFits
    <3>3. b \in Range(Get(t.p)) /\ b.do = "close" /\ b.p = t.p
      BY GetsAre DEF Task
    <3> HIDE DEF a, b
    <3>4. IsWork(<<a>>) /\ Range(<<a>>) = {a} /\ Paired(<<a>>)
      BY <3>2, WorkOfOne
    <3>5. IsWork(Get(t.p)) /\ Paired(Get(t.p))
      BY GetsAre
    <3>6. /\ IsWork(Get(t.p) \o <<a>>) /\ Paired(Get(t.p) \o <<a>>)
          /\ Range(Get(t.p) \o <<a>>) = Range(Get(t.p)) \cup {a}
      BY <3>4, <3>5, WorkJoined, PairedJoined
    <3>7. \A u \in Range(Get(t.p)) : FitsRequest(r, u) /\ u.do # "confirm"
      BY <1>1, <2>1, GetsFit
    <3>8. Reads(b)
      BY <3>3 DEF Reads
    <3> QED BY <3>1, <3>2, <3>3, <3>6, <3>7, <3>8
  <2> QED BY <2>2, <2>3
<1>3. CASE t.do = "zip"
  <2>1. r.kind # "delete"
    BY <1>3 DEF FitsRequest, Deletes
  <2>2. CASE kind = "dir"
    <3> DEFINE b == ListTo("zip", t.p, <<>>)
    <3>1. AfterStat(t, kind) = <<b>>
      BY <1>3, <2>2 DEF AfterStat
    <3>2. b.do = "list" /\ b.p = t.p /\ b.q = <<>> /\ b.how = "zip"
      BY DEF ListTo
    <3> HIDE DEF b
    <3>3. FitsRequest(r, b) /\ Reads(b)
      BY <1>1, <2>1, <3>2 DEF FitsRequest, Deletes, Reads
    <3>4. IsWork(<<b>>) /\ Range(<<b>>) = {b} /\ Paired(<<b>>)
      BY <3>2, WorkOfOne
    <3> QED BY <3>1, <3>2, <3>3, <3>4
  <2>3. CASE kind = "file"
    <3> DEFINE b == Task("close", t.p, <<>>)
    <3>1. AfterStat(t, kind) = Get(t.p)
      BY <1>3, <2>3 DEF AfterStat
    <3>2. b \in Range(Get(t.p)) /\ b.do = "close" /\ b.p = t.p
      BY GetsAre DEF Task
    <3> HIDE DEF b
    <3>3. Reads(b)
      BY <3>2 DEF Reads
    <3> QED BY <1>1, <2>1, <3>1, <3>2, <3>3, GetsAre, GetsFit
  <2> QED BY <2>2, <2>3
<1>4. CASE t.do = "size"
  <2>1. r.kind # "delete" /\ ~Reads(t)
    BY <1>4 DEF FitsRequest, Deletes, Reads
  <2>2. CASE kind = "dir"
    <3> DEFINE b == ListTo("size", t.p, <<>>)
    <3>1. AfterStat(t, kind) = <<b>>
      BY <1>4, <2>2 DEF AfterStat
    <3>2. b.do = "list" /\ b.p = t.p /\ b.q = <<>> /\ b.how = "size"
      BY DEF ListTo
    <3> HIDE DEF b
    <3>3. FitsRequest(r, b)
      BY <1>1, <2>1, <3>2 DEF FitsRequest, Deletes
    <3>4. IsWork(<<b>>) /\ Range(<<b>>) = {b} /\ Paired(<<b>>)
      BY <3>2, WorkOfOne
    <3> QED BY <2>1, <3>1, <3>2, <3>3, <3>4
  <2>3. CASE kind = "file"
    <3>1. AfterStat(t, kind) = <<>>
      BY <1>4, <2>3 DEF AfterStat
    <3> QED BY <2>1, <3>1, WorkOfNone
  <2> QED BY <2>2, <2>3
<1>5. CASE t.do \in {"item", "del"}
  <2>1. r.kind = "delete" /\ ~Reads(t)
    BY <1>5 DEF FitsRequest, Deletes, Reads
  <2>2. CASE kind = "dir"
    <3> DEFINE a == ListTo("del", t.p, <<>>)
               b == Task("rmdir", t.p, <<>>)
    <3>1. AfterStat(t, kind) = <<a, b>>
      BY <1>5, <2>2 DEF AfterStat
    <3>2. a.do = "list" /\ a.p = t.p /\ a.how = "del" /\ b.do = "rmdir" /\ b.p = t.p
      BY DEF ListTo, Task
    <3> HIDE DEF a, b
    <3>3. FitsRequest(r, a) /\ FitsRequest(r, b)
      BY <1>1, <2>1, <3>2 DEF FitsRequest, Deletes
    <3>4. IsWork(<<a, b>>) /\ Range(<<a, b>>) = {a, b} /\ Paired(<<a, b>>)
      BY <3>2, WorkOfTwo
    <3> QED BY <2>1, <3>1, <3>2, <3>3, <3>4
  <2>3. CASE kind = "file"
    <3> DEFINE b == Task("rm", t.p, <<>>)
    <3>1. AfterStat(t, kind) = <<b>>
      BY <1>5, <2>3 DEF AfterStat
    <3>2. b.do = "rm" /\ b.p = t.p
      BY DEF Task
    <3> HIDE DEF b
    <3>3. FitsRequest(r, b)
      BY <1>1, <2>1, <3>2 DEF FitsRequest, Deletes
    <3>4. IsWork(<<b>>) /\ Range(<<b>>) = {b} /\ Paired(<<b>>)
      BY <3>2, WorkOfOne
    <3> QED BY <2>1, <3>1, <3>2, <3>3, <3>4
  <2> QED BY <2>2, <2>3
<1> QED BY <1>2, <1>3, <1>4, <1>5

LEMMA WalkKeeps ==
  ASSUME RRIInv, NEW w \in Workers, RRWalk(w)
  PROVE  RRIInv'
<1> DEFINE t == Head(rr[w].work)
           dos == {"copy", "zip", "size", "item", "del"}
<1>1. At(w, dos) /\ Commands(w) /\ Undisturbed /\ UNCHANGED rrFiles
  BY DEF RRWalk
<1>2. /\ Running(w) /\ rr[w].work # <<>> /\ t.do \in dos
      /\ FitsRequest(rr[w].req, t) /\ ~MayNotReplace(w)
  BY <1>1, AtRuns
<1>3. LinkStep /\ TreeStep(w)
  BY <1>1, <1>2, CommandStill, FilesStill
<1>4. CASE Fails(w, NotFound)
  BY <1>2, <1>3, <1>4, FailsKeeps
<1>5. CASE Kind(t.p) # "none" /\ Proceeds(w, AfterStat(t, Kind(t.p)), <<>>)
  <2> DEFINE tasks == AfterStat(t, Kind(t.p))
  <2>1. Kind(t.p) \in {"dir", "file"}
    BY <1>5, KindDef DEF RRIInv, RRShape
  <2>2. /\ IsWork(tasks) /\ Paired(tasks)
        /\ \A u \in Range(tasks) : FitsRequest(rr[w].req, u) /\ u.do # "confirm"
        /\ Reads(t) => \E u \in Range(tasks) : Reads(u) /\ u.p = t.p
    BY <1>2, <2>1, AfterStatFits
  <2>3. Proceeds(w, tasks, <<>>)
    BY <1>5
  <2> HIDE DEF tasks
  <2>4. \A u \in Range(tasks) : FitsRequest(rr[w].req, u) /\ Accounted(u)'
    BY <2>2 DEF Accounted
  <2>5. \A f \in DOMAIN rrTree :
          rrTree[f] # Dir /\ Reads(t) /\ IsPrefix(t.p, f) =>
            \E u \in Range(tasks) : Reads(u) /\ IsPrefix(u.p, f)
    BY <2>2
  <2> QED BY <1>2, <1>3, <2>2, <2>3, <2>4, <2>5, QuietKeeps
<1> QED BY <1>4, <1>5 DEF RRWalk

\* A task that reads nothing is done.
LEMMA DoneKeeps ==
  ASSUME RRIInv, NEW w \in Workers, Running(w), rr[w].work # <<>>,
         Proceeds(w, <<>>, <<>>), Head(rr[w].work).do # "close",
         TreeStep(w), LinkStep, ~MayNotReplace(w), ~Reads(Head(rr[w].work))
  PROVE  RRIInv'
<1> DEFINE tasks == <<>>
<1>1. IsWork(tasks) /\ Paired(tasks) /\ Range(tasks) = {} /\ Proceeds(w, tasks, <<>>)
  BY WorkOfNone
<1> HIDE DEF tasks
<1> QED BY <1>1, QuietKeeps

LEMMA ShowKeeps ==
  ASSUME RRIInv, NEW w \in Workers, RRShow(w)
  PROVE  RRIInv'
<1>1. At(w, {"show", "look"}) /\ Commands(w) /\ Undisturbed /\ UNCHANGED rrFiles
  BY DEF RRShow
<1>2. /\ Running(w) /\ rr[w].work # <<>> /\ Head(rr[w].work).do \in {"show", "look"}
      /\ ~MayNotReplace(w)
  BY <1>1, AtRuns
<1>3. LinkStep /\ TreeStep(w) /\ ~Reads(Head(rr[w].work))
  BY <1>1, <1>2, CommandStill, FilesStill DEF Reads
<1>4. Fails(w, NotFound) \/ Proceeds(w, <<>>, <<>>)
  BY DEF RRShow
<1> QED BY <1>2, <1>3, <1>4, FailsKeeps, DoneKeeps

LEMMA WantKeeps ==
  ASSUME RRIInv, NEW w \in Workers, RRWant(w)
  PROVE  RRIInv'
<1> DEFINE t == Head(rr[w].work)
           a == Task("mkdir", t.p, <<>>)
<1>1. At(w, {"want"}) /\ Commands(w) /\ UNCHANGED rrFiles
  BY DEF RRWant
<1>2. /\ Running(w) /\ rr[w].work # <<>> /\ t.do = "want"
      /\ FitsRequest(rr[w].req, t) /\ ~MayNotReplace(w)
  BY <1>1, AtRuns
<1>3. TreeStep(w) /\ ~Reads(t)
  BY <1>1, <1>2, FilesStill DEF Reads
<1>4. LinkStep /\ (Proceeds(w, <<>>, <<>>) \/ Proceeds(w, <<a>>, <<>>))
  <2>1. CASE Undisturbed /\ Proceeds(w, IF Kind(t.p) = "none" THEN <<a>> ELSE <<>>, <<>>)
    BY <1>1, <1>2, <2>1, CommandStill
  <2>2. ASSUME NEW x \in FaultOf(FALSE), Suffers(x), Proceeds(w, <<a>>, <<>>)
        PROVE  LinkStep
    BY <1>1, <1>2, <2>2, CommandFault
  <2> QED BY <2>1, <2>2 DEF RRWant
<1>5. FitsRequest(rr[w].req, a) /\ a.do = "mkdir"
  <2>1. t.p \in Path /\ rr[w].req.kind # "delete"
    BY <1>2 DEF FitsRequest, Deletes
  <2> QED BY <2>1, PlainFits, RootPath
<1> HIDE DEF a
<1>6. CASE Proceeds(w, <<a>>, <<>>)
  <2>1. IsWork(<<a>>) /\ Range(<<a>>) = {a} /\ Paired(<<a>>)
    BY <1>5, WorkOfOne
  <2>2. \A u \in Range(<<a>>) : FitsRequest(rr[w].req, u) /\ Accounted(u)'
    BY <1>5, <2>1 DEF Accounted
  <2> QED BY <1>2, <1>3, <1>4, <1>6, <2>1, <2>2, QuietKeeps
<1>7. CASE Proceeds(w, <<>>, <<>>)
  BY <1>2, <1>3, <1>4, <1>7, DoneKeeps
<1> QED BY <1>4, <1>6, <1>7

LEMMA MakeDirKeeps ==
  ASSUME RRIInv, NEW w \in Workers, RRMakeDir(w)
  PROVE  RRIInv'
<1> DEFINE t == Head(rr[w].work)
<1>1. At(w, {"mkdir"}) /\ Commands(w) /\ Undisturbed
  BY DEF RRMakeDir
<1>2. /\ Running(w) /\ rr[w].work # <<>> /\ t.do = "mkdir"
      /\ FitsRequest(rr[w].req, t) /\ ~MayNotReplace(w)
  BY <1>1, AtRuns
<1>3. LinkStep /\ ~Reads(t)
  BY <1>1, <1>2, CommandStill DEF Reads
<1>4. CASE CanMake(t.p) /\ rrTree' = Makes(t.p) /\ UNCHANGED rrWritten /\ Proceeds(w, <<>>, <<>>)
  <2>1. t.p \in Path /\ TreeOK(rrTree)
    BY <1>2 DEF FitsRequest, RRIInv, RRShape
  <2>2. TreeStep(w)
    BY <1>4, <2>1, DirMade DEF TreeStep
  <2> QED BY <1>2, <1>3, <1>4, <2>2, DoneKeeps
<1>5. CASE UNCHANGED rrFiles /\ Fails(w, PlainError)
  BY <1>2, <1>3, <1>5, FilesStill, FailsKeeps
<1> QED BY <1>4, <1>5 DEF RRMakeDir

\* The entries of a directory, in some order.
LEMMA OrderOf ==
  ASSUME TreeOK(rrTree), NEW p, NEW order \in SetToSeqs(Children(p))
  PROVE  /\ Cardinality(Children(p)) \in Nat
         /\ order \in [1..Cardinality(Children(p)) -> Children(p)]
         /\ \A c \in Children(p) : \E i \in 1..Cardinality(Children(p)) : order[i] = c
<1> DEFINE C == Children(p)
           n == Cardinality(C)
           D == 1..n
<1>1. C \subseteq DOMAIN rrTree /\ IsFiniteSet(DOMAIN rrTree)
  BY DEF Children, TreeOK
<1>2. order \in [D -> C] /\ \A i, j \in D : i # j => order[i] # order[j]
  BY DEF SetToSeqs
<1> HIDE DEF C
<1>3. IsFiniteSet(C) /\ n \in Nat
  BY <1>1, FS_Subset, FS_CardinalityType
<1>4. Cardinality(D) = n
  <2> HIDE DEF n
  <2> QED BY <1>3, FS_Interval, 1 \in Int, n >= 1 \/ n = 0
<1> HIDE DEF n, D
<1>5. order \in Injection(D, C)
  BY <1>2 DEF Injection, IsInjective
<1>6. order \in Surjection(D, C)
  BY <1>3, <1>4, <1>5, FS_Injection DEF n
<1>7. \A c \in C : \E i \in D : order[i] = c
  BY <1>6 DEF Surjection
<1> QED BY <1>2, <1>3, <1>7 DEF C, n, D

\* What lies below a directory lies at or below one of its entries.
LEMMA ChildAbove ==
  ASSUME TreeOK(rrTree), NEW p \in Path, Kind(p) = "dir",
         NEW f \in DOMAIN rrTree, rrTree[f] # Dir, IsPrefix(p, f)
  PROVE  \E c \in Children(p) : IsPrefix(c, f)
<1> DEFINE c == SubSeq(f, 1, Len(p) + 1)
<1>1. f \in Path /\ f # <<>>
  BY DEF TreeOK
<1>2. f # p
  BY <1>1, KindDef
<1>3. /\ Len(p) \in Nat /\ Len(f) \in Nat
      /\ Len(p) <= Len(f) /\ p = SubSeq(f, 1, Len(p))
  BY <1>1, PathLen, PrefixDef
<1>4. Len(p) # Len(f)
  BY <1>1, <1>2, <1>3, WholePrefix
<1>5. Len(p) + 1 \in Int /\ Len(p) + 1 <= Len(f) /\ Len(p) + 1 >= 0
  BY <1>3, <1>4
<1>6. c \in Path /\ Len(c) = Len(p) + 1
  BY <1>1, <1>5, PrefixPath
<1>7. SubSeq(c, 1, Len(p)) = SubSeq(f, 1, Len(p))
  BY <1>1, <1>3, <1>5, PrefixOfPrefix, Len(p) + 1 \in Nat
<1>8. IsPrefix(c, f)
  BY <1>1, <1>5, <1>6, PrefixDef
<1> HIDE DEF c
<1>9. c # <<>>
  BY <1>3, <1>6, PathLen
<1>10. Front(c) = p
  <2>1. Len(c) - 1 = Len(p) /\ p = SubSeq(c, 1, Len(p))
    BY <1>3, <1>6, <1>7
  <2>2. Front(c) = SubSeq(c, 1, Len(c) - 1)
    BY <1>6, FrontPath
  <2> QED BY <2>1, <2>2
<1>11. c \in DOMAIN rrTree
  BY <1>1, <1>6, <1>8, <1>9, TreeAbove
<1> QED BY <1>8, <1>9, <1>10, <1>11 DEF Children

LEMMA ListKeeps ==
  ASSUME RRIInv, NEW w \in Workers, RRList(w)
  PROVE  RRIInv'
<1> DEFINE t == Head(rr[w].work)
<1>1. At(w, {"list"}) /\ Commands(w) /\ Undisturbed /\ UNCHANGED rrFiles
  BY DEF RRList
<1>2. /\ Running(w) /\ rr[w].work # <<>> /\ t.do = "list"
      /\ FitsRequest(rr[w].req, t) /\ ~MayNotReplace(w)
  BY <1>1, AtRuns
<1>3. LinkStep /\ TreeStep(w)
  BY <1>1, <1>2, CommandStill, FilesStill
<1>4. CASE Fails(w, NotFound)
  BY <1>2, <1>3, <1>4, FailsKeeps
<1>5. ASSUME Kind(t.p) = "dir", NEW order \in SetToSeqs(Children(t.p)),
             Proceeds(w, [i \in DOMAIN order |->
                            Task(t.how, order[i], IF t.how = "copy" THEN Below(t.q, order[i])
                                                  ELSE <<>>)], <<>>)
      PROVE  RRIInv'
  <2> DEFINE q(c) == IF t.how = "copy" THEN Below(t.q, c) ELSE <<>>
             n == Cardinality(Children(t.p))
             tasks == [i \in DOMAIN order |-> Task(t.how, order[i], q(order[i]))]
             S == {Task(t.how, c, q(c)) : c \in Children(t.p)}
  <2>0. TreeOK(rrTree) /\ t.p \in Path
    BY <1>2 DEF RRIInv, RRShape, FitsRequest
  <2>1. /\ n \in Nat /\ order \in [1..n -> Children(t.p)]
        /\ \A c \in Children(t.p) : \E i \in 1..n : order[i] = c
    BY <1>5, <2>0, OrderOf
  <2>2. Proceeds(w, tasks, <<>>)
    BY <1>5
  <2>3. DOMAIN tasks = 1..n /\ \A i \in 1..n : tasks[i] = Task(t.how, order[i], q(order[i]))
    BY <2>1
  <2>4. tasks \in [1..n -> S]
    BY <2>1
  <2> HIDE DEF tasks, n
  <2>5. tasks \in Seq(S)
    BY <2>1, <2>4, SeqDef
  <2>6. IsWork(tasks) /\ Range(tasks) \subseteq S
    BY <2>5, WorkOver
  <2>7. ASSUME NEW u \in S
        PROVE  FitsRequest(rr[w].req, u) /\ u.do \in {"copy", "zip", "size", "del"}
    <3>1. PICK c \in Children(t.p) : u = Task(t.how, c, q(c))
      OBVIOUS
    <3>2. c \in Path /\ c # <<>> /\ c[Len(c)] \in Segments
      <4>1. c \in Path /\ c # <<>>
        BY <2>0 DEF Children, TreeOK
      <4> QED BY <4>1, PathLen
    <3>3. u.do = t.how /\ u.p = c /\ u.q = q(c)
      BY <3>1 DEF Task
    <3>4. t.how \in {"copy", "zip", "size", "del"} /\ (t.how = "copy" => t.q \in Path)
      BY <1>2 DEF FitsRequest
    <3>5. t.how = "copy" => u.q \in Path
      BY <3>2, <3>3, <3>4, AppendProperties DEF Below, Last, Path
    <3>6. rr[w].req.kind = "delete" <=> t.how = "del"
      BY <1>2 DEF FitsRequest, Deletes
    <3>7. Deletes(u) <=> t.how = "del"
      BY <3>3, <3>4 DEF Deletes
    <3> HIDE DEF q
    <3>8. FitsRequest(rr[w].req, u)
      BY <3>2, <3>3, <3>4, <3>5, <3>6, <3>7 DEF FitsRequest
    <3> QED BY <3>3, <3>4, <3>8
  <2>8. \A u \in Range(tasks) : FitsRequest(rr[w].req, u) /\ Accounted(u)'
    BY <2>6, <2>7 DEF Accounted
  <2>9. Paired(tasks)
    BY <2>6, <2>7, PairedNone
  <2>10. ASSUME NEW f \in DOMAIN rrTree, rrTree[f] # Dir, Reads(t), IsPrefix(t.p, f)
         PROVE  \E u \in Range(tasks) : Reads(u) /\ IsPrefix(u.p, f)
    <3>1. PICK c \in Children(t.p) : IsPrefix(c, f)
      BY <1>5, <2>0, <2>10, ChildAbove
    <3>2. PICK i \in 1..n : order[i] = c
      BY <2>1
    <3>3. tasks[i] = Task(t.how, c, q(c))
      BY <2>3, <3>2
    <3>4. tasks[i].do = t.how /\ tasks[i].p = c
      BY <3>3 DEF Task
    <3>5. t.how \in {"copy", "zip"}
      BY <1>2, <2>10 DEF Reads
    <3>6. Reads(tasks[i])
      BY <3>4, <3>5 DEF Reads
    <3>7. tasks[i] \in Range(tasks)
      BY <2>3, <2>6, WorkDomain
    <3> QED BY <3>1, <3>4, <3>6, <3>7
  <2> QED BY <1>2, <1>3, <2>2, <2>6, <2>8, <2>9, <2>10, QuietKeeps
<1> QED BY <1>4, <1>5 DEF RRList

\* A task that only notes whether it made a directory.
LEMMA DoneFreshKeeps ==
  ASSUME RRIInv, NEW w \in Workers, Running(w), rr[w].work # <<>>, NEW b \in BOOLEAN,
         Proceeds(w, <<>>, [fresh |-> b]), Head(rr[w].work).do # "close",
         TreeStep(w), LinkStep, ~Reads(Head(rr[w].work)),
         MayNotReplace(w) => Head(rr[w].work).do = "ensure" /\ ~b
  PROVE  RRIInv'
<1> DEFINE tasks == <<>>
<1>1. IsWork(tasks) /\ Paired(tasks) /\ Range(tasks) = {} /\ Proceeds(w, tasks, [fresh |-> b])
      /\ tasks = <<>>
  BY WorkOfNone
<1> HIDE DEF tasks
<1>2. /\ Aside(w) /\ rr'[w].pc = rr[w].pc
      /\ rr'[w].work = tasks \o Tail(rr[w].work)
      /\ rr'[w].spool = rr[w].spool /\ rr'[w].gave = rr[w].gave /\ rr'[w].fresh = b
      /\ rrClient' = rrClient /\ rrLock' = rrLock /\ rrRetr' = rrRetr
  BY <1>1, ProceedsFresh DEF RRIInv
<1>3. rrRetr' = Nobody
  BY <1>2, NotReading
<1>4. /\ Whole(w) => Cut \notin rr'[w].gave
      /\ rr[w].req.kind # "extract" => Cut \notin rr'[w].spool
  BY <1>2, WorkOfRunning DEF RRIInv, RRWhole, Whole
<1> QED BY <1>1, <1>2, <1>3, <1>4, StepKeeps

\* A file lies in a directory.
LEMMA FrontIsDir ==
  ASSUME TreeOK(rrTree), NEW f \in DOMAIN rrTree
  PROVE  f # <<>> /\ Kind(Front(f)) = "dir"
<1>1. f \in Path /\ f # <<>>
  BY DEF TreeOK
<1>2. Front(f) = SubSeq(f, 1, Len(f) - 1) /\ Front(f) \in Path
  BY <1>1, FrontPath
<1>3. Len(f) \in Nat /\ Len(f) >= 1
  BY <1>1, PathLen
<1>4. CASE Front(f) = <<>>
  BY <1>1, <1>4, KindDef
<1>5. CASE Front(f) # <<>>
  <2>1. Len(f) - 1 \in 1..(Len(f) - 1)
    BY <1>1, <1>2, <1>3, <1>5, PathLen, PrefixPath
  <2>2. Front(f) \in DOMAIN rrTree /\ rrTree[Front(f)] = Dir
    BY <1>2, <2>1 DEF TreeOK
  <2> QED BY <1>1, <2>2, KindDef
<1> QED BY <1>1, <1>4, <1>5

LEMMA EnsureKeeps ==
  ASSUME RRIInv, NEW w \in Workers, RREnsure(w)
  PROVE  RRIInv'
<1> DEFINE t == Head(rr[w].work)
           a == Task("ensure", Front(t.p), <<>>)
           b == Task("make", t.p, <<>>)
<1>1. At(w, {"ensure"}) /\ Commands(w) /\ Undisturbed /\ UNCHANGED rrFiles
  BY DEF RREnsure
<1>2. Running(w) /\ rr[w].work # <<>> /\ t.do = "ensure" /\ FitsRequest(rr[w].req, t)
  BY <1>1, AtRuns
<1>3. LinkStep /\ TreeStep(w) /\ ~Reads(t)
  BY <1>1, <1>2, CommandStill, FilesStill DEF Reads
<1>4. CASE Fails(w, PlainError)
  BY <1>2, <1>3, <1>4, FailsKeeps
<1>5. CASE Proceeds(w, <<>>, [fresh |-> FALSE])
  BY <1>2, <1>3, <1>5, DoneFreshKeeps
<1>6. CASE Kind(t.p) = "none" /\ Proceeds(w, <<a, b>>, <<>>)
  <2>1. t.p \in Path /\ rr[w].req.kind # "delete" /\ Front(t.p) \in Path
    BY <1>2, FrontPath DEF FitsRequest, Deletes
  <2>2. ~MayNotReplace(w)
    <3>1. SUFFICES ASSUME MayNotReplace(w) PROVE FALSE
      OBVIOUS
    <3> DEFINE f == rr[w].req.p
    <3>2. f \in DOMAIN rrTree /\ t.p = Front(f)
      BY <1>2, <3>1, GuardedHead
    <3>3. Kind(Front(f)) = "dir"
      BY <3>2, FrontIsDir DEF RRIInv, RRShape
    <3> QED BY <1>6, <3>2, <3>3
  <2>3. /\ FitsRequest(rr[w].req, a) /\ a.do = "ensure"
        /\ FitsRequest(rr[w].req, b) /\ b.do = "make"
    BY <2>1, PlainFits, RootPath
  <2> HIDE DEF a, b
  <2>4. IsWork(<<a, b>>) /\ Range(<<a, b>>) = {a, b} /\ Paired(<<a, b>>)
    BY <2>3, WorkOfTwo
  <2>5. \A u \in Range(<<a, b>>) : FitsRequest(rr[w].req, u) /\ Accounted(u)'
    BY <2>3, <2>4 DEF Accounted
  <2>6. t.do # "close"
    BY <1>2
  <2> QED BY <1>2, <1>3, <1>6, <2>2, <2>4, <2>5, <2>6, QuietKeeps
<1> QED BY <1>4, <1>5, <1>6 DEF RREnsure

\* An error that a handler takes for a lost connection is one, or counted as misread.
LEMMA LossTold ==
  ASSUME RRShape, NEW isTransfer, NEW x \in FaultOf(isTransfer), Suffers(x),
         IsConnLost(Adapted(x.err))
  PROVE  ~rrLink' \/ rrMisread'
<1>1. /\ x.lost \in BOOLEAN /\ "ErrConnectionLost" \notin x.err.is /\ x.err.deep \subseteq x.err.says
      /\ {"421", "fx connection lost"} \cap x.err.is # {} => x.lost
  BY FaultsKnown
<1>2. x.lost \/ SoundsLost(x.err)
  BY <1>1, AdaptedLost
<1> QED BY <1>1, <1>2 DEF Suffers

LEMMA MakeKeeps ==
  ASSUME RRIInv, NEW w \in Workers, RRMake(w)
  PROVE  RRIInv'
<1> DEFINE t == Head(rr[w].work)
           c(e) == [do |-> "confirm", p |-> t.p, err |-> e]
<1>1. At(w, {"make"}) /\ Commands(w)
  BY DEF RRMake
<1>2. /\ Running(w) /\ rr[w].work # <<>> /\ t.do = "make"
      /\ FitsRequest(rr[w].req, t) /\ ~MayNotReplace(w)
  BY <1>1, AtRuns
<1>3. t.p \in Path /\ TreeOK(rrTree) /\ rr[w].req.kind # "delete" /\ ~Reads(t)
  BY <1>2 DEF FitsRequest, RRIInv, RRShape, Deletes, Reads
<1>4. ASSUME NEW e, UNCHANGED rrFiles, LinkStep, Proceeds(w, <<c(e)>>, <<>>),
             IsConnLost(e) => ~rrLink' \/ rrMisread'
      PROVE  RRIInv'
  <2> DEFINE a == c(e)
  <2>1. a.do = "confirm" /\ a.p = t.p /\ a.err = e /\ Proceeds(w, <<a>>, <<>>)
    BY <1>4
  <2> HIDE DEF a
  <2>2. IsWork(<<a>>) /\ Range(<<a>>) = {a} /\ Paired(<<a>>)
    BY <2>1, WorkOfOne
  <2>3. FitsRequest(rr[w].req, a)
    BY <1>3, <2>1 DEF FitsRequest, Deletes
  <2>4. ASSUME NEW u \in Range(<<a>>)
        PROVE  FitsRequest(rr[w].req, u) /\ Accounted(u)'
    <3>1. u = a
      BY <2>2, <2>4
    <3> QED BY <1>4, <2>1, <2>3, <3>1 DEF Accounted
  <2>5. TreeStep(w) /\ t.do # "close"
    BY <1>2, <1>4, FilesStill
  <2> QED BY <1>2, <1>3, <1>4, <2>1, <2>2, <2>4, <2>5, QuietKeeps
<1>5. CASE /\ Undisturbed /\ CanMake(t.p) /\ rrTree' = Makes(t.p) /\ UNCHANGED rrWritten
           /\ Proceeds(w, <<>>, [fresh |-> TRUE])
  <2>1. TreeStep(w)
    BY <1>3, <1>5, DirMade DEF TreeStep
  <2>2. LinkStep
    BY <1>1, <1>2, <1>5, CommandStill
  <2> QED BY <1>2, <1>3, <1>5, <2>1, <2>2, DoneFreshKeeps
<1>6. CASE Undisturbed /\ UNCHANGED rrFiles /\ Proceeds(w, <<c(PlainError)>>, <<>>)
  <2>1. LinkStep /\ ~IsConnLost(PlainError)
    BY <1>1, <1>2, <1>6, CommandStill, OwnErrors
  <2> QED BY <1>4, <1>6, <2>1
<1>7. ASSUME NEW x \in FaultOf(FALSE), Suffers(x), UNCHANGED rrFiles,
             Proceeds(w, <<c(Adapted(x.err))>>, <<>>)
      PROVE  RRIInv'
  <2>1. LinkStep
    BY <1>1, <1>2, <1>7, CommandFault
  <2>2. IsConnLost(Adapted(x.err)) => ~rrLink' \/ rrMisread'
    BY <1>7, LossTold DEF RRIInv
  <2> QED BY <1>4, <1>7, <2>1, <2>2
<1> QED BY <1>5, <1>6, <1>7 DEF RRMake

LEMMA ConfirmKeeps ==
  ASSUME RRIInv, NEW w \in Workers, RRConfirm(w)
  PROVE  RRIInv'
<1> DEFINE t == Head(rr[w].work)
<1>1. At(w, {"confirm"}) /\ Commands(w) /\ UNCHANGED rrFiles
  BY DEF RRConfirm
<1>2. /\ Running(w) /\ rr[w].work # <<>> /\ t.do = "confirm" /\ ~MayNotReplace(w)
  BY <1>1, AtRuns
<1>3. TreeStep(w) /\ ~Reads(t)
  BY <1>1, <1>2, FilesStill DEF Reads
<1>4. CASE Undisturbed /\ Proceeds(w, <<>>, [fresh |-> FALSE])
  BY <1>1, <1>2, <1>3, <1>4, CommandStill, DoneFreshKeeps
<1>5. CASE Undisturbed /\ Fails(w, t.err)
  BY <1>1, <1>2, <1>3, <1>5, CommandStill, FailsKeeps
<1>6. ASSUME NEW x \in FaultOf(FALSE), Suffers(x), Fails(w, t.err)
      PROVE  RRIInv'
  <2>1. LinkStep
    BY <1>1, <1>2, <1>6, CommandFault
  <2> QED BY <1>2, <1>3, <1>6, <2>1, FailsKeeps
<1> QED BY <1>4, <1>5, <1>6 DEF RRConfirm

\* Steps that send no command.
LEMMA QuietStill ==
  ASSUME RRIInv, UNCHANGED <<rrDesync, rrProto, rrForeign>>, Undisturbed
  PROVE  LinkStep
BY DEF RRIInv, RRShape, RRReading, RROneTransfer, Undisturbed, LinkStep

LEMMA ProbeKeeps ==
  ASSUME RRIInv, NEW w \in Workers, RRProbe(w)
  PROVE  RRIInv'
<1> DEFINE t == Head(rr[w].work)
<1>1. At(w, {"probe"}) /\ UNCHANGED rrFiles /\ Undisturbed
  BY DEF RRProbe
<1>2. Running(w) /\ rr[w].work # <<>> /\ t.do = "probe"
  BY <1>1, AtRuns
<1>3. TreeStep(w) /\ ~Reads(t)
  BY <1>1, <1>2, FilesStill DEF Reads
<1>4. CASE /\ rr[w].req.over \/ rr[w].fresh
           /\ Proceeds(w, <<>>, <<>>) /\ UNCHANGED <<rrDesync, rrProto, rrForeign>>
  <2>1. ~MayNotReplace(w)
    BY <1>2, <1>4, GuardedHead DEF MayNotReplace
  <2>2. LinkStep
    BY <1>1, <1>4, QuietStill
  <2> QED BY <1>2, <1>3, <1>4, <2>1, <2>2, DoneKeeps
<1>5. CASE Commands(w) /\ Taken(w, Kind(t.p))
  <2>1. LinkStep
    BY <1>1, <1>2, <1>5, CommandStill
  <2>2. CASE Kind(t.p) = "none"
    <3>1. Proceeds(w, <<>>, <<>>)
      BY <1>5, <2>2 DEF Taken
    <3>2. MayNotReplace(w) => t.p \in DOMAIN rrTree
      BY <1>2, GuardedHead
    <3>3. ~MayNotReplace(w)
      BY <2>2, <3>2, KindDef DEF RRIInv, RRShape
    <3> QED BY <1>2, <1>3, <2>1, <3>1, <3>3, DoneKeeps
  <2>3. CASE Kind(t.p) # "none"
    <3>1. Finish(w, "conflict", <<>>) /\ UNCHANGED rrClient /\ "conflict" # "ok"
      BY <1>5, <2>3 DEF Taken
    <3> QED BY <1>2, <1>3, <2>1, <3>1, RefusalKeeps
  <2> QED BY <2>2, <2>3
<1> QED BY <1>4, <1>5 DEF RRProbe

LEMMA OpenKeeps ==
  ASSUME RRIInv, NEW w \in Workers, RROpen(w)
  PROVE  RRIInv'
<1> DEFINE t == Head(rr[w].work)
<1>1. At(w, {"open"}) /\ Commands(w) /\ UNCHANGED rrFiles
  BY DEF RROpen
<1>2. /\ Running(w) /\ rr[w].work # <<>> /\ t.do = "open"
      /\ FitsRequest(rr[w].req, t) /\ ~MayNotReplace(w)
  BY <1>1, AtRuns
<1>3. TreeStep(w)
  BY <1>1, FilesStill
<1>4. ASSUME LinkStep, Proceeds(w, Get(t.p), <<>>)
      PROVE  RRIInv'
  <2> DEFINE tasks == Get(t.p)
             b == Task("close", t.p, <<>>)
  <2>1. t.p \in Path /\ rr[w].req.kind # "delete"
    BY <1>2 DEF FitsRequest, Deletes
  <2>2. /\ IsWork(tasks) /\ Paired(tasks) /\ b \in Range(tasks)
        /\ \A u \in Range(tasks) : FitsRequest(rr[w].req, u) /\ u.do # "confirm"
    BY <2>1, GetsAre, GetsFit
  <2>3. b.do = "close" /\ b.p = t.p /\ Proceeds(w, tasks, <<>>)
    BY <1>4 DEF Task
  <2> HIDE DEF tasks, b
  <2>4. Reads(b)
    BY <2>3 DEF Reads
  <2>5. \A u \in Range(tasks) : FitsRequest(rr[w].req, u) /\ Accounted(u)'
    BY <2>2 DEF Accounted
  <2>6. \A f \in DOMAIN rrTree :
          rrTree[f] # Dir /\ Reads(t) /\ IsPrefix(t.p, f) =>
            \E u \in Range(tasks) : Reads(u) /\ IsPrefix(u.p, f)
    BY <2>2, <2>3, <2>4
  <2>7. t.do # "close"
    BY <1>2
  <2> QED BY <1>2, <1>3, <1>4, <2>2, <2>3, <2>5, <2>6, <2>7, QuietKeeps
<1>5. CASE Undisturbed /\ Fails(w, PlainError)
  BY <1>1, <1>2, <1>3, <1>5, CommandStill, FailsKeeps
<1>6. CASE Undisturbed /\ Proceeds(w, Get(t.p), <<>>)
  BY <1>1, <1>2, <1>4, <1>6, CommandStill
<1>7. ASSUME NEW x \in FaultOf(TRUE), Suffers(x),
             IF IsConnLost(Adapted(x.err)) THEN Fails(w, Adapted(x.err))
             ELSE Proceeds(w, Get(t.p), <<>>)
      PROVE  RRIInv'
  <2>1. LinkStep
    BY <1>1, <1>2, <1>7, CommandFault
  <2> QED BY <1>2, <1>3, <1>4, <1>7, <2>1, FailsKeeps
<1> QED BY <1>5, <1>6, <1>7 DEF RROpen

\* A task is done whose request keeps what it noted, but for what it has read.
LEMMA BecomesWork ==
  ASSUME RRShape, NEW w \in Workers, NEW s, Becomes(w, [work |-> s])
  PROVE  /\ Aside(w) /\ rr'[w].pc = rr[w].pc /\ rr'[w].work = s /\ rr'[w].spool = rr[w].spool
         /\ rr'[w].gave = rr[w].gave /\ rr'[w].fresh = rr[w].fresh
<1> DEFINE c == [work |-> s]
<1>1. DOMAIN c = {"work"} /\ c["work"] = s /\ Becomes(w, c)
  OBVIOUS
<1> HIDE DEF c
<1>2. DOMAIN c \subseteq Fields
  BY <1>1 DEF Fields
<1>3. /\ DOMAIN rr' = Workers /\ \A v \in Workers \ {w} : rr'[v] = rr[v]
      /\ DOMAIN rr'[w] = Fields
      /\ \A x \in DOMAIN c : rr'[w][x] = c[x]
      /\ \A x \in Fields \ DOMAIN c : rr'[w][x] = rr[w][x]
  BY <1>1, <1>2, BecomesAt
<1>4. /\ rr'[w]["req"] = rr[w]["req"] /\ rr'[w]["had"] = rr[w]["had"]
      /\ rr'[w]["pc"] = rr[w]["pc"] /\ rr'[w]["work"] = s
      /\ rr'[w]["spool"] = rr[w]["spool"] /\ rr'[w]["gave"] = rr[w]["gave"]
      /\ rr'[w]["fresh"] = rr[w]["fresh"]
  BY <1>1, <1>3 DEF Fields
<1> QED BY <1>3, <1>4 DEF Aside

LEMMA BecomesRead ==
  ASSUME RRShape, NEW w \in Workers, NEW s, NEW got, Becomes(w, [work |-> s, spool |-> got])
  PROVE  /\ Aside(w) /\ rr'[w].pc = rr[w].pc /\ rr'[w].work = s /\ rr'[w].spool = got
         /\ rr'[w].gave = rr[w].gave /\ rr'[w].fresh = rr[w].fresh
<1> DEFINE c == [work |-> s, spool |-> got]
<1>1. DOMAIN c = {"work", "spool"} /\ c["work"] = s /\ c["spool"] = got /\ Becomes(w, c)
  OBVIOUS
<1> HIDE DEF c
<1>2. DOMAIN c \subseteq Fields
  BY <1>1 DEF Fields
<1>3. /\ DOMAIN rr' = Workers /\ \A v \in Workers \ {w} : rr'[v] = rr[v]
      /\ DOMAIN rr'[w] = Fields
      /\ \A x \in DOMAIN c : rr'[w][x] = c[x]
      /\ \A x \in Fields \ DOMAIN c : rr'[w][x] = rr[w][x]
  BY <1>1, <1>2, BecomesAt
<1>4. /\ rr'[w]["req"] = rr[w]["req"] /\ rr'[w]["had"] = rr[w]["had"]
      /\ rr'[w]["pc"] = rr[w]["pc"] /\ rr'[w]["work"] = s
      /\ rr'[w]["spool"] = got /\ rr'[w]["gave"] = rr[w]["gave"]
      /\ rr'[w]["fresh"] = rr[w]["fresh"]
  BY <1>1, <1>3 DEF Fields
<1> QED BY <1>3, <1>4 DEF Aside

LEMMA GetKeeps ==
  ASSUME RRIInv, NEW w \in Workers, RRGet(w)
  PROVE  RRIInv'
<1> DEFINE t == Head(rr[w].work)
           s == Tail(rr[w].work)
<1>1. At(w, {"get"}) /\ Commands(w) /\ UNCHANGED rrFiles
  BY DEF RRGet
<1>2. /\ Running(w) /\ rr[w].work # <<>> /\ t.do = "get" /\ ~MayNotReplace(w)
  BY <1>1, AtRuns
<1>3. TreeStep(w) /\ ~Reads(t)
  BY <1>1, <1>2, FilesStill DEF Reads
<1>4. CASE Undisturbed /\ Fails(w, NotFound)
  BY <1>1, <1>2, <1>3, <1>4, CommandStill, FailsKeeps
<1>5. ASSUME NEW x \in FaultOf(TRUE), Suffers(x), Fails(w, Adapted(x.err))
      PROVE  RRIInv'
  <2>1. LinkStep
    BY <1>1, <1>2, <1>5, CommandFault
  <2> QED BY <1>2, <1>3, <1>5, <2>1, FailsKeeps
<1>6. CASE /\ Undisturbed /\ Becomes(w, [work |-> s])
           /\ rrRetr' = IF rrProto = "ftp" THEN w ELSE rrRetr
           /\ UNCHANGED <<rrClient, rrLock>>
  <2> DEFINE tasks == <<>>
  <2>1. /\ Aside(w) /\ rr'[w].pc = rr[w].pc /\ rr'[w].work = s /\ rr'[w].spool = rr[w].spool
        /\ rr'[w].gave = rr[w].gave /\ rr'[w].fresh = rr[w].fresh
    BY <1>6, BecomesWork DEF RRIInv
  <2>2. IsWork(rr[w].work) /\ Paired(rr[w].work)
    BY <1>2, WorkOfRunning
  <2>3. /\ IsWork(s) /\ t = rr[w].work[1] /\ 1 \in DOMAIN rr[w].work
        /\ Len(s) = Len(rr[w].work) - 1
        /\ \A i \in 1..(Len(rr[w].work) - 1) : s[i] = rr[w].work[i + 1]
        /\ Len(rr[w].work) \in Nat /\ DOMAIN rr[w].work = 1..Len(rr[w].work)
    BY <1>2, <2>2, WorkSplit, WorkDomain
  <2>4. 1 + 1 \in DOMAIN rr[w].work /\ rr[w].work[1 + 1].do = "close"
    BY <1>2, <2>2, <2>3 DEF Paired
  <2>5. Len(s) >= 1 /\ s[1].do = "close"
    <3>1. 1 \in 1..(Len(rr[w].work) - 1)
      BY <2>3, <2>4
    <3> QED BY <2>3, <2>4, <3>1
  <2>6. tasks \o s = s
    BY <2>3, ConcatEmptySeq DEF IsWork
  <2> HIDE DEF s
  <2>7. s # <<>> /\ Head(s).do = "close"
    <3>1. s # <<>>
      BY <2>5, EmptySeq
    <3> QED BY <2>3, <2>5, <3>1, WorkSplit
  <2>8. At(w, {"close"})'
    BY <1>2, <2>1, <2>7 DEF At, Running
  <2>9. rrRetr' = Nobody \/ (rrRetr' = w /\ At(w, {"close"})')
    BY <1>2, <1>6, <2>8, NotReading
  <2>10. LinkStep
    BY <1>1, <1>2, <1>6, CommandStill
  <2>11. IsWork(tasks) /\ Paired(tasks) /\ Range(tasks) = {} /\ rr'[w].work = tasks \o s
    BY <2>1, <2>6, WorkOfNone
  <2>12. /\ Whole(w) => Cut \notin rr'[w].gave
         /\ rr[w].req.kind # "extract" => Cut \notin rr'[w].spool
         /\ rr'[w].fresh \in BOOLEAN
    BY <1>2, <2>1, WorkOfRunning DEF RRIInv, RRWhole, Whole, RRShape
  <2> HIDE DEF tasks
  <2> QED BY <1>2, <1>3, <1>6, <2>1, <2>9, <2>10, <2>11, <2>12, StepKeeps DEF s
<1> QED BY <1>4, <1>5, <1>6 DEF RRGet

\* Below a file there is nothing but itself.
LEMMA FileAlone ==
  ASSUME TreeOK(rrTree), NEW p \in Path, Kind(p) = "file", NEW f \in DOMAIN rrTree, IsPrefix(p, f)
  PROVE  f = p
<1>1. p \in DOMAIN rrTree /\ rrTree[p] # Dir /\ p # <<>>
  BY KindDef DEF TreeOK
<1> QED BY <1>1, TreeAbove

LEMMA ShortReadKeeps ==
  ASSUME RRIInv, NEW w \in Workers, Running(w), rr[w].work # <<>>, NEW e, ShortRead(w, e),
         TreeStep(w), LinkStep
  PROVE  RRIInv'
<1>1. CASE rr[w].req.kind = "download"
  <2>1. Finish(w, "aborted", [gave |-> {Cut}]) /\ UNCHANGED rrClient
    BY <1>1 DEF ShortRead
  <2>2. Ends(w) /\ rr'[w].pc = "done"
    BY <2>1, FinishGave DEF RRIInv
  <2>3. ~MayNotReplace(w) /\ TreeOK(rrTree') /\ rrClient' \in BOOLEAN
    BY <1>1, <2>1 DEF MayNotReplace, TreeStep, RRIInv, RRShape
  <2> QED BY <2>2, <2>3, EndKeeps
<1>2. CASE rr[w].req.kind # "download"
  <2>1. Fails(w, Incomplete(e))
    BY <1>2 DEF ShortRead
  <2> QED BY <2>1, FailsKeeps
<1> QED BY <1>1, <1>2

LEMMA ReadKeeps ==
  ASSUME RRIInv, NEW w \in Workers, RRRead(w)
  PROVE  RRIInv'
<1> DEFINE t == Head(rr[w].work)
           s == Tail(rr[w].work)
           got == rr[w].spool \cup rrTree[t.p]
<1>1. At(w, {"close"}) /\ UNCHANGED <<rrFiles, rrDesync, rrProto, rrForeign>>
  BY DEF RRRead
<1>2. /\ Running(w) /\ rr[w].work # <<>> /\ t.do = "close"
      /\ FitsRequest(rr[w].req, t) /\ ~MayNotReplace(w)
  BY <1>1, AtRuns
<1>3. TreeStep(w)
  BY <1>1, FilesStill
<1>4. ASSUME NEW x \in FaultOf(TRUE), Suffers(x), ShortRead(w, x.err)
      PROVE  RRIInv'
  <2>1. ~rrDesync'
    BY <1>1 DEF RRIInv, RRReading, RROneTransfer
  <2>2. LinkStep
    BY <1>1, <1>4, <2>1, FaultLink
  <2> QED BY <1>2, <1>3, <1>4, <2>2, ShortReadKeeps
<1>5. CASE Undisturbed /\ ShortRead(w, PlainError)
  BY <1>1, <1>2, <1>3, <1>5, QuietStill, ShortReadKeeps
<1>6. CASE /\ Undisturbed /\ Kind(t.p) = "file"
           /\ Becomes(w, [work |-> s, spool |-> got])
           /\ rrRetr' = IF rrRetr = w THEN Nobody ELSE rrRetr
           /\ UNCHANGED <<rrClient, rrLock>>
  <2> DEFINE tasks == <<>>
  <2>1. /\ Aside(w) /\ rr'[w].pc = rr[w].pc /\ rr'[w].work = s /\ rr'[w].spool = got
        /\ rr'[w].gave = rr[w].gave /\ rr'[w].fresh = rr[w].fresh
    BY <1>6, BecomesRead DEF RRIInv
  <2>2. IsWork(s)
    BY <1>2, HeadOfRunning
  <2>3. tasks \o s = s
    BY <2>2, ConcatEmptySeq DEF IsWork
  <2>4. IsWork(tasks) /\ Paired(tasks) /\ Range(tasks) = {} /\ rr'[w].work = tasks \o s
    BY <2>1, <2>3, WorkOfNone
  <2>5. rrRetr' = Nobody
    BY <1>2, <1>6, OneRuns DEF RRIInv, RRReading
  <2>6. LinkStep
    BY <1>1, <1>6, QuietStill
  <2>7. TreeOK(rrTree) /\ t.p \in Path /\ t.p \in DOMAIN rrTree /\ rrTree[t.p] # Dir
    BY <1>2, <1>6, KindDef DEF RRIInv, RRShape, FitsRequest
  <2>8. Cut \notin rrTree[t.p]
    BY <2>7 DEF TreeOK
  <2>9. /\ Whole(w) => Cut \notin rr'[w].gave
        /\ rr[w].req.kind # "extract" => Cut \notin rr'[w].spool
        /\ rr'[w].fresh \in BOOLEAN
    BY <1>2, <2>1, <2>8, WorkOfRunning DEF RRIInv, RRWhole, Whole, RRShape
  <2>10. \A f \in DOMAIN rrTree : IsPrefix(t.p, f) => rrTree[f] \subseteq rr'[w].gave \cup rr'[w].spool
    BY <1>6, <2>1, <2>7, FileAlone
  <2> HIDE DEF tasks, s
  <2>11. rr[w].gave \cup rr[w].spool \subseteq rr'[w].gave \cup rr'[w].spool
    BY <2>1
  <2> QED BY <1>2, <1>3, <1>6, <2>1, <2>4, <2>5, <2>6, <2>9, <2>10, <2>11, StepKeeps DEF s
<1> QED BY <1>4, <1>5, <1>6 DEF RRRead

\* A file is written where one may be.
LEMMA WriteStep ==
  ASSUME TreeOK(rrTree), NEW w, NEW p \in Path, Storable(p),
         NEW content, content = Dir \/ Cut \notin content, Writes(p, content)
  PROVE  TreeStep(w)
<1>1. TreeOK(WithFile(p, content))
  BY FileStored
<1>2. /\ DOMAIN rrTree \subseteq DOMAIN WithFile(p, content)
      /\ \A f \in DOMAIN rrTree \ {p} : WithFile(p, content)[f] = rrTree[f]
  BY DEF WithFile, Over
<1>3. rrTree' = WithFile(p, content) /\ rrWritten' = rrWritten \cup {p}
  BY DEF Writes
<1> QED BY <1>1, <1>2, <1>3 DEF TreeStep

LEMMA PutKeeps ==
  ASSUME RRIInv, NEW w \in Workers, RRPut(w)
  PROVE  RRIInv'
<1> DEFINE t == Head(rr[w].work)
           content == rr[w].spool
<1>1. At(w, {"put"}) /\ Commands(w)
  BY DEF RRPut
<1>2. /\ Running(w) /\ rr[w].work # <<>> /\ t.do = "put"
      /\ FitsRequest(rr[w].req, t) /\ ~MayNotReplace(w)
  BY <1>1, AtRuns
<1>3. t.p \in Path /\ TreeOK(rrTree) /\ ~Reads(t) /\ Cut \notin {Part}
  BY <1>2, TreeAssumption DEF FitsRequest, RRIInv, RRShape, Reads
<1>4. ASSUME Storable(t.p), Writes(t.p, {Part}), LinkStep, NEW e, Fails(w, e)
      PROVE  RRIInv'
  <2>1. TreeStep(w)
    BY <1>3, <1>4, WriteStep
  <2> QED BY <1>2, <1>4, <2>1, FailsKeeps
<1>5. ASSUME UNCHANGED rrFiles, LinkStep, NEW e, Fails(w, e)
      PROVE  RRIInv'
  BY <1>2, <1>5, FilesStill, FailsKeeps
<1>6. ASSUME Storable(t.p), LinkStep, ~(rr[w].req.kind = "extract" /\ Cut \in content),
             Writes(t.p, content),
             Proceeds(w, <<>>, [spool |-> {}, gave |-> rr[w].gave \cup content])
      PROVE  RRIInv'
  <2> DEFINE tasks == <<>>
             g == rr[w].gave \cup content
  <2>1. Cut \notin content
    BY <1>2, <1>6, WorkOfRunning
  <2>2. TreeStep(w)
    BY <1>3, <1>6, <2>1, WriteStep
  <2>3. IsWork(tasks) /\ Paired(tasks) /\ Range(tasks) = {}
        /\ Proceeds(w, tasks, [spool |-> {}, gave |-> g])
    BY <1>6, WorkOfNone
  <2> HIDE DEF tasks, g
  <2>4. /\ Aside(w) /\ rr'[w].pc = rr[w].pc
        /\ rr'[w].work = tasks \o Tail(rr[w].work)
        /\ rr'[w].spool = {} /\ rr'[w].gave = g /\ rr'[w].fresh = rr[w].fresh
        /\ rrClient' = rrClient /\ rrLock' = rrLock /\ rrRetr' = rrRetr
    BY <2>3, ProceedsPut DEF RRIInv
  <2>5. rrRetr' = Nobody
    BY <1>2, <2>4, NotReading
  <2>6. /\ Whole(w) => Cut \notin rr'[w].gave
        /\ Cut \notin rr'[w].spool
        /\ rr'[w].fresh \in BOOLEAN
    BY <2>1, <1>2, <2>4 DEF g, RRIInv, RRWhole, Whole, RRShape
  <2>7. rr[w].gave \cup rr[w].spool \subseteq rr'[w].gave \cup rr'[w].spool
    BY <2>4 DEF g
  <2> QED BY <1>2, <1>3, <1>6, <2>2, <2>3, <2>4, <2>5, <2>6, <2>7, StepKeeps
<1>7. CASE /\ Undisturbed /\ Storable(t.p)
           /\ IF rr[w].req.kind = "extract" /\ Cut \in content
              THEN Writes(t.p, {Part}) /\ Fails(w, AdaptedUpload(CorruptPayload, TRUE))
              ELSE /\ Writes(t.p, content)
                   /\ Proceeds(w, <<>>, [spool |-> {}, gave |-> rr[w].gave \cup content])
  <2>1. LinkStep
    BY <1>1, <1>2, <1>7, CommandStill
  <2> QED BY <1>4, <1>6, <1>7, <2>1
<1>8. CASE Undisturbed /\ UNCHANGED rrFiles /\ Fails(w, AdaptedUpload(Raw({"553"}, {}), FALSE))
  BY <1>1, <1>2, <1>5, <1>8, CommandStill
<1>9. ASSUME NEW x \in FaultOf(TRUE), Suffers(x),
             \/ UNCHANGED rrFiles /\ Fails(w, AdaptedUpload(x.err, FALSE))
             \/ Storable(t.p) /\ Writes(t.p, {Part}) /\ Fails(w, AdaptedUpload(x.err, TRUE))
      PROVE  RRIInv'
  <2>1. LinkStep
    BY <1>1, <1>2, <1>9, CommandFault
  <2> QED BY <1>4, <1>5, <1>9, <2>1
<1> QED BY <1>7, <1>8, <1>9 DEF RRPut

LEMMA ChangeKeeps ==
  ASSUME RRIInv, NEW w \in Workers, RRChange(w)
  PROVE  RRIInv'
<1> DEFINE t == Head(rr[w].work)
<1>1. At(w, {"move", "rm", "rmdir"}) /\ Commands(w) /\ Undisturbed
  BY DEF RRChange
<1>2. /\ Running(w) /\ rr[w].work # <<>> /\ t.do \in {"move", "rm", "rmdir"}
      /\ FitsRequest(rr[w].req, t) /\ ~MayNotReplace(w)
  BY <1>1, AtRuns
<1>3. LinkStep /\ ~Reads(t)
  BY <1>1, <1>2, CommandStill DEF Reads
<1>4. t.p \in Path /\ TreeOK(rrTree) /\ rr[w].req.kind \in {"rename", "delete"}
  BY <1>2 DEF FitsRequest, RRIInv, RRShape, Deletes
<1>5. CASE UNCHANGED rrFiles /\ Fails(w, PlainError)
  BY <1>2, <1>3, <1>5, FilesStill, FailsKeeps
<1>6. CASE /\ t.do = "move"
           /\ Kind(t.p) # "none" /\ Kind(t.q) = "none" /\ Kind(Front(t.q)) = "dir"
           /\ rrTree' = Over(MovedTree(t.p, t.q), Without(BelowOf(t.p)))
           /\ UNCHANGED rrWritten /\ Proceeds(w, <<>>, <<>>)
  <2>1. t.q \in Path /\ ~IsPrefix(t.p, t.q)
    BY <1>2, <1>6 DEF FitsRequest
  <2>2. TreeOK(rrTree')
    BY <1>4, <1>6, <2>1, TreeMoved
  <2>3. TreeStep(w)
    BY <1>4, <1>6, <2>2 DEF TreeStep
  <2> QED BY <1>2, <1>3, <1>6, <2>3, DoneKeeps
<1>7. CASE /\ t.do # "move" /\ rrTree' = Over(<<>>, Without(BelowOf(t.p)))
           /\ UNCHANGED rrWritten /\ Proceeds(w, <<>>, <<>>)
  <2> DEFINE old == Without(BelowOf(t.p))
             new == <<>>
  <2>1. TreeOK(old)
    BY <1>4, BelowTakenAway
  <2>2. DOMAIN new = {} /\ rrTree' = Over(new, old)
    BY <1>7
  <2> HIDE DEF old, new
  <2>3. IsFiniteSet(DOMAIN new)
    BY <2>2, FS_EmptySet
  <2>4. TreeOK(rrTree')
    BY <2>1, <2>2, <2>3, TreeOver
  <2>5. TreeStep(w)
    BY <1>4, <1>7, <2>4 DEF TreeStep
  <2> QED BY <1>2, <1>3, <1>7, <2>5, DoneKeeps
<1> QED BY <1>2, <1>5, <1>6, <1>7 DEF RRChange, BelowOf, MovedTree, Moved

LEMMA ChmodKeeps ==
  ASSUME RRIInv, NEW w \in Workers, RRChmod(w)
  PROVE  RRIInv'
<1>1. At(w, {"chmod"}) /\ UNCHANGED rrFiles
  BY DEF RRChmod
<1>2. /\ Running(w) /\ rr[w].work # <<>> /\ Head(rr[w].work).do = "chmod" /\ ~MayNotReplace(w)
  BY <1>1, AtRuns
<1>3. TreeStep(w) /\ ~Reads(Head(rr[w].work))
  BY <1>1, <1>2, FilesStill DEF Reads
<1>4. CASE /\ Undisturbed /\ Fails(w, Wrap("ErrPermissionsNotSupported", PlainError))
           /\ UNCHANGED <<rrDesync, rrProto, rrForeign>>
  BY <1>2, <1>3, <1>4, QuietStill, FailsKeeps
<1>5. CASE Commands(w) /\ Undisturbed /\ Proceeds(w, <<>>, <<>>)
  BY <1>2, <1>3, <1>5, CommandStill, DoneKeeps
<1>6. ASSUME Commands(w), NEW x \in FaultOf(FALSE), Suffers(x), Fails(w, Adapted(x.err))
      PROVE  RRIInv'
  <2>1. LinkStep
    BY <1>2, <1>6, CommandFault
  <2> QED BY <1>2, <1>3, <1>6, <2>1, FailsKeeps
<1> QED BY <1>4, <1>5, <1>6 DEF RRChmod

LEMMA EntryKeeps ==
  ASSUME RRIInv, NEW w \in Workers, RREntry(w)
  PROVE  RRIInv'
<1> DEFINE t == Head(rr[w].work)
           a == Task("ensure", t.p, <<>>)
           b == Task("ensure", Front(t.p), <<>>)
           c == Task("put", t.p, <<>>)
<1>1. /\ At(w, {"entry"}) /\ UNCHANGED rrFiles
      /\ Undisturbed /\ UNCHANGED <<rrDesync, rrProto, rrForeign>>
  BY DEF RREntry
<1>2. /\ Running(w) /\ rr[w].work # <<>> /\ t.do = "entry"
      /\ FitsRequest(rr[w].req, t) /\ ~MayNotReplace(w)
  BY <1>1, AtRuns
<1>3. TreeStep(w) /\ LinkStep /\ ~Reads(t) /\ t.do # "close"
  BY <1>1, <1>2, FilesStill, QuietStill DEF Reads
<1>4. t.p \in Path /\ rr[w].req.kind = "extract" /\ Front(t.p) \in Path
  BY <1>2, FrontPath DEF FitsRequest
<1>5. CASE Fails(w, CorruptPayload)
  BY <1>2, <1>3, <1>5, FailsKeeps
<1>6. CASE Proceeds(w, <<>>, <<>>)
  BY <1>2, <1>3, <1>6, DoneKeeps
<1>7. /\ FitsRequest(rr[w].req, a) /\ a.do = "ensure"
      /\ FitsRequest(rr[w].req, b) /\ b.do = "ensure"
      /\ FitsRequest(rr[w].req, c) /\ c.do = "put"
  BY <1>4, PlainFits, RootPath
<1>8. CASE Proceeds(w, <<a>>, <<>>)
  <2> HIDE DEF a
  <2>1. IsWork(<<a>>) /\ Range(<<a>>) = {a} /\ Paired(<<a>>)
    BY <1>7, WorkOfOne
  <2>2. \A u \in Range(<<a>>) : FitsRequest(rr[w].req, u) /\ Accounted(u)'
    BY <1>7, <2>1 DEF Accounted
  <2> QED BY <1>2, <1>3, <1>8, <2>1, <2>2, QuietKeeps
<1>9. CASE Proceeds(w, <<b, c>>, [spool |-> t.content])
  <2> DEFINE tasks == <<b, c>>
             s == t.content
  <2> HIDE DEF b, c, s
  <2>1. IsWork(tasks) /\ Range(tasks) = {b, c} /\ Paired(tasks)
    BY <1>7, WorkOfTwo
  <2>2. \A u \in Range(tasks) : FitsRequest(rr[w].req, u) /\ Accounted(u)'
    BY <1>7, <2>1 DEF Accounted
  <2>3. Proceeds(w, tasks, [spool |-> s])
    BY <1>9 DEF s
  <2> HIDE DEF tasks
  <2>4. /\ Aside(w) /\ rr'[w].pc = rr[w].pc
        /\ rr'[w].work = tasks \o Tail(rr[w].work)
        /\ rr'[w].spool = s /\ rr'[w].gave = rr[w].gave /\ rr'[w].fresh = rr[w].fresh
        /\ rrClient' = rrClient /\ rrLock' = rrLock /\ rrRetr' = rrRetr
    BY <2>3, ProceedsSpool DEF RRIInv
  <2>5. rrRetr' = Nobody
    BY <1>2, <1>3, <2>4, NotReading
  <2>6. ~Whole(w) /\ rr'[w].fresh \in BOOLEAN
    BY <1>4, <2>4 DEF Whole, Moving, RRIInv, RRShape
  <2> QED BY <1>2, <1>3, <1>4, <2>1, <2>2, <2>4, <2>5, <2>6, StepKeeps
<1> QED BY <1>5, <1>6, <1>8, <1>9 DEF RREntry

LEMMA LimitKeeps ==
  ASSUME RRIInv, NEW w \in Workers, RRLimit(w)
  PROVE  RRIInv'
<1>1. /\ At(w, {"copy", "zip", "size", "entry"}) /\ Finish(w, "failed", <<>>) /\ UNCHANGED rrClient
      /\ UNCHANGED rrFiles /\ Undisturbed /\ UNCHANGED <<rrDesync, rrProto, rrForeign>>
  BY DEF RRLimit, rrRemote, Undisturbed
<1>2. Running(w) /\ rr[w].work # <<>> /\ "failed" # "ok"
  BY <1>1, AtRuns
<1> QED BY <1>1, <1>2, FilesStill, QuietStill, RefusalKeeps

LEMMA DisconnectKeeps ==
  ASSUME RRIInv, NEW w \in Workers, RRDisconnect(w)
  PROVE  RRIInv'
<1>1. /\ At(w, {"bye"}) /\ rrClient' = FALSE /\ rrLink' = FALSE /\ Finish(w, "bye", <<>>)
      /\ UNCHANGED rrFiles /\ UNCHANGED <<rrFaults, rrMisread, rrProto, rrDesync, rrForeign>>
  BY DEF RRDisconnect
<1>2. Running(w) /\ ~MayNotReplace(w)
  BY <1>1, AtRuns
<1>3. Ends(w) /\ rr'[w].pc = "done"
  BY <1>1, FinishPlain DEF RRIInv
<1>4. LinkStep
  BY <1>1 DEF RRIInv, RRShape, RRReading, RROneTransfer, LinkStep
<1>5. TreeOK(rrTree')
  BY <1>1, FilesStill DEF TreeStep
<1> QED BY <1>1, <1>2, <1>3, <1>4, <1>5, EndKeeps

LEMMA AnswerKeeps ==
  ASSUME RRIInv, NEW w \in Workers, RRAnswer(w)
  PROVE  RRIInv'
<1> DEFINE g == rr[w].gave \cup rr[w].spool
<1>1. /\ Running(w) /\ rr[w].work = <<>> /\ Finish(w, "ok", [gave |-> g]) /\ UNCHANGED rrClient
      /\ UNCHANGED rrFiles /\ Undisturbed /\ UNCHANGED <<rrDesync, rrProto, rrForeign>>
  BY DEF RRAnswer, rrRemote, Undisturbed, Running
<1>2. Ends(w) /\ rr'[w].pc = "done"
  BY <1>1, FinishGave DEF RRIInv
<1>3. ~MayNotReplace(w) /\ rrClient' \in BOOLEAN
  BY <1>1, GuardedHead DEF RRIInv, RRShape
<1>4. LinkStep /\ TreeOK(rrTree')
  BY <1>1, QuietStill, FilesStill DEF TreeStep
<1> QED BY <1>1, <1>2, <1>3, <1>4, EndKeeps

LEMMA PingKeeps ==
  ASSUME RRIInv, NEW w \in Workers, RRPing(w)
  PROVE  RRIInv'
<1>1. At(w, {"ping"}) /\ Commands(w) /\ UNCHANGED rrFiles /\ UNCHANGED rrClient
  BY DEF RRPing
<1>2. /\ Running(w) /\ rr[w].work # <<>> /\ Head(rr[w].work).do = "ping"
      /\ FitsRequest(rr[w].req, Head(rr[w].work)) /\ ~MayNotReplace(w)
  BY <1>1, AtRuns
<1>3. rr[w].req.kind = "ping" /\ TreeOK(rrTree') /\ rrClient' \in BOOLEAN
  BY <1>1, <1>2, FilesStill DEF FitsRequest, TreeStep, RRIInv, RRShape
<1>4. CASE Undisturbed /\ Finish(w, "ok", <<>>)
  <2>1. LinkStep /\ Ends(w) /\ rr'[w].pc = "done"
    BY <1>1, <1>2, <1>4, CommandStill, FinishPlain DEF RRIInv
  <2> QED BY <1>2, <1>3, <2>1, EndKeeps
<1>5. ASSUME NEW x \in FaultOf(FALSE), Suffers([x EXCEPT !.lost = TRUE]),
             Finish(w, "none", [pc |-> "dropping"])
      PROVE  RRIInv'
  <2> DEFINE y == [x EXCEPT !.lost = TRUE]
  <2>1. DOMAIN x = {"err", "data", "lost"} /\ (Live => rrFaults < MaxFaults)
    BY FaultsKnown
  <2>2. y.lost = TRUE
    BY <2>1
  <2>3. Suffers(y)
    BY <1>5
  <2> HIDE DEF y
  <2>4. rrLink' = FALSE /\ rrFaults' = (IF Live THEN rrFaults + 1 ELSE rrFaults)
        /\ rrMisread' = rrMisread
    <3>1. rrMisread' = (rrMisread \/ (~y.lost /\ SoundsLost(y.err)))
      BY <2>3 DEF Suffers
    <3>2. rrLink' = (rrLink /\ ~y.lost) /\ rrMisread \in BOOLEAN
      BY <2>3 DEF Suffers, RRIInv, RRShape
    <3> QED BY <2>2, <2>3, <3>1, <3>2 DEF Suffers
  <2>5. rrRetr = Nobody
    BY <1>2, NotReading
  <2>6. rrFaults' \in 0..MaxFaults
    <3>1. rrFaults \in 0..MaxFaults /\ MaxFaults \in Nat
      BY RemoteAssumption DEF RRIInv, RRShape
    <3> QED BY <2>1, <2>4, <3>1
  <2>7. LinkStep
    BY <1>1, <2>4, <2>5, <2>6 DEF RRIInv, RRShape, RRReading, RROneTransfer, Commands, LinkStep
  <2>8. Ends(w) /\ rr'[w].pc = "dropping"
    BY <1>5, FinishDropping DEF RRIInv
  <2> QED BY <1>2, <1>3, <2>4, <2>7, <2>8, EndKeeps
<1> QED BY <1>4, <1>5 DEF RRPing

-----------------------------------------------------------------------------
(* Steps of requests that do not hold the lock, and of the world outside.   *)

LEMMA AsideKeeps ==
  ASSUME RRIInv, NEW w \in Workers, ~Running(w),
         DOMAIN rr' = Workers, \A v \in Workers \ {w} : rr'[v] = rr[v],
         DOMAIN rr'[w] = Fields, rr'[w].fresh \in BOOLEAN, rr'[w].req \in Requests,
         rr'[w].pc \in {"waiting", "done"},
         rr'[w].pc = "waiting" =>
           Valid(rr'[w].req) /\ rr'[w].gave = {} /\ ~rr'[w].fresh /\ rr'[w].had = <<>>,
         rr'[w].pc = "done" /\ rr'[w].req.kind = "upload" =>
           rr'[w].answer # "ok" /\ rr'[w].gave = {},
         UNCHANGED <<rrRemote, rrProto, rrLock, rrRetr, rrDesync, rrForeign>>,
         rrClient' \in BOOLEAN
  PROVE  RRIInv'
<1>1. rrLock # w /\ rrLock' = rrLock
  BY DEF RRIInv, RRShape
<1>2. /\ rrTree' = rrTree /\ rrWritten' = rrWritten /\ rrLink' = rrLink /\ rrFaults' = rrFaults
      /\ rrMisread' = rrMisread
  BY DEF rrRemote, rrFiles
<1>3. RRShape'
  <2>1. ASSUME NEW v \in Workers
        PROVE  /\ DOMAIN rr'[v] = Fields /\ rr'[v].fresh \in BOOLEAN
               /\ rr'[v].pc \in {"idle", "waiting", "running", "dropping", "done"}
               /\ rr'[v].pc = "running" <=> rrLock' = v
               /\ rr'[v].pc # "idle" => rr'[v].req \in Requests
               /\ rr'[v].pc \in {"idle", "waiting"} =>
                    rr'[v].gave = {} /\ ~rr'[v].fresh /\ rr'[v].had = <<>>
               /\ rr'[v].pc = "waiting" => Valid(rr'[v].req)
               /\ rr'[v].pc = "dropping" => rr'[v].req.kind = "ping" /\ ~rrLink'
    <3>1. CASE v = w
      BY <1>1, <3>1
    <3>2. CASE v # w
      BY <1>1, <1>2, <3>2 DEF RRIInv, RRShape, Running
    <3> QED BY <3>1, <3>2
  <2> QED BY <1>1, <1>2, <2>1 DEF RRIInv, RRShape, Running
<1>4. \A v \in Workers : rr'[v].pc = "running" => v # w /\ rr'[v] = rr[v] /\ Running(v)
  BY DEF Running
<1>5. RRTasks'
  BY <1>2, <1>4 DEF RRIInv, RRTasks, Running, Accounted
<1>6. RRReading'
  <2>1. rrRetr # Nobody => rrRetr = rrLock /\ rrLock \in Workers \ {w}
    BY <1>1, RemoteAssumption DEF RRIInv, RRReading, RRShape
  <2> QED BY <1>1, <2>1 DEF RRIInv, RRReading, RROneTransfer, At
<1>7. RRNoClobber'
  <2>1. ASSUME NEW v \in Workers, rr'[v].pc = "done", rr'[v].req.kind = "upload",
               ~rr'[v].req.over, rr'[v].req.p \in DOMAIN rr'[v].had
        PROVE  rr'[v].answer # "ok" /\ rr'[v].gave = {}
    <3>1. CASE v = w
      BY <2>1, <3>1
    <3>2. CASE v # w
      BY <2>1, <3>2 DEF RRIInv, RRGuards, RRNoClobber
    <3> QED BY <3>1, <3>2
  <2> QED BY <2>1 DEF RRNoClobber
<1>8. RRGuards'
  BY <1>2, <1>4, <1>7 DEF RRIInv, RRGuards, MayNotReplace, Running
<1>9. RRWhole'
  BY <1>2, <1>4 DEF RRIInv, RRWhole, Wanted, Running
<1> QED BY <1>3, <1>5, <1>6, <1>8, <1>9 DEF RRIInv

LEMMA OutsideKeeps ==
  ASSUME RRIInv, UNCHANGED <<rr, rrProto, rrClient, rrLock, rrRetr, rrDesync>>,
         TreeOK(rrTree'), rrWritten \subseteq rrWritten', DOMAIN rrTree \subseteq DOMAIN rrTree',
         \A f \in DOMAIN rrTree \ rrWritten' : rrTree'[f] = rrTree[f],
         rrFaults' \in 0..MaxFaults, rrForeign' \in 0..MaxForeign,
         rrLink' \in BOOLEAN, rrMisread' = rrMisread, rrLink' => rrLink
  PROVE  RRIInv'
<1>1. RRShape'
  BY DEF RRIInv, RRShape, Running
<1>2. RRTasks'
  BY DEF RRIInv, RRTasks, Running, Accounted
<1>3. RRReading'
  BY DEF RRIInv, RRReading, RROneTransfer, At
<1>4. RRGuards'
  BY DEF RRIInv, RRGuards, RRNoClobber, MayNotReplace, Running
<1>5. RRWhole'
  BY DEF RRIInv, RRWhole, Wanted, Running
<1> QED BY <1>1, <1>2, <1>3, <1>4, <1>5 DEF RRIInv

LEMMA DropKeeps ==
  ASSUME RRIInv, RRDrop
  PROVE  RRIInv'
<1>1. rrFaults \in 0..MaxFaults /\ rrForeign \in 0..MaxForeign /\ MaxFaults \in Nat
      /\ TreeOK(rrTree)
  BY RemoteAssumption DEF RRIInv, RRShape
<1>2. rrFaults' \in 0..MaxFaults
  BY <1>1 DEF RRDrop
<1> QED BY <1>1, <1>2, OutsideKeeps DEF RRDrop, rrFiles

LEMMA ForeignKeeps ==
  ASSUME RRIInv, NEW p \in ForeignPaths, RRForeign(p)
  PROVE  RRIInv'
<1>1. rrForeign \in 0..MaxForeign /\ MaxForeign \in Nat /\ TreeOK(rrTree)
      /\ rrFaults \in 0..MaxFaults /\ rrLink \in BOOLEAN
  BY RemoteAssumption DEF RRIInv, RRShape
<1>2. rrForeign' \in 0..MaxForeign
  BY <1>1 DEF RRForeign
<1>3. p \in Path /\ Cut \notin Foreign
  BY TreeAssumption
<1>4. TreeOK(WithFile(p, Foreign))
  BY <1>1, <1>3, FileStored DEF RRForeign
<1>5. /\ DOMAIN rrTree \subseteq DOMAIN WithFile(p, Foreign)
      /\ \A f \in DOMAIN rrTree \ {p} : WithFile(p, Foreign)[f] = rrTree[f]
  BY DEF WithFile, Over
<1>6. rrTree' = WithFile(p, Foreign) /\ rrWritten' = rrWritten \cup {p}
  BY DEF RRForeign, Writes
<1> QED BY <1>1, <1>2, <1>4, <1>5, <1>6, OutsideKeeps DEF RRForeign

LEMMA NothingKeeps ==
  ASSUME RRIInv, UNCHANGED rrvars
  PROVE  RRIInv'
<1>1. TreeOK(rrTree)
  BY DEF RRIInv, RRShape
<1> QED BY <1>1, OutsideKeeps DEF rrvars, rrFiles, RRIInv, RRShape

LEMMA ForgetKeeps ==
  ASSUME RRIInv, NEW w \in Workers, RRForget(w)
  PROVE  RRIInv'
<1> DEFINE c == [pc |-> "done", answer |-> "lost"]
<1>1. DOMAIN c = {"pc", "answer"} /\ c["pc"] = "done" /\ Becomes(w, c)
  BY DEF RRForget
<1> HIDE DEF c
<1>2. DOMAIN c \subseteq Fields
  BY <1>1 DEF Fields
<1>3. /\ DOMAIN rr' = Workers /\ \A v \in Workers \ {w} : rr'[v] = rr[v]
      /\ DOMAIN rr'[w] = Fields
      /\ \A x \in DOMAIN c : rr'[w][x] = c[x]
      /\ \A x \in Fields \ DOMAIN c : rr'[w][x] = rr[w][x]
  BY <1>1, <1>2, BecomesAt DEF RRIInv
<1>4. rr'[w]["req"] = rr[w]["req"] /\ rr'[w]["fresh"] = rr[w]["fresh"] /\ rr'[w]["pc"] = "done"
  BY <1>1, <1>3 DEF Fields
<1>5. rr[w].pc = "dropping" /\ rr[w].req \in Requests /\ rr[w].req.kind = "ping"
      /\ rr[w].fresh \in BOOLEAN
  BY DEF RRForget, RRIInv, RRShape
<1> QED BY <1>3, <1>4, <1>5, AsideKeeps DEF RRForget, Running

LEMMA BusyKeeps ==
  ASSUME RRIInv, NEW w \in Workers, RRBusy(w)
  PROVE  RRIInv'
<1> DEFINE c == [pc |-> "done", answer |-> "busy"]
<1>1. DOMAIN c = {"pc", "answer"} /\ c["pc"] = "done" /\ Becomes(w, c)
  BY DEF RRBusy
<1> HIDE DEF c
<1>2. DOMAIN c \subseteq Fields
  BY <1>1 DEF Fields
<1>3. /\ DOMAIN rr' = Workers /\ \A v \in Workers \ {w} : rr'[v] = rr[v]
      /\ DOMAIN rr'[w] = Fields
      /\ \A x \in DOMAIN c : rr'[w][x] = c[x]
      /\ \A x \in Fields \ DOMAIN c : rr'[w][x] = rr[w][x]
  BY <1>1, <1>2, BecomesAt DEF RRIInv
<1>4. rr'[w]["req"] = rr[w]["req"] /\ rr'[w]["fresh"] = rr[w]["fresh"] /\ rr'[w]["pc"] = "done"
  BY <1>1, <1>3 DEF Fields
<1>5. rr[w].pc = "waiting" /\ rr[w].req \in Requests /\ rr[w].req.kind = "ping"
      /\ rr[w].fresh \in BOOLEAN /\ rrClient \in BOOLEAN
  BY DEF RRBusy, RRIInv, RRShape
<1> QED BY <1>3, <1>4, <1>5, AsideKeeps DEF RRBusy, Running

LEMMA ArriveKeeps ==
  ASSUME RRIInv, NEW w \in Workers, NEW r \in Requests, RRArrive(w, r)
  PROVE  RRIInv'
<1>1. /\ rr[w].pc = "idle" /\ rr[w].gave = {} /\ ~rr[w].fresh /\ rr[w].had = <<>>
      /\ rr[w].fresh \in BOOLEAN /\ rrClient \in BOOLEAN
  BY DEF RRArrive, RRIInv, RRShape
<1>2. CASE Valid(r) /\ Becomes(w, [pc |-> "waiting", req |-> r])
  <2> DEFINE c == [pc |-> "waiting", req |-> r]
  <2>1. DOMAIN c = {"pc", "req"} /\ c["pc"] = "waiting" /\ c["req"] = r /\ Becomes(w, c)
    BY <1>2
  <2> HIDE DEF c
  <2>2. DOMAIN c \subseteq Fields
    BY <2>1 DEF Fields
  <2>3. /\ DOMAIN rr' = Workers /\ \A v \in Workers \ {w} : rr'[v] = rr[v]
        /\ DOMAIN rr'[w] = Fields
        /\ \A x \in DOMAIN c : rr'[w][x] = c[x]
        /\ \A x \in Fields \ DOMAIN c : rr'[w][x] = rr[w][x]
    BY <2>1, <2>2, BecomesAt DEF RRIInv
  <2>4. /\ rr'[w]["req"] = r /\ rr'[w]["fresh"] = rr[w]["fresh"] /\ rr'[w]["pc"] = "waiting"
        /\ rr'[w]["gave"] = rr[w]["gave"] /\ rr'[w]["had"] = rr[w]["had"]
    BY <2>1, <2>3 DEF Fields
  <2> QED BY <1>1, <1>2, <2>3, <2>4, AsideKeeps DEF RRArrive, Running
<1>3. CASE Becomes(w, [pc |-> "done", req |-> r, answer |-> "refused"])
  <2> DEFINE c == [pc |-> "done", req |-> r, answer |-> "refused"]
  <2>1. /\ DOMAIN c = {"pc", "req", "answer"} /\ c["pc"] = "done" /\ c["req"] = r
        /\ c["answer"] = "refused" /\ Becomes(w, c)
    BY <1>3
  <2> HIDE DEF c
  <2>2. DOMAIN c \subseteq Fields
    BY <2>1 DEF Fields
  <2>3. /\ DOMAIN rr' = Workers /\ \A v \in Workers \ {w} : rr'[v] = rr[v]
        /\ DOMAIN rr'[w] = Fields
        /\ \A x \in DOMAIN c : rr'[w][x] = c[x]
        /\ \A x \in Fields \ DOMAIN c : rr'[w][x] = rr[w][x]
    BY <2>1, <2>2, BecomesAt DEF RRIInv
  <2>4. /\ rr'[w]["req"] = r /\ rr'[w]["fresh"] = rr[w]["fresh"] /\ rr'[w]["pc"] = "done"
        /\ rr'[w]["gave"] = rr[w]["gave"] /\ rr'[w]["answer"] = "refused"
    BY <2>1, <2>3 DEF Fields
  <2> QED BY <1>1, <2>3, <2>4, AsideKeeps DEF RRArrive, Running
<1> QED BY <1>2, <1>3 DEF RRArrive

-----------------------------------------------------------------------------
(* A request gets its turn.                                                *)

LEMMA OneTask ==
  ASSUME NEW r, NEW a, FitsRequest(r, a), a.do \notin {"get", "confirm"}
  PROVE  /\ IsWork(<<a>>) /\ Paired(<<a>>) /\ Range(<<a>>) = {a}
         /\ \A t \in Range(<<a>>) : FitsRequest(r, t) /\ t.do # "confirm"
BY WorkOfOne

\* The tasks of the items to delete.
LEMMA DeleteFits ==
  ASSUME NEW r \in Requests, r.kind = "delete"
  PROVE  /\ IsWork(Tasks("item", r.paths)) /\ Paired(Tasks("item", r.paths))
         /\ \A t \in Range(Tasks("item", r.paths)) : FitsRequest(r, t) /\ t.do # "confirm"
<1> DEFINE paths == r.paths
           s == Tasks("item", paths)
           S == {Task("item", p, <<>>) : p \in Path}
<1>1. paths \in Seq(Path)
  BY RequestAssumption
<1> HIDE DEF paths
<1>2. Len(paths) \in Nat /\ DOMAIN paths = 1..Len(paths) /\ \A i \in 1..Len(paths) : paths[i] \in Path
  BY <1>1, LenProperties, ElementOfSeq
<1>3. s \in [1..Len(paths) -> S]
  BY <1>2 DEF Tasks
<1>4. s \in Seq(S)
  <2> HIDE DEF s
  <2> QED BY <1>2, <1>3, SeqDef
<1>5. ASSUME NEW t \in S PROVE FitsRequest(r, t) /\ t.do = "item"
  <2>1. PICK p \in Path : t = Task("item", p, <<>>)
    OBVIOUS
  <2>2. t.do = "item" /\ t.p = p
    BY <2>1 DEF Task
  <2> QED BY <2>2 DEF FitsRequest, Deletes
<1> HIDE DEF s, S
<1>6. IsWork(s) /\ Range(s) \subseteq S
  BY <1>4, WorkOver
<1>7. Paired(s) /\ \A t \in Range(s) : FitsRequest(r, t) /\ t.do # "confirm"
  BY <1>5, <1>6, PairedNone
<1> QED BY <1>6, <1>7 DEF s, paths

\* The tasks of the entries of an archive.
LEMMA ExtractFits ==
  ASSUME NEW r \in Requests, r.kind = "extract"
  PROVE  /\ IsWork(WorkOf(r)) /\ Paired(WorkOf(r))
         /\ \A t \in Range(WorkOf(r)) : FitsRequest(r, t) /\ t.do # "confirm"
<1> DEFINE es == r.entries
           entry(e) == Over(e, Task("entry", e.p, <<>>))
           s == [i \in DOMAIN es |-> entry(es[i])]
           S == {entry(e) : e \in {es[i] : i \in DOMAIN es}}
<1>1. /\ Len(es) \in Nat /\ DOMAIN es = 1..Len(es)
      /\ \A i \in DOMAIN es : DOMAIN es[i] = {"is", "p", "content"} /\ es[i].p \in Path
  BY RequestAssumption
<1>2. WorkOf(r) = s
  BY DEF WorkOf
<1>3. ASSUME NEW e, DOMAIN e = {"is", "p", "content"}, e.p \in Path
      PROVE  FitsRequest(r, entry(e)) /\ entry(e).do = "entry"
  <2> DEFINE t == entry(e)
  <2>1. t.do = "entry" /\ t.p = e.p
    BY <1>3 DEF Over, Task
  <2> HIDE DEF t
  <2>2. FitsRequest(r, t)
    BY <1>3, <2>1 DEF FitsRequest, Deletes
  <2> QED BY <2>1, <2>2 DEF t
<1> HIDE DEF es, entry
<1>4. s \in [1..Len(es) -> S]
  BY <1>1
<1>5. \A t \in S : FitsRequest(r, t) /\ t.do = "entry"
  BY <1>1, <1>3
<1> HIDE DEF s
<1>6. s \in Seq(S)
  BY <1>1, <1>4, SeqDef
<1> HIDE DEF S
<1>7. IsWork(s) /\ Range(s) \subseteq S
  BY <1>6, WorkOver
<1>8. Paired(s) /\ \A t \in Range(s) : FitsRequest(r, t) /\ t.do # "confirm"
  BY <1>5, <1>7, PairedNone
<1> QED BY <1>2, <1>7, <1>8

\* The tasks of a request fit it, and one of a request that reads a tree reads all of it.
LEMMA WorkFits ==
  ASSUME NEW r \in Requests, Valid(r)
  PROVE  /\ IsWork(WorkOf(r)) /\ Paired(WorkOf(r))
         /\ \A t \in Range(WorkOf(r)) : FitsRequest(r, t) /\ t.do # "confirm"
         /\ r.kind \in Moving \ {"upload"} => \E t \in Range(WorkOf(r)) : Reads(t) /\ t.p = r.p
<1>1. r.kind \in Kinds
  BY RemoteAssumption
<1>2. CASE r.kind \in {"list", "check", "mkdir", "chmod", "download"}
  <2> DEFINE a(do) == Task(do, r.p, <<>>)
  <2>1. r.p \in Path
    BY <1>2, RequestAssumption
  <2>2. PICK do \in {"show", "look", "ensure", "chmod", "open"} :
          WorkOf(r) = <<a(do)>> /\ (r.kind = "download" => do = "open")
    BY <1>2 DEF WorkOf
  <2>3. FitsRequest(r, a(do)) /\ a(do).do = do /\ a(do).p = r.p
    BY <1>2, <2>1, PlainFits, RootPath
  <2> DEFINE b == a(do)
  <2>4. FitsRequest(r, b) /\ b.do = do /\ b.p = r.p /\ WorkOf(r) = <<b>>
    BY <2>2, <2>3
  <2> HIDE DEF b, a
  <2>5. /\ IsWork(<<b>>) /\ Paired(<<b>>) /\ Range(<<b>>) = {b}
        /\ \A t \in Range(<<b>>) : FitsRequest(r, t) /\ t.do # "confirm"
    BY <2>4, OneTask
  <2>6. r.kind \in Moving \ {"upload"} => Reads(b)
    BY <1>2, <2>2, <2>4 DEF Moving, Reads
  <2> QED BY <2>4, <2>5, <2>6
<1>3. CASE r.kind = "delete"
  <2>1. WorkOf(r) = Tasks("item", r.paths)
    BY <1>3 DEF WorkOf
  <2> QED BY <1>3, <2>1, DeleteFits DEF Moving
<1>4. CASE r.kind = "extract"
  BY <1>4, ExtractFits DEF Moving
<1>5. CASE r.kind = "rename"
  <2> DEFINE b == Task("move", r.p, r.q)
  <2>1. r.p \in Path /\ r.q \in Path /\ ~IsPrefix(r.p, r.q)
    BY <1>5, RequestAssumption DEF Valid, PathsOverlap
  <2>2. b.do = "move" /\ b.p = r.p /\ b.q = r.q /\ WorkOf(r) = <<b>>
    BY <1>5 DEF WorkOf, Task
  <2> HIDE DEF b
  <2>3. FitsRequest(r, b)
    BY <1>5, <2>1, <2>2 DEF FitsRequest, Deletes
  <2> QED BY <1>5, <2>2, <2>3, OneTask DEF Moving
<1>6. CASE r.kind = "copy"
  <2> DEFINE b == Task("copy", r.p, r.q)
  <2>1. r.p \in Path /\ r.q \in Path
    BY <1>6, RequestAssumption
  <2>2. b.do = "copy" /\ b.p = r.p /\ WorkOf(r) = <<b>>
    BY <1>6 DEF WorkOf, Task
  <2>3. FitsRequest(r, b)
    BY <1>6, <2>1, PlainFits
  <2> HIDE DEF b
  <2>4. /\ IsWork(<<b>>) /\ Paired(<<b>>) /\ Range(<<b>>) = {b}
        /\ \A t \in Range(<<b>>) : FitsRequest(r, t) /\ t.do # "confirm"
    BY <2>2, <2>3, OneTask
  <2>5. Reads(b)
    BY <2>2 DEF Reads
  <2> QED BY <2>2, <2>4, <2>5
<1>7. CASE r.kind \in {"compress", "zip", "upload"}
  <2>1. r.p \in Path /\ Front(r.p) \in Path /\ (r.kind = "compress" => r.q \in Path)
    BY <1>7, RequestAssumption, FrontPath
  <2>2. CASE r.kind = "compress"
    <3> DEFINE a == Task("size", r.p, <<>>)
               b == Task("zip", r.p, <<>>)
               c == Task("put", r.q, <<>>)
    <3>1. WorkOf(r) = <<a, b, c>>
      BY <2>2 DEF WorkOf
    <3>2. /\ FitsRequest(r, a) /\ a.do = "size" /\ FitsRequest(r, b) /\ b.do = "zip" /\ b.p = r.p
          /\ FitsRequest(r, c) /\ c.do = "put"
      BY <2>1, <2>2, PlainFits, RootPath
    <3> HIDE DEF a, b, c
    <3>3. IsWork(<<a, b, c>>) /\ Range(<<a, b, c>>) = {a, b, c} /\ Paired(<<a, b, c>>)
      BY <3>2, WorkOfThree
    <3>4. Reads(b)
      BY <3>2 DEF Reads
    <3> QED BY <3>1, <3>2, <3>3, <3>4
  <2>3. CASE r.kind = "zip"
    <3> DEFINE a == Task("size", r.p, <<>>)
               b == Task("zip", r.p, <<>>)
    <3>1. WorkOf(r) = <<a, b>>
      BY <2>3 DEF WorkOf
    <3>2. FitsRequest(r, a) /\ a.do = "size" /\ FitsRequest(r, b) /\ b.do = "zip" /\ b.p = r.p
      BY <2>1, <2>3, PlainFits, RootPath
    <3> HIDE DEF a, b
    <3>3. IsWork(<<a, b>>) /\ Range(<<a, b>>) = {a, b} /\ Paired(<<a, b>>)
      BY <3>2, WorkOfTwo
    <3>4. Reads(b)
      BY <3>2 DEF Reads
    <3> QED BY <3>1, <3>2, <3>3, <3>4
  <2>4. CASE r.kind = "upload"
    <3> DEFINE a == Task("ensure", Front(r.p), <<>>)
               b == Task("probe", r.p, <<>>)
               c == Task("put", r.p, <<>>)
    <3>1. WorkOf(r) = <<a, b, c>>
      BY <2>4 DEF WorkOf
    <3>2. /\ FitsRequest(r, a) /\ a.do = "ensure" /\ FitsRequest(r, b) /\ b.do = "probe"
          /\ FitsRequest(r, c) /\ c.do = "put"
      BY <2>1, <2>4, PlainFits, RootPath
    <3> HIDE DEF a, b, c
    <3>3. IsWork(<<a, b, c>>) /\ Range(<<a, b, c>>) = {a, b, c} /\ Paired(<<a, b, c>>)
      BY <3>2, WorkOfThree
    <3> QED BY <2>4, <3>1, <3>2, <3>3
  <2> QED BY <1>7, <2>2, <2>3, <2>4
<1>8. CASE r.kind = "disconnect"
  <2> DEFINE b == Task("bye", <<>>, <<>>)
  <2>1. WorkOf(r) = <<b>>
    BY <1>8 DEF WorkOf
  <2>2. FitsRequest(r, b) /\ b.do = "bye"
    BY <1>8, PlainFits, RootPath
  <2> HIDE DEF b
  <2> QED BY <1>8, <2>1, <2>2, OneTask DEF Moving
<1>9. CASE r.kind = "ping"
  <2> DEFINE b == Task("ping", <<>>, <<>>)
  <2>1. WorkOf(r) = <<b>> /\ b.do = "ping" /\ b.p = <<>>
    BY <1>9 DEF WorkOf, Task
  <2> HIDE DEF b
  <2>2. FitsRequest(r, b)
    BY <1>9, <2>1, RootPath DEF FitsRequest, Deletes
  <2> QED BY <1>9, <2>1, <2>2, OneTask DEF Moving
<1> QED BY <1>1, <1>2, <1>3, <1>4, <1>5, <1>6, <1>7, <1>8, <1>9 DEF Kinds

LEMMA LockKeeps ==
  ASSUME RRIInv, NEW w \in Workers, RRLock(w)
  PROVE  RRIInv'
<1> DEFINE r == rr[w].req
           had == IF r.kind \in Moving THEN rrTree ELSE <<>>
           spool == IF r.kind = "upload" THEN r.content ELSE {}
           c == [pc |-> "running", work |-> WorkOf(r), had |-> had, spool |-> spool]
<1>1. /\ rr[w].pc = "waiting" /\ rrLock = Nobody /\ rrLock' = w /\ rrWritten' = {}
      /\ UNCHANGED <<rrTree, rrLink, rrFaults, rrMisread, rrProto, rrClient, rrRetr, rrDesync, rrForeign>>
      /\ Becomes(w, c)
  BY DEF RRLock, LockFree
<1>2. /\ r \in Requests /\ Valid(r) /\ rr[w].gave = {} /\ rr[w].fresh = FALSE
      /\ w # Nobody /\ TreeOK(rrTree)
  BY <1>1, RemoteAssumption DEF RRIInv, RRShape
<1>3. /\ DOMAIN c = {"pc", "work", "had", "spool"} /\ c["pc"] = "running" /\ c["work"] = WorkOf(r)
      /\ c["had"] = had /\ c["spool"] = spool
  OBVIOUS
<1> HIDE DEF c, had, spool
<1>4. DOMAIN c \subseteq Fields
  BY <1>3 DEF Fields
<1>5. /\ DOMAIN rr' = Workers /\ \A v \in Workers \ {w} : rr'[v] = rr[v]
      /\ DOMAIN rr'[w] = Fields
      /\ \A x \in DOMAIN c : rr'[w][x] = c[x]
      /\ \A x \in Fields \ DOMAIN c : rr'[w][x] = rr[w][x]
  BY <1>1, <1>4, BecomesAt DEF RRIInv
<1>6. /\ rr'[w]["pc"] = "running" /\ rr'[w]["work"] = WorkOf(r) /\ rr'[w]["had"] = had
      /\ rr'[w]["spool"] = spool /\ rr'[w]["req"] = r /\ rr'[w]["gave"] = {}
      /\ rr'[w]["fresh"] = FALSE
  BY <1>2, <1>3, <1>5 DEF Fields
<1>7. /\ IsWork(WorkOf(r)) /\ Paired(WorkOf(r))
      /\ \A t \in Range(WorkOf(r)) : FitsRequest(r, t) /\ t.do # "confirm"
      /\ r.kind \in Moving \ {"upload"} => \E t \in Range(WorkOf(r)) : Reads(t) /\ t.p = r.p
  BY <1>2, WorkFits
<1>8. \A v \in Workers \ {w} : rr'[v].pc # "running"
  BY <1>1, <1>5, RemoteAssumption DEF RRIInv, RRShape, Running
<1> HIDE DEF r
<1>9. RRShape'
  <2>1. ASSUME NEW v \in Workers
        PROVE  /\ DOMAIN rr'[v] = Fields /\ rr'[v].fresh \in BOOLEAN
               /\ rr'[v].pc \in {"idle", "waiting", "running", "dropping", "done"}
               /\ rr'[v].pc = "running" <=> rrLock' = v
               /\ rr'[v].pc # "idle" => rr'[v].req \in Requests
               /\ rr'[v].pc \in {"idle", "waiting"} =>
                    rr'[v].gave = {} /\ ~rr'[v].fresh /\ rr'[v].had = <<>>
               /\ rr'[v].pc = "waiting" => Valid(rr'[v].req)
               /\ rr'[v].pc = "dropping" => rr'[v].req.kind = "ping" /\ ~rrLink'
    <3>1. CASE v = w
      BY <1>1, <1>2, <1>5, <1>6, <3>1
    <3>2. CASE v # w
      BY <1>1, <1>5, <1>8, <3>2 DEF RRIInv, RRShape
    <3> QED BY <3>1, <3>2
  <2> QED BY <1>1, <1>5, <2>1 DEF RRIInv, RRShape, Running
<1>10. RRTasks'
  <2>1. \A t \in Range(WorkOf(r)) : FitsRequest(r, t) /\ Accounted(t)'
    BY <1>7 DEF Accounted
  <2>2. r.kind # "extract" => Cut \notin spool
    BY <1>2, RequestAssumption DEF spool
  <2>3. ASSUME NEW v \in Workers, rr'[v].pc = "running"
        PROVE  /\ rr'[v].work \in Seq(Range(rr'[v].work)) /\ Paired(rr'[v].work)
               /\ \A t \in Range(rr'[v].work) : FitsRequest(rr'[v].req, t) /\ Accounted(t)'
               /\ rr'[v].req.kind # "extract" => Cut \notin rr'[v].spool
    <3>1. v = w
      BY <1>8, <2>3
    <3> QED BY <1>6, <1>7, <2>1, <2>2, <3>1 DEF IsWork
  <2> QED BY <2>3 DEF RRTasks, Running
<1>11. RRReading'
  BY <1>1 DEF RRIInv, RRReading, RROneTransfer
<1>12. RRNoClobber'
  BY <1>5, <1>6 DEF RRIInv, RRGuards, RRNoClobber
<1>13. RRGuards'
  <2>1. ASSUME NEW v \in Workers, rr'[v].pc = "running", MayNotReplace(v)'
        PROVE  /\ rr'[v].req.p \in DOMAIN rrTree'
               /\ rr'[v].gave = {} /\ ~rr'[v].fresh
               /\ rr'[v].work \in {WorkOf(rr'[v].req), Tail(WorkOf(rr'[v].req))}
    <3>1. v = w
      BY <1>8, <2>1
    <3>2. r.kind = "upload" /\ r.p \in DOMAIN had
      BY <1>6, <2>1, <3>1 DEF MayNotReplace
    <3>3. had = rrTree
      BY <3>2 DEF had, Moving
    <3> QED BY <1>1, <1>6, <3>1, <3>2, <3>3
  <2> QED BY <1>12, <2>1 DEF RRGuards, Running
<1>14. RRWhole'
  <2>1. ASSUME NEW v \in Workers, rr'[v].pc = "running", rr'[v].req.kind \in Moving \ {"upload"}
        PROVE  /\ Cut \notin rr'[v].gave
               /\ DOMAIN rr'[v].had \subseteq DOMAIN rrTree'
               /\ \A f \in DOMAIN rr'[v].had \ rrWritten' : rrTree'[f] = rr'[v].had[f]
               /\ \A f \in DOMAIN rr'[v].had : Wanted(v, f)' => Has(v, f)'
    <3>1. v = w
      BY <1>8, <2>1
    <3>2. r.kind \in Moving \ {"upload"} /\ had = rrTree
      BY <1>6, <2>1, <3>1 DEF had
    <3>3. PICK t \in Range(WorkOf(r)) : Reads(t) /\ t.p = r.p
      BY <1>7, <3>2
    <3>4. ASSUME NEW f \in DOMAIN rr'[v].had, Wanted(v, f)'
          PROVE  Has(v, f)'
      <4>1. IsPrefix(r.p, f)
        BY <1>6, <3>1, <3>4 DEF Wanted
      <4> QED BY <1>6, <3>1, <3>3, <4>1 DEF Has
    <3> QED BY <1>1, <1>6, <3>1, <3>2, <3>4
  <2> QED BY <2>1 DEF RRWhole, Running, Has
<1> QED BY <1>9, <1>10, <1>11, <1>13, <1>14 DEF RRIInv

-----------------------------------------------------------------------------
(* The invariant holds.                                                    *)

LEMMA InitHolds ==
  ASSUME RRInit
  PROVE  RRIInv
<1>1. \A w \in Workers : rr[w] = Idle
  BY DEF RRInit
<1>2. /\ DOMAIN Idle = Fields /\ Idle.pc = "idle" /\ Idle.gave = {} /\ Idle.fresh = FALSE
      /\ Idle.had = <<>>
  BY DEF Idle, Fields
<1>3. \A w \in Workers : rr[w].pc = "idle" /\ ~Running(w)
  BY <1>1, <1>2 DEF Running
<1>4. 0 \in 0..MaxFaults /\ 0 \in 0..MaxForeign /\ Nobody \notin Workers
  BY RemoteAssumption
<1>5. DOMAIN rr = Workers
  BY DEF RRInit
<1> HIDE DEF Idle
<1>6. RRShape
  BY <1>1, <1>2, <1>3, <1>4, <1>5, TreeAssumption DEF RRInit, RRShape
<1>7. RRTasks /\ RRGuards /\ RRWhole
  BY <1>3 DEF RRTasks, RRGuards, RRNoClobber, RRWhole
<1>8. RRReading
  BY DEF RRInit, RRReading, RROneTransfer
<1> QED BY <1>6, <1>7, <1>8 DEF RRIInv

LEMMA StepsKeep ==
  ASSUME RRIInv, NEW w \in Workers, RRStep(w)
  PROVE  RRIInv'
BY LockKeeps, BrokenKeeps, WalkKeeps, ListKeeps, ShowKeeps, WantKeeps, MakeDirKeeps, EnsureKeeps,
   MakeKeeps, ConfirmKeeps, ProbeKeeps, OpenKeeps, GetKeeps, ReadKeeps, PutKeeps, ChangeKeeps,
   ChmodKeeps, EntryKeeps, LimitKeeps, DisconnectKeeps, AnswerKeeps, BusyKeeps, PingKeeps,
   ForgetKeeps DEF RRStep

LEMMA NextKeeps ==
  ASSUME RRIInv, [RRNext]_rrvars
  PROVE  RRIInv'
<1>1. CASE UNCHANGED rrvars
  BY <1>1, NothingKeeps
<1>2. ASSUME NEW w \in Workers, NEW r \in Requests, RRArrive(w, r) PROVE RRIInv'
  BY <1>2, ArriveKeeps
<1>3. ASSUME NEW w \in Workers, RRStep(w) PROVE RRIInv'
  BY <1>3, StepsKeep
<1>4. CASE RRDrop
  BY <1>4, DropKeeps
<1>5. ASSUME NEW p \in ForeignPaths, RRForeign(p) PROVE RRIInv'
  BY <1>5, ForeignKeeps
<1> QED BY <1>1, <1>2, <1>3, <1>4, <1>5 DEF RRNext

\* The requests of a session keep their files, tasks and answers in order: the inductive
\* invariant of every request that runs under the transfer lock.
THEOREM RRIInvHolds == RRSpec => []RRIInv
<1>1. RRInit => RRIInv
  BY InitHolds
<1>2. RRIInv /\ [RRNext]_rrvars => RRIInv'
  BY NextKeeps
<1> QED BY <1>1, <1>2, PTL DEF RRSpec

\* Every file of the server lies in a directory, the lock is held by a request that runs,
\* and only its holder has a download open.
THEOREM RRTypeCorrect == RRSpec => []RRTypeOK
<1>1. RRIInv => RRTypeOK
  <2>1. SUFFICES ASSUME RRIInv PROVE RRTypeOK
    OBVIOUS
  <2>2. \A p \in DOMAIN rrTree : p # <<>> /\ Kind(Front(p)) = "dir"
    BY <2>1, FrontIsDir DEF RRIInv, RRShape
  <2>3. rrLock = Nobody \/ rr[rrLock].pc = "running"
    BY <2>1 DEF RRIInv, RRShape, Running
  <2>4. rrRetr \in {rrLock, Nobody}
    BY <2>1 DEF RRIInv, RRReading
  <2> QED BY <2>1, <2>2, <2>3, <2>4 DEF RRTypeOK, RRIInv, RRShape
<1> QED BY <1>1, RRIInvHolds, PTL

\* No command goes out on the control connection while a file is read on it (lockedClient,
\* copyFile).
THEOREM RROneTransferHolds == RRSpec => []RROneTransfer
<1>1. RRIInv => RROneTransfer
  BY DEF RRIInv, RRReading
<1> QED BY <1>1, RRIInvHolds, PTL

\* An upload that may not overwrite leaves a file alone that was there when its turn came
\* (ensureDirAllCreated, destinationTaken).
THEOREM RRNoClobberHolds == RRSpec => []RRNoClobber
<1>1. RRIInv => RRNoClobber
  BY DEF RRIInv, RRGuards
<1> QED BY <1>1, RRIInvHolds, PTL

-----------------------------------------------------------------------------
(* What a step tells: the session's client and the answers.                 *)

\* Only request w changes, a request that ends here ends badly or was a ping, and the
\* client is given up only for a connection that is lost or counted as misread.
Tells(w) ==
  /\ \A v \in Workers \ {w} : rr'[v] = rr[v]
  /\ rr'[w].pc = "done" => rr'[w].answer # "ok" \/ rr'[w].req.kind = "ping"
  /\ rrClient /\ ~rrClient' => ~rrLink' \/ rrMisread'

LEMMA GoesOnTells ==
  ASSUME NEW w \in Workers, Running(w), Aside(w), rr'[w].pc = rr[w].pc, rrClient' = rrClient
  PROVE  Tells(w)
BY DEF Running, Aside, Tells

LEMMA ProceedsTells ==
  ASSUME RRIInv, NEW w \in Workers, Running(w), NEW tasks, Proceeds(w, tasks, <<>>)
  PROVE  Tells(w)
<1>1. Aside(w) /\ rr'[w].pc = rr[w].pc /\ rrClient' = rrClient
  BY ProceedsPlain DEF RRIInv
<1> QED BY <1>1, GoesOnTells

LEMMA FreshTells ==
  ASSUME RRIInv, NEW w \in Workers, Running(w), NEW b, Proceeds(w, <<>>, [fresh |-> b])
  PROVE  Tells(w)
<1>1. Aside(w) /\ rr'[w].pc = rr[w].pc /\ rrClient' = rrClient
  BY ProceedsFresh DEF RRIInv
<1> QED BY <1>1, GoesOnTells

LEMMA RefusalTells ==
  ASSUME RRIInv, NEW w \in Workers, NEW answer, answer # "ok", Finish(w, answer, <<>>),
         UNCHANGED rrClient
  PROVE  Tells(w)
<1>1. Aside(w) /\ rr'[w].answer # "ok"
  BY FinishPlain DEF RRIInv, Ends
<1> QED BY <1>1 DEF Aside, Tells

LEMMA FailsTells ==
  ASSUME RRIInv, NEW w \in Workers, Running(w), NEW e, Fails(w, e),
         IsConnLost(e) /\ ~ArchiveError(w, e) => ~rrLink' \/ rrMisread'
  PROVE  Tells(w)
<1>1. /\ \/ Ends(w) /\ rr'[w].answer # "ok"
         \/ Skips(w)
      /\ rrClient' = rrClient \/ (IsConnLost(e) /\ ~ArchiveError(w, e))
  BY FailsAt DEF RRIInv
<1>2. Aside(w) /\ (rr'[w].pc = "done" => rr'[w].answer # "ok")
  BY <1>1 DEF Ends, Skips, Running
<1> QED BY <1>1, <1>2 DEF Tells, Aside

\* The errors of transfers that fail, like those of other calls.
LEMMA UploadTold ==
  ASSUME RRShape, NEW isTransfer, NEW x \in FaultOf(isTransfer), Suffers(x), NEW opened \in BOOLEAN,
         IsConnLost(AdaptedUpload(x.err, opened))
  PROVE  ~rrLink' \/ rrMisread'
<1>1. /\ x.lost \in BOOLEAN /\ "ErrConnectionLost" \notin x.err.is /\ x.err.deep \subseteq x.err.says
      /\ {"421", "fx connection lost"} \cap x.err.is # {} => x.lost
  BY FaultsKnown
<1>2. x.lost \/ SoundsLost(x.err)
  BY <1>1, UploadLost
<1> QED BY <1>1, <1>2 DEF Suffers

LEMMA ShortReadTells ==
  ASSUME RRIInv, NEW w \in Workers, Running(w), NEW e, ShortRead(w, e),
         IsConnLost(Incomplete(e)) => ~rrLink' \/ rrMisread'
  PROVE  Tells(w)
<1>1. CASE rr[w].req.kind = "download"
  <2>1. Finish(w, "aborted", [gave |-> {Cut}]) /\ UNCHANGED rrClient
    BY <1>1 DEF ShortRead
  <2>2. Aside(w) /\ rr'[w].answer = "aborted"
    BY <2>1, FinishGave DEF RRIInv, Ends
  <2> QED BY <2>1, <2>2 DEF Aside, Tells
<1>2. CASE rr[w].req.kind # "download"
  <2>1. Fails(w, Incomplete(e))
    BY <1>2 DEF ShortRead
  <2> QED BY <2>1, FailsTells
<1> QED BY <1>1, <1>2

LEMMA BrokenTells ==
  ASSUME RRIInv, NEW w \in Workers, RRBroken(w)
  PROVE  Tells(w)
<1> DEFINE isTransfer == Head(rr[w].work).do \in {"list", "show", "look"}
<1>1. Running(w)
  BY DEF RRBroken, At, Running
<1>2. PICK x \in FaultOf(isTransfer) : Suffers(x) /\ Fails(w, Adapted(x.err))
  BY DEF RRBroken
<1> HIDE DEF isTransfer
<1> QED BY <1>1, <1>2, LossTold, FailsTells DEF RRIInv

LEMMA WalkTells ==
  ASSUME RRIInv, NEW w \in Workers, RRWalk(w) \/ RRList(w) \/ RRShow(w)
  PROVE  Tells(w)
<1>1. Running(w)
  BY DEF RRWalk, RRList, RRShow, At, Running
<1>2. CASE Fails(w, NotFound)
  BY <1>1, <1>2, OwnErrors, FailsTells
<1>3. ASSUME NEW tasks, Proceeds(w, tasks, <<>>) PROVE Tells(w)
  BY <1>1, <1>3, ProceedsTells
<1> QED BY <1>2, <1>3 DEF RRWalk, RRList, RRShow

LEMMA DirsTell ==
  ASSUME RRIInv, NEW w \in Workers, RRWant(w) \/ RRMakeDir(w) \/ RREnsure(w) \/ RRMake(w)
  PROVE  Tells(w)
<1>1. Running(w)
  BY DEF RRWant, RRMakeDir, RREnsure, RRMake, At, Running
<1>2. CASE Fails(w, PlainError)
  BY <1>1, <1>2, OwnErrors, FailsTells
<1>3. ASSUME NEW tasks, Proceeds(w, tasks, <<>>) PROVE Tells(w)
  BY <1>1, <1>3, ProceedsTells
<1>4. ASSUME NEW b, Proceeds(w, <<>>, [fresh |-> b]) PROVE Tells(w)
  BY <1>1, <1>4, FreshTells
<1>5. CASE RRWant(w)
  BY <1>3, <1>5 DEF RRWant
<1>6. CASE RRMakeDir(w)
  BY <1>2, <1>3, <1>6 DEF RRMakeDir
<1>7. CASE RREnsure(w)
  BY <1>2, <1>3, <1>4, <1>7 DEF RREnsure
<1>8. CASE RRMake(w)
  BY <1>3, <1>4, <1>8 DEF RRMake
<1> QED BY <1>5, <1>6, <1>7, <1>8

LEMMA ConfirmTells ==
  ASSUME RRIInv, NEW w \in Workers, RRConfirm(w)
  PROVE  Tells(w)
<1> DEFINE t == Head(rr[w].work)
<1>1. At(w, {"confirm"})
  BY DEF RRConfirm
<1>2. Running(w) /\ t.do = "confirm" /\ Accounted(t)
  BY <1>1, AtRuns
<1>3. CASE Proceeds(w, <<>>, [fresh |-> FALSE])
  BY <1>2, <1>3, FreshTells
<1>4. ASSUME rrLink' => rrLink, rrMisread => rrMisread', Fails(w, t.err)
      PROVE  Tells(w)
  <2>1. IsConnLost(t.err) => ~rrLink' \/ rrMisread'
    BY <1>2, <1>4 DEF Accounted
  <2> QED BY <1>2, <1>4, <2>1, FailsTells
<1>5. CASE Undisturbed /\ Fails(w, t.err)
  BY <1>4, <1>5 DEF Undisturbed
<1>6. ASSUME NEW x \in FaultOf(FALSE), Suffers(x), Fails(w, t.err)
      PROVE  Tells(w)
  <2>1. (rrLink' => rrLink) /\ (rrMisread => rrMisread')
    BY <1>6 DEF Suffers
  <2> QED BY <1>4, <1>6, <2>1
<1> QED BY <1>3, <1>5, <1>6 DEF RRConfirm

LEMMA ProbeTells ==
  ASSUME RRIInv, NEW w \in Workers, RRProbe(w)
  PROVE  Tells(w)
<1>1. Running(w)
  BY DEF RRProbe, At, Running
<1>2. CASE Proceeds(w, <<>>, <<>>)
  BY <1>1, <1>2, ProceedsTells
<1>3. CASE Finish(w, "conflict", <<>>) /\ UNCHANGED rrClient
  <2>1. "conflict" # "ok"
    OBVIOUS
  <2> QED BY <1>3, <2>1, RefusalTells
<1> QED BY <1>2, <1>3 DEF RRProbe, Taken

LEMMA OpenTells ==
  ASSUME RRIInv, NEW w \in Workers, RROpen(w)
  PROVE  Tells(w)
<1>1. Running(w)
  BY DEF RROpen, At, Running
<1>2. CASE Fails(w, PlainError)
  BY <1>1, <1>2, OwnErrors, FailsTells
<1>3. ASSUME NEW tasks, Proceeds(w, tasks, <<>>) PROVE Tells(w)
  BY <1>1, <1>3, ProceedsTells
<1>4. ASSUME NEW x \in FaultOf(TRUE), Suffers(x), Fails(w, Adapted(x.err)) PROVE Tells(w)
  BY <1>1, <1>4, LossTold, FailsTells DEF RRIInv
<1> QED BY <1>2, <1>3, <1>4 DEF RROpen

LEMMA GetTells ==
  ASSUME RRIInv, NEW w \in Workers, RRGet(w)
  PROVE  Tells(w)
<1>1. Running(w)
  BY DEF RRGet, At, Running
<1>2. CASE Becomes(w, [work |-> Tail(rr[w].work)]) /\ UNCHANGED rrClient
  BY <1>1, <1>2, BecomesWork, GoesOnTells DEF RRIInv
<1>3. CASE Fails(w, NotFound)
  BY <1>1, <1>3, OwnErrors, FailsTells
<1>4. ASSUME NEW x \in FaultOf(TRUE), Suffers(x), Fails(w, Adapted(x.err)) PROVE Tells(w)
  BY <1>1, <1>4, LossTold, FailsTells DEF RRIInv
<1> QED BY <1>2, <1>3, <1>4 DEF RRGet

LEMMA ReadTells ==
  ASSUME RRIInv, NEW w \in Workers, RRRead(w)
  PROVE  Tells(w)
<1> DEFINE s == Tail(rr[w].work)
           got == rr[w].spool \cup rrTree[Head(rr[w].work).p]
<1>1. Running(w)
  BY DEF RRRead, At, Running
<1>2. CASE Becomes(w, [work |-> s, spool |-> got]) /\ UNCHANGED rrClient
  BY <1>1, <1>2, BecomesRead, GoesOnTells DEF RRIInv
<1>3. CASE ShortRead(w, PlainError)
  BY <1>1, <1>3, OwnErrors, ShortReadTells
<1>4. ASSUME NEW x \in FaultOf(TRUE), Suffers(x), ShortRead(w, x.err) PROVE Tells(w)
  <2>1. x.lost \in BOOLEAN /\ "ErrConnectionLost" \notin x.err.is
    BY FaultsKnown
  <2>2. IsConnLost(Incomplete(x.err)) => SoundsLost(x.err)
    BY <2>1, IncompleteLost
  <2>3. IsConnLost(Incomplete(x.err)) => ~rrLink' \/ rrMisread'
    BY <1>4, <2>1, <2>2 DEF Suffers
  <2> QED BY <1>1, <1>4, <2>3, ShortReadTells
<1> QED BY <1>2, <1>3, <1>4 DEF RRRead

LEMMA PutTells ==
  ASSUME RRIInv, NEW w \in Workers, RRPut(w)
  PROVE  Tells(w)
<1> DEFINE g == rr[w].gave \cup rr[w].spool
<1>1. Running(w) /\ TRUE \in BOOLEAN /\ FALSE \in BOOLEAN
  BY DEF RRPut, At, Running
<1>2. CASE Proceeds(w, <<>>, [spool |-> {}, gave |-> g])
  <2> HIDE DEF g
  <2>1. Aside(w) /\ rr'[w].pc = rr[w].pc /\ rrClient' = rrClient
    BY <1>2, ProceedsPut DEF RRIInv
  <2> QED BY <1>1, <2>1, GoesOnTells
<1>3. CASE rr[w].req.kind = "extract" /\ Fails(w, AdaptedUpload(CorruptPayload, TRUE))
  <2>1. ArchiveError(w, AdaptedUpload(CorruptPayload, TRUE))
    BY <1>1, <1>3, ArchiveTold DEF ArchiveError
  <2> QED BY <1>1, <1>3, <2>1, FailsTells
<1>4. CASE Fails(w, AdaptedUpload(Raw({"553"}, {}), FALSE))
  BY <1>1, <1>4, OwnErrors, FailsTells
<1>5. ASSUME NEW x \in FaultOf(TRUE), Suffers(x),
             NEW opened \in BOOLEAN, Fails(w, AdaptedUpload(x.err, opened))
      PROVE  Tells(w)
  BY <1>1, <1>5, UploadTold, FailsTells DEF RRIInv
<1> QED BY <1>1, <1>2, <1>3, <1>4, <1>5 DEF RRPut

LEMMA ChangeTells ==
  ASSUME RRIInv, NEW w \in Workers, RRChange(w)
  PROVE  Tells(w)
<1>1. Running(w)
  BY DEF RRChange, At, Running
<1>2. CASE Fails(w, PlainError)
  BY <1>1, <1>2, OwnErrors, FailsTells
<1>3. CASE Proceeds(w, <<>>, <<>>)
  BY <1>1, <1>3, ProceedsTells
<1> QED BY <1>2, <1>3 DEF RRChange

LEMMA ChmodTells ==
  ASSUME RRIInv, NEW w \in Workers, RRChmod(w)
  PROVE  Tells(w)
<1>1. Running(w)
  BY DEF RRChmod, At, Running
<1>2. CASE Fails(w, Wrap("ErrPermissionsNotSupported", PlainError))
  BY <1>1, <1>2, OwnErrors, FailsTells
<1>3. CASE Proceeds(w, <<>>, <<>>)
  BY <1>1, <1>3, ProceedsTells
<1>4. ASSUME NEW x \in FaultOf(FALSE), Suffers(x), Fails(w, Adapted(x.err)) PROVE Tells(w)
  BY <1>1, <1>4, LossTold, FailsTells DEF RRIInv
<1> QED BY <1>2, <1>3, <1>4 DEF RRChmod

LEMMA EntryTells ==
  ASSUME RRIInv, NEW w \in Workers, RREntry(w)
  PROVE  Tells(w)
<1>1. At(w, {"entry"})
  BY DEF RREntry
<1>2. Running(w) /\ rr[w].req.kind = "extract"
  BY <1>1, AtRuns DEF FitsRequest
<1>3. CASE Fails(w, CorruptPayload)
  <2>1. ArchiveError(w, CorruptPayload)
    BY <1>2, ArchiveTold DEF ArchiveError
  <2> QED BY <1>2, <1>3, <2>1, FailsTells
<1>4. ASSUME NEW tasks, Proceeds(w, tasks, <<>>) PROVE Tells(w)
  BY <1>2, <1>4, ProceedsTells
<1>5. ASSUME NEW tasks, NEW s, Proceeds(w, tasks, [spool |-> s]) PROVE Tells(w)
  <2>1. Aside(w) /\ rr'[w].pc = rr[w].pc /\ rrClient' = rrClient
    BY <1>5, ProceedsSpool DEF RRIInv
  <2> QED BY <1>2, <2>1, GoesOnTells
<1> QED BY <1>3, <1>4, <1>5 DEF RREntry

LEMMA PingTells ==
  ASSUME RRIInv, NEW w \in Workers, RRPing(w)
  PROVE  Tells(w)
<1>1. At(w, {"ping"}) /\ rrClient' = rrClient
  BY DEF RRPing
<1>2. rr[w].req.kind = "ping"
  BY <1>1, AtRuns DEF FitsRequest
<1>3. ASSUME NEW answer, Finish(w, answer, <<>>) \/ Finish(w, answer, [pc |-> "dropping"])
      PROVE  Aside(w)
  BY <1>3, FinishPlain, FinishDropping DEF RRIInv, Ends
<1>4. Aside(w)
  BY <1>3 DEF RRPing
<1> QED BY <1>1, <1>2, <1>4 DEF Aside, Tells

LEMMA EndTells ==
  ASSUME RRIInv, NEW w \in Workers, RRLimit(w) \/ RRDisconnect(w)
  PROVE  Tells(w)
<1>1. CASE RRLimit(w)
  <2>1. Finish(w, "failed", <<>>) /\ UNCHANGED rrClient /\ "failed" # "ok"
    BY <1>1 DEF RRLimit
  <2> QED BY <2>1, RefusalTells
<1>2. CASE RRDisconnect(w)
  <2>1. Finish(w, "bye", <<>>) /\ rrLink' = FALSE
    BY <1>2 DEF RRDisconnect
  <2>2. Aside(w) /\ rr'[w].answer = "bye"
    BY <2>1, FinishPlain DEF RRIInv, Ends
  <2> QED BY <2>1, <2>2 DEF Aside, Tells
<1> QED BY <1>1, <1>2

\* A request that does not run does no more than wait, or end without success.
LEMMA WaitTells ==
  ASSUME RRIInv, NEW w \in Workers, RRLock(w) \/ RRBusy(w) \/ RRForget(w)
  PROVE  Tells(w)
<1>1. ASSUME NEW c, Becomes(w, c), DOMAIN c \subseteq Fields, "pc" \in DOMAIN c,
             c["pc"] # "done" \/ ("answer" \in DOMAIN c /\ c["answer"] # "ok")
      PROVE  /\ \A v \in Workers \ {w} : rr'[v] = rr[v]
             /\ rr'[w].pc = "done" => rr'[w].answer # "ok"
  <2>1. /\ \A v \in Workers \ {w} : rr'[v] = rr[v]
        /\ \A x \in DOMAIN c : rr'[w][x] = c[x]
    BY <1>1, BecomesAt DEF RRIInv
  <2>2. rr'[w]["pc"] = c["pc"] /\ ("answer" \in DOMAIN c => rr'[w]["answer"] = c["answer"])
    BY <1>1, <2>1
  <2> QED BY <1>1, <2>1, <2>2
<1>2. CASE RRLock(w)
  <2> DEFINE had == IF rr[w].req.kind \in Moving THEN rrTree ELSE <<>>
             spool == IF rr[w].req.kind = "upload" THEN rr[w].req.content ELSE {}
             c == [pc |-> "running", work |-> WorkOf(rr[w].req), had |-> had, spool |-> spool]
  <2>1. Becomes(w, c) /\ rrClient' = rrClient
    BY <1>2 DEF RRLock
  <2>2. DOMAIN c = {"pc", "work", "had", "spool"} /\ c["pc"] = "running"
    OBVIOUS
  <2> HIDE DEF c
  <2>3. DOMAIN c \subseteq Fields
    BY <2>2 DEF Fields
  <2> QED BY <1>1, <2>1, <2>2, <2>3 DEF Tells
<1>3. CASE RRBusy(w) \/ RRForget(w)
  <2>1. PICK answer \in {"busy", "lost"} : Becomes(w, [pc |-> "done", answer |-> answer])
    BY <1>3 DEF RRBusy, RRForget
  <2> DEFINE c == [pc |-> "done", answer |-> answer]
  <2>2. Becomes(w, c) /\ DOMAIN c = {"pc", "answer"} /\ c["pc"] = "done" /\ c["answer"] # "ok"
    BY <2>1
  <2> HIDE DEF c
  <2>3. DOMAIN c \subseteq Fields
    BY <2>2 DEF Fields
  <2>4. rrClient' = rrClient \/ ~rrLink'
    BY <1>3 DEF RRBusy, RRForget, rrRemote, RRIInv, RRShape
  <2> QED BY <1>1, <2>2, <2>3, <2>4 DEF Tells
<1> QED BY <1>2, <1>3

LEMMA ArriveTells ==
  ASSUME RRIInv, NEW w \in Workers, NEW r \in Requests, RRArrive(w, r)
  PROVE  Tells(w)
<1>1. CASE Becomes(w, [pc |-> "waiting", req |-> r])
  <2> DEFINE c == [pc |-> "waiting", req |-> r]
  <2>1. DOMAIN c = {"pc", "req"} /\ c["pc"] = "waiting" /\ Becomes(w, c)
    BY <1>1
  <2> HIDE DEF c
  <2>2. DOMAIN c \subseteq Fields
    BY <2>1 DEF Fields
  <2>3. /\ \A v \in Workers \ {w} : rr'[v] = rr[v]
        /\ \A x \in DOMAIN c : rr'[w][x] = c[x]
    BY <2>1, <2>2, BecomesAt DEF RRIInv
  <2>4. rr'[w]["pc"] = "waiting"
    BY <2>1, <2>3
  <2> QED BY <2>3, <2>4 DEF RRArrive, Tells
<1>2. CASE Becomes(w, [pc |-> "done", req |-> r, answer |-> "refused"])
  <2> DEFINE c == [pc |-> "done", req |-> r, answer |-> "refused"]
  <2>1. DOMAIN c = {"pc", "req", "answer"} /\ c["answer"] = "refused" /\ Becomes(w, c)
    BY <1>2
  <2> HIDE DEF c
  <2>2. DOMAIN c \subseteq Fields
    BY <2>1 DEF Fields
  <2>3. /\ \A v \in Workers \ {w} : rr'[v] = rr[v]
        /\ \A x \in DOMAIN c : rr'[w][x] = c[x]
    BY <2>1, <2>2, BecomesAt DEF RRIInv
  <2>4. rr'[w]["answer"] = "refused"
    BY <2>1, <2>3
  <2> QED BY <2>3, <2>4 DEF RRArrive, Tells
<1> QED BY <1>1, <1>2 DEF RRArrive

LEMMA StepsTell ==
  ASSUME RRIInv, NEW w \in Workers, RRStep(w), ~RRAnswer(w)
  PROVE  Tells(w)
BY WaitTells, BrokenTells, WalkTells, DirsTell, ConfirmTells, ProbeTells, OpenTells, GetTells,
   ReadTells, PutTells, ChangeTells, ChmodTells, EntryTells, EndTells, PingTells DEF RRStep

\* Only what lives elsewhere changes, or nothing does.
LEMMA OutsideTells ==
  ASSUME UNCHANGED rrvars \/ RRDrop \/ \E p \in ForeignPaths : RRForeign(p)
  PROVE  UNCHANGED <<rr, rrClient>>
BY DEF rrvars, RRDrop, RRForeign

\* The session gives its client up only for a connection that is dead, or after a call
\* failed that nothing tells from it: a broken archive, another refusal of the server and a
\* data connection that timed out leave the client alone (failClient, archiveError).
THEOREM RRLiveClientKeptHolds == RRSpec => RRLiveClientKept
<1>1. RRIInv /\ [RRNext]_rrvars => (rrClient /\ ~rrClient' => ~rrLink' \/ rrMisread')
  <2>1. SUFFICES ASSUME RRIInv, [RRNext]_rrvars
                 PROVE  rrClient /\ ~rrClient' => ~rrLink' \/ rrMisread'
    OBVIOUS
  <2>2. CASE UNCHANGED rrvars \/ RRDrop \/ \E p \in ForeignPaths : RRForeign(p)
    BY <2>2, OutsideTells
  <2>3. ASSUME NEW w \in Workers, NEW r \in Requests, RRArrive(w, r)
        PROVE  rrClient /\ ~rrClient' => ~rrLink' \/ rrMisread'
    BY <2>1, <2>3, ArriveTells DEF Tells
  <2>4. ASSUME NEW w \in Workers, RRStep(w)
        PROVE  rrClient /\ ~rrClient' => ~rrLink' \/ rrMisread'
    <3>1. CASE RRAnswer(w)
      BY <3>1 DEF RRAnswer
    <3>2. CASE ~RRAnswer(w)
      BY <2>1, <2>4, <3>2, StepsTell DEF Tells
    <3> QED BY <3>1, <3>2
  <2> QED BY <2>1, <2>2, <2>3, <2>4 DEF RRNext
<1> QED BY <1>1, RRIInvHolds, PTL DEF RRSpec, RRLiveClientKept

\* A request that is answered as done gave all it owes.
LEMMA AnswerIsWhole ==
  ASSUME RRIInv, NEW w \in Workers, RRAnswer(w), Whole(w)
  PROVE  Cut \notin rr'[w].gave /\ Owed(w) \subseteq rr'[w].gave
<1> DEFINE g == rr[w].gave \cup rr[w].spool
<1>1. Running(w) /\ rr[w].work = <<>> /\ Finish(w, "ok", [gave |-> g])
  BY DEF RRAnswer, Running
<1>2. rr'[w].gave = g
  BY <1>1, FinishGave DEF RRIInv
<1>3. Cut \notin rr[w].gave /\ Cut \notin rr[w].spool
  BY <1>1, WorkOfRunning DEF RRIInv, RRWhole, Whole, Moving
<1>4. ASSUME NEW f \in DOMAIN rr[w].had, Wanted(w, f)
      PROVE  rr[w].had[f] \subseteq g
  <2>1. Range(rr[w].work) = {}
    BY <1>1, WorkOfNone
  <2> QED BY <1>1, <1>4, <2>1 DEF RRIInv, RRWhole, Whole
<1>5. Owed(w) \subseteq g
  BY <1>4 DEF Owed, Wanted
<1> QED BY <1>2, <1>3, <1>5

\* A copy, an archive or a download that is answered as done has every file that was there
\* and that nobody wrote meanwhile, and nothing of a transfer that ended early (copyFile,
\* addToZipDepth, DownloadFile).
THEOREM RROkIsWholeHolds == RRSpec => RROkIsWhole
<1>1. RRIInv /\ [RRNext]_rrvars =>
        \A w \in Workers :
          ~Succeeded(w) /\ Succeeded(w)' /\ rr'[w].req.kind \in Moving \ {"upload"}
          => Cut \notin rr'[w].gave /\ Owed(w) \subseteq rr'[w].gave
  <2>1. SUFFICES ASSUME RRIInv, [RRNext]_rrvars, NEW v \in Workers,
                        ~Succeeded(v), Succeeded(v)', rr'[v].req.kind \in Moving \ {"upload"}
                 PROVE  Cut \notin rr'[v].gave /\ Owed(v) \subseteq rr'[v].gave
    OBVIOUS
  <2>2. rr'[v] # rr[v]
    BY <2>1 DEF Succeeded
  <2>3. ASSUME NEW w \in Workers, Tells(w) PROVE FALSE
    <3>1. v = w
      BY <2>2, <2>3 DEF Tells
    <3> QED BY <2>1, <2>3, <3>1 DEF Tells, Succeeded, Moving
  <2>4. CASE UNCHANGED rrvars \/ RRDrop \/ \E p \in ForeignPaths : RRForeign(p)
    BY <2>2, <2>4, OutsideTells
  <2>5. ASSUME NEW w \in Workers, NEW r \in Requests, RRArrive(w, r) PROVE FALSE
    BY <2>1, <2>3, <2>5, ArriveTells
  <2>6. ASSUME NEW w \in Workers, RRStep(w), ~RRAnswer(w) PROVE FALSE
    BY <2>1, <2>3, <2>6, StepsTell
  <2>7. ASSUME NEW w \in Workers, RRAnswer(w)
        PROVE  Cut \notin rr'[v].gave /\ Owed(v) \subseteq rr'[v].gave
    <3>1. Finish(w, "ok", [gave |-> rr[w].gave \cup rr[w].spool])
      BY <2>7 DEF RRAnswer
    <3>2. Aside(w)
      BY <2>1, <3>1, FinishGave DEF RRIInv, Ends
    <3>3. v = w
      BY <2>2, <3>2 DEF Aside
    <3>4. Whole(v)
      BY <2>1, <3>2, <3>3 DEF Aside, Whole
    <3> QED BY <2>1, <2>7, <3>3, <3>4, AnswerIsWhole
  <2> QED BY <2>1, <2>4, <2>5, <2>6, <2>7 DEF RRNext
<1> QED BY <1>1, RRIInvHolds, PTL DEF RRSpec, RROkIsWhole

-----------------------------------------------------------------------------
(* The editor.                                                             *)

LEMMA EDInitIInv == EDInit => EDIInv
<1> SUFFICES ASSUME EDInit PROVE EDIInv
  OBVIOUS
<1>1. EDTypeOK
  <2>1. edText = 0 /\ edVersion = 0 /\ edNewest = 0 /\ edWrites = 0 /\ edMissed = {} /\ edAliased = FALSE
    BY DEF EDInit
  <2>2. edText \in Nat \cup {NoText} /\ edNewest \in Nat /\ edVersion \in 0..edNewest /\ edWrites \in 0..MaxWrites
    BY <2>1, RemoteEditorAssumption
  <2>3. edPc \in [Tabs -> {"closed", "reading", "ready", "checking", "writing", "stating"}]
    BY DEF EDInit
  <2>4. edBase \in [Tabs -> Nat \cup {NoVersion}] /\ edFound \in [Tabs -> Nat \cup {NoVersion}]
    BY DEF EDInit
  <2>5. edSeen \in [Tabs -> Nat \cup {NoText}]
    BY DEF EDInit
  <2>6. edConflict \in [Tabs -> BOOLEAN] /\ edForced \in [Tabs -> BOOLEAN]
    BY DEF EDInit
  <2>7. \A t \in Tabs : edPc[t] = "closed"
    BY DEF EDInit
  <2> QED BY <2>1, <2>2, <2>3, <2>4, <2>5, <2>6, <2>7 DEF EDTypeOK
<1>2. Past(edBase) /\ Past(edFound)
  BY DEF EDInit, Past
<1>3. Guarded
  BY RemoteEditorAssumption DEF EDInit, Guarded
<1> QED BY <1>1, <1>2, <1>3 DEF EDIInv

-----------------------------------------------------------------------------
(* A text that is stored is excused to every other tab: it is in the window   *)
(* of a save, has the version of an earlier text, or has one that no tab      *)
(* knows.                                                                   *)

\* What Stores leaves, by type.
LEMMA StoresTyped ==
  ASSUME EDIInv, NEW by, Stores(by)
  PROVE  /\ edText' \in Nat /\ edText' # NoText
         /\ edNewest' \in Nat /\ edNewest' >= edNewest /\ edVersion' \in 0..edNewest'
         /\ edWrites' \in 0..MaxWrites
         /\ edMissed' \subseteq Tabs /\ edAliased' \in BOOLEAN
<1>1. edWrites \in Nat /\ edWrites + 1 \in 0..MaxWrites /\ edNewest \in Nat
  BY RemoteEditorAssumption DEF EDIInv, EDTypeOK, Stores
<1>2. edText' = edWrites + 1 /\ edWrites' = edWrites + 1 /\ edMissed' \subseteq Tabs
  BY DEF Stores
<1>3. /\ \/ edVersion' = edNewest + 1 /\ edNewest' = edNewest + 1
         \/ edVersion' \in 0..edNewest /\ edNewest' = edNewest
      /\ edAliased' \in BOOLEAN
  BY DEF Stores
<1>4. edNewest' \in Nat /\ edNewest' >= edNewest /\ edVersion' \in 0..edNewest'
  BY <1>1, <1>3
<1>5. edText' \in Nat /\ edWrites' \in 0..MaxWrites
  BY <1>1, <1>2
<1> QED BY <1>2, <1>3, <1>4, <1>5, RemoteEditorAssumption

\* A version a tab holds that is the file's after a write is one the file had before it.
LEMMA StoresVersion ==
  ASSUME EDIInv, NEW by, Stores(by), NEW t \in Tabs, edBase[t] = edVersion'
  PROVE  edAliased'
<1>1. edNewest \in Nat /\ edBase[t] \in Nat \cup {NoVersion}
      /\ (edBase[t] # NoVersion => edBase[t] <= edNewest)
  BY DEF EDIInv, EDTypeOK, Past
<1>2. edVersion' # edNewest + 1
  BY <1>1, RemoteEditorAssumption
<1> QED BY <1>2 DEF Stores

\* A tab whose save is under way, and that does not store itself, misses the text.
LEMMA StoresMissed ==
  ASSUME EDIInv, NEW by, Stores(by), NEW t \in Tabs, t # by, InWindow(t)
  PROVE  t \in edMissed'
BY DEF Stores

LEMMA StoresPast ==
  ASSUME EDIInv, NEW by, Stores(by), edBase' = edBase, edFound' = edFound
  PROVE  Past(edBase)' /\ Past(edFound)'
<1>1. edNewest \in Nat /\ edNewest' \in Nat /\ edNewest' >= edNewest
  BY StoresTyped DEF EDIInv, EDTypeOK
<1>2. /\ edBase \in [Tabs -> Nat \cup {NoVersion}] /\ edFound \in [Tabs -> Nat \cup {NoVersion}]
      /\ Past(edBase) /\ Past(edFound)
  BY DEF EDIInv, EDTypeOK
<1> QED BY <1>1, <1>2 DEF Past

-----------------------------------------------------------------------------
(* Every action keeps the invariant.                                        *)

LEMMA EDStatKeeps ==
  ASSUME EDIInv, NEW t \in Tabs, EDStat(t)
  PROVE  EDIInv'
<1>1. PICK v \in {NoVersion} \cup (IF edText # NoText THEN {edVersion} ELSE {}) :
        edFound' = [edFound EXCEPT ![t] = v]
  BY DEF EDStat
<1>2. edPc' = [edPc EXCEPT ![t] = "reading"]
      /\ UNCHANGED <<edFile, edSeen, edBase, edConflict, edForced, edMissed>>
  BY DEF EDStat, Goes
<1>3. EDTypeOK'
  BY <1>1, <1>2 DEF EDIInv, EDTypeOK, edFile
<1>4. Past(edBase)' /\ Past(edFound)'
  BY <1>1, <1>2 DEF EDIInv, EDTypeOK, Past, edFile
<1>5. Guarded'
  BY <1>2 DEF EDIInv, EDTypeOK, Guarded, Excused, edFile
<1> QED BY <1>3, <1>4, <1>5 DEF EDIInv

LEMMA EDReadKeeps ==
  ASSUME EDIInv, NEW t \in Tabs, EDRead(t)
  PROVE  EDIInv'
<1>1. edFound' = [edFound EXCEPT ![t] = NoVersion] /\ UNCHANGED <<edFile, edForced, edMissed>>
      /\ edPc[t] = "reading"
  BY DEF EDRead
<1>2. CASE /\ edText # NoText /\ Goes(t, "ready")
           /\ edSeen' = [edSeen EXCEPT ![t] = edText]
           /\ edBase' = [edBase EXCEPT ![t] = edFound[t]]
           /\ edConflict' = [edConflict EXCEPT ![t] = FALSE]
  <2>1. EDTypeOK'
    BY <1>1, <1>2 DEF EDIInv, EDTypeOK, edFile, Goes
  <2>2. Past(edBase)' /\ Past(edFound)'
    BY <1>1, <1>2 DEF EDIInv, EDTypeOK, Past, edFile
  <2>3. Guarded'
    <3>1. Excused(t)'
      BY <1>1, <1>2 DEF EDIInv, EDTypeOK, Excused, edFile
    <3>2. ASSUME NEW u \in Tabs, u # t
          PROVE  /\ edBase'[u] = edBase[u] /\ edPc'[u] = edPc[u]
                 /\ Excused(u)' = Excused(u)
      BY <1>1, <1>2, <3>2 DEF EDIInv, EDTypeOK, Goes, Excused, edFile
    <3>3. edVersion' = edVersion /\ edForced' = edForced
      BY <1>1 DEF edFile
    <3> QED BY <3>1, <3>2, <3>3 DEF EDIInv, Guarded
  <2> QED BY <2>1, <2>2, <2>3 DEF EDIInv
<1>3. CASE Rests(t) /\ UNCHANGED <<edSeen, edBase, edConflict>>
  <2>1. EDTypeOK'
    BY <1>1, <1>3 DEF EDIInv, EDTypeOK, edFile, Rests, Goes
  <2>2. Past(edBase)' /\ Past(edFound)'
    BY <1>1, <1>3 DEF EDIInv, EDTypeOK, Past, edFile
  <2>3. Guarded'
    BY <1>1, <1>3 DEF EDIInv, EDTypeOK, Guarded, Excused, edFile, Rests, Goes
  <2> QED BY <2>1, <2>2, <2>3 DEF EDIInv
<1> QED BY <1>2, <1>3 DEF EDRead

LEMMA EDSaveKeeps ==
  ASSUME EDIInv, NEW t \in Tabs, EDSave(t)
  PROVE  EDIInv'
<1>1. PICK force \in BOOLEAN :
        /\ edPc' = [edPc EXCEPT ![t] = IF force THEN "writing" ELSE "checking"]
        /\ edForced' = [edForced EXCEPT ![t] = force]
  BY DEF EDSave, Goes
<1>2. edPc[t] = "ready" /\ UNCHANGED <<edFile, edSeen, edBase, edFound, edConflict, edMissed>>
  BY DEF EDSave
<1>3. EDTypeOK'
  BY <1>1, <1>2 DEF EDIInv, EDTypeOK, edFile
<1>4. Past(edBase)' /\ Past(edFound)'
  BY <1>2 DEF EDIInv, Past, edFile
<1>5. Guarded'
  BY <1>1, <1>2 DEF EDIInv, EDTypeOK, Guarded, Excused, edFile
<1> QED BY <1>3, <1>4, <1>5 DEF EDIInv

LEMMA EDCheckKeeps ==
  ASSUME EDIInv, NEW t \in Tabs, EDCheck(t)
  PROVE  EDIInv'
<1>1. edPc[t] = "checking" /\ UNCHANGED <<edFile, edSeen, edBase, edFound, edForced, edMissed>>
  BY DEF EDCheck
<1>2. Past(edBase)' /\ Past(edFound)'
  BY <1>1 DEF EDIInv, Past, edFile
<1>3. CASE Matches(t) /\ Goes(t, "writing") /\ UNCHANGED edConflict
  <2>1. EDTypeOK'
    BY <1>1, <1>3 DEF EDIInv, EDTypeOK, edFile, Goes
  <2>2. Guarded'
    BY <1>1, <1>3 DEF EDIInv, EDTypeOK, Guarded, Excused, Matches, edFile, Goes
  <2> QED BY <1>2, <2>1, <2>2 DEF EDIInv
<1>4. CASE Goes(t, "ready")
           /\ edConflict' \in {edConflict, [edConflict EXCEPT ![t] = TRUE]}
  <2>1. EDTypeOK'
    BY <1>1, <1>4 DEF EDIInv, EDTypeOK, edFile, Goes
  <2>2. \A u \in Tabs : edPc'[u] \in {"writing", "stating"} => edPc'[u] = edPc[u]
    BY <1>4 DEF EDIInv, EDTypeOK, Goes
  <2>3. Guarded'
    BY <1>1, <2>2 DEF EDIInv, Guarded, Excused, edFile
  <2> QED BY <1>2, <2>1, <2>3 DEF EDIInv
<1> QED BY <1>3, <1>4 DEF EDCheck

LEMMA EDUploadKeeps ==
  ASSUME EDIInv, NEW t \in Tabs, EDUpload(t)
  PROVE  EDIInv'
<1>1. /\ edPc[t] = "writing" /\ UNCHANGED <<edBase, edFound, edConflict>>
      /\ edForced' = [edForced EXCEPT ![t] = FALSE]
  BY DEF EDUpload
<1>2. CASE /\ Stores(t) /\ (Goes(t, "stating") \/ Goes(t, "ready"))
           /\ edSeen' = [edSeen EXCEPT ![t] = edText']
  <2>1. EDTypeOK'
    BY <1>1, <1>2, StoresTyped DEF EDIInv, EDTypeOK, Goes
  <2>2. Past(edBase)' /\ Past(edFound)'
    BY <1>1, <1>2, StoresPast
  <2>3. Excused(t)'
    BY <1>2 DEF EDIInv, EDTypeOK, Excused
  <2>4. ASSUME NEW u \in Tabs, u # t, edBase'[u] = edVersion'
        PROVE  Excused(u)'
    BY <1>1, <1>2, <2>4, StoresVersion DEF Excused
  <2>5. ASSUME NEW u \in Tabs, u # t, edPc'[u] \in {"writing", "stating"}
        PROVE  Excused(u)'
    <3>1. InWindow(u)
      BY <1>2, <2>5 DEF EDIInv, EDTypeOK, Goes, InWindow
    <3> QED BY <1>2, <2>5, <3>1, StoresMissed DEF Excused
  <2>6. Guarded'
    BY <2>3, <2>4, <2>5 DEF Guarded
  <2> QED BY <2>1, <2>2, <2>6 DEF EDIInv
<1>3. CASE Goes(t, "ready") /\ UNCHANGED <<edFile, edSeen, edMissed>>
  <2>1. EDTypeOK'
    BY <1>1, <1>3 DEF EDIInv, EDTypeOK, edFile, Goes
  <2>2. Past(edBase)' /\ Past(edFound)'
    BY <1>1, <1>3 DEF EDIInv, Past, edFile
  <2>3. Guarded'
    BY <1>1, <1>3 DEF EDIInv, EDTypeOK, Guarded, Excused, edFile, Goes
  <2> QED BY <2>1, <2>2, <2>3 DEF EDIInv
<1> QED BY <1>2, <1>3 DEF EDUpload

LEMMA EDRestatKeeps ==
  ASSUME EDIInv, NEW t \in Tabs, EDRestat(t)
  PROVE  EDIInv'
<1>1. /\ edPc[t] = "stating" /\ edPc' = [edPc EXCEPT ![t] = "ready"]
      /\ UNCHANGED <<edFile, edSeen, edFound, edForced, edMissed>>
  BY DEF EDRestat, Goes
<1>2. edBase' = edBase \/ \E v \in {NoVersion, edVersion} : edBase' = [edBase EXCEPT ![t] = v]
  BY DEF EDRestat
<1>3. edConflict' \in {edConflict, [edConflict EXCEPT ![t] = FALSE]}
  BY DEF EDRestat
<1>4. EDTypeOK'
  <2>1. edBase' \in [Tabs -> Nat \cup {NoVersion}]
    BY <1>2 DEF EDIInv, EDTypeOK
  <2>2. edConflict' \in [Tabs -> BOOLEAN]
    BY <1>3 DEF EDIInv, EDTypeOK
  <2>3. /\ edPc' \in [Tabs -> {"closed", "reading", "ready", "checking", "writing", "stating"}]
        /\ \A u \in Tabs : edPc[u] = "closed" \/ edPc[u] = "reading" => edPc'[u] = edPc[u]
    BY <1>1 DEF EDIInv, EDTypeOK
  <2> QED BY <1>1, <2>1, <2>2, <2>3 DEF EDIInv, EDTypeOK, edFile
<1>5. Past(edBase)' /\ Past(edFound)'
  BY <1>1, <1>2 DEF EDIInv, EDTypeOK, Past, edFile
<1>6. Excused(t)'
  BY <1>1 DEF EDIInv, Guarded, Excused, edFile
<1>7. ASSUME NEW u \in Tabs, u # t
      PROVE  /\ edBase'[u] = edBase[u] /\ edPc'[u] = edPc[u]
             /\ Excused(u)' = Excused(u)
  BY <1>1, <1>2, <1>3, <1>7 DEF EDIInv, EDTypeOK, Excused, edFile
<1>8. Guarded'
  BY <1>1, <1>6, <1>7 DEF EDIInv, Guarded, edFile
<1> QED BY <1>4, <1>5, <1>8 DEF EDIInv

LEMMA EDForeignKeeps ==
  ASSUME EDIInv, EDForeign
  PROVE  EDIInv'
<1>1. Stores(NoText) /\ UNCHANGED edTab
  BY DEF EDForeign
<1>2. EDTypeOK'
  BY <1>1, StoresTyped DEF EDIInv, EDTypeOK, edTab
<1>3. Past(edBase)' /\ Past(edFound)'
  BY <1>1, StoresPast DEF edTab
<1>4. ASSUME NEW t \in Tabs, edBase'[t] = edVersion'
      PROVE  Excused(t)'
  BY <1>1, <1>4, StoresVersion DEF Excused, edTab
<1>5. ASSUME NEW t \in Tabs, edPc'[t] \in {"writing", "stating"}
      PROVE  Excused(t)'
  <2>1. t # NoText /\ InWindow(t)
    BY <1>1, <1>5, RemoteEditorAssumption DEF InWindow, edTab
  <2> QED BY <1>1, <2>1, StoresMissed DEF Excused
<1>6. Guarded'
  BY <1>4, <1>5 DEF Guarded
<1> QED BY <1>2, <1>3, <1>6 DEF EDIInv

LEMMA EDGoneKeeps ==
  ASSUME EDIInv, EDGone
  PROVE  EDIInv'
<1>1. edText' = NoText /\ UNCHANGED <<edVersion, edNewest, edWrites, edAliased, edTab, edMissed>>
  BY DEF EDGone
<1>2. EDTypeOK'
  BY <1>1 DEF EDIInv, EDTypeOK, edTab
<1>3. Past(edBase)' /\ Past(edFound)'
  BY <1>1 DEF EDIInv, Past, edTab
<1>4. Guarded'
  BY <1>1 DEF Guarded, Excused
<1> QED BY <1>2, <1>3, <1>4 DEF EDIInv

LEMMA EDStutterKeeps ==
  ASSUME EDIInv, UNCHANGED edvars
  PROVE  EDIInv'
BY DEF EDIInv, EDTypeOK, Past, Guarded, Excused, edvars, edFile, edTab

LEMMA EDStepIInv == EDIInv /\ [EDNext]_edvars => EDIInv'
<1> SUFFICES ASSUME EDIInv, [EDNext]_edvars PROVE EDIInv'
  OBVIOUS
<1>1. ASSUME NEW t \in Tabs,
             EDStat(t) \/ EDRead(t) \/ EDSave(t) \/ EDCheck(t) \/ EDUpload(t) \/ EDRestat(t)
      PROVE  EDIInv'
  BY <1>1, EDStatKeeps, EDReadKeeps, EDSaveKeeps, EDCheckKeeps, EDUploadKeeps, EDRestatKeeps
<1> QED BY <1>1, EDForeignKeeps, EDGoneKeeps, EDStutterKeeps DEF EDNext

-----------------------------------------------------------------------------

\* The inductive invariant holds: no tab holds a version that the file has yet to get, and
\* what a version, a check or an upload vouches for is excused (editor.go, editor.ts).
THEOREM EDIInvHolds == EDSpec => []EDIInv
BY EDInitIInv, EDStepIInv, PTL DEF EDSpec

\* A tab that edits has loaded the file, and every version is one of the file's.
THEOREM EDTypeCorrect == EDSpec => []EDTypeOK
<1>1. EDIInv => EDTypeOK
  BY DEF EDIInv
<1> QED BY <1>1, EDIInvHolds, PTL

\* A conditional save destroys a text the tab never saw only if that text came in one of
\* the save's two windows, or has the size and second of an earlier one (WriteFile).
THEOREM EDLossHolds == EDSpec => EDLossOnlyInWindow
<1>1. EDIInv /\ [EDNext]_edvars =>
        [\A t \in Tabs :
           /\ edPc[t] = "writing" /\ edWrites' > edWrites /\ edPc'[t] # "writing"
           /\ ~edForced[t] /\ edText \notin {NoText, edSeen[t]}
           => t \in edMissed \/ edAliased]_edvars
  BY DEF EDIInv, Guarded, Excused
<1> QED BY <1>1, EDIInvHolds, PTL DEF EDSpec, EDLossOnlyInWindow

-----------------------------------------------------------------------------
(* The backend as MCBackend runs it.                                       *)

\* A behaviour of the backend is one of each part: the part that is chosen takes its
\* steps and the others take none.
THEOREM BackendParts == BackendSpec => RRSpec /\ KHSpec /\ SDSpec /\ EDSpec
<1>1. BackendInit => RRInit /\ KHInit /\ SDInit /\ EDInit
  BY DEF BackendInit
<1>2. [BackendNext]_<<part, rrvars, khvars, sdvars, edvars>> =>
        [RRNext]_rrvars /\ [KHNext]_khvars /\ [SDNext]_sdvars /\ [EDNext]_edvars
  BY DEF BackendNext
<1>3. QED  BY <1>1, <1>2, PTL DEF BackendSpec, RRSpec, KHSpec, SDSpec, EDSpec

\* Every variable of every part keeps its type, and every counter counts what it says.
THEOREM BackendTypes == BackendSpec => []BackendTypeOK
<1>1. RRTypeOK /\ KHTypeOK /\ SDTypeOK /\ EDTypeOK => BackendTypeOK
  BY DEF BackendTypeOK
<1>2. QED  BY <1>1, BackendParts, RRTypeCorrect, KHTypeCorrect, SDTypeCorrect, EDTypeCorrect, PTL

\* What is proved of each part holds of the backend: of the requests, of the known
\* hosts, of the staging disk and of the editor.
THEOREM BackendCorrect ==
  BackendSpec =>
    /\ RROkIsWhole /\ []RROneTransfer /\ []RRNoClobber /\ RRLiveClientKept
    /\ []KHTrustIsGiven /\ []KHOnePin /\ KHKeyedByStore /\ KHNeverForgets
    /\ SDRoom /\ SDSpares
    /\ EDLossOnlyInWindow
BY BackendParts, RROkIsWholeHolds, RROneTransferHolds, RRNoClobberHolds, RRLiveClientKeptHolds,
   KHTrustHolds, KHOnePinHolds, KHKeyedHolds, KHForgetsHolds, SDRoomHolds, SDSparesHolds,
   EDLossHolds
=============================================================================
