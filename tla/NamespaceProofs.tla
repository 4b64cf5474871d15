--------------------------- MODULE NamespaceProofs ---------------------------
(***************************************************************************)
(* The tree of names, its link counts and its parent pointers, and what is *)
(* counted of blocks and usage, for every number of inodes and every set   *)
(* of names.                                                               *)
(*                                                                         *)
(* OneTree is not inductive as it stands: that every walk up meets the     *)
(* root within as many steps as there are inodes says nothing that a step  *)
(* can be argued from.  Rooted says it without counting: no set of         *)
(* directories is closed under "parent of".  Every operation on names has  *)
(* one shape (EntryStep, KindStep, UpStep, LinkStep, BackStep): an inode   *)
(* loses at most one entry and gains at most one.  A step of that shape    *)
(* preserves the invariant (InvStep), and the rest of the module shows     *)
(* that each operation has it.                                             *)
(*                                                                         *)
(* The counts have an invariant of their own.  An operation is seen as the *)
(* record it commits: the inodes it rewrites, each with one change of the  *)
(* list it charges (Recorded).  That the sums of check's quota.usage move  *)
(* by what the changes say is one lemma about sums (SumMoved) for all of   *)
(* the operations.                                                         *)
(***************************************************************************)
EXTENDS Namespace, OrderFacts, SequenceTheorems

\* The values of the inode table.

Kinds    == {"free", "dir", "file", "symlink"}
NameMaps == UNION {[S -> Inos] : S \in SUBSET Names}
Pointers == [dir : Inos, gen : Nat, name : Names]

Inode ==
  [kind : Kinds, nlink : Int, gen : Nat, names : NameMaps, up : Inos,
   local : BOOLEAN, dblocks : Int, ablocks : Nat, nblocks : Int,
   xattr : BOOLEAN, pointers : SUBSET Pointers]

TypeOK ==
  /\ parents \in BOOLEAN
  /\ inode \in [Inos -> Inode]

-----------------------------------------------------------------------------
(* The helpers *)

\* What the contents of a directory are: some names, each leading to an inode.
LEMMA NameMapIs ==
  \A f : f \in NameMaps <=> DOMAIN f \in SUBSET Names /\ f \in [DOMAIN f -> Inos]
BY DEF NameMaps

\* The empty directory is one, and the root is an inode number.
LEMMA NoNamesType == NoNames \in NameMaps /\ DOMAIN NoNames = {} /\ Root \in Inos
<1>1. NoNames \in [{} -> Inos]  BY DEF NoNames
<1>2. Root \in Inos  BY NamespaceAssumption DEF Root, Inos
<1>3. QED  BY <1>1, <1>2, NameMapIs DEF NoNames

\* Adding an entry (or pointing one elsewhere) adds that one name.
LEMMA WithFact ==
  ASSUME NEW f \in NameMaps, NEW n \in Names, NEW i \in Inos
  PROVE  /\ With(f, n, i) \in NameMaps
         /\ DOMAIN With(f, n, i) = DOMAIN f \cup {n}
         /\ With(f, n, i)[n] = i
         /\ \A m \in DOMAIN f : m # n => With(f, n, i)[m] = f[m]
<1>1. DOMAIN f \in SUBSET Names /\ f \in [DOMAIN f -> Inos]  BY NameMapIs
<1>2. With(f, n, i) \in [DOMAIN f \cup {n} -> Inos]  BY <1>1 DEF With
<1>3. QED  BY <1>1, <1>2, NameMapIs DEF With

\* Removing an entry removes that one name.
LEMMA WithoutFact ==
  ASSUME NEW f \in NameMaps, NEW n
  PROVE  /\ Without(f, n) \in NameMaps
         /\ DOMAIN Without(f, n) = DOMAIN f \ {n}
         /\ \A m \in DOMAIN f : m # n => Without(f, n)[m] = f[m]
<1>1. DOMAIN f \in SUBSET Names /\ f \in [DOMAIN f -> Inos]  BY NameMapIs
<1>2. Without(f, n) \in [DOMAIN f \ {n} -> Inos]  BY <1>1 DEF Without
<1>3. QED  BY <1>1, <1>2, NameMapIs DEF Without

\* The blocks laid out for a directory are a number.
LEMMA LayOutType ==
  ASSUME NEW n \in Nat
  PROVE  LayOut(n) \in Int
<1>1. PerBlock \in Nat /\ PerBlock > 0  BY NamespaceAssumption
<1>2. QED  BY <1>1 DEF LayOut, CeilDiv

\* A directory has finitely many names.
LEMMA NameMapFinite ==
  ASSUME NEW f \in NameMaps
  PROVE  IsFiniteSet(DOMAIN f) /\ Cardinality(DOMAIN f) \in Nat
<1>1. IsFiniteSet(DOMAIN f)  BY NameMapIs, NamespaceAssumption, FS_Subset
<1>2. QED  BY <1>1, FS_CardinalityType

\* The fields an edit of a directory leaves alone.
SameBut(x, y) ==
  /\ y.kind = x.kind /\ y.nlink = x.nlink /\ y.gen = x.gen
  /\ y.ablocks = x.ablocks /\ y.xattr = x.xattr /\ y.pointers = x.pointers

Counted(x) == x.nblocks = x.dblocks + x.ablocks

\* Rewriting the names of a directory touches its names, its parent and its
\* blocks; the block count stays exact unless the directory leaves the inode
\* and the inode has attribute blocks.
LEMMA ChangedFact ==
  ASSUME NEW x \in Inode, NEW names \in NameMaps, NEW up \in Inos
  PROVE  /\ Changed(x, names, up) \in Inode
         /\ Changed(x, names, up).names = names
         /\ Changed(x, names, up).up = up
         /\ SameBut(x, Changed(x, names, up))
         /\ Counted(x) => \/ Counted(Changed(x, names, up))
                          \/ x.ablocks # 0 /\ ~Changed(x, names, up).local
<1>1. LayOut(Cardinality(DOMAIN names)) \in Int  BY NameMapFinite, LayOutType
<1>2. CASE x.local /\ FitsShort(names, up)
  BY <1>2 DEF Changed, Inode, SameBut, Counted
<1>3. CASE ~(x.local /\ FitsShort(names, up))
  <2> DEFINE b == LayOut(Cardinality(DOMAIN names))
             y == [x EXCEPT !.names = names, !.up = up, !.local = FALSE,
                            !.dblocks = b, !.nblocks = b]
  <2>1. Changed(x, names, up) = y  BY <1>3 DEF Changed, Rewritten
  <2>2. b \in Int  BY <1>1
  <2> HIDE DEF b
  <2>3. y \in Inode  BY <2>2 DEF Inode
  <2>4. y.names = names /\ y.up = up /\ y.local = FALSE  BY DEF Inode
  <2>5. y.dblocks = b /\ y.nblocks = b  BY DEF Inode
  <2>6. y.kind = x.kind /\ y.nlink = x.nlink /\ y.gen = x.gen  BY DEF Inode
  <2>7. y.ablocks = x.ablocks /\ y.xattr = x.xattr /\ y.pointers = x.pointers  BY DEF Inode
  <2>8. x.ablocks \in Int  BY DEF Inode
  <2> HIDE DEF y
  <2>9. QED  BY <2>1, <2>2, <2>3, <2>4, <2>5, <2>6, <2>7, <2>8 DEF SameBut, Counted
<1>4. QED  BY <1>2, <1>3

\* Rewriting the attributes touches the pointers, the attributes and their
\* blocks, and the block count with them.
LEMMA ReforkFact ==
  ASSUME NEW x \in Inode, NEW pointers \in SUBSET Pointers, NEW xattr \in BOOLEAN
  PROVE  /\ Refork(x, pointers, xattr) \in Inode
         /\ Refork(x, pointers, xattr).pointers = pointers
         /\ Refork(x, pointers, xattr).kind = x.kind
         /\ Refork(x, pointers, xattr).nlink = x.nlink
         /\ Refork(x, pointers, xattr).gen = x.gen
         /\ Refork(x, pointers, xattr).names = x.names
         /\ Refork(x, pointers, xattr).up = x.up
         /\ Refork(x, pointers, xattr).local = x.local
         /\ Refork(x, pointers, xattr).dblocks = x.dblocks
         /\ Counted(x) => Counted(Refork(x, pointers, xattr))
<1>1. AttrBlocks(pointers, xattr) \in Nat  BY DEF AttrBlocks
<1> DEFINE b == AttrBlocks(pointers, xattr)
           c == x.nblocks - x.ablocks + b
           y == [x EXCEPT !.pointers = pointers, !.xattr = xattr, !.ablocks = b, !.nblocks = c]
<1>2. Refork(x, pointers, xattr) = y  BY DEF Refork
<1>3. x.nblocks \in Int /\ x.ablocks \in Int /\ x.dblocks \in Int  BY DEF Inode
<1>4. y \in Inode
  <2>1. b \in Nat /\ c \in Int  BY <1>1, <1>3
  <2> HIDE DEF b, c
  <2>2. QED  BY <2>1 DEF Inode
<1> HIDE DEF b
<1>5. y.pointers = pointers /\ y.ablocks = b  BY DEF Inode
<1>6. y.nblocks = x.nblocks - x.ablocks + b  BY DEF Inode
<1>7. y.kind = x.kind /\ y.nlink = x.nlink /\ y.gen = x.gen  BY DEF Inode
<1>8. y.names = x.names /\ y.up = x.up  BY DEF Inode
<1>9. y.local = x.local /\ y.dblocks = x.dblocks  BY DEF Inode
<1>10. b \in Int  BY <1>1 DEF b
<1> HIDE DEF y
<1>11. Counted(x) => Counted(y)  BY <1>3, <1>5, <1>6, <1>9, <1>10 DEF Counted
<1>12. QED  BY <1>2, <1>4, <1>5, <1>7, <1>8, <1>9, <1>11

\* Rewriting the parent pointers does so where the filesystem has them.
LEMMA PointedFact ==
  ASSUME NEW x \in Inode, NEW remove \in SUBSET Pointers, NEW add \in SUBSET Pointers
  PROVE  /\ Pointed(x, remove, add) \in Inode
         /\ Pointed(x, remove, add).pointers = IF parents THEN remove \cup add ELSE x.pointers
         /\ Pointed(x, remove, add).kind = x.kind
         /\ Pointed(x, remove, add).nlink = x.nlink
         /\ Pointed(x, remove, add).gen = x.gen
         /\ Pointed(x, remove, add).names = x.names
         /\ Pointed(x, remove, add).up = x.up
         /\ Pointed(x, remove, add).local = x.local
         /\ Counted(x) => Counted(Pointed(x, remove, add))
<1>1. x.xattr \in BOOLEAN /\ remove \cup add \in SUBSET Pointers  BY DEF Inode
<1>2. QED  BY <1>1, ReforkFact DEF Pointed

\* Setting the link count touches nothing else.
LEMMA LinkedFact ==
  ASSUME NEW x \in Inode, NEW k \in Int
  PROVE  /\ [x EXCEPT !.nlink = k] \in Inode
         /\ [x EXCEPT !.nlink = k].nlink = k
         /\ [x EXCEPT !.nlink = k].kind = x.kind
         /\ [x EXCEPT !.nlink = k].gen = x.gen
         /\ [x EXCEPT !.nlink = k].names = x.names
         /\ [x EXCEPT !.nlink = k].up = x.up
         /\ [x EXCEPT !.nlink = k].local = x.local
         /\ [x EXCEPT !.nlink = k].nblocks = x.nblocks
         /\ [x EXCEPT !.nlink = k].ablocks = x.ablocks
         /\ [x EXCEPT !.nlink = k].pointers = x.pointers
         /\ Counted(x) => Counted([x EXCEPT !.nlink = k])
BY DEF Inode, Counted

\* A freed inode keeps its generation and has no names.
LEMMA FreedFact ==
  ASSUME NEW gen \in Nat
  PROVE  Freed(gen) \in Inode /\ Freed(gen).kind = "free" /\ Freed(gen).names = NoNames
         /\ Freed(gen).gen = gen
BY NoNamesType DEF Freed, Inode, Kinds

\* A created inode: of the kind asked for, a generation later, its links those
\* of a fresh one and its pointer to the directory it is made in.
LEMMA CreatedFact ==
  ASSUME TypeOK, NEW i \in Inos, NEW d \in Inos, NEW n \in Names,
         NEW kind \in {"file", "dir", "symlink"}, NEW long
  PROVE  LET x == Created(i, d, n, kind, long)
         IN  /\ x \in Inode
             /\ x.kind = kind /\ x.nlink = (IF kind = "dir" THEN 2 ELSE 1)
             /\ x.gen = inode[i].gen + 1 /\ x.names = NoNames /\ x.up = d
             /\ x.pointers = (IF parents THEN {Pointer(d, n)} ELSE {})
             /\ Counted(x)
<1>1. inode[i].gen + 1 \in Nat  BY DEF TypeOK, Inode
<1>2. Freed(inode[i].gen + 1) \in Inode  BY <1>1, FreedFact
<1>3. Pointer(d, n) \in Pointers  BY DEF Pointer, Pointers, TypeOK, Inode
<1>4. kind \in Kinds BY DEF Kinds
<1> DEFINE z == Freed(inode[i].gen + 1)
           l == IF kind = "dir" THEN 2 ELSE 1
           b == IF long THEN 1 ELSE 0
           x == [z EXCEPT !.kind = kind, !.nlink = l, !.up = d, !.dblocks = b, !.nblocks = b]
<1>5. z \in Inode /\ l \in Int /\ b \in Int  BY <1>2
<1>6. z.gen = inode[i].gen + 1 /\ z.names = NoNames /\ z.pointers = {} /\ z.ablocks = 0
  BY DEF Freed
<1>7. Created(i, d, n, kind, long) = IF parents THEN [x EXCEPT !.pointers = {Pointer(d, n)}] ELSE x
  BY DEF Created
<1> HIDE DEF z, l, b
<1>8. x \in Inode  BY <1>4, <1>5 DEF Inode
<1>9. x.kind = kind /\ x.nlink = l /\ x.up = d  BY <1>5 DEF Inode
<1>10. x.dblocks = b /\ x.nblocks = b  BY <1>5 DEF Inode
<1>11. x.gen = z.gen /\ x.names = z.names  BY <1>5 DEF Inode
<1>12. x.pointers = z.pointers /\ x.ablocks = z.ablocks  BY <1>5 DEF Inode
<1> HIDE DEF x
<1>13. Counted(x)  BY <1>5, <1>6, <1>10, <1>12 DEF Counted
<1>14. CASE parents
  <2> DEFINE p == {Pointer(d, n)}
             y == [x EXCEPT !.pointers = p]
  <2>1. p \in SUBSET Pointers  BY <1>3
  <2>2. Created(i, d, n, kind, long) = y  BY <1>7, <1>14
  <2> HIDE DEF p
  <2>3. y \in Inode  BY <2>1, <1>8 DEF Inode
  <2>4. y.kind = x.kind /\ y.nlink = x.nlink /\ y.up = x.up /\ y.gen = x.gen
    BY <1>8 DEF Inode
  <2>5. y.names = x.names /\ y.pointers = p /\ y.dblocks = x.dblocks  BY <1>8 DEF Inode
  <2>6. y.nblocks = x.nblocks /\ y.ablocks = x.ablocks  BY <1>8 DEF Inode
  <2> HIDE DEF y
  <2>7. Counted(y)  BY <2>5, <2>6, <1>13 DEF Counted
  <2>8. QED  BY <2>2, <2>3, <2>4, <2>5, <2>7, <1>6, <1>9, <1>11, <1>14 DEF l, p
<1>15. CASE ~parents  BY <1>15, <1>6, <1>7, <1>8, <1>9, <1>11, <1>12, <1>13 DEF l
<1>16. QED  BY <1>14, <1>15 DEF TypeOK

-----------------------------------------------------------------------------
(* Entries: the names of all directories as one function *)

NamesAt == [x \in Inos |-> inode[x].names]

\* NamesOf, of any such function.
Entries(N, j) == {e \in Inos \X Names : e[2] \in DOMAIN N[e[1]] /\ N[e[1]][e[2]] = j}

Put(N, d, n, i) == [x \in Inos |-> IF x = d THEN With(N[d], n, i) ELSE N[x]]
Take(N, d, n)   == [x \in Inos |-> IF x = d THEN Without(N[d], n) ELSE N[x]]

\* The names of an inode are the entries that lead to it.
LEMMA NamesOfIs ==
  ASSUME NEW j
  PROVE  NamesOf(j) = Entries(NamesAt, j)
BY DEF NamesOf, Entries, NamesAt, Has

\* An entry put in a directory is one more of its inode, and nobody else's.
LEMMA PutFact ==
  ASSUME NEW N \in [Inos -> NameMaps], NEW d \in Inos, NEW n \in Names, NEW i \in Inos
  PROVE  /\ Put(N, d, n, i) \in [Inos -> NameMaps]
         /\ \A j : Entries(Put(N, d, n, i), j) =
                     IF j = i THEN Entries(N, j) \cup {<<d, n>>} ELSE Entries(N, j) \ {<<d, n>>}
<1> DEFINE M == Put(N, d, n, i)
<1>1. /\ With(N[d], n, i) \in NameMaps
      /\ DOMAIN With(N[d], n, i) = DOMAIN N[d] \cup {n}
      /\ With(N[d], n, i)[n] = i
      /\ \A m \in DOMAIN N[d] : m # n => With(N[d], n, i)[m] = N[d][m]
  BY WithFact, ZenonT(60)
<1>2. M \in [Inos -> NameMaps]  BY <1>1 DEF Put
<1>3. M[d] = With(N[d], n, i) /\ \A x \in Inos : x # d => M[x] = N[x]  BY DEF Put
<1> HIDE DEF M
<1>4. \A x \in Inos : \A m \in Names :
        /\ m \in DOMAIN M[x] <=> m \in DOMAIN N[x] \/ (x = d /\ m = n)
        /\ x = d /\ m = n => M[x][m] = i
        /\ m \in DOMAIN N[x] /\ ~(x = d /\ m = n) => M[x][m] = N[x][m]
  BY <1>1, <1>3
<1>5. ASSUME NEW j
      PROVE  Entries(M, j) = IF j = i THEN Entries(N, j) \cup {<<d, n>>}
                                      ELSE Entries(N, j) \ {<<d, n>>}
  BY <1>4 DEF Entries
<1>6. QED  BY <1>2, <1>5 DEF M

\* An entry taken out of a directory is nobody's.
LEMMA TakeFact ==
  ASSUME NEW N \in [Inos -> NameMaps], NEW d \in Inos, NEW n \in Names
  PROVE  /\ Take(N, d, n) \in [Inos -> NameMaps]
         /\ \A j : Entries(Take(N, d, n), j) = Entries(N, j) \ {<<d, n>>}
<1> DEFINE M == Take(N, d, n)
<1>1. /\ Without(N[d], n) \in NameMaps
      /\ DOMAIN Without(N[d], n) = DOMAIN N[d] \ {n}
      /\ \A m \in DOMAIN N[d] : m # n => Without(N[d], n)[m] = N[d][m]
  BY WithoutFact
<1>2. M \in [Inos -> NameMaps]  BY <1>1 DEF Take
<1>3. M[d] = Without(N[d], n) /\ \A x \in Inos : x # d => M[x] = N[x]  BY DEF Take
<1> HIDE DEF M
<1>4. \A x \in Inos : \A m \in Names :
        /\ m \in DOMAIN M[x] <=> m \in DOMAIN N[x] /\ ~(x = d /\ m = n)
        /\ m \in DOMAIN M[x] => M[x][m] = N[x][m]
  BY <1>1, <1>3
<1>5. ASSUME NEW j PROVE Entries(M, j) = Entries(N, j) \ {<<d, n>>}  BY <1>4 DEF Entries
<1>6. QED  BY <1>2, <1>5 DEF M

\* Every inode has the contents of a directory.
LEMMA NamesAtType ==
  ASSUME TypeOK
  PROVE  NamesAt \in [Inos -> NameMaps]
BY DEF TypeOK, NamesAt, Inode

-----------------------------------------------------------------------------
(* The way up *)

\* The parents of directories, as a function.
Ups == [x \in Inos |-> inode[x].up]

\* The walk up from a directory is the iteration of its parent, cut off at as
\* many steps as there are inodes.
LEMMA ClimbIs ==
  ASSUME TypeOK, NEW d \in Inos
  PROVE  \E f \in [Nat -> Inos] : /\ f[0] = d
                                  /\ \A k \in Nat : f[k + 1] = inode[f[k]].up
                                  /\ Climb(d) = {f[k] : k \in Inos}
<1> DEFINE Walk(g) == [k \in Nat |-> IF k = 0 THEN d ELSE inode[g[k - 1]].up]
           up == CHOOSE g : g = Walk(g)
<1>1. Ups \in [Inos -> Inos] /\ \A x \in Inos : Ups[x] = inode[x].up
  BY DEF Ups, TypeOK, Inode
<1>2. PICK f \in [Nat -> Inos] : f[0] = d /\ \A k \in Nat : f[k + 1] = Ups[f[k]]
  <2> DEFINE step == Ups
  <2>1. step \in [Inos -> Inos]  BY <1>1
  <2> HIDE DEF step
  <2>2. \E f \in [Nat -> Inos] : f[0] = d /\ \A k \in Nat : f[k + 1] = step[f[k]]
    BY <2>1, IterationExists
  <2>3. QED  BY <2>2 DEF step
<1>3. f = Walk(f)
  <2>1. ASSUME NEW k \in Nat PROVE f[k] = IF k = 0 THEN d ELSE inode[f[k - 1]].up
    <3>1. CASE k = 0  BY <3>1, <1>2
    <3>2. CASE k # 0
      <4>1. k - 1 \in Nat /\ (k - 1) + 1 = k  BY <3>2
      <4>2. f[(k - 1) + 1] = Ups[f[k - 1]] /\ f[k - 1] \in Inos  BY <1>2, <4>1
      <4>3. QED  BY <4>1, <4>2, <3>2, <1>1
    <3>3. QED  BY <3>1, <3>2
  <2>2. QED  BY <2>1
<1>4. up = Walk(up)  BY <1>3
<1>5. Climb(d) = {up[k] : k \in Inos}  BY DEF Climb
<1> HIDE DEF up
<1>6. up[0] = d /\ \A k \in Nat : k # 0 => up[k] = inode[up[k - 1]].up  BY <1>4
<1>7. \A k \in Nat : up[k] = f[k]
  <2> DEFINE D == {k \in Nat : up[k] # f[k]}
  <2>1. SUFFICES ASSUME D # {} PROVE FALSE  OBVIOUS
  <2>2. PICK k \in D : \A l \in D : k <= l  BY <2>1, LeastExists
  <2>3. k \in Nat /\ k # 0  BY <1>2, <1>6
  <2>4. k - 1 \in Nat /\ ~(k <= k - 1)  BY <2>3
  <2>5. up[k - 1] = f[k - 1]  BY <2>2, <2>4
  <2>6. f[k] = inode[f[k - 1]].up  BY <1>3, <2>3
  <2>7. QED  BY <2>3, <2>5, <2>6, <1>6
<1>8. Inos \subseteq Nat  BY NamespaceAssumption DEF Inos
<1>9. {up[k] : k \in Inos} = {f[k] : k \in Inos}  BY <1>7, <1>8
<1>10. \A k \in Nat : f[k + 1] = inode[f[k]].up  BY <1>1, <1>2
<1>11. QED  BY <1>2, <1>5, <1>9, <1>10

Dirs == {i \in Inos : IsDir(i)}

\* No directories but the root's are one another's parents all the way up.
Rooted ==
  \A S \in SUBSET (Dirs \ {Root}) : S # {} => \E d \in S : inode[d].up \notin S

\* Without such a circle the walk up meets the root, within as many steps as
\* there are inodes.
LEMMA RootedClimbs ==
  ASSUME TypeOK, Rooted, NEW d \in Dirs, \A x \in Dirs \ {Root} : inode[x].up \in Dirs
  PROVE  Root \in Climb(d)
<1>1. d \in Inos /\ Inos \subseteq Nat /\ LastIno \in Nat /\ Inos = 0 .. LastIno
  BY NamespaceAssumption DEF Inos, Dirs
<1>2. PICK f \in [Nat -> Inos] : /\ f[0] = d
                                 /\ \A k \in Nat : f[k + 1] = inode[f[k]].up
                                 /\ Climb(d) = {f[k] : k \in Inos}
  BY <1>1, ClimbIs
<1>3. SUFFICES ASSUME \A k \in Inos : f[k] # Root PROVE FALSE  BY <1>2
<1>4. \A k \in Inos : f[k] \in Dirs \ {Root}
  <2> DEFINE D == {k \in Inos : f[k] \notin Dirs \ {Root}}
  <2>1. SUFFICES ASSUME D # {} PROVE FALSE  OBVIOUS
  <2>2. D \in SUBSET Nat  BY <1>1
  <2>3. PICK k \in D : \A l \in D : k <= l  BY <2>1, <2>2, LeastExists
  <2>4. k \in Inos /\ k \in Nat /\ f[k] # Root  BY <1>1, <1>3
  <2>5. k # 0  BY <1>2, <2>3, <2>4
  <2>6. k - 1 \in Inos /\ k - 1 \in Nat /\ ~(k <= k - 1) /\ (k - 1) + 1 = k
    <3>1. k \in 0 .. LastIno  BY <1>1, <2>4
    <3>2. k - 1 \in 0 .. LastIno /\ k - 1 \in Nat /\ ~(k <= k - 1) /\ (k - 1) + 1 = k
      BY <1>1, <2>4, <2>5, <3>1
    <3>3. QED  BY <1>1, <3>2
  <2>7. f[k - 1] \in Dirs \ {Root}  BY <2>3, <2>6
  <2>8. f[k] = inode[f[k - 1]].up  BY <1>2, <2>6
  <2>9. QED  BY <2>3, <2>4, <2>7, <2>8
<1> DEFINE T == 1 .. LastIno
           h == [k \in Inos |-> f[k]]
<1>5. h \in [Inos -> T]
  <2>1. \A k \in Inos : f[k] \in Inos /\ f[k] # 0  BY <1>1, <1>2, <1>3 DEF Root
  <2>2. \A x \in Inos : x # 0 => x \in T  BY <1>1
  <2>3. QED  BY <2>1, <2>2
<1>6. IsFiniteSet(Inos) /\ IsFiniteSet(T) /\ Cardinality(T) < Cardinality(Inos)
  <2>1. IsFiniteSet(0 .. LastIno) /\ Cardinality(0 .. LastIno) = LastIno + 1
    BY <1>1, FS_Interval
  <2>2. IsFiniteSet(T) /\ Cardinality(T) = LastIno
    <3>1. IsFiniteSet(T) /\ Cardinality(T) = IF 1 > LastIno THEN 0 ELSE LastIno - 1 + 1
      BY <1>1, FS_Interval
    <3>2. QED  BY <3>1, <1>1
  <2>3. QED  BY <2>1, <2>2, <1>1
<1>7. PICK a \in Inos, b \in Inos : a # b /\ h[a] = h[b]
  <2> HIDE DEF h, T
  <2>1. QED  BY <1>5, <1>6, FS_PigeonHole
<1>8. PICK j \in Inos, k \in Inos : j < k /\ f[j] = f[k]
  <2>1. f[a] = f[b] /\ (a < b \/ b < a)  BY <1>1, <1>7
  <2>2. QED  BY <2>1
<1> DEFINE S == {f[m] : m \in j .. k - 1}
<1>9. j .. k - 1 \subseteq Inos /\ j \in j .. k - 1  BY <1>1, <1>8
<1>10. S \in SUBSET (Dirs \ {Root}) /\ S # {}  BY <1>4, <1>9
<1>11. \A m \in j .. k - 1 : f[m + 1] \in S
  <2>1. SUFFICES ASSUME NEW m \in j .. k - 1 PROVE f[m + 1] \in S  OBVIOUS
  <2>2. m + 1 = k \/ m + 1 \in j .. k - 1  BY <1>1
  <2>3. QED  BY <2>2, <1>8, <1>9
<1>12. \A x \in S : inode[x].up \in S  BY <1>1, <1>2, <1>9, <1>11
<1> HIDE DEF S
<1>13. QED  BY <1>10, <1>12 DEF Rooted

\* What contains where a walk starts and the parents of all its elements
\* but i contains the walk, when the walk does not meet i.
LEMMA ClimbStays ==
  ASSUME TypeOK, NEW d \in Inos, NEW i, NEW S, d \in S, i \notin Climb(d),
         \A x \in S : x # i => inode[x].up \in S
  PROVE  Climb(d) \subseteq S
<1>1. Inos \subseteq Nat /\ Inos = 0 .. LastIno  BY NamespaceAssumption DEF Inos
<1>2. PICK f \in [Nat -> Inos] : /\ f[0] = d
                                 /\ \A k \in Nat : f[k + 1] = inode[f[k]].up
                                 /\ Climb(d) = {f[k] : k \in Inos}
  BY ClimbIs
<1> DEFINE D == {k \in Inos : f[k] \notin S}
<1>3. SUFFICES ASSUME D # {} PROVE FALSE  BY <1>2
<1>4. D \in SUBSET Nat  BY <1>1
<1>5. PICK k \in D : \A l \in D : k <= l  BY <1>3, <1>4, LeastExists
<1>6. k \in Inos /\ k \in Nat /\ k # 0  BY <1>1, <1>2, <1>5
<1>7. k - 1 \in Inos /\ k - 1 \in Nat /\ ~(k <= k - 1) /\ (k - 1) + 1 = k
  BY <1>1, <1>6, NamespaceAssumption
<1>8. f[k - 1] \in S  BY <1>5, <1>7
<1>9. f[k - 1] # i  BY <1>2, <1>7
<1>10. f[k] = inode[f[k - 1]].up  BY <1>2, <1>7
<1>11. QED  BY <1>5, <1>8, <1>9, <1>10

\* It starts where it is called.
LEMMA ClimbStarts ==
  ASSUME TypeOK, NEW d \in Inos
  PROVE  d \in Climb(d)
<1>1. 0 \in Inos  BY NamespaceAssumption DEF Inos
<1>2. QED  BY <1>1, ClimbIs

-----------------------------------------------------------------------------
(* The inductive invariant *)

\* Only directories have names in them, and the root is one.
OnlyDirsName ==
  /\ IsDir(Root)
  /\ \A x \in Inos : ~IsDir(x) => inode[x].names = NoNames

\* OneTree, but for the way up.
Entered ==
  /\ \A i \in InUse \ {Root} : NamesOf(i) # {}
  /\ \A i \in Inos : NamesOf(i) # {} => i \in InUse \ {Root}
  /\ \A d \in Dirs \ {Root} : \E n \in Names : NamesOf(d) = {<<inode[d].up, n>>}

Inv ==
  /\ TypeOK
  /\ OnlyDirsName
  /\ Entered
  /\ Rooted
  /\ LinksCount
  /\ PointersAgree

\* Names lead from directories to inodes, and a directory is no name of its own.
LEMMA NamesOfFact ==
  ASSUME Inv, NEW d \in Inos, NEW n \in Names, Has(d, n)
  PROVE  /\ inode[d].names[n] \in InUse \ {Root}
         /\ <<d, n>> \in NamesOf(inode[d].names[n])
         /\ IsDir(d)
         /\ IsDir(inode[d].names[n]) =>
              /\ inode[inode[d].names[n]].up = d
              /\ NamesOf(inode[d].names[n]) = {<<d, n>>}
              /\ inode[d].names[n] # d
<1> DEFINE i == inode[d].names[n]
<1>1. inode[d].names \in NameMaps  BY DEF Inv, TypeOK, Inode
<1>2. i \in Inos  BY <1>1, NameMapIs DEF Has
<1>3. <<d, n>> \in NamesOf(i)  BY DEF NamesOf
<1>4. i \in InUse \ {Root}  BY <1>2, <1>3 DEF Inv, Entered
<1>5. IsDir(d)  BY NoNamesType DEF Has, Inv, OnlyDirsName
<1>6. ASSUME IsDir(i) PROVE inode[i].up = d /\ NamesOf(i) = {<<d, n>>} /\ i # d
  <2>1. i \in Dirs \ {Root}  BY <1>2, <1>4, <1>6 DEF Dirs
  <2>2. PICK m \in Names : NamesOf(i) = {<<inode[i].up, m>>}  BY <2>1 DEF Inv, Entered
  <2>3. inode[i].up = d /\ NamesOf(i) = {<<d, n>>}  BY <1>3, <2>2
  <2>4. \E x \in {i} : inode[x].up \notin {i}  BY <2>1 DEF Inv, Rooted
  <2>5. QED  BY <2>3, <2>4
<1>7. QED  BY <1>3, <1>4, <1>5, <1>6

\* A directory's parent is a directory.
LEMMA UpIsDir ==
  ASSUME Inv, NEW d \in Dirs \ {Root}
  PROVE  inode[d].up \in Dirs
<1>1. PICK n \in Names : NamesOf(d) = {<<inode[d].up, n>>}  BY DEF Inv, Entered
<1>2. inode[d].up \in Inos /\ Has(inode[d].up, n)
  <2>1. <<inode[d].up, n>> \in NamesOf(d)  BY <1>1
  <2>2. QED  BY <2>1 DEF NamesOf
<1>3. QED  BY <1>2, NamesOfFact DEF Dirs

\* The invariant implies the property: with no circle of parents the walk up
\* from every directory meets the root.
LEMMA InvOneTree ==
  ASSUME Inv
  PROVE  OneTree
<1>1. \A d \in Dirs : Root \in Climb(d)  BY UpIsDir, RootedClimbs DEF Inv
<1>2. {i \in InUse : IsDir(i)} = Dirs  BY DEF InUse, Dirs, IsDir
<1>3. QED  BY <1>1, <1>2 DEF OneTree, Inv, Entered

-----------------------------------------------------------------------------
(* What every operation on names does: inode i loses the entries off and   *)
(* gains the entries on, which whoever had them before loses; the inodes   *)
(* in born come into use and those in gone leave it.                       *)

\* The entries.
EntryStep(i, off, on) ==
  /\ i \in Inos \ {Root}
  /\ off \subseteq NamesOf(i) /\ (off = {} \/ \E e : off = {e})
  /\ on \subseteq Inos \X Names /\ (on = {} \/ \E e : on = {e})
  /\ on \cap NamesOf(i) = {}
  /\ \A e \in on : IsDir(e[1])
  /\ \A j \in Inos : NamesOf(j)' = IF j = i THEN (NamesOf(j) \ off) \cup on ELSE NamesOf(j) \ on

\* What comes into use and what leaves it: nothing is left without a name.
KindStep(i, born, gone) ==
  /\ i \in InUse \cup born
  /\ \A x \in born : x = i /\ inode[x].kind = "free" /\ inode'[x].kind # "free"
  /\ \A x \in gone : /\ x # Root /\ inode'[x].kind = "free"
                     /\ DOMAIN inode[x].names = {} /\ NamesOf(x)' = {}
  /\ \A x \in Inos \ (born \cup gone) : inode'[x].kind = inode[x].kind
  /\ \A x \in InUse' \ {Root} : NamesOf(x)' # {}

\* The parents: only that of the inode the step is about, and not to below it.
UpStep(i, off, on, born) ==
  \A x \in Inos : inode'[x].kind = "dir" =>
    /\ x # i => inode'[x].up = inode[x].up
    /\ x = i => /\ \E n \in Names : on = {<<inode'[i].up, n>>}
                /\ \/ i \in born
                   \/ off # {} /\ (inode'[i].up = inode[i].up \/ i \notin Climb(inode'[i].up))

\* Entries, kinds and parents keep the directories one tree.
LEMMA StepEntered ==
  ASSUME Inv, NEW i, NEW off, NEW on, NEW born \in SUBSET Inos, NEW gone \in SUBSET Inos,
         EntryStep(i, off, on), KindStep(i, born, gone), UpStep(i, off, on, born)
  PROVE  Entered'
<1>1. \A x \in InUse' \ {Root} : NamesOf(x)' # {}  BY DEF KindStep
<1>2. ASSUME NEW x \in Inos, NamesOf(x)' # {} PROVE x \in InUse' \ {Root}
  <2>1. x \notin gone  BY <1>2 DEF KindStep
  <2>2. x # Root
    <3>1. x = i \/ NamesOf(x) # {}  BY <1>2 DEF EntryStep
    <3>2. QED  BY <3>1 DEF EntryStep, Inv, Entered
  <2>3. CASE x \in born  BY <2>2, <2>3 DEF KindStep, InUse
  <2>4. CASE x \notin born
    <3>1. x \in InUse
      <4>1. CASE x = i  BY <4>1, <2>4 DEF KindStep
      <4>2. CASE x # i  BY <4>2, <1>2 DEF EntryStep, Inv, Entered
      <4>3. QED  BY <4>1, <4>2
    <3>2. QED  BY <3>1, <2>1, <2>2, <2>4 DEF KindStep, InUse
  <2>5. QED  BY <2>3, <2>4
<1>3. ASSUME NEW d \in Dirs' \ {Root}
      PROVE  \E n \in Names : NamesOf(d)' = {<<inode'[d].up, n>>}
  <2>1. d \in Inos /\ inode'[d].kind = "dir" /\ d \notin gone  BY DEF Dirs, IsDir, KindStep
  <2>2. NamesOf(d)' # {}  BY <1>1, <2>1 DEF InUse
  <2>3. CASE d = i
    <3>1. PICK n \in Names : on = {<<inode'[i].up, n>>}  BY <2>1, <2>3 DEF UpStep
    <3>2. NamesOf(i) \ off = {}
      <4>1. CASE i \in born  BY <4>1, <2>1, <2>3 DEF KindStep, Inv, Entered, InUse
      <4>2. CASE i \notin born
        <5>1. off # {}  BY <4>2, <2>1, <2>3 DEF UpStep
        <5>2. i \in Dirs \ {Root}  BY <4>2, <2>1, <2>3 DEF KindStep, Dirs, IsDir
        <5>3. PICK m \in Names : NamesOf(i) = {<<inode[i].up, m>>}  BY <5>2 DEF Inv, Entered
        <5>4. QED  BY <5>1, <5>3 DEF EntryStep
      <4>3. QED  BY <4>1, <4>2
    <3>3. NamesOf(i)' = {<<inode'[i].up, n>>}  BY <3>1, <3>2, <2>1, <2>3 DEF EntryStep
    <3>4. QED  BY <3>3, <2>3
  <2>4. CASE d # i
    <3>1. d \in Dirs \ {Root}  BY <2>1, <2>4 DEF KindStep, Dirs, IsDir
    <3>2. PICK n \in Names : NamesOf(d) = {<<inode[d].up, n>>}  BY <3>1 DEF Inv, Entered
    <3>3. NamesOf(d)' = NamesOf(d) \ on  BY <2>1, <2>4 DEF EntryStep
    <3>4. NamesOf(d)' = {<<inode[d].up, n>>}  BY <2>2, <3>2, <3>3
    <3>5. inode'[d].up = inode[d].up  BY <2>1, <2>4 DEF UpStep
    <3>6. QED  BY <3>4, <3>5
  <2>5. QED  BY <2>3, <2>4
<1>4. QED  BY <1>1, <1>2, <1>3 DEF Entered

\* The new directory's way up is its parent's; a moved one's does not meet it.
LEMMA StepRooted ==
  ASSUME Inv, NEW i, NEW off, NEW on, NEW born \in SUBSET Inos, NEW gone \in SUBSET Inos,
         EntryStep(i, off, on), KindStep(i, born, gone), UpStep(i, off, on, born)
  PROVE  Rooted'
<1>1. SUFFICES ASSUME NEW S \in SUBSET (Dirs' \ {Root}), S # {},
                      \A d \in S : inode'[d].up \in S
               PROVE  FALSE
  BY DEF Rooted
<1>2. \A x \in S : x \in Inos /\ inode'[x].kind = "dir" /\ x # Root /\ x \notin gone
  BY DEF Dirs, IsDir, KindStep
<1>3. \A x \in S : x # i => x \in Dirs \ {Root} /\ inode'[x].up = inode[x].up
  BY <1>2 DEF KindStep, UpStep, Dirs, IsDir
<1>4. CASE i \notin S
  <2>1. S \in SUBSET (Dirs \ {Root}) /\ \A d \in S : inode[d].up \in S  BY <1>1, <1>3, <1>4
  <2>2. QED  BY <2>1, <1>1 DEF Inv, Rooted
<1>5. CASE i \in S
  <2> DEFINE p == inode'[i].up
  <2>1. p \in S  BY <1>1, <1>5
  <2>2. PICK n \in Names : on = {<<p, n>>}  BY <1>2, <1>5 DEF UpStep
  <2>3. IsDir(p)  BY <2>2 DEF EntryStep
  <2>4. p \in Dirs  BY <2>3, <2>1, <1>2 DEF Dirs
  <2>5. CASE i \in born
    <3> DEFINE R == S \ {i}
    <3>1. ~IsDir(i)  BY <2>5 DEF KindStep, IsDir
    <3>2. R \in SUBSET (Dirs \ {Root}) /\ p \in R  BY <1>3, <2>1, <2>3, <3>1
    <3>3. \A d \in R : inode[d].up \in R
      <4>1. SUFFICES ASSUME NEW d \in R PROVE inode[d].up \in R  OBVIOUS
      <4>2. inode[d].up \in S  BY <1>1, <1>3
      <4>3. inode[d].up \in Dirs  BY <3>2, UpIsDir
      <4>4. QED  BY <4>2, <4>3, <3>1 DEF Dirs
    <3>4. R # {}  BY <3>2
    <3> HIDE DEF R
    <3>5. QED  BY <3>2, <3>3, <3>4 DEF Inv, Rooted
  <2>6. CASE i \notin born
    <3>1. i \in Dirs \ {Root}  BY <1>2, <1>5, <2>6 DEF KindStep, Dirs, IsDir
    <3>2. S \in SUBSET (Dirs \ {Root})  BY <1>3, <3>1
    <3>3. CASE inode'[i].up = inode[i].up
      <4>1. \A d \in S : inode[d].up \in S  BY <1>1, <1>3, <3>3
      <4>2. QED  BY <4>1, <3>2, <1>1 DEF Inv, Rooted
    <3>4. CASE i \notin Climb(p)
      <4>1. \A x \in S : x # i => inode[x].up \in S  BY <1>1, <1>3
      <4>2. p \in Inos  BY <2>4 DEF Dirs
      <4> HIDE DEF p
      <4>3. Climb(p) \subseteq S  BY <4>1, <4>2, <2>1, <3>4, ClimbStays DEF Inv
      <4>4. Root \in Climb(p)  BY <2>4, UpIsDir, RootedClimbs DEF Inv
      <4>5. QED  BY <4>3, <4>4, <1>2
    <3>5. QED  BY <3>3, <3>4, <1>2, <1>5, <2>6 DEF UpStep
  <2>7. QED  BY <2>5, <2>6
<1>6. QED  BY <1>4, <1>5

\* Whether directory x is where one of the entries is.
At(S, x) == \E n \in Names : <<x, n>> \in S

\* The inode the step is about is, or comes to be, a directory.
AboutDir(i, born) == IsDir(i) \/ (i \in born /\ inode'[i].kind = "dir")

\* The new entry was another inode's.
Taken(on) == \E j \in Inos : on \cap NamesOf(j) # {}

\* The link counts follow the entries: a directory's its subdirectories, a
\* file's its names.
LinkStep(i, off, on, born) ==
  /\ \A j \in Inos : on \cap NamesOf(j) # {} => (IsDir(j) <=> AboutDir(i, born))
  /\ \A x \in InUse' :
       IF inode'[x].kind = "dir"
       THEN inode'[x].nlink = (IF x \in born THEN 2 ELSE inode[x].nlink)
                                - One(AboutDir(i, born) /\ At(off, x))
                                + One(AboutDir(i, born) /\ At(on, x))
                                - One(AboutDir(i, born) /\ At(on, x) /\ Taken(on))
       ELSE inode'[x].nlink = (IF x \in born THEN 0 ELSE inode[x].nlink)
                                - One(x = i /\ off # {}) + One(x = i /\ on # {})
                                - One(x # i /\ on \cap NamesOf(x) # {})

\* The pointer p is to one of the entries.
Match(p, S) == \E e \in S : p.dir = e[1] /\ p.name = e[2]

\* Without the pointer for one name.
LEMMA UnpointedIs ==
  ASSUME NEW x, NEW d, NEW n
  PROVE  Unpointed(x, d, n) = {p \in x.pointers : ~Match(p, {<<d, n>>})}
<1>1. ASSUME NEW p PROVE Match(p, {<<d, n>>}) <=> p.name = n /\ p.dir = d  BY DEF Match
<1>2. QED  BY <1>1 DEF Unpointed

\* The parent pointers follow them, and generations stay.
BackStep(i, off, on, born, gone) ==
  /\ parents' = parents
  /\ parents => \A x \in InUse' :
       inode'[x].pointers =
         {p \in (IF x \in born THEN {} ELSE inode[x].pointers) :
            ~Match(p, IF x = i THEN off ELSE on)}
         \cup (IF x = i THEN {Pointer(e[1], e[2]) : e \in on} ELSE {})
  /\ \A x \in Inos \ (born \cup gone) : inode'[x].gen = inode[x].gen

\* The names of a directory that are subdirectories'.
SubNames(x) == {n \in DOMAIN inode[x].names : IsDir(inode[x].names[n])}

\* The subdirectories of a directory, seen from the entries.
LEMMA SubNamesIs ==
  ASSUME TypeOK, NEW x \in Inos
  PROVE  SubNames(x) = {n \in Names : \E j \in Inos : IsDir(j) /\ <<x, n>> \in NamesOf(j)}
<1>1. DOMAIN inode[x].names \subseteq Names /\ inode[x].names \in [DOMAIN inode[x].names -> Inos]
  BY NameMapIs DEF TypeOK, Inode
<1>2. QED  BY <1>1 DEF SubNames, NamesOf, Has

\* The same after the step.
LEMMA SubNamesNext ==
  ASSUME TypeOK', NEW x \in Inos
  PROVE  SubNames(x)' = {n \in Names : \E j \in Inos : IsDir(j)' /\ <<x, n>> \in NamesOf(j)'}
<1>1. inode'[x].names \in NameMaps  BY DEF TypeOK, Inode
<1>2. DOMAIN inode'[x].names \subseteq Names /\ inode'[x].names \in [DOMAIN inode'[x].names -> Inos]
  BY <1>1, NameMapIs
<1>3. QED  BY <1>2 DEF SubNames, NamesOf, Has

\* An entry leads to one inode.
LEMMA OneInode ==
  ASSUME NEW j, NEW k, NEW e, e \in NamesOf(j), e \in NamesOf(k)
  PROVE  j = k
BY DEF NamesOf

\* An inode has finitely many names, and a directory subdirectories.
LEMMA NamesFinite ==
  ASSUME TypeOK
  PROVE  /\ \A j : IsFiniteSet(NamesOf(j)) /\ IsFiniteSet(NamesOf(j)')
         /\ \A x \in Inos : IsFiniteSet(SubNames(x))
<1>1. IsFiniteSet(Inos)  BY NamespaceAssumption, FS_Interval DEF Inos
<1>2. IsFiniteSet(Inos \X Names)  BY <1>1, NamespaceAssumption, FS_Product
<1>3. \A j : NamesOf(j) \in SUBSET (Inos \X Names) /\ NamesOf(j)' \in SUBSET (Inos \X Names)
  BY DEF NamesOf
<1>4. \A x \in Inos : SubNames(x) \in SUBSET Names  BY SubNamesIs
<1>5. QED  BY <1>2, <1>3, <1>4, NamespaceAssumption, FS_Subset

\* The subdirectories a step leaves.
LEMMA StepSubNames ==
  ASSUME Inv, TypeOK', NEW i, NEW off, NEW on, NEW born \in SUBSET Inos, NEW gone \in SUBSET Inos,
         EntryStep(i, off, on), KindStep(i, born, gone), LinkStep(i, off, on, born), NEW x \in Inos
  PROVE  SubNames(x)' =
           IF AboutDir(i, born)
           THEN (SubNames(x) \ {n \in Names : <<x, n>> \in off}) \cup {n \in Names : <<x, n>> \in on}
           ELSE SubNames(x)
<1>1. SubNames(x) = {n \in Names : \E j \in Inos : IsDir(j) /\ <<x, n>> \in NamesOf(j)}
  BY SubNamesIs DEF Inv
<1>2. SubNames(x)' = {n \in Names : \E j \in Inos : IsDir(j)' /\ <<x, n>> \in NamesOf(j)'}
  BY SubNamesNext
<1>3. \A j \in Inos : NamesOf(j)' # {} => j \notin gone  BY DEF KindStep
<1>4. \A j \in Inos : NamesOf(j)' # {} /\ j # i => (IsDir(j)' <=> IsDir(j))
  BY <1>3 DEF KindStep, IsDir
<1>5. i \in Inos /\ (NamesOf(i)' # {} => (IsDir(i)' <=> AboutDir(i, born)))
  BY <1>3 DEF EntryStep, KindStep, IsDir, AboutDir
<1>6. off # {} => (IsDir(i) <=> AboutDir(i, born))
  BY DEF EntryStep, Inv, Entered, KindStep, IsDir, AboutDir, InUse
<1>7. ASSUME NEW n \in Names
      PROVE  n \in SubNames(x)' <=>
               IF AboutDir(i, born) THEN (n \in SubNames(x) /\ <<x, n>> \notin off) \/ <<x, n>> \in on
               ELSE n \in SubNames(x)
  <2> DEFINE e == <<x, n>>
  <2>1. CASE e \in on
    <3>1. NamesOf(i)' # {} /\ e \in NamesOf(i)'  BY <2>1, <1>5 DEF EntryStep
    <3>2. n \in SubNames(x)' <=> IsDir(i)'
      <4>1. \A j \in Inos : e \in NamesOf(j)' => j = i  BY <2>1 DEF EntryStep
      <4>2. QED  BY <4>1, <3>1, <1>2, <1>5
    <3>3. n \in SubNames(x) => AboutDir(i, born)  BY <2>1, <1>1 DEF LinkStep
    <3>4. QED  BY <2>1, <3>1, <3>2, <3>3, <1>5
  <2>2. CASE e \notin on /\ e \in off
    <3>1. e \in NamesOf(i)  BY <2>2 DEF EntryStep
    <3>2. \A j \in Inos : e \notin NamesOf(j)'  BY <2>2, <3>1, OneInode DEF EntryStep
    <3>3. n \notin SubNames(x)'  BY <3>2, <1>2
    <3>4. n \in SubNames(x) <=> IsDir(i)  BY <3>1, <1>1, <1>5, OneInode
    <3>5. QED  BY <2>2, <3>3, <3>4, <1>6
  <2>3. CASE e \notin on /\ e \notin off
    <3>1. \A j \in Inos : e \in NamesOf(j)' <=> e \in NamesOf(j)  BY <2>3 DEF EntryStep
    <3>2. e \in NamesOf(i) => (IsDir(i) <=> IsDir(i)')
      <4>1. ASSUME e \in NamesOf(i) PROVE i \notin born /\ i \notin gone
        BY <4>1, <1>3, <1>5, <3>1 DEF Inv, Entered, KindStep, InUse
      <4>2. QED  BY <4>1, <1>5 DEF KindStep, IsDir
    <3>3. \A j \in Inos : e \in NamesOf(j) => (IsDir(j) <=> IsDir(j)')  BY <3>1, <3>2, <1>4
    <3>4. QED  BY <2>3, <3>1, <3>3, <1>1, <1>2
  <2>4. QED  BY <2>1, <2>2, <2>3
<1>8. SubNames(x) \subseteq Names /\ SubNames(x)' \subseteq Names  BY <1>1, <1>2
<1>9. QED  BY <1>7, <1>8

\* What replacing at most one member by at most one does to the size of a set.
LEMMA OneCount ==
  ASSUME NEW S, IsFiniteSet(S), NEW off, NEW on, off = {} \/ \E e : off = {e}, on = {} \/ \E e : on = {e},
         off \subseteq S, off \cap on = {}
  PROVE  /\ Cardinality(S) \in Nat
         /\ Cardinality((S \ off) \cup on) =
              Cardinality(S) - One(off # {}) + One(on # {}) - One(on # {} /\ on \cap S # {})
<1>1. Cardinality(S) \in Nat  BY FS_CardinalityType
<1>2. IsFiniteSet(S \ off) /\ Cardinality(S \ off) = Cardinality(S) - One(off # {})
  <2>1. CASE off = {}
    <3>1. S \ off = S  BY <2>1
    <3>2. QED  BY <3>1, <1>1, <2>1 DEF One
  <2>2. CASE off # {}
    <3>1. PICK e : off = {e}  BY <2>2
    <3>2. e \in S  BY <3>1
    <3>3. IsFiniteSet(S \ {e}) /\ Cardinality(S \ {e}) = Cardinality(S) - 1  BY <3>2, FS_RemoveElement
    <3>4. QED  BY <3>1, <3>3 DEF One
  <2>3. QED  BY <2>1, <2>2
<1>3. CASE on = {}
  <2>1. (S \ off) \cup on = S \ off  BY <1>3
  <2>2. QED  BY <2>1, <1>1, <1>2, <1>3 DEF One
<1>4. CASE on # {}
  <2>1. PICK e : on = {e}  BY <1>4
  <2> DEFINE T == S \ off
  <2>2. Cardinality(T \cup {e}) = IF e \in T THEN Cardinality(T) ELSE Cardinality(T) + 1
    BY <1>2, FS_AddElement
  <2>3. e \in T <=> on \cap S # {}  BY <2>1
  <2>4. Cardinality((S \ off) \cup on) =
          IF on \cap S # {} THEN Cardinality(S \ off) ELSE Cardinality(S \ off) + 1
    BY <2>1, <2>2, <2>3
  <2>5. QED  BY <2>4, <1>1, <1>2, <1>4 DEF One
<1>5. QED  BY <1>1, <1>3, <1>4

\* A step that counts its entries on the way keeps the link counts.
LEMMA StepLinks ==
  ASSUME Inv, TypeOK', NEW i, NEW off, NEW on, NEW born \in SUBSET Inos, NEW gone \in SUBSET Inos,
         EntryStep(i, off, on), KindStep(i, born, gone), LinkStep(i, off, on, born)
  PROVE  LinksCount'
<1>1. SUFFICES ASSUME NEW x \in InUse'
               PROVE  inode'[x].nlink = IF inode'[x].kind = "dir"
                                        THEN 2 + Cardinality(SubNames(x)')
                                        ELSE Cardinality(NamesOf(x)')
  BY DEF LinksCount, SubNames, IsDir
<1>2. x \in Inos /\ inode'[x].kind # "free" /\ x \notin gone  BY DEF InUse, KindStep
<1>3. i \in Inos  BY DEF EntryStep
<1>4. CASE inode'[x].kind # "dir"
  <2>1. CASE x \in born
    <3>1. x = i /\ NamesOf(i) = {}  BY <1>2, <2>1 DEF KindStep, Inv, Entered, InUse
    <3>2. off = {} /\ NamesOf(i)' = on  BY <3>1, <1>3 DEF EntryStep
    <3>3. Cardinality(on) = One(on # {})  BY FS_EmptySet, FS_Singleton DEF EntryStep, One
    <3>4. inode'[x].nlink = 0 - One(off # {}) + One(on # {}) - 0
      BY <1>4, <2>1, <3>1 DEF LinkStep, One
    <3>5. QED  BY <1>4, <3>1, <3>2, <3>3, <3>4 DEF One
  <2>2. CASE x \notin born
    <3>1. inode'[x].kind = inode[x].kind /\ x \in InUse /\ ~IsDir(x)
      BY <1>2, <1>4, <2>2 DEF KindStep, InUse, IsDir
    <3>2. inode[x].nlink = Cardinality(NamesOf(x))  BY <3>1 DEF Inv, LinksCount
    <3>3. IsFiniteSet(NamesOf(x))  BY NamesFinite DEF Inv
    <3>4. CASE x = i
      <4>1. off \cap on = {} /\ on \cap NamesOf(x) = {}  BY <3>4 DEF EntryStep
      <4>2. /\ Cardinality(NamesOf(x)) \in Nat
            /\ Cardinality((NamesOf(x) \ off) \cup on) =
                 Cardinality(NamesOf(x)) - One(off # {}) + One(on # {}) - One(on # {} /\ on \cap NamesOf(x) # {})
        <5>1. off \subseteq NamesOf(x) /\ (off = {} \/ \E e : off = {e}) /\ (on = {} \/ \E e : on = {e})
          BY <3>4 DEF EntryStep
        <5> DEFINE S == NamesOf(x)
        <5>2. IsFiniteSet(S) /\ off \subseteq S  BY <3>3, <5>1
        <5> HIDE DEF S
        <5>3. /\ Cardinality(S) \in Nat
              /\ Cardinality((S \ off) \cup on) =
                   Cardinality(S) - One(off # {}) + One(on # {}) - One(on # {} /\ on \cap S # {})
          BY <4>1, <5>1, <5>2, OneCount, ZenonT(60)
        <5>4. QED  BY <5>3 DEF S
      <4>3. NamesOf(x)' = (NamesOf(x) \ off) \cup on  BY <3>4, <1>2 DEF EntryStep
      <4>4. inode'[x].nlink = inode[x].nlink - One(off # {}) + One(on # {}) - 0
        BY <3>4, <1>4, <2>2 DEF LinkStep, One
      <4>5. QED  BY <4>1, <4>2, <4>3, <4>4, <3>2, <1>4 DEF One
    <3>5. CASE x # i
      <4> DEFINE gain == on \cap NamesOf(x)
                 none == {}
      <4>1. NamesOf(x)' = (NamesOf(x) \ gain) \cup none  BY <3>5, <1>2 DEF EntryStep
      <4>2. gain \subseteq NamesOf(x) /\ (gain = {} \/ \E e : gain = {e})  BY DEF EntryStep
      <4>3. /\ Cardinality(NamesOf(x)) \in Nat
            /\ Cardinality((NamesOf(x) \ gain) \cup none) =
                 Cardinality(NamesOf(x)) - One(gain # {}) + One(none # {})
                                         - One(none # {} /\ none \cap NamesOf(x) # {})
        <5>1. (none = {} \/ \E e : none = {e}) /\ gain \cap none = {}  OBVIOUS
        <5> HIDE DEF gain, none
        <5> DEFINE S == NamesOf(x)
        <5>2. IsFiniteSet(S) /\ gain \subseteq S  BY <3>3, <4>2
        <5> HIDE DEF S
        <5>3. /\ Cardinality(S) \in Nat
              /\ Cardinality((S \ gain) \cup none) =
                   Cardinality(S) - One(gain # {}) + One(none # {}) - One(none # {} /\ none \cap S # {})
          BY <4>2, <5>1, <5>2, OneCount, ZenonT(60)
        <5>4. QED  BY <5>3 DEF S
      <4>4. inode'[x].nlink = inode[x].nlink - 0 + 0 - One(gain # {})
        BY <3>5, <1>4, <2>2 DEF LinkStep, One
      <4>5. QED  BY <4>1, <4>3, <4>4, <3>2, <1>4 DEF One
    <3>6. QED  BY <3>4, <3>5
  <2>3. QED  BY <2>1, <2>2
<1>5. CASE inode'[x].kind = "dir"
  <2> DEFINE S == SubNames(x)
             offx == {n \in Names : AboutDir(i, born) /\ <<x, n>> \in off}
             onx == {n \in Names : AboutDir(i, born) /\ <<x, n>> \in on}
             base == IF x \in born THEN 2 ELSE inode[x].nlink
  <2>1. SubNames(x)' = (S \ offx) \cup onx  BY <1>2, StepSubNames
  <2>2. IsFiniteSet(S)  BY <1>2, NamesFinite DEF Inv
  <2>3. offx = {} \/ \E e : offx = {e}
    <3>1. off = {} \/ \E e : off = {e}  BY DEF EntryStep
    <3>2. QED  BY <3>1
  <2>4. onx = {} \/ \E e : onx = {e}
    <3>1. on = {} \/ \E e : on = {e}  BY DEF EntryStep
    <3>2. QED  BY <3>1
  <2>5. S = {n \in Names : \E j \in Inos : IsDir(j) /\ <<x, n>> \in NamesOf(j)}
    BY <1>2, SubNamesIs DEF Inv
  <2>6. offx \subseteq S
    <3>1. off # {} => (IsDir(i) <=> AboutDir(i, born))
      BY DEF EntryStep, Inv, Entered, KindStep, IsDir, AboutDir, InUse
    <3>2. QED  BY <2>5, <3>1, <1>3 DEF EntryStep
  <2>7. offx \cap onx = {}  BY DEF EntryStep
  <2>8. onx \cap S # {} <=> onx # {} /\ Taken(on)
    <3>1. ASSUME NEW n \in Names, <<x, n>> \in on, AboutDir(i, born)
          PROVE  n \in S <=> Taken(on)
      <4>1. on = {<<x, n>>}  BY <3>1 DEF EntryStep
      <4>2. QED  BY <4>1, <3>1, <2>5 DEF Taken, LinkStep
    <3>2. PICK m \in Names \cup {0} : onx # {} => m \in Names /\ onx = {m}  BY <2>4
    <3>3. QED  BY <3>1, <3>2
  <2>9. base = 2 + Cardinality(S)
    <3>1. CASE x \in born
      <4>1. inode[x].names = NoNames  BY <3>1, <1>2 DEF KindStep, Inv, OnlyDirsName, IsDir
      <4>2. S = {}  BY <4>1, NoNamesType DEF SubNames
      <4>3. QED  BY <4>2, <3>1, FS_EmptySet
    <3>2. CASE x \notin born
      <4>1. x \in InUse /\ IsDir(x)  BY <1>2, <1>5, <3>2 DEF KindStep, InUse, IsDir
      <4>2. QED  BY <4>1, <3>2 DEF Inv, LinksCount, SubNames
    <3>3. QED  BY <3>1, <3>2
  <2>10. /\ offx # {} <=> (AboutDir(i, born) /\ At(off, x))
         /\ onx # {} <=> (AboutDir(i, born) /\ At(on, x))
    BY DEF At
  <2>11. inode'[x].nlink = base - One(AboutDir(i, born) /\ At(off, x))
                                + One(AboutDir(i, born) /\ At(on, x))
                                - One(AboutDir(i, born) /\ At(on, x) /\ Taken(on))
    BY <1>5 DEF LinkStep
  <2> HIDE DEF S, offx, onx, base
  <2>12. /\ Cardinality(S) \in Nat
         /\ Cardinality((S \ offx) \cup onx) =
              Cardinality(S) - One(offx # {}) + One(onx # {}) - One(onx # {} /\ onx \cap S # {})
    BY <2>2, <2>3, <2>4, <2>6, <2>7, OneCount, ZenonT(60)
  <2>13. /\ One(AboutDir(i, born) /\ At(off, x)) = One(offx # {})
         /\ One(AboutDir(i, born) /\ At(on, x)) = One(onx # {})
         /\ One(AboutDir(i, born) /\ At(on, x) /\ Taken(on)) = One(onx # {} /\ onx \cap S # {})
    BY <2>8, <2>10 DEF One
  <2> DEFINE less == One(offx # {})
             more == One(onx # {})
             same == One(onx # {} /\ onx \cap S # {})
             T == (S \ offx) \cup onx
  <2>14. less \in Int /\ more \in Int /\ same \in Int  BY DEF One
  <2>15. inode'[x].nlink = base - less + more - same  BY <2>11, <2>13, Zenon
  <2>16. Cardinality(T) = Cardinality(S) - less + more - same  BY <2>12, Zenon
  <2> HIDE DEF less, more, same, T
  <2>17. inode'[x].nlink = 2 + Cardinality(T)  BY <2>9, <2>12, <2>14, <2>15, <2>16
  <2>18. QED  BY <2>1, <2>17, <1>5 DEF T
<1>6. QED  BY <1>4, <1>5

\* A step that keeps the pointers of the entries it changes keeps all of them.
LEMMA StepPointers ==
  ASSUME Inv, TypeOK', OnlyDirsName', NEW i, NEW off, NEW on,
         NEW born \in SUBSET Inos, NEW gone \in SUBSET Inos,
         EntryStep(i, off, on), KindStep(i, born, gone), BackStep(i, off, on, born, gone)
  PROVE  PointersAgree'
<1>1. SUFFICES ASSUME parents, NEW x \in InUse'
               PROVE  inode'[x].pointers = {Pointer(e[1], e[2])' : e \in NamesOf(x)'}
  BY DEF PointersAgree, BackStep
<1>2. x \in Inos /\ inode'[x].kind # "free" /\ x \notin gone  BY DEF InUse, KindStep
<1>3. ASSUME NEW e \in NamesOf(x)' PROVE Pointer(e[1], e[2])' = Pointer(e[1], e[2])
  <2>1. e[1] \in Inos /\ e[2] \in DOMAIN inode'[e[1]].names  BY DEF NamesOf, Has
  <2>2. inode'[e[1]].kind = "dir"  BY <2>1, NoNamesType DEF OnlyDirsName, IsDir
  <2>3. e[1] \notin gone  BY <2>2 DEF KindStep
  <2>4. IsDir(e[1])
    <3>1. CASE e \in on  BY <3>1 DEF EntryStep
    <3>2. CASE e \notin on
      <4>1. e \in NamesOf(x)  BY <3>2, <1>2 DEF EntryStep
      <4>2. e[2] \in DOMAIN inode[e[1]].names  BY <4>1 DEF NamesOf, Has
      <4>3. QED  BY <4>2, <2>1, NoNamesType DEF Inv, OnlyDirsName
    <3>3. QED  BY <3>1, <3>2
  <2>5. e[1] \notin born  BY <2>4 DEF KindStep, IsDir
  <2>6. inode'[e[1]].gen = inode[e[1]].gen  BY <2>1, <2>3, <2>5 DEF BackStep
  <2>7. QED  BY <2>6 DEF Pointer
<1>4. {Pointer(e[1], e[2])' : e \in NamesOf(x)'} = {Pointer(e[1], e[2]) : e \in NamesOf(x)'}
  BY <1>3
<1> DEFINE old == IF x \in born THEN {} ELSE inode[x].pointers
           lost == IF x = i THEN off ELSE on
           won == IF x = i THEN on ELSE {}
<1>5. inode'[x].pointers = {p \in old : ~Match(p, lost)} \cup {Pointer(e[1], e[2]) : e \in won}
  BY <1>1 DEF BackStep
<1>6. NamesOf(x)' = (NamesOf(x) \ lost) \cup won  BY <1>2 DEF EntryStep
<1>7. old = {Pointer(e[1], e[2]) : e \in NamesOf(x)}
  <2>1. CASE x \in born
    <3>1. NamesOf(x) = {}  BY <1>2, <2>1 DEF KindStep, Inv, Entered, InUse
    <3>2. QED  BY <3>1, <2>1
  <2>2. CASE x \notin born
    <3>1. x \in InUse  BY <1>2, <2>2 DEF KindStep, InUse
    <3>2. QED  BY <3>1, <2>2, <1>1 DEF Inv, PointersAgree
  <2>3. QED  BY <2>1, <2>2
<1>8. lost \subseteq Inos \X Names /\ NamesOf(x) \subseteq Inos \X Names
  BY DEF EntryStep, NamesOf
<1> HIDE DEF old, lost, won
<1>9. \A e \in NamesOf(x) : Match(Pointer(e[1], e[2]), lost) <=> e \in lost
  BY <1>8 DEF Match, Pointer
<1>10. {p \in old : ~Match(p, lost)} = {Pointer(e[1], e[2]) : e \in NamesOf(x) \ lost}
  BY <1>7, <1>9
<1>11. {Pointer(e[1], e[2]) : e \in NamesOf(x)'} =
         {Pointer(e[1], e[2]) : e \in NamesOf(x) \ lost} \cup {Pointer(e[1], e[2]) : e \in won}
  BY <1>6
<1>12. QED  BY <1>4, <1>5, <1>10, <1>11

-----------------------------------------------------------------------------
(* The operations *)

\* A record replaces the inodes it names and no others.
LEMMA CommitFact ==
  ASSUME TypeOK, NEW new, NEW changes, Commit(new, changes),
         DOMAIN new \subseteq Inos, \A x \in DOMAIN new : new[x] \in Inode
  PROVE  /\ TypeOK' /\ parents' = parents
         /\ \A x \in Inos : inode'[x] = IF x \in DOMAIN new THEN new[x] ELSE inode[x]
<1>1. /\ inode' = [x \in Inos |-> IF x \in DOMAIN new THEN new[x] ELSE inode[x]]
      /\ parents' = parents
  BY DEF Commit
<1>2. QED  BY <1>1 DEF TypeOK

\* The names after the step are the entries after it.
LEMMA NamesOfNext ==
  ASSUME NEW j
  PROVE  NamesOf(j)' = Entries(NamesAt', j)
BY DEF NamesOf, Entries, NamesAt, Has

\* A step of that shape preserves the invariant.
LEMMA InvStep ==
  ASSUME Inv, TypeOK', OnlyDirsName', NEW i, NEW off, NEW on,
         NEW born \in SUBSET Inos, NEW gone \in SUBSET Inos,
         EntryStep(i, off, on), KindStep(i, born, gone), UpStep(i, off, on, born),
         LinkStep(i, off, on, born), BackStep(i, off, on, born, gone)
  PROVE  Inv'
BY StepEntered, StepRooted, StepLinks, StepPointers DEF Inv

\* The inode given out is a free one.
LEMMA FreeLeast ==
  ASSUME Free # {}
  PROVE  Min(Free) \in Free
<1>1. Free \in SUBSET Nat  BY NamespaceAssumption DEF Free, Inos
<1>2. \E x \in Free : \A y \in Free : x <= y  BY <1>1, LeastExists
<1>3. QED  BY <1>2 DEF Min

\* A create preserves the invariant: the new inode is the one entry of the step.
LEMMA CreateStep ==
  ASSUME Inv, NEW d \in Inos, NEW n \in Names, NEW kind \in {"file", "dir", "symlink"},
         NEW long, Create(d, n, kind, long)
  PROVE  Inv'
<1> DEFINE i == Min(Free)
           e == inode[d]
           names == With(e.names, n, i)
           changed == Changed(e, names, e.up)
           k == e.nlink + (IF kind = "dir" THEN 1 ELSE 0)
           dir == ParentAfter(d, n, i, kind)
           x == Created(i, d, n, kind, long)
           new == [y \in {i, d} |-> IF y = i THEN x ELSE dir]
<1>1. IsDir(d) /\ ~Has(d, n) /\ Free # {} /\ Commit(new, CreateQuota(d, dir, i, x))
  BY DEF Create
<1>2. i \in Inos /\ inode[i].kind = "free" /\ i # d /\ i # Root
  <2>1. i \in Free  BY <1>1, FreeLeast
  <2>2. QED  BY <2>1, <1>1 DEF Free, IsDir, Inv, OnlyDirsName
<1> HIDE DEF i
<1>3. e \in Inode /\ e.names \in NameMaps /\ e.up \in Inos /\ e.nlink \in Int
  BY DEF Inv, TypeOK, Inode
<1>4. dir = [changed EXCEPT !.nlink = k] /\ k \in Int
  <2>1. names \in NameMaps  BY <1>2, <1>3, WithFact
  <2>2. changed.nlink = e.nlink  BY <1>3, <2>1, ChangedFact DEF SameBut
  <2>3. QED  BY <1>3, <2>2 DEF ParentAfter
<1>5. /\ dir \in Inode /\ dir.names = names /\ dir.up = e.up /\ dir.nlink = k
      /\ dir.kind = "dir" /\ dir.gen = e.gen /\ dir.pointers = e.pointers
  <2>1. names \in NameMaps  BY <1>2, <1>3, WithFact
  <2>2. /\ changed \in Inode /\ changed.names = names /\ changed.up = e.up
        /\ changed.kind = e.kind /\ changed.gen = e.gen /\ changed.pointers = e.pointers
    BY <1>3, <2>1, ChangedFact DEF SameBut
  <2> HIDE DEF changed, k, dir
  <2>3. QED  BY <1>4, <2>2, <1>1, LinkedFact DEF IsDir
<1>6. /\ x \in Inode /\ x.kind = kind /\ x.nlink = (IF kind = "dir" THEN 2 ELSE 1)
      /\ x.names = NoNames /\ x.up = d
      /\ x.pointers = (IF parents THEN {Pointer(d, n)} ELSE {})
  <2>1. TypeOK  BY DEF Inv
  <2>2. QED  BY <2>1, <1>2, CreatedFact
<1> HIDE DEF x, dir
<1>7. /\ TypeOK' /\ parents' = parents
      /\ inode'[i] = x /\ inode'[d] = dir
      /\ \A y \in Inos : y # i /\ y # d => inode'[y] = inode[y]
  <2>1. DOMAIN new \subseteq Inos /\ \A y \in DOMAIN new : new[y] \in Inode  BY <1>2, <1>5, <1>6
  <2>2. /\ TypeOK' /\ parents' = parents
        /\ \A y \in Inos : inode'[y] = IF y \in DOMAIN new THEN new[y] ELSE inode[y]
    <3> HIDE DEF new
    <3>1. QED  BY <1>1, <2>1, CommitFact DEF Inv
  <2>3. QED  BY <1>2, <2>2
<1>8. NamesAt' = Put(NamesAt, d, n, i)
  <2>1. inode[i].names = NoNames  BY <1>2 DEF Inv, OnlyDirsName, IsDir
  <2>2. \A y \in Inos : inode'[y].names = IF y = d THEN names ELSE inode[y].names
    BY <1>2, <1>5, <1>6, <1>7, <2>1
  <2>3. QED  BY <2>2 DEF NamesAt, Put
<1> DEFINE on == {<<d, n>>}
<1>9. \A j \in Inos : <<d, n>> \notin NamesOf(j)  BY <1>1 DEF NamesOf
<1>10. EntryStep(i, {}, on)
  <2>1. \A j \in Inos : NamesOf(j)' = IF j = i THEN NamesOf(j) \cup on ELSE NamesOf(j) \ on
    BY <1>2, <1>8, NamesOfIs, NamesOfNext, NamesAtType, PutFact DEF Inv
  <2>2. on \subseteq Inos \X Names /\ on \cap NamesOf(i) = {} /\ \A w \in on : IsDir(w[1])
    BY <1>1, <1>2, <1>9
  <2>3. QED  BY <2>1, <2>2, <1>2 DEF EntryStep
<1>11. OnlyDirsName'
  <2>1. inode'[Root].kind = "dir"
    BY <1>2, <1>5, <1>7, NoNamesType DEF Inv, OnlyDirsName, IsDir
  <2>2. \A y \in Inos : inode'[y].kind # "dir" => inode'[y].names = NoNames
    BY <1>2, <1>5, <1>6, <1>7 DEF Inv, OnlyDirsName, IsDir
  <2>3. QED  BY <2>1, <2>2 DEF OnlyDirsName, IsDir
<1>12. KindStep(i, {i}, {})
  <2>1. \A y \in Inos \ {i} : inode'[y].kind = inode[y].kind  BY <1>1, <1>5, <1>7 DEF IsDir
  <2>2. \A y \in InUse' \ {Root} : NamesOf(y)' # {}
    <3>1. SUFFICES ASSUME NEW y \in InUse' \ {Root} PROVE NamesOf(y)' # {}  OBVIOUS
    <3>2. CASE y = i  BY <3>2, <1>2, <1>10 DEF EntryStep
    <3>3. CASE y # i
      <4>1. y \in InUse \ {Root}  BY <3>1, <3>3, <2>1 DEF InUse
      <4>2. NamesOf(y) # {}  BY <4>1 DEF Inv, Entered
      <4>3. QED  BY <4>1, <4>2, <3>3, <1>9, <1>10 DEF EntryStep, InUse
    <3>4. QED  BY <3>2, <3>3
  <2>3. QED  BY <2>1, <2>2, <1>2, <1>6, <1>7 DEF KindStep
<1>13. UpStep(i, {}, on, {i})
  BY <1>2, <1>5, <1>6, <1>7 DEF UpStep
<1>14. LinkStep(i, {}, on, {i})
  <2>1. \A j \in Inos : on \cap NamesOf(j) = {}  BY <1>9
  <2>2. AboutDir(i, {i}) <=> kind = "dir"  BY <1>2, <1>6, <1>7 DEF AboutDir, IsDir
  <2>3. ~Taken(on) /\ \A y : ~At({}, y) /\ (At(on, y) <=> y = d)  BY <2>1 DEF Taken, At
  <2>4. ASSUME NEW y \in Inos
        PROVE IF inode'[y].kind = "dir"
         THEN inode'[y].nlink = (IF y \in {i} THEN 2 ELSE inode[y].nlink) - 0
                                + One(kind = "dir" /\ y = d) - 0
         ELSE inode'[y].nlink = (IF y \in {i} THEN 0 ELSE inode[y].nlink)
                                - 0 + One(y = i) - 0
    <3>1. inode[y].nlink \in Int  BY DEF Inv, TypeOK, Inode
    <3>2. CASE y = i  BY <3>2, <1>2, <1>6, <1>7 DEF One
    <3>3. CASE y = d  BY <3>1, <3>3, <1>2, <1>5, <1>7 DEF One
    <3>4. CASE y # i /\ y # d  BY <3>1, <3>4, <1>7 DEF One
    <3>5. QED  BY <3>2, <3>3, <3>4
  <2>5. ASSUME NEW y \in InUse' PROVE y \in Inos  BY DEF InUse
  <2>6. QED  BY <2>1, <2>2, <2>3, <2>4, <2>5 DEF LinkStep, One
<1>15. BackStep(i, {}, on, {i}, {})
  <2>1. \A y \in Inos \ {i} : inode'[y].gen = inode[y].gen /\ inode'[y].pointers = inode[y].pointers
    BY <1>5, <1>7
  <2>2. ASSUME parents, NEW y \in InUse'
        PROVE  inode'[y].pointers =
         {p \in (IF y \in {i} THEN {} ELSE inode[y].pointers) :
            ~Match(p, IF y = i THEN {} ELSE on)}
         \cup (IF y = i THEN {Pointer(w[1], w[2]) : w \in on} ELSE {})
    <3>1. y \in Inos  BY DEF InUse
    <3>2. CASE y = i  BY <3>2, <2>2, <1>6, <1>7
    <3>3. CASE y # i
      <4>1. y \in InUse  BY <3>1, <3>3, <2>1, <1>12 DEF KindStep, InUse
      <4>2. inode[y].pointers = {Pointer(w[1], w[2]) : w \in NamesOf(y)}
        BY <4>1, <2>2 DEF Inv, PointersAgree
      <4>3. \A p \in inode[y].pointers : ~Match(p, on)
        BY <4>2, <3>1, <1>9 DEF Match, Pointer, NamesOf
      <4>4. QED  BY <4>3, <2>1, <3>1, <3>3
    <3>4. QED  BY <3>2, <3>3
  <2>3. QED  BY <2>1, <2>2, <1>7 DEF BackStep
<1>16. QED  BY <1>2, <1>7, <1>10, <1>11, <1>12, <1>13, <1>14, <1>15, InvStep

\* A record of an inode and a directory.
LEMMA PairFact ==
  ASSUME TypeOK, NEW i \in Inos, NEW d \in Inos, i # d, NEW x \in Inode, NEW dir \in Inode,
         NEW changes, Commit([y \in {i, d} |-> IF y = i THEN x ELSE dir], changes)
  PROVE  /\ TypeOK' /\ parents' = parents
         /\ inode'[i] = x /\ inode'[d] = dir
         /\ \A y \in Inos : y # i /\ y # d => inode'[y] = inode[y]
<1> DEFINE new == [y \in {i, d} |-> IF y = i THEN x ELSE dir]
<1>1. DOMAIN new \subseteq Inos /\ \A y \in DOMAIN new : new[y] \in Inode  OBVIOUS
<1>2. /\ TypeOK' /\ parents' = parents
      /\ \A y \in Inos : inode'[y] = IF y \in DOMAIN new THEN new[y] ELSE inode[y]
  <2>1. Commit(new, changes)  OBVIOUS
  <2> HIDE DEF new
  <2>2. QED  BY <1>1, <2>1, CommitFact
<1>3. QED  BY <1>2

\* Pointers an inode has none of its names for.
LEMMA NoMatch ==
  ASSUME Inv, parents, NEW y \in InUse, NEW S \in SUBSET (Inos \X Names), S \cap NamesOf(y) = {}
  PROVE  {p \in inode[y].pointers : ~Match(p, S)} = inode[y].pointers
<1>1. inode[y].pointers = {Pointer(w[1], w[2]) : w \in NamesOf(y)}  BY DEF Inv, PointersAgree
<1>2. \A p \in inode[y].pointers : ~Match(p, S)  BY <1>1 DEF Match, Pointer, NamesOf
<1>3. QED  BY <1>2

\* A link count of one is a last name.
LEMMA LastName ==
  ASSUME Inv, NEW i \in InUse, ~IsDir(i), NEW e \in NamesOf(i)
  PROVE  inode[i].nlink <= 1 <=> NamesOf(i) = {e}
<1> DEFINE S == NamesOf(i)
<1>1. IsFiniteSet(S) /\ Cardinality(S) = inode[i].nlink /\ e \in S
  BY NamesFinite DEF Inv, LinksCount
<1>2. Cardinality(S) \in Nat  BY <1>1, FS_CardinalityType
<1>3. S # {}  BY <1>1
<1> HIDE DEF S
<1>4. Cardinality(S) # 0  BY <1>1, <1>3, FS_EmptySet
<1>5. Cardinality(S) = 1 <=> \E w : S = {w}  BY <1>1, FS_Singleton
<1>6. Cardinality(S) = 1 <=> S = {e}  BY <1>1, <1>5
<1>7. Cardinality(S) <= 1 <=> S = {e}  BY <1>2, <1>4, <1>6
<1>8. QED  BY <1>1, <1>7 DEF S

\* A link preserves it: a further entry of a file.
LEMMA LinkStepInv ==
  ASSUME Inv, NEW i \in Inos, NEW d \in Inos, NEW n \in Names, Link(i, d, n)
  PROVE  Inv'
<1> DEFINE e == inode[d]
           names == With(e.names, n, i)
           dir == Changed(e, names, e.up)
           y0 == Pointed(inode[i], inode[i].pointers, {Pointer(d, n)})
           x == [y0 EXCEPT !.nlink = @ + 1]
           on == {<<d, n>>}
<1>1. /\ IsDir(d) /\ inode[i].kind \notin {"dir", "free"} /\ ~Has(d, n)
      /\ Commit([y \in {i, d} |-> IF y = i THEN x ELSE dir],
                <<Charge(d, inode[d], dir, 0), Charge(i, inode[i], x, 0)>>)
  BY DEF Link
<1>2. i # d /\ i # Root /\ i \in InUse /\ ~IsDir(i)
  BY <1>1 DEF IsDir, InUse, Inv, OnlyDirsName
<1>3. /\ e \in Inode /\ e.names \in NameMaps /\ e.up \in Inos
      /\ inode[i] \in Inode /\ inode[i].nlink \in Int /\ inode[i].pointers \in SUBSET Pointers
      /\ Pointer(d, n) \in Pointers
  <2>1. e \in Inode /\ inode[i] \in Inode  BY DEF Inv, TypeOK
  <2>2. QED  BY <2>1 DEF Inode, Pointer, Pointers
<1>4. names \in NameMaps  BY <1>3, WithFact
<1>5. /\ dir \in Inode /\ dir.names = names /\ dir.up = e.up /\ dir.nlink = e.nlink
      /\ dir.kind = e.kind /\ dir.gen = e.gen /\ dir.pointers = e.pointers
  <2>1. e \in Inode /\ e.up \in Inos  BY <1>3
  <2> HIDE DEF names, e
  <2>2. dir \in Inode /\ dir.names = names /\ dir.up = e.up /\ SameBut(e, dir)
    BY <2>1, <1>4, ChangedFact
  <2>3. QED  BY <2>2 DEF SameBut
<1>6. /\ x \in Inode /\ x.kind = inode[i].kind /\ x.nlink = inode[i].nlink + 1
      /\ x.names = inode[i].names /\ x.up = inode[i].up /\ x.gen = inode[i].gen
      /\ x.pointers = IF parents THEN inode[i].pointers \cup {Pointer(d, n)} ELSE inode[i].pointers
  <2> DEFINE k == inode[i].nlink + 1
  <2>1. {Pointer(d, n)} \in SUBSET Pointers  BY <1>3
  <2>2. /\ y0 \in Inode /\ y0.kind = inode[i].kind /\ y0.nlink = inode[i].nlink
        /\ y0.names = inode[i].names /\ y0.up = inode[i].up /\ y0.gen = inode[i].gen
        /\ y0.pointers = IF parents THEN inode[i].pointers \cup {Pointer(d, n)}
                                    ELSE inode[i].pointers
    BY <1>3, <2>1, PointedFact, ZenonT(60)
  <2> HIDE DEF y0
  <2>3. x = [y0 EXCEPT !.nlink = k] /\ k \in Int  BY <1>3, <2>2
  <2> HIDE DEF k, x
  <2>4. QED  BY <2>2, <2>3, LinkedFact DEF k
<1> HIDE DEF x, dir
<1>7. /\ TypeOK' /\ parents' = parents
      /\ inode'[i] = x /\ inode'[d] = dir
      /\ \A y \in Inos : y # i /\ y # d => inode'[y] = inode[y]
  BY <1>1, <1>2, <1>5, <1>6, PairFact DEF Inv
<1>8. NamesAt' = Put(NamesAt, d, n, i)
  <2>1. \A y \in Inos : inode'[y].names = IF y = d THEN names ELSE inode[y].names
    BY <1>2, <1>5, <1>6, <1>7
  <2>2. QED  BY <2>1 DEF NamesAt, Put
<1>9. \A j \in Inos : <<d, n>> \notin NamesOf(j)  BY <1>1 DEF NamesOf
<1>10. EntryStep(i, {}, on)
  <2>1. \A j \in Inos : NamesOf(j)' = IF j = i THEN NamesOf(j) \cup on ELSE NamesOf(j) \ on
    BY <1>2, <1>8, NamesOfIs, NamesOfNext, NamesAtType, PutFact DEF Inv
  <2>2. on \subseteq Inos \X Names /\ on \cap NamesOf(i) = {} /\ \A w \in on : IsDir(w[1])
    BY <1>1, <1>2, <1>9
  <2>3. QED  BY <2>1, <2>2, <1>2 DEF EntryStep
<1>11. \A y \in Inos : /\ inode'[y].kind = inode[y].kind /\ inode'[y].up = inode[y].up
                       /\ inode'[y].gen = inode[y].gen
  BY <1>5, <1>6, <1>7
<1>12. OnlyDirsName'
  BY <1>1, <1>2, <1>6, <1>7, <1>11, NoNamesType DEF Inv, OnlyDirsName, IsDir
<1>13. KindStep(i, {}, {})
  <2>1. \A y \in InUse' \ {Root} : NamesOf(y)' # {}
    BY <1>9, <1>10, <1>11 DEF EntryStep, InUse, Inv, Entered
  <2>2. QED  BY <2>1, <1>2, <1>11 DEF KindStep
<1>14. UpStep(i, {}, on, {})  BY <1>1, <1>11 DEF UpStep
<1>15. LinkStep(i, {}, on, {})
  <2>1. \A j \in Inos : on \cap NamesOf(j) = {}  BY <1>9
  <2>2. ~AboutDir(i, {})  BY <1>2 DEF AboutDir
  <2>3. ASSUME NEW y \in InUse'
        PROVE  inode'[y].nlink = inode[y].nlink - 0 + One(y = i) - 0
    <3>1. y \in Inos /\ inode[y].nlink \in Int  BY DEF InUse, Inv, TypeOK, Inode
    <3>2. QED  BY <3>1, <1>2, <1>5, <1>6, <1>7 DEF One
  <2>4. ASSUME NEW y \in InUse', inode'[y].kind = "dir" PROVE y # i  BY <2>4, <1>1, <1>11
  <2>5. \A y \in InUse' : y \in Inos /\ inode[y].nlink \in Int  BY DEF InUse, Inv, TypeOK, Inode
  <2>6. QED  BY <2>1, <2>2, <2>3, <2>4, <2>5 DEF LinkStep, One
<1>16. BackStep(i, {}, on, {}, {})
  <2>1. ASSUME parents, NEW y \in InUse'
        PROVE  inode'[y].pointers =
         {p \in inode[y].pointers : ~Match(p, IF y = i THEN {} ELSE on)}
         \cup (IF y = i THEN {Pointer(w[1], w[2]) : w \in on} ELSE {})
    <3>1. y \in Inos /\ y \in InUse  BY <1>11 DEF InUse
    <3>2. CASE y = i  BY <3>2, <2>1, <1>6, <1>7 DEF Match
    <3>3. CASE y # i
      <4>1. {p \in inode[y].pointers : ~Match(p, on)} = inode[y].pointers
        BY <3>1, <2>1, <1>9, NoMatch
      <4>2. inode'[y].pointers = inode[y].pointers  BY <3>1, <3>3, <1>5, <1>7
      <4>3. QED  BY <3>3, <4>1, <4>2
    <3>4. QED  BY <3>2, <3>3
  <2>2. QED  BY <2>1, <1>7, <1>11 DEF BackStep
<1>17. QED  BY <1>7, <1>10, <1>12, <1>13, <1>14, <1>15, <1>16, InvStep

\* A directory with no names is the empty one.
LEMMA EmptyNames ==
  ASSUME NEW f \in NameMaps, DOMAIN f = {}
  PROVE  f = NoNames
<1>1. f \in [{} -> Inos]  BY NameMapIs
<1>2. QED  BY <1>1 DEF NoNames

\* Rewriting the names of a directory that stays where it is.
LEMMA EditFact ==
  ASSUME NEW x \in Inode, NEW names \in NameMaps
  PROVE  /\ Changed(x, names, x.up) \in Inode
         /\ Changed(x, names, x.up).names = names
         /\ Changed(x, names, x.up).up = x.up
         /\ Changed(x, names, x.up).kind = x.kind
         /\ Changed(x, names, x.up).nlink = x.nlink
         /\ Changed(x, names, x.up).gen = x.gen
         /\ Changed(x, names, x.up).pointers = x.pointers
<1> DEFINE y == Changed(x, names, x.up)
<1>1. x.up \in Inos  BY DEF Inode
<1>2. y \in Inode /\ y.names = names /\ y.up = x.up /\ SameBut(x, y)  BY <1>1, ChangedFact
<1>3. QED  BY <1>2 DEF SameBut

\* What losing its name t in td, one of several or the last, leaves of inode v.
Replaced(v, td, t) ==
  \/ /\ NamesOf(v) = {<<td, t>>} /\ inode[v].names = NoNames
     /\ inode'[v].kind = "free" /\ inode'[v].names = NoNames
  \/ /\ NamesOf(v) # {<<td, t>>} /\ ~IsDir(v)
     /\ inode'[v].kind = inode[v].kind /\ inode'[v].names = inode[v].names
     /\ inode'[v].gen = inode[v].gen /\ inode'[v].nlink = inode[v].nlink - 1
     /\ parents => inode'[v].pointers = Unpointed(inode[v], td, t)

\* What it leaves of the directory.
Unlisted(d, n, i) ==
  /\ inode'[d].names = Without(inode[d].names, n) /\ inode'[d].up = inode[d].up
  /\ inode'[d].kind = inode[d].kind /\ inode'[d].gen = inode[d].gen
  /\ inode'[d].pointers = inode[d].pointers
  /\ inode'[d].nlink = inode[d].nlink - One(IsDir(i))

\* A name is taken from its directory, and from its inode or with it.
LEMMA RemoveStep ==
  ASSUME Inv, TypeOK', parents' = parents, NEW d \in Inos, NEW n \in Names, Has(d, n),
         NEW i, i = inode[d].names[n], Unlisted(d, n, i), Replaced(i, d, n),
         \A y \in Inos : y # i /\ y # d => inode'[y] = inode[y]
  PROVE  Inv'
<1> DEFINE off == {<<d, n>>}
           gone == IF NamesOf(i) = off THEN {i} ELSE {}
<1>1. i \in InUse \ {Root} /\ i \in Inos /\ <<d, n>> \in NamesOf(i) /\ IsDir(d) /\ i # d
  <2>1. /\ i \in InUse \ {Root} /\ <<d, n>> \in NamesOf(i) /\ IsDir(d)
        /\ IsDir(i) => i # d
    BY NamesOfFact
  <2>2. i # d  BY <2>1
  <2>3. QED  BY <2>1, <2>2 DEF InUse
<1>2. NamesAt' = Take(NamesAt, d, n)
  <2>1. inode'[i].names = inode[i].names  BY DEF Replaced
  <2>2. inode'[d].names = Without(inode[d].names, n)  BY DEF Unlisted
  <2>3. \A y \in Inos : inode'[y].names = IF y = d THEN Without(inode[d].names, n) ELSE inode[y].names
    BY <1>1, <2>1, <2>2
  <2>4. QED  BY <2>3 DEF NamesAt, Take
<1>3. \A j \in Inos : NamesOf(j)' = NamesOf(j) \ off
  BY <1>2, NamesOfIs, NamesOfNext, NamesAtType, TakeFact DEF Inv
<1>4. \A j \in Inos : j # i => <<d, n>> \notin NamesOf(j)  BY <1>1, OneInode
<1>5. EntryStep(i, off, {})
  <2>1. \A j \in Inos : NamesOf(j)' = IF j = i THEN (NamesOf(j) \ off) \cup {} ELSE NamesOf(j) \ {}
    BY <1>3, <1>4
  <2>2. QED  BY <2>1, <1>1 DEF EntryStep
<1>6. gone \in SUBSET Inos /\ \A x \in gone : x = i  BY <1>1
<1>7. OnlyDirsName'
  <2>1. inode'[d].kind = "dir"  BY <1>1 DEF Unlisted, IsDir
  <2>2. inode'[i].kind # "dir" => inode'[i].names = NoNames
    BY <1>1 DEF Replaced, Inv, OnlyDirsName, IsDir
  <2>3. inode[Root].kind = "dir" /\ Root \in Inos
    BY NoNamesType DEF Inv, OnlyDirsName, IsDir
  <2>4. inode'[Root].kind = "dir"  BY <1>1, <2>1, <2>3
  <2>5. \A y \in Inos : inode[y].kind # "dir" => inode[y].names = NoNames
    BY DEF Inv, OnlyDirsName, IsDir
  <2>6. \A y \in Inos : inode'[y].kind # "dir" => inode'[y].names = NoNames
    BY <2>1, <2>2, <2>5
  <2>7. QED  BY <2>4, <2>6 DEF OnlyDirsName, IsDir
<1>8. \A y \in Inos \ gone : inode'[y].kind = inode[y].kind /\ inode'[y].gen = inode[y].gen
  <2>1. inode'[d].kind = inode[d].kind /\ inode'[d].gen = inode[d].gen  BY DEF Unlisted
  <2>2. i \notin gone => inode'[i].kind = inode[i].kind /\ inode'[i].gen = inode[i].gen
    BY DEF Replaced
  <2>3. QED  BY <2>1, <2>2
<1>9. KindStep(i, {}, gone)
  <2>1. ASSUME NEW y \in InUse' \ {Root} PROVE NamesOf(y)' # {}
    <3>1. y \in Inos /\ inode'[y].kind # "free"  BY DEF InUse
    <3>2. y \notin gone  BY <3>1 DEF Replaced
    <3>3. y \in InUse \ {Root}  BY <3>1, <3>2, <1>8 DEF InUse
    <3>4. NamesOf(y) # {}  BY <3>3 DEF Inv, Entered
    <3>5. CASE y = i  BY <3>5, <3>2, <1>1, <1>3
    <3>6. CASE y # i  BY <3>6, <3>1, <3>4, <1>3, <1>4
    <3>7. QED  BY <3>5, <3>6
  <2>2. ASSUME NEW x \in gone
        PROVE  /\ x # Root /\ inode'[x].kind = "free"
               /\ DOMAIN inode[x].names = {} /\ NamesOf(x)' = {}
    <3>1. x = i /\ x # Root /\ NamesOf(x) = off  BY <1>1
    <3>2. inode[x].names = NoNames /\ inode'[x].kind = "free"  BY <3>1 DEF Replaced
    <3>3. NamesOf(x)' = {}  BY <3>1, <1>1, <1>3
    <3>4. QED  BY <3>1, <3>2, <3>3, NoNamesType
  <2>3. QED  BY <2>1, <2>2, <1>1, <1>8 DEF KindStep
<1>10. UpStep(i, off, {}, {})
  <2>1. ASSUME NEW x \in Inos, inode'[x].kind = "dir"
        PROVE  x # i /\ inode'[x].up = inode[x].up
    <3>1. x # i  BY <2>1 DEF Replaced, IsDir
    <3>2. inode'[d].up = inode[d].up  BY DEF Unlisted
    <3>3. QED  BY <3>1, <3>2
  <2>2. QED  BY <2>1 DEF UpStep
<1>11. LinkStep(i, off, {}, {})
  <2>1. (AboutDir(i, {}) <=> IsDir(i)) /\ ~Taken({})  BY DEF AboutDir, Taken
  <2>2. \A y : ~At({}, y) /\ (At(off, y) <=> y = d)  BY DEF At
  <2>3. ASSUME NEW y \in InUse'
        PROVE  IF inode'[y].kind = "dir"
               THEN inode'[y].nlink = inode[y].nlink - One(IsDir(i) /\ y = d) + 0 - 0
               ELSE inode'[y].nlink = inode[y].nlink - One(y = i) + 0 - 0
    <3>1. y \in Inos /\ inode[y].nlink \in Int /\ inode'[y].kind # "free"
      BY DEF InUse, Inv, TypeOK, Inode
    <3>2. CASE y = d
      <4>1. inode'[d].kind = "dir" /\ inode'[d].nlink = inode[d].nlink - One(IsDir(i))
        BY <1>1 DEF Unlisted, IsDir
      <4>2. One(IsDir(i) /\ y = d) = One(IsDir(i)) /\ One(IsDir(i)) \in Int  BY <3>2 DEF One
      <4>3. QED  BY <3>1, <3>2, <4>1, <4>2
    <3>3. CASE y = i
      <4>1. inode'[i].kind # "dir" /\ inode'[i].nlink = inode[i].nlink - 1
        BY <3>1, <3>3 DEF Replaced, IsDir
      <4>2. One(y = i) = 1  BY <3>3 DEF One
      <4>3. QED  BY <3>1, <3>3, <4>1, <4>2
    <3>4. CASE y # i /\ y # d  BY <3>1, <3>4 DEF One
    <3>5. QED  BY <3>2, <3>3, <3>4
  <2>4. QED  BY <2>1, <2>2, <2>3 DEF LinkStep, One
<1>12. BackStep(i, off, {}, {}, gone)
  <2>1. ASSUME parents, NEW y \in InUse'
        PROVE  inode'[y].pointers =
         {p \in inode[y].pointers : ~Match(p, IF y = i THEN off ELSE {})} \cup {}
    <3>1. y \in Inos /\ inode'[y].kind # "free"  BY DEF InUse
    <3>2. CASE y = i
      <4>1. inode'[i].pointers = Unpointed(inode[i], d, n)
        BY <3>1, <3>2, <2>1 DEF Replaced
      <4>2. Unpointed(inode[i], d, n) = {p \in inode[i].pointers : ~Match(p, off)}
        BY UnpointedIs
      <4>3. QED  BY <3>2, <4>1, <4>2
    <3>3. CASE y # i
      <4>1. inode'[y].pointers = inode[y].pointers  BY <3>1, <3>3 DEF Unlisted
      <4>2. QED  BY <3>3, <4>1 DEF Match
    <3>4. QED  BY <3>2, <3>3
  <2>2. QED  BY <2>1, <1>8 DEF BackStep
<1> HIDE DEF gone, off
<1>13. QED  BY <1>5, <1>6, <1>7, <1>9, <1>10, <1>11, <1>12, InvStep

\* An emptied inode is free and has no names.
LEMMA EmptiedFact ==
  ASSUME NEW x \in Inode
  PROVE  Emptied(x) \in Inode /\ Emptied(x).kind = "free" /\ Emptied(x).names = NoNames
<1>1. x.gen + 1 \in Nat  BY DEF Inode
<1>2. QED  BY <1>1, FreedFact DEF Emptied

\* An inode that loses one of its names loses a link and the pointer of it.
LEMMA UnnamedFact ==
  ASSUME TypeOK, NEW i \in Inos, NEW d, NEW n
  PROVE  /\ Unnamed(i, d, n) \in Inode
         /\ Unnamed(i, d, n).kind = inode[i].kind
         /\ Unnamed(i, d, n).names = inode[i].names
         /\ Unnamed(i, d, n).gen = inode[i].gen
         /\ Unnamed(i, d, n).nlink = inode[i].nlink - 1
         /\ parents => Unnamed(i, d, n).pointers = Unpointed(inode[i], d, n)
<1> DEFINE x == Unnamed(i, d, n)
           p == Unpointed(inode[i], d, n)
           y == Pointed(inode[i], p, {})
           k == inode[i].nlink - 1
<1>1. inode[i] \in Inode  BY DEF TypeOK
<1>2. p \in SUBSET Pointers /\ k \in Int  BY <1>1 DEF Unpointed, Inode
<1>3. /\ y \in Inode /\ y.kind = inode[i].kind /\ y.nlink = inode[i].nlink
      /\ y.names = inode[i].names /\ y.gen = inode[i].gen
      /\ y.pointers = IF parents THEN p \cup {} ELSE inode[i].pointers
  <2>1. {} \in SUBSET Pointers  OBVIOUS
  <2> HIDE DEF p
  <2>2. /\ y \in Inode /\ y.kind = inode[i].kind /\ y.nlink = inode[i].nlink
        /\ y.names = inode[i].names /\ y.gen = inode[i].gen
    BY <1>1, <1>2, <2>1, PointedFact
  <2>3. y.pointers = IF parents THEN p \cup {} ELSE inode[i].pointers
    BY <1>1, <1>2, <2>1, PointedFact
  <2>4. QED  BY <2>2, <2>3
<1>4. x = [y EXCEPT !.nlink = @ - 1]  BY DEF Unnamed
<1> HIDE DEF y, x
<1>5. x = [y EXCEPT !.nlink = k]  BY <1>3, <1>4
<1> HIDE DEF k
<1>6. /\ x \in Inode /\ x.kind = y.kind /\ x.names = y.names /\ x.gen = y.gen /\ x.nlink = k
      /\ x.pointers = y.pointers
  BY <1>2, <1>3, <1>5, LinkedFact
<1>7. QED  BY <1>3, <1>6 DEF k, x

\* An unlink preserves the invariant: the inode goes with its last name.
LEMMA UnlinkStep ==
  ASSUME Inv, NEW d \in Inos, NEW n \in Names, Unlink(d, n)
  PROVE  Inv'
<1> DEFINE i == inode[d].names[n]
           e == inode[d]
           names == Without(e.names, n)
           dir == Changed(e, names, e.up)
           freed == inode[i].nlink <= 1
           x == IF freed THEN Emptied(inode[i]) ELSE Unnamed(i, d, n)
           changes == <<IF freed THEN GivenBack(i) ELSE Charge(i, inode[i], x, 0),
                        Charge(d, inode[d], dir, 0)>>
<1>1. /\ IsDir(d) /\ Has(d, n) /\ ~IsDir(i)
      /\ Commit([y \in {i, d} |-> IF y = i THEN x ELSE dir], changes)
  BY DEF Unlink
<1>2. i \in InUse \ {Root} /\ i \in Inos /\ <<d, n>> \in NamesOf(i) /\ i # d
  <2>1. i \in InUse \ {Root} /\ <<d, n>> \in NamesOf(i)  BY <1>1, NamesOfFact
  <2>2. QED  BY <2>1, <1>1 DEF InUse
<1>3. /\ dir \in Inode /\ dir.names = names /\ dir.up = e.up /\ dir.kind = e.kind
      /\ dir.nlink = e.nlink /\ dir.gen = e.gen /\ dir.pointers = e.pointers
  <2>1. e \in Inode  BY DEF Inv, TypeOK
  <2>2. e.names \in NameMaps  BY <2>1 DEF Inode
  <2>3. names \in NameMaps  BY <2>2, WithoutFact
  <2> HIDE DEF e, names
  <2>4. QED  BY <2>1, <2>3, EditFact
<1>4. inode[i] \in Inode /\ inode[i].names = NoNames /\ e.nlink \in Int
  BY <1>1, <1>2 DEF Inv, TypeOK, OnlyDirsName, Inode
<1>5. freed <=> NamesOf(i) = {<<d, n>>}  BY <1>1, <1>2, LastName
<1>6. /\ x \in Inode
      /\ freed => x.kind = "free" /\ x.names = NoNames
      /\ ~freed => /\ x.kind = inode[i].kind /\ x.names = inode[i].names
                   /\ x.gen = inode[i].gen /\ x.nlink = inode[i].nlink - 1
                   /\ parents => x.pointers = Unpointed(inode[i], d, n)
  <2>1. TypeOK  BY DEF Inv
  <2>2. CASE freed
    <3>1. x = Emptied(inode[i])  BY <2>2
    <3>2. QED  BY <2>2, <3>1, <1>4, EmptiedFact
  <2>3. CASE ~freed
    <3>1. x = Unnamed(i, d, n)  BY <2>3
    <3> HIDE DEF x, i
    <3>2. QED  BY <2>1, <2>3, <3>1, <1>2, UnnamedFact
  <2>4. QED  BY <2>2, <2>3
<1> HIDE DEF x, dir, changes
<1>7. /\ TypeOK' /\ parents' = parents
      /\ inode'[i] = x /\ inode'[d] = dir
      /\ \A y \in Inos : y # i /\ y # d => inode'[y] = inode[y]
  <2> HIDE DEF i, freed
  <2>1. QED  BY <1>1, <1>2, <1>3, <1>6, PairFact DEF Inv
<1>8. inode'[d].nlink = inode[d].nlink - One(IsDir(i))  BY <1>1, <1>3, <1>4, <1>7 DEF One
<1> HIDE DEF freed
<1>9. Replaced(i, d, n)
  BY <1>1, <1>4, <1>5, <1>6, <1>7 DEF Replaced
<1>10. Unlisted(d, n, i)  BY <1>3, <1>7, <1>8 DEF Unlisted
<1>11. TypeOK' /\ parents' = parents /\ Has(d, n)
       /\ \A y \in Inos : y # i /\ y # d => inode'[y] = inode[y]
  BY <1>1, <1>7
<1> HIDE DEF i
<1>12. i = inode[d].names[n]  BY DEF i
<1>13. QED  BY <1>9, <1>10, <1>11, <1>12, RemoveStep

\* So does the removal of an empty directory.
LEMMA RemoveDirectoryStep ==
  ASSUME Inv, NEW d \in Inos, NEW n \in Names, RemoveDirectory(d, n)
  PROVE  Inv'
<1> DEFINE i == inode[d].names[n]
           e == inode[d]
           names == Without(e.names, n)
           changed == Changed(e, names, e.up)
           k == e.nlink - 1
           dir == [changed EXCEPT !.nlink = ParentLinks(d)]
           x == Emptied(inode[i])
           changes == <<GivenBack(i), Charge(d, inode[d], dir, 0)>>
<1>1. /\ IsDir(d) /\ Has(d, n) /\ IsDir(i) /\ DOMAIN inode[i].names = {}
      /\ Commit([y \in {i, d} |-> IF y = i THEN x ELSE dir], changes)
  BY DEF RemoveDirectory, Removable
<1>2. i \in Inos /\ NamesOf(i) = {<<d, n>>} /\ i # d
  <2>1. i \in InUse \ {Root} /\ NamesOf(i) = {<<d, n>>} /\ i # d  BY <1>1, NamesOfFact
  <2>2. QED  BY <2>1 DEF InUse
<1>3. /\ dir \in Inode /\ dir.names = names /\ dir.up = e.up /\ dir.kind = e.kind
      /\ dir.nlink = k /\ dir.gen = e.gen /\ dir.pointers = e.pointers
  <2>1. e \in Inode  BY DEF Inv, TypeOK
  <2>2. e.names \in NameMaps /\ k \in Int  BY <2>1 DEF Inode
  <2>3. names \in NameMaps  BY <2>2, WithoutFact
  <2>4. dir = [changed EXCEPT !.nlink = k]  BY DEF ParentLinks
  <2> HIDE DEF e, names, dir, k
  <2>5. /\ changed \in Inode /\ changed.names = names /\ changed.up = e.up
        /\ changed.kind = e.kind /\ changed.gen = e.gen /\ changed.pointers = e.pointers
    BY <2>1, <2>3, EditFact
  <2> HIDE DEF changed
  <2>6. QED  BY <2>2, <2>4, <2>5, LinkedFact
<1>4. inode[i] \in Inode /\ inode[i].names = NoNames
  <2>1. inode[i] \in Inode  BY <1>2 DEF Inv, TypeOK
  <2>2. inode[i].names \in NameMaps  BY <2>1 DEF Inode
  <2>3. QED  BY <1>1, <2>1, <2>2, EmptyNames
<1>5. x \in Inode /\ x.kind = "free" /\ x.names = NoNames  BY <1>4, EmptiedFact
<1> HIDE DEF x, dir, changes
<1>6. /\ TypeOK' /\ parents' = parents
      /\ inode'[i] = x /\ inode'[d] = dir
      /\ \A y \in Inos : y # i /\ y # d => inode'[y] = inode[y]
  <2> HIDE DEF i
  <2>1. QED  BY <1>1, <1>2, <1>3, <1>5, PairFact DEF Inv
<1>7. inode'[d].nlink = inode[d].nlink - One(IsDir(i))  BY <1>1, <1>3, <1>6 DEF One
<1>8. Replaced(i, d, n)  BY <1>2, <1>4, <1>5, <1>6 DEF Replaced
<1>9. Unlisted(d, n, i)  BY <1>3, <1>6, <1>7 DEF Unlisted
<1>10. TypeOK' /\ parents' = parents /\ Has(d, n)
       /\ \A y \in Inos : y # i /\ y # d => inode'[y] = inode[y]
  BY <1>1, <1>6
<1> HIDE DEF i
<1>11. i = inode[d].names[n]  BY DEF i
<1>12. QED  BY <1>8, <1>9, <1>10, <1>11, RemoveStep

\* Of the inode moved.
Moved(i, sd, f, td, t) ==
  /\ inode'[i].kind = inode[i].kind /\ inode'[i].gen = inode[i].gen
  /\ inode'[i].names = inode[i].names /\ inode'[i].nlink = inode[i].nlink
  /\ parents => inode'[i].pointers = Unpointed(inode[i], sd, f) \cup {Pointer(td, t)}
  /\ IsDir(i) => inode'[i].up = td /\ (inode[i].up = td \/ i \notin Climb(td))

\* Of the two directories.
Edited(y, i, sd, td, t) ==
  /\ inode'[y].kind = inode[y].kind /\ inode'[y].gen = inode[y].gen
  /\ inode'[y].up = inode[y].up /\ inode'[y].pointers = inode[y].pointers
  /\ inode'[y].nlink = inode[y].nlink - One(IsDir(i) /\ y = sd) + One(IsDir(i) /\ y = td)
                                      - One(IsDir(i) /\ y = td /\ Has(td, t))

\* A move takes one entry out and puts one in, which may have been another's.
LEMMA MoveEntries ==
  ASSUME NEW N \in [Inos -> NameMaps], NEW sd \in Inos, NEW f \in Names, NEW td \in Inos,
         NEW t \in Names, NEW i \in Inos
  PROVE  \A j : Entries(Put(Take(N, sd, f), td, t, i), j) =
                  IF j = i THEN (Entries(N, j) \ {<<sd, f>>}) \cup {<<td, t>>}
                           ELSE (Entries(N, j) \ {<<sd, f>>}) \ {<<td, t>>}
<1> DEFINE M == Take(N, sd, f)
<1>1. M \in [Inos -> NameMaps] /\ \A j : Entries(M, j) = Entries(N, j) \ {<<sd, f>>}  BY TakeFact
<1> HIDE DEF M
<1>2. \A j : Entries(Put(M, td, t, i), j) =
               IF j = i THEN Entries(M, j) \cup {<<td, t>>} ELSE Entries(M, j) \ {<<td, t>>}
  BY <1>1, PutFact
<1>3. QED  BY <1>1, <1>2 DEF M

\* The same of the names after a move.
LEMMA MoveNamesOf ==
  ASSUME TypeOK, NEW sd \in Inos, NEW f \in Names, NEW td \in Inos, NEW t \in Names,
         NEW i \in Inos, NamesAt' = Put(Take(NamesAt, sd, f), td, t, i)
  PROVE  \A j \in Inos : NamesOf(j)' =
           IF j = i THEN (NamesOf(j) \ {<<sd, f>>}) \cup {<<td, t>>}
                    ELSE (NamesOf(j) \ {<<sd, f>>}) \ {<<td, t>>}
<1>1. NamesAt \in [Inos -> NameMaps]  BY NamesAtType
<1>2. \A j : Entries(NamesAt', j) =
               IF j = i THEN (Entries(NamesAt, j) \ {<<sd, f>>}) \cup {<<td, t>>}
                        ELSE (Entries(NamesAt, j) \ {<<sd, f>>}) \ {<<td, t>>}
  BY <1>1, MoveEntries
<1>3. QED  BY <1>2, NamesOfIs, NamesOfNext

\* A move that does to the inodes what Moved, Edited and Replaced say preserves
\* the invariant.  That a directory is not moved below itself (i is not on the
\* walk up from td) is what keeps the tree.
LEMMA MoveStep ==
  ASSUME Inv, TypeOK', parents' = parents,
         NEW sd \in Inos, NEW f \in Names, NEW td \in Inos, NEW t \in Names,
         Has(sd, f), IsDir(td), NEW i, i = inode[sd].names[f], i # sd, i # td,
         NEW v, Has(td, t) => /\ v = inode[td].names[t] /\ v \notin {i, sd, td}
                              /\ IsDir(v) <=> IsDir(i)
                              /\ Replaced(v, td, t),
         NamesAt' = Put(Take(NamesAt, sd, f), td, t, i),
         Moved(i, sd, f, td, t), Edited(sd, i, sd, td, t), Edited(td, i, sd, td, t),
         \A y \in Inos : y \notin {i, sd, td} /\ ~(Has(td, t) /\ y = v) => inode'[y] = inode[y]
  PROVE  Inv'
<1> DEFINE off == {<<sd, f>>}
           on == {<<td, t>>}
           gone == IF Has(td, t) /\ NamesOf(v) = on THEN {v} ELSE {}
<1>1. i \in InUse \ {Root} /\ i \in Inos /\ <<sd, f>> \in NamesOf(i) /\ IsDir(sd)
  <2>1. i \in InUse \ {Root} /\ <<sd, f>> \in NamesOf(i) /\ IsDir(sd)  BY NamesOfFact
  <2>2. QED  BY <2>1 DEF InUse
<1>2. Has(td, t) => v \in InUse \ {Root} /\ v \in Inos /\ <<td, t>> \in NamesOf(v)
  <2>1. ASSUME Has(td, t) PROVE v \in InUse \ {Root} /\ <<td, t>> \in NamesOf(v)
    BY <2>1, NamesOfFact
  <2>2. QED  BY <2>1 DEF InUse
<1>3. \A j \in Inos : <<td, t>> \in NamesOf(j) => Has(td, t) /\ j = v  BY DEF NamesOf
<1>4. \A j \in Inos : j # i => <<sd, f>> \notin NamesOf(j)  BY <1>1, OneInode
<1>5. <<td, t>> \notin NamesOf(i)  BY <1>1, <1>3
<1>6. EntryStep(i, off, on)
  <2>3. \A j \in Inos : NamesOf(j)' = IF j = i THEN (NamesOf(j) \ off) \cup on
                                      ELSE (NamesOf(j) \ off) \ on
    <3>1. TypeOK  BY DEF Inv
    <3>2. QED  BY <1>1, <3>1, MoveNamesOf
  <2>4. \A j \in Inos : NamesOf(j)' = IF j = i THEN (NamesOf(j) \ off) \cup on ELSE NamesOf(j) \ on
    BY <2>3, <1>4
  <2>5. on \subseteq Inos \X Names /\ on \cap NamesOf(i) = {} /\ \A w \in on : IsDir(w[1])
    BY <1>5
  <2>6. QED  BY <2>4, <2>5, <1>1 DEF EntryStep
<1>7. gone \in SUBSET Inos /\ \A x \in gone : x = v /\ Has(td, t) /\ NamesOf(v) = on  BY <1>2
<1>8. \A y \in Inos \ gone : inode'[y].kind = inode[y].kind /\ inode'[y].gen = inode[y].gen
  BY DEF Moved, Edited, Replaced
<1>9. \A x \in gone : inode'[x].kind = "free" /\ inode[x].names = NoNames /\ inode'[x].names = NoNames
  BY <1>7 DEF Replaced
<1>10. OnlyDirsName'
  <2>1. inode'[Root].kind = "dir"
    <3>1. Root \in Inos \ gone  BY <1>2, <1>7, NoNamesType
    <3>2. QED  BY <3>1, <1>8 DEF Inv, OnlyDirsName, IsDir
  <2>2. ASSUME NEW y \in Inos, inode'[y].kind # "dir" PROVE inode'[y].names = NoNames
    <3>1. CASE y \in gone  BY <3>1, <1>9
    <3>2. CASE y \notin gone
      <4>1. ~IsDir(y)  BY <3>2, <2>2, <1>8 DEF IsDir
      <4>2. y # sd /\ y # td  BY <4>1, <1>1
      <4>3. inode'[y].names = inode[y].names  BY <4>2, <3>2 DEF Moved, Replaced
      <4>4. QED  BY <4>1, <4>3 DEF Inv, OnlyDirsName
    <3>3. QED  BY <3>1, <3>2
  <2>3. QED  BY <2>1, <2>2 DEF OnlyDirsName, IsDir
<1>11. KindStep(i, {}, gone)
  <2>1. ASSUME NEW y \in InUse' \ {Root} PROVE NamesOf(y)' # {}
    <3>1. y \in Inos /\ inode'[y].kind # "free"  BY DEF InUse
    <3>2. y \notin gone  BY <3>1, <1>9
    <3>3. y \in InUse \ {Root}  BY <3>1, <3>2, <1>8 DEF InUse
    <3>4. NamesOf(y) # {}  BY <3>3 DEF Inv, Entered
    <3>5. CASE y = i  BY <3>5, <1>1, <1>6 DEF EntryStep
    <3>6. CASE y # i
      <4>1. NamesOf(y)' = NamesOf(y) \ on  BY <3>1, <3>6, <1>6 DEF EntryStep
      <4>2. NamesOf(y) # on  BY <3>1, <3>2, <1>3
      <4>3. QED  BY <3>4, <4>1, <4>2
    <3>7. QED  BY <3>5, <3>6
  <2>2. ASSUME NEW x \in gone
        PROVE  /\ x # Root /\ inode'[x].kind = "free"
               /\ DOMAIN inode[x].names = {} /\ NamesOf(x)' = {}
    <3>1. x = v /\ x # i /\ x # Root /\ x \in Inos /\ NamesOf(x) = on  BY <1>2, <1>7
    <3>2. NamesOf(x)' = NamesOf(x) \ on  BY <3>1, <1>6 DEF EntryStep
    <3>3. QED  BY <3>1, <3>2, <1>9, NoNamesType
  <2>3. QED  BY <2>1, <2>2, <1>1, <1>8 DEF KindStep
<1>12. UpStep(i, off, on, {})
  <2>1. ASSUME NEW x \in Inos, inode'[x].kind = "dir", x # i PROVE inode'[x].up = inode[x].up
    <3>1. CASE x \in {sd, td}  BY <3>1 DEF Edited
    <3>2. CASE x \notin {sd, td}
      <4>1. ~(Has(td, t) /\ x = v)  BY <2>1 DEF Replaced, IsDir
      <4>2. QED  BY <3>2, <4>1, <2>1
    <3>3. QED  BY <3>1, <3>2
  <2>2. ASSUME inode'[i].kind = "dir"
        PROVE  /\ \E n \in Names : on = {<<inode'[i].up, n>>}
               /\ off # {} /\ (inode'[i].up = inode[i].up \/ i \notin Climb(inode'[i].up))
    <3>1. inode'[i].up = td /\ (inode[i].up = td \/ i \notin Climb(td))  BY <2>2 DEF Moved, IsDir
    <3>2. QED  BY <3>1
  <2>3. QED  BY <2>1, <2>2 DEF UpStep
<1>13. LinkStep(i, off, on, {})
  <2>1. AboutDir(i, {}) <=> IsDir(i)  BY DEF AboutDir
  <2>2. \A j \in Inos : on \cap NamesOf(j) # {} <=> Has(td, t) /\ j = v  BY <1>2, <1>3
  <2>3. Taken(on) <=> Has(td, t)  BY <2>2, <1>2 DEF Taken
  <2>4. \A y : (At(on, y) <=> y = td) /\ (At(off, y) <=> y = sd)  BY DEF At
  <2>5. ASSUME NEW y \in InUse'
        PROVE  IF inode'[y].kind = "dir"
               THEN inode'[y].nlink = inode[y].nlink - One(IsDir(i) /\ y = sd)
                      + One(IsDir(i) /\ y = td) - One(IsDir(i) /\ y = td /\ Has(td, t))
               ELSE inode'[y].nlink = inode[y].nlink - One(y = i) + One(y = i)
                      - One(y # i /\ Has(td, t) /\ y = v)
    <3>1. y \in Inos /\ inode[y].nlink \in Int /\ inode'[y].kind # "free"
      BY DEF InUse, Inv, TypeOK, Inode
    <3>2. CASE y \in {sd, td}  BY <3>2, <1>1 DEF Edited, IsDir
    <3>3. CASE y = i
      <4>1. inode'[i].nlink = inode[i].nlink  BY DEF Moved
      <4>2. y # sd /\ y # td  BY <3>3
      <4>3. /\ One(IsDir(i) /\ y = sd) = 0 /\ One(IsDir(i) /\ y = td) = 0
            /\ One(IsDir(i) /\ y = td /\ Has(td, t)) = 0
        BY <4>2 DEF One
      <4>4. One(y = i) = 1 /\ One(y # i /\ Has(td, t) /\ y = v) = 0  BY <3>3 DEF One
      <4>5. /\ inode'[y].nlink = inode[y].nlink - 0 + 0 - 0
            /\ inode'[y].nlink = inode[y].nlink - 1 + 1 - 0
        BY <3>1, <3>3, <4>1
      <4>6. QED  BY <4>3, <4>4, <4>5, Zenon
    <3>4. CASE y = v /\ Has(td, t)  BY <3>1, <3>4 DEF Replaced, One, IsDir
    <3>5. CASE y \notin {i, sd, td} /\ ~(Has(td, t) /\ y = v)  BY <3>1, <3>5 DEF One
    <3>6. QED  BY <3>2, <3>3, <3>4, <3>5
  <2>6. \A j \in Inos : on \cap NamesOf(j) # {} => (IsDir(j) <=> AboutDir(i, {}))  BY <2>1, <2>2
  <2>7. \A y \in InUse' : y \in Inos  BY DEF InUse
  <2>8. ASSUME NEW y \in InUse'
        PROVE  IF inode'[y].kind = "dir"
               THEN inode'[y].nlink = (IF y \in {} THEN 2 ELSE inode[y].nlink)
                                - One(AboutDir(i, {}) /\ At(off, y))
                                + One(AboutDir(i, {}) /\ At(on, y))
                                - One(AboutDir(i, {}) /\ At(on, y) /\ Taken(on))
               ELSE inode'[y].nlink = (IF y \in {} THEN 0 ELSE inode[y].nlink)
                                - One(y = i /\ off # {}) + One(y = i /\ on # {})
                                - One(y # i /\ on \cap NamesOf(y) # {})
    <3>1. y \in Inos /\ (on \cap NamesOf(y) # {} <=> Has(td, t) /\ y = v)  BY <2>2, <2>7
    <3>2. off # {} /\ on # {}  OBVIOUS
    <3> HIDE DEF off, on
    <3>3. QED  BY <2>1, <2>3, <2>4, <2>5, <3>1, <3>2 DEF One
  <2>9. QED  BY <2>6, <2>8 DEF LinkStep
<1>14. BackStep(i, off, on, {}, gone)
  <2>1. ASSUME parents, NEW y \in InUse'
        PROVE  inode'[y].pointers =
         {p \in inode[y].pointers : ~Match(p, IF y = i THEN off ELSE on)}
         \cup (IF y = i THEN {Pointer(w[1], w[2]) : w \in on} ELSE {})
    <3>1. y \in Inos /\ inode'[y].kind # "free" /\ y \notin gone  BY <1>9 DEF InUse
    <3>2. y \in InUse  BY <3>1, <1>8 DEF InUse
    <3>3. CASE y = i
      <4>1. inode'[i].pointers = Unpointed(inode[i], sd, f) \cup {Pointer(td, t)}
        BY <2>1 DEF Moved
      <4>2. QED  BY <3>3, <4>1 DEF Unpointed, Match
    <3>4. CASE y = v /\ Has(td, t)
      <4>1. inode'[v].pointers = Unpointed(inode[v], td, t)  BY <2>1, <3>1, <3>4 DEF Replaced
      <4>2. QED  BY <3>4, <4>1 DEF Unpointed, Match
    <3>5. CASE y # i /\ ~(Has(td, t) /\ y = v)
      <4>1. on \cap NamesOf(y) = {}  BY <3>1, <3>5, <1>3
      <4>2. {p \in inode[y].pointers : ~Match(p, on)} = inode[y].pointers
        BY <2>1, <3>2, <4>1, NoMatch
      <4>3. inode'[y].pointers = inode[y].pointers  BY <3>1, <3>5 DEF Edited
      <4>4. QED  BY <3>5, <4>2, <4>3
    <3>6. QED  BY <3>3, <3>4, <3>5
  <2>2. QED  BY <2>1, <1>8 DEF BackStep
<1> HIDE DEF gone, off, on
<1>15. QED  BY <1>6, <1>7, <1>10, <1>11, <1>12, <1>13, <1>14, InvStep

\* The pointer a moved inode gets.
Repointed(i, z, sd, f, td, t) == Pointed(z, Unpointed(inode[i], sd, f), {Pointer(td, t)})

\* What a change of attributes keeps.
Kept(z, y) ==
  /\ y \in Inode /\ y.kind = z.kind /\ y.nlink = z.nlink /\ y.gen = z.gen
  /\ y.names = z.names /\ y.up = z.up

\* The pointer of a moved inode, and what the change of it leaves alone.
LEMMA RepointedFact ==
  ASSUME TypeOK, NEW i \in Inos, NEW z \in Inode, NEW sd, NEW f, NEW td \in Inos, NEW t \in Names
  PROVE  /\ Kept(z, Repointed(i, z, sd, f, td, t))
         /\ parents => Repointed(i, z, sd, f, td, t).pointers = Unpointed(inode[i], sd, f) \cup {Pointer(td, t)}
<1> DEFINE p == Unpointed(inode[i], sd, f)
           q == {Pointer(td, t)}
           y == Pointed(z, p, q)
<1>1. inode[i] \in Inode /\ inode[td] \in Inode  BY DEF TypeOK
<1>2. p \in SUBSET Pointers  BY <1>1 DEF Unpointed, Inode
<1>3. q \in SUBSET Pointers  BY <1>1 DEF Pointer, Pointers, Inode
<1>4. /\ y \in Inode /\ y.kind = z.kind /\ y.nlink = z.nlink /\ y.gen = z.gen
      /\ y.names = z.names /\ y.up = z.up
      /\ y.pointers = IF parents THEN p \cup q ELSE z.pointers
  <2> HIDE DEF p, q
  <2>1. QED  BY <1>2, <1>3, PointedFact
<1>5. QED  BY <1>4 DEF Repointed, Kept

\* A rename within a directory is such a move.
LEMMA RenameInDirectoryStep ==
  ASSUME Inv, NEW d \in Inos, NEW f \in Names, NEW t \in Names, RenameInDirectory(d, f, t)
  PROVE  Inv'
<1> DEFINE i == inode[d].names[f]
           e == inode[d]
           names == With(Without(e.names, f), t, i)
           dir == Changed(e, names, e.up)
           x == Pointed(inode[i], Unpointed(inode[i], d, f), {Pointer(d, t)})
           changes == <<Charge(d, inode[d], dir, 0), Charge(i, inode[i], x, 0)>>
<1>1. /\ IsDir(d) /\ Has(d, f) /\ ~Has(d, t)
      /\ Commit([y \in {i, d} |-> IF y = i THEN x ELSE dir], changes)
  BY DEF RenameInDirectory
<1>2. i \in Inos /\ i # d /\ (IsDir(i) => inode[i].up = d)
  <2>1. i \in InUse \ {Root}  BY <1>1, NamesOfFact
  <2>2. IsDir(i) => inode[i].up = d /\ i # d  BY <1>1, NamesOfFact
  <2>3. QED  BY <2>1, <2>2, <1>1 DEF InUse
<1>3. e \in Inode /\ inode[i] \in Inode /\ e.nlink \in Int
  <2>1. e \in Inode /\ inode[i] \in Inode  BY <1>2 DEF Inv, TypeOK
  <2>2. QED  BY <2>1 DEF Inode
<1>4. /\ dir \in Inode /\ dir.names = names /\ dir.up = e.up /\ dir.kind = e.kind
      /\ dir.nlink = e.nlink /\ dir.gen = e.gen /\ dir.pointers = e.pointers
  <2>1. e.names \in NameMaps  BY <1>3 DEF Inode
  <2>2. Without(e.names, f) \in NameMaps  BY <2>1, WithoutFact
  <2>3. names \in NameMaps  BY <2>2, <1>2, WithFact
  <2> HIDE DEF e, names
  <2>4. QED  BY <1>3, <2>3, EditFact
<1>5. /\ x \in Inode /\ x.kind = inode[i].kind /\ x.nlink = inode[i].nlink
      /\ x.gen = inode[i].gen /\ x.names = inode[i].names /\ x.up = inode[i].up
      /\ parents => x.pointers = Unpointed(inode[i], d, f) \cup {Pointer(d, t)}
  <2>1. TypeOK /\ i \in Inos /\ inode[i] \in Inode  BY <1>2, <1>3 DEF Inv
  <2>2. x = Repointed(i, inode[i], d, f, d, t)  BY DEF Repointed
  <2> HIDE DEF i, x
  <2>3. /\ Kept(inode[i], x)
        /\ parents => x.pointers = Unpointed(inode[i], d, f) \cup {Pointer(d, t)}
    BY <2>1, <2>2, RepointedFact
  <2>4. QED  BY <2>3 DEF Kept
<1> HIDE DEF x, dir, changes
<1>6. /\ TypeOK' /\ parents' = parents
      /\ inode'[i] = x /\ inode'[d] = dir
      /\ \A y \in Inos : y # i /\ y # d => inode'[y] = inode[y]
  <2> HIDE DEF i
  <2>1. QED  BY <1>1, <1>2, <1>4, <1>5, PairFact DEF Inv
<1>7. NamesAt' = Put(Take(NamesAt, d, f), d, t, i)
  <2>1. \A y \in Inos : inode'[y].names = IF y = d THEN names ELSE inode[y].names
    BY <1>2, <1>4, <1>5, <1>6
  <2>2. QED  BY <2>1 DEF NamesAt, Put, Take
<1>8. Moved(i, d, f, d, t)  BY <1>2, <1>5, <1>6 DEF Moved
<1>9. Edited(d, i, d, d, t)  BY <1>1, <1>3, <1>4, <1>6 DEF Edited, One
<1>10. \A y \in Inos : y \notin {i, d, d} /\ ~(Has(d, t) /\ y = d) => inode'[y] = inode[y]
  BY <1>6
<1>11. TypeOK' /\ parents' = parents  BY <1>6
<1>12. QED  BY <1>1, <1>2, <1>7, <1>8, <1>9, <1>10, <1>11, MoveStep

\* The directory a rename takes the name from: its entries and its links.
LEMMA SourceFact ==
  ASSUME Inv, NEW sd \in Inos, NEW f \in Names, NEW td \in Inos, NEW t \in Names,
         NEW i \in Inos, i = Target(sd, f), Has(td, t) => (IsDir(Target(td, t)) <=> IsDir(i)),
         NEW y, y = SourceAfter(sd, f, td, t)
  PROVE  /\ y \in Inode /\ y.up = inode[sd].up /\ y.kind = inode[sd].kind /\ y.gen = inode[sd].gen
         /\ y.pointers = inode[sd].pointers
         /\ y.names = IF sd = td THEN With(Without(inode[sd].names, f), t, i)
                                 ELSE Without(inode[sd].names, f)
         /\ y.nlink = inode[sd].nlink - One(IsDir(i)) + One(IsDir(i) /\ sd = td)
                                      - One(IsDir(i) /\ sd = td /\ Has(td, t))
<1> DEFINE e == inode[sd]
           left == Without(e.names, f)
           names == IF sd = td THEN With(left, t, i) ELSE left
           z == Changed(e, names, e.up)
           k == SourceLinks(sd, f, td, t)
<1>1. e \in Inode  BY DEF Inv, TypeOK
<1>2. e.names \in NameMaps /\ e.nlink \in Int  BY <1>1 DEF Inode
<1>3. left \in NameMaps  BY <1>2, WithoutFact
<1>4. names \in NameMaps  BY <1>3, WithFact
<1>5. k = e.nlink - One(IsDir(i)) + One(IsDir(i) /\ sd = td) - One(IsDir(i) /\ sd = td /\ Has(td, t))
  BY <1>2 DEF SourceLinks, One
<1>6. k \in Int  BY <1>2, <1>5 DEF One
<1>7. y = [z EXCEPT !.nlink = k]  BY DEF SourceAfter
<1> HIDE DEF e, names, k
<1>8. /\ z \in Inode /\ z.names = names /\ z.up = e.up /\ z.kind = e.kind
      /\ z.gen = e.gen /\ z.pointers = e.pointers
  BY <1>1, <1>4, EditFact
<1> HIDE DEF z
<1>9. /\ y \in Inode /\ y.names = z.names /\ y.up = z.up /\ y.kind = z.kind /\ y.gen = z.gen
      /\ y.pointers = z.pointers /\ y.nlink = k
  BY <1>6, <1>7, <1>8, LinkedFact
<1>10. QED  BY <1>5, <1>8, <1>9 DEF e, names

\* The directory it puts the name in.
LEMMA DestinationFact ==
  ASSUME Inv, NEW sd \in Inos, NEW f \in Names, NEW td \in Inos, NEW t \in Names,
         NEW i \in Inos, i = Target(sd, f), Has(td, t) => (IsDir(Target(td, t)) <=> IsDir(i)),
         NEW y, y = DestinationAfter(sd, f, td, t)
  PROVE  /\ y \in Inode /\ y.up = inode[td].up /\ y.kind = inode[td].kind /\ y.gen = inode[td].gen
         /\ y.pointers = inode[td].pointers
         /\ y.names = With(inode[td].names, t, i)
         /\ y.nlink = inode[td].nlink + One(IsDir(i)) - One(IsDir(i) /\ Has(td, t))
<1> DEFINE e == inode[td]
           names == With(e.names, t, i)
           z == Changed(e, names, e.up)
           k == DestinationLinks(sd, f, td, t)
<1>1. e \in Inode  BY DEF Inv, TypeOK
<1>2. e.names \in NameMaps /\ e.nlink \in Int  BY <1>1 DEF Inode
<1>3. names \in NameMaps  BY <1>2, WithFact
<1>4. k = e.nlink + One(IsDir(i)) - One(IsDir(i) /\ Has(td, t))  BY DEF DestinationLinks, One
<1>5. k \in Int  BY <1>2, <1>4 DEF One
<1>6. y = [z EXCEPT !.nlink = k]  BY DEF DestinationAfter
<1> HIDE DEF e, names, k
<1>7. /\ z \in Inode /\ z.names = names /\ z.up = e.up /\ z.kind = e.kind
      /\ z.gen = e.gen /\ z.pointers = e.pointers
  BY <1>1, <1>3, EditFact
<1> HIDE DEF z
<1>8. /\ y \in Inode /\ y.names = z.names /\ y.up = z.up /\ y.kind = z.kind /\ y.gen = z.gen
      /\ y.pointers = z.pointers /\ y.nlink = k
  BY <1>5, <1>6, <1>7, LinkedFact
<1>9. QED  BY <1>4, <1>7, <1>8 DEF e, names

\* The inode it moves: a directory gets its new parent.
LEMMA ReparentedFact ==
  ASSUME Inv, NEW i \in Inos, NEW sd \in Inos, NEW td \in Inos
  PROVE  LET y == Reparented(i, sd, td)
         IN  /\ y \in Inode /\ y.kind = inode[i].kind /\ y.nlink = inode[i].nlink
             /\ y.gen = inode[i].gen /\ y.names = inode[i].names
             /\ y.up = IF IsDir(i) /\ sd # td THEN td ELSE inode[i].up
<1>1. inode[i] \in Inode  BY DEF Inv, TypeOK
<1>2. CASE IsDir(i) /\ sd # td
  <2> DEFINE x == inode[i]
             y == Changed(x, x.names, td)
  <2>1. x.names \in NameMaps  BY <1>1 DEF Inode
  <2> HIDE DEF x
  <2>2. y \in Inode /\ y.names = x.names /\ y.up = td /\ SameBut(x, y)
    BY <2>1, <1>1, ChangedFact DEF x
  <2>3. QED  BY <1>2, <2>2 DEF SameBut, Reparented, x
<1>3. CASE ~(IsDir(i) /\ sd # td)  BY <1>1, <1>3 DEF Reparented
<1>4. QED  BY <1>2, <1>3

\* A rename between directories is such a move.
LEMMA RenameStep ==
  ASSUME Inv, NEW sd \in Inos, NEW f \in Names, NEW td \in Inos, NEW t \in Names,
         Rename(sd, f, td, t)
  PROVE  Inv'
<1> DEFINE i == Target(sd, f)
           v == Target(td, t)
           has == Has(td, t)
           xi == MovedAfter(i, sd, f, td, t)
           xv == ReplacedAfter(td, t)
           xs == SourceAfter(sd, f, td, t)
           xd == DestinationAfter(sd, f, td, t)
           R == RenameRecord(sd, f, td, t)
           changes == RenameQuota(sd, f, td, t)
<1>1. /\ IsDir(sd) /\ IsDir(td) /\ Has(sd, f)
      /\ has => v # i /\ (IsDir(i) <=> IsDir(v)) /\ (IsDir(v) => DOMAIN inode[v].names = {})
      /\ IsDir(i) /\ sd # td => i \notin Climb(td)
      /\ Commit(R, changes)
  BY DEF Rename, RenameAllowed, Beneath
<1>2. /\ i \in Inos /\ i # sd /\ i # td
      /\ IsDir(i) => inode[i].up = sd
  <2>1. i \in InUse \ {Root}  BY <1>1, NamesOfFact DEF Target
  <2>2. IsDir(i) => inode[i].up = sd /\ i # sd  BY <1>1, NamesOfFact DEF Target
  <2>3. td \in Climb(td)  BY ClimbStarts DEF Inv
  <2>4. QED  BY <2>1, <2>2, <2>3, <1>1 DEF InUse
<1>3. has => /\ v \in Inos /\ v \in InUse /\ v # sd /\ v # td /\ <<td, t>> \in NamesOf(v)
             /\ IsDir(v) => NamesOf(v) = {<<td, t>>}
  <2>1. SUFFICES ASSUME has
                 PROVE  /\ v \in Inos /\ v \in InUse /\ v # sd /\ v # td /\ <<td, t>> \in NamesOf(v)
                        /\ IsDir(v) => NamesOf(v) = {<<td, t>>}
    OBVIOUS
  <2>2. v \in InUse \ {Root} /\ <<td, t>> \in NamesOf(v)  BY <2>1, NamesOfFact DEF Target
  <2>3. IsDir(v) => NamesOf(v) = {<<td, t>>} /\ v # td  BY <2>1, NamesOfFact DEF Target
  <2>4. v # sd  BY <1>1, <2>1 DEF Has
  <2>5. QED  BY <2>2, <2>3, <2>4, <1>1 DEF InUse
<1>4. /\ xi \in Inode /\ xi.kind = inode[i].kind /\ xi.nlink = inode[i].nlink
      /\ xi.gen = inode[i].gen /\ xi.names = inode[i].names
      /\ xi.up = (IF IsDir(i) /\ sd # td THEN td ELSE inode[i].up)
      /\ parents => xi.pointers = Unpointed(inode[i], sd, f) \cup {Pointer(td, t)}
  <2> DEFINE z == Reparented(i, sd, td)
  <2>1. xi = Repointed(i, z, sd, f, td, t)  BY DEF MovedAfter, Repointed
  <2>2. TypeOK /\ i \in Inos  BY <1>2 DEF Inv
  <2> HIDE DEF i, xi
  <2>3. /\ z \in Inode /\ z.kind = inode[i].kind /\ z.nlink = inode[i].nlink
        /\ z.gen = inode[i].gen /\ z.names = inode[i].names
        /\ z.up = IF IsDir(i) /\ sd # td THEN td ELSE inode[i].up
    BY <2>2, ReparentedFact
  <2> HIDE DEF z
  <2>4. /\ Kept(z, xi)
        /\ parents => xi.pointers = Unpointed(inode[i], sd, f) \cup {Pointer(td, t)}
    BY <2>1, <2>2, <2>3, RepointedFact
  <2>5. QED  BY <2>3, <2>4 DEF Kept
<1>5. has => (IsDir(v) <=> IsDir(i))  BY <1>1
<1>6. /\ xs \in Inode /\ xs.up = inode[sd].up /\ xs.kind = inode[sd].kind
      /\ xs.gen = inode[sd].gen /\ xs.pointers = inode[sd].pointers
      /\ xs.names = (IF sd = td THEN With(Without(inode[sd].names, f), t, i)
                     ELSE Without(inode[sd].names, f))
      /\ xs.nlink = inode[sd].nlink - One(IsDir(i)) + One(IsDir(i) /\ sd = td)
                                    - One(IsDir(i) /\ sd = td /\ has)
  BY <1>2, <1>5, SourceFact
<1>7. /\ xd \in Inode /\ xd.up = inode[td].up /\ xd.kind = inode[td].kind
      /\ xd.gen = inode[td].gen /\ xd.pointers = inode[td].pointers
      /\ xd.names = With(inode[td].names, t, i)
      /\ xd.nlink = inode[td].nlink + One(IsDir(i)) - One(IsDir(i) /\ has)
  BY <1>2, <1>5, DestinationFact
<1>8. has => /\ xv \in Inode
             /\ \/ /\ NamesOf(v) = {<<td, t>>} /\ inode[v].names = NoNames
                   /\ xv.kind = "free" /\ xv.names = NoNames
                \/ /\ NamesOf(v) # {<<td, t>>} /\ ~IsDir(v)
                   /\ xv.kind = inode[v].kind /\ xv.names = inode[v].names
                   /\ xv.gen = inode[v].gen /\ xv.nlink = inode[v].nlink - 1
                   /\ parents => xv.pointers = Unpointed(inode[v], td, t)
  <2>1. ASSUME has
        PROVE  /\ xv \in Inode
               /\ \/ /\ NamesOf(v) = {<<td, t>>} /\ inode[v].names = NoNames
                     /\ xv.kind = "free" /\ xv.names = NoNames
                  \/ /\ NamesOf(v) # {<<td, t>>} /\ ~IsDir(v)
                     /\ xv.kind = inode[v].kind /\ xv.names = inode[v].names
                     /\ xv.gen = inode[v].gen /\ xv.nlink = inode[v].nlink - 1
                     /\ parents => xv.pointers = Unpointed(inode[v], td, t)
    <3>1. TypeOK /\ v \in Inos /\ inode[v] \in Inode  BY <1>3, <2>1 DEF Inv, TypeOK
    <3>2. inode[v].names \in NameMaps  BY <3>1 DEF Inode
    <3>3. FreesReplaced(td, t) <=> NamesOf(v) = {<<td, t>>}
      <4>1. CASE IsDir(v)  BY <4>1, <1>3, <2>1 DEF FreesReplaced
      <4>2. CASE ~IsDir(v)
        <5>1. FreesReplaced(td, t) <=> inode[v].nlink <= 1  BY <2>1, <4>2 DEF FreesReplaced
        <5> HIDE DEF v
        <5>2. inode[v].nlink <= 1 <=> NamesOf(v) = {<<td, t>>}  BY <1>3, <2>1, <4>2, LastName
        <5>3. QED  BY <5>1, <5>2
      <4>3. QED  BY <4>1, <4>2
    <3>4. CASE FreesReplaced(td, t)
      <4>1. xv = Emptied(inode[v])  BY <3>4 DEF ReplacedAfter
      <4>2. inode[v].names = NoNames
        <5>1. CASE IsDir(v)  BY <5>1, <3>2, <1>1, <2>1, EmptyNames
        <5>2. CASE ~IsDir(v)  BY <5>2, <3>1 DEF Inv, OnlyDirsName
        <5>3. QED  BY <5>1, <5>2
      <4>3. QED  BY <4>1, <4>2, <3>1, <3>3, <3>4, EmptiedFact
    <3>5. CASE ~FreesReplaced(td, t)
      <4>1. xv = Unnamed(v, td, t)  BY <3>5 DEF ReplacedAfter
      <4>2. ~IsDir(v) /\ NamesOf(v) # {<<td, t>>}  BY <3>3, <3>5, <1>3, <2>1
      <4> HIDE DEF v, xv
      <4>3. /\ xv \in Inode /\ xv.kind = inode[v].kind /\ xv.names = inode[v].names
            /\ xv.gen = inode[v].gen /\ xv.nlink = inode[v].nlink - 1
            /\ parents => xv.pointers = Unpointed(inode[v], td, t)
        BY <4>1, <3>1, UnnamedFact
      <4>4. QED  BY <4>2, <4>3
    <3>6. QED  BY <3>4, <3>5
  <2>2. QED  BY <2>1
<1>9. /\ DOMAIN R = {sd, td, i} \cup (IF has THEN {v} ELSE {})
      /\ R[i] = xi /\ (has => R[v] = xv) /\ R[sd] = xs /\ (sd # td => R[td] = xd)
  <2>1. DOMAIN R = {sd, td, i} \cup (IF has THEN {v} ELSE {})  BY DEF RenameRecord
  <2>2. \A y \in DOMAIN R : R[y] = IF y = i THEN xi
                                   ELSE IF has /\ y = v THEN xv
                                   ELSE IF y = sd THEN xs ELSE xd
    BY DEF RenameRecord
  <2> HIDE DEF R, i, v, has, xi, xv, xs, xd
  <2>3. QED  BY <2>1, <2>2, <1>1, <1>2, <1>3
<1> HIDE DEF xi, xv, xs, xd, R, changes, i, v, has
<1>10. DOMAIN R \subseteq Inos /\ \A y \in DOMAIN R : R[y] \in Inode
  BY <1>2, <1>3, <1>4, <1>6, <1>7, <1>8, <1>9
<1>11. /\ TypeOK' /\ parents' = parents
       /\ \A y \in Inos : inode'[y] = IF y \in DOMAIN R THEN R[y] ELSE inode[y]
  BY <1>1, <1>10, CommitFact DEF Inv
<1>12. /\ inode'[i] = xi /\ (has => inode'[v] = xv) /\ inode'[sd] = xs
       /\ (sd # td => inode'[td] = xd)
       /\ \A y \in Inos : y \notin {i, sd, td} /\ ~(has /\ y = v) => inode'[y] = inode[y]
  BY <1>2, <1>3, <1>9, <1>11
<1>13. Moved(i, sd, f, td, t)
  <2>1. IsDir(i) => xi.up = td /\ (inode[i].up = td \/ i \notin Climb(td))  BY <1>1, <1>2, <1>4
  <2>2. QED  BY <2>1, <1>4, <1>12 DEF Moved
<1>14. inode[sd].nlink \in Int /\ inode[td].nlink \in Int  BY DEF Inv, TypeOK, Inode
<1>15. Edited(sd, i, sd, td, t)  BY <1>6, <1>12, <1>14 DEF Edited, One, has
<1>16. Edited(td, i, sd, td, t)
  <2>1. CASE sd = td  BY <2>1, <1>15
  <2>2. CASE sd # td  BY <2>2, <1>7, <1>12, <1>14 DEF Edited, One, has
  <2>3. QED  BY <2>1, <2>2
<1>17. has => Replaced(v, td, t)  BY <1>8, <1>12 DEF Replaced
<1>18. NamesAt' = Put(Take(NamesAt, sd, f), td, t, i)
  <2> DEFINE N == NamesAt
  <2>1. has => inode'[v].names = inode[v].names  BY <1>17 DEF Replaced
  <2>2. \A y \in Inos : y # sd /\ y # td => inode'[y].names = inode[y].names
    BY <2>1, <1>4, <1>12
  <2>3. CASE sd = td
    <3>1. \A y \in Inos : inode'[y].names =
                            IF y = td THEN With(Without(inode[sd].names, f), t, i) ELSE inode[y].names
      BY <2>2, <2>3, <1>6, <1>12
    <3>2. QED  BY <2>3, <3>1 DEF NamesAt, Put, Take
  <2>4. CASE sd # td
    <3>1. \A y \in Inos : inode'[y].names =
                            IF y = td THEN With(inode[td].names, t, i)
                            ELSE IF y = sd THEN Without(inode[sd].names, f) ELSE inode[y].names
      BY <2>2, <2>4, <1>6, <1>7, <1>12
    <3>2. QED  BY <2>4, <3>1 DEF NamesAt, Put, Take
  <2>5. QED  BY <2>3, <2>4
<1>19. /\ Has(sd, f) /\ IsDir(td) /\ i = inode[sd].names[f] /\ i # sd /\ i # td
       /\ Has(td, t) => /\ v = inode[td].names[t] /\ v \notin {i, sd, td}
                        /\ IsDir(v) <=> IsDir(i)
                        /\ Replaced(v, td, t)
  BY <1>1, <1>2, <1>3, <1>5, <1>17 DEF i, v, has, Target
<1>20. TypeOK' /\ parents' = parents  BY <1>11
<1>21. \A y \in Inos : y \notin {i, sd, td} /\ ~(Has(td, t) /\ y = v) => inode'[y] = inode[y]
  BY <1>12 DEF has
<1>22. QED  BY <1>13, <1>15, <1>16, <1>18, <1>19, <1>20, <1>21, MoveStep

\* What keeps the tree, the links and the pointers: the attributes of an
\* inode and its blocks are not part of them.
SameTree ==
  /\ parents' = parents
  /\ \A x \in Inos : /\ inode'[x].kind = inode[x].kind /\ inode'[x].nlink = inode[x].nlink
                     /\ inode'[x].gen = inode[x].gen /\ inode'[x].names = inode[x].names
                     /\ inode'[x].up = inode[x].up /\ inode'[x].pointers = inode[x].pointers

\* A step that leaves them alone preserves the invariant.
LEMMA SameTreeInv ==
  ASSUME Inv, TypeOK', SameTree
  PROVE  Inv'
<1>1. Root \in Inos  BY NoNamesType
<1>2. InUse' = InUse /\ Dirs' = Dirs  BY DEF InUse, Dirs, IsDir, SameTree
<1>3. \A j : NamesOf(j)' = NamesOf(j)
  <2>1. NamesAt' = NamesAt  BY DEF NamesAt, SameTree
  <2>2. QED  BY <2>1, NamesOfIs, NamesOfNext, NamesAtType DEF Inv
<1>4. OnlyDirsName'  BY <1>1 DEF OnlyDirsName, IsDir, SameTree, Inv
<1>5. \A x \in Dirs : inode'[x].up = inode[x].up  BY DEF Dirs, SameTree
<1>6. Entered'  BY <1>2, <1>3, <1>5 DEF Entered, Inv
<1>7. Rooted'  BY <1>2, <1>5 DEF Rooted, Inv
<1>8. \A x \in Inos : SubNames(x)' = SubNames(x)
  <2>1. \A x \in Inos : IsDir(x)' <=> IsDir(x)  BY DEF IsDir, SameTree
  <2>2. QED  BY <2>1, <1>3, SubNamesIs, SubNamesNext DEF Inv
<1>9. LinksCount'
  <2>1. ASSUME NEW x \in InUse
        PROVE  inode'[x].nlink = IF inode'[x].kind = "dir" THEN 2 + Cardinality(SubNames(x)')
                                                          ELSE Cardinality(NamesOf(x)')
    <3>1. x \in Inos  BY DEF InUse
    <3>2. inode[x].nlink = IF IsDir(x) THEN 2 + Cardinality(SubNames(x)) ELSE Cardinality(NamesOf(x))
      BY DEF Inv, LinksCount, SubNames
    <3>3. inode'[x].nlink = inode[x].nlink /\ inode'[x].kind = inode[x].kind  BY <3>1 DEF SameTree
    <3>4. SubNames(x)' = SubNames(x) /\ NamesOf(x)' = NamesOf(x)  BY <3>1, <1>3, <1>8
    <3>5. QED  BY <3>2, <3>3, <3>4 DEF IsDir
  <2>2. QED  BY <2>1, <1>2 DEF LinksCount, SubNames, IsDir
<1>10. PointersAgree'
  <2>1. ASSUME NEW x \in InUse, parents
        PROVE  inode'[x].pointers = {Pointer(e[1], e[2])' : e \in NamesOf(x)}
    <3>1. x \in Inos  BY DEF InUse
    <3>2. inode[x].pointers = {Pointer(e[1], e[2]) : e \in NamesOf(x)}  BY <2>1 DEF Inv, PointersAgree
    <3>3. \A e \in NamesOf(x) : Pointer(e[1], e[2])' = Pointer(e[1], e[2])
      BY DEF Pointer, NamesOf, SameTree
    <3>4. inode'[x].pointers = inode[x].pointers  BY <3>1 DEF SameTree
    <3>5. QED  BY <3>2, <3>3, <3>4
  <2>2. parents' = parents  BY DEF SameTree
  <2>3. QED  BY <2>1, <2>2, <1>2, <1>3 DEF PointersAgree
<1>11. QED  BY <1>4, <1>6, <1>7, <1>9, <1>10 DEF Inv

\* An attribute is set or removed.
LEMMA SetXattrStep ==
  ASSUME Inv, NEW i \in Inos, SetXattr(i)
  PROVE  Inv'
<1> DEFINE x == Refork(inode[i], {}, ~inode[i].xattr)
           new == [y \in {i} |-> x]
           changes == <<Charge(i, inode[i], x, 0)>>
<1>1. inode[i].pointers = {} /\ Commit(new, changes)  BY DEF SetXattr, Settable
<1>2. inode[i] \in Inode /\ {} \in SUBSET Pointers  BY DEF Inv, TypeOK
<1>3. /\ x \in Inode /\ x.pointers = {} /\ x.kind = inode[i].kind /\ x.nlink = inode[i].nlink
      /\ x.gen = inode[i].gen /\ x.names = inode[i].names /\ x.up = inode[i].up
  <2> DEFINE a == ~inode[i].xattr
  <2>1. a \in BOOLEAN  OBVIOUS
  <2> HIDE DEF a
  <2>2. QED  BY <2>1, <1>2, ReforkFact, ZenonT(60) DEF a
<1>4. DOMAIN new = {i} /\ new[i] = x  OBVIOUS
<1> HIDE DEF x, new, changes
<1>5. /\ TypeOK' /\ parents' = parents
      /\ \A y \in Inos : inode'[y] = IF y \in {i} THEN new[y] ELSE inode[y]
  BY <1>1, <1>3, <1>4, CommitFact DEF Inv
<1>6. SameTree  BY <1>1, <1>3, <1>4, <1>5 DEF SameTree
<1>7. QED  BY <1>5, <1>6, SameTreeInv

\* Init establishes the invariant: a root of its own.
LEMMA InitInv ==
  ASSUME Init
  PROVE  Inv
<1> DEFINE r == [Freed(0) EXCEPT !.kind = "dir", !.nlink = 2]
<1>1. Root \in Inos /\ DOMAIN NoNames = {} /\ NoNames \in NameMaps  BY NoNamesType
<1>2. Freed(0) \in Inode /\ Freed(0).kind = "free" /\ Freed(0).names = NoNames /\ Freed(0).pointers = {}
  BY FreedFact DEF Freed
<1>3. r \in Inode /\ r.kind = "dir" /\ r.nlink = 2 /\ r.names = NoNames /\ r.pointers = {}
  <2> DEFINE z == Freed(0)
             k == "dir"
  <2>1. z \in Inode /\ k \in Kinds  BY <1>2 DEF Kinds
  <2> HIDE DEF z, k
  <2> DEFINE w == [z EXCEPT !.kind = k]
  <2>2. w \in Inode  BY <2>1 DEF Inode
  <2>3. w.kind = k /\ w.names = z.names /\ w.pointers = z.pointers  BY <2>1 DEF Inode
  <2>4. r = [w EXCEPT !.nlink = 2]  BY <2>1 DEF z, k, Inode
  <2> HIDE DEF w, r
  <2>5. /\ r \in Inode /\ r.kind = w.kind /\ r.nlink = 2
        /\ r.names = w.names /\ r.pointers = w.pointers
    BY <2>2, <2>4, LinkedFact
  <2>6. QED  BY <2>3, <2>5, <1>2 DEF z, k
<1>4. \A x \in Inos : inode[x] = IF x = Root THEN r ELSE Freed(0)  BY DEF Init
<1> HIDE DEF r
<1>5. TypeOK  BY <1>2, <1>3, <1>4 DEF Init, TypeOK
<1>6. \A x \in Inos : inode[x].names = NoNames /\ inode[x].pointers = {}  BY <1>2, <1>3, <1>4
<1>7. \A x \in Inos : inode[x].kind = IF x = Root THEN "dir" ELSE "free"  BY <1>2, <1>3, <1>4
<1>8. \A j : NamesOf(j) = {}  BY <1>1, <1>6 DEF NamesOf, Has
<1>9. InUse = {Root} /\ Dirs = {Root}  BY <1>1, <1>7 DEF InUse, Dirs, IsDir
<1>10. OnlyDirsName  BY <1>1, <1>6, <1>7 DEF OnlyDirsName, IsDir
<1>11. Entered /\ Rooted  BY <1>8, <1>9 DEF Entered, Rooted
<1>12. LinksCount
  <2>1. SubNames(Root) = {}  BY <1>1, <1>6 DEF SubNames
  <2>2. inode[Root].nlink = 2 + Cardinality({})  BY <1>1, <1>3, <1>4, FS_EmptySet
  <2>3. IsDir(Root)  BY <1>1, <1>7 DEF IsDir
  <2>4. QED  BY <2>1, <2>2, <2>3, <1>9 DEF LinksCount, SubNames
<1>13. PointersAgree  BY <1>1, <1>6, <1>8, <1>9 DEF PointersAgree
<1>14. QED  BY <1>5, <1>10, <1>11, <1>12, <1>13 DEF Inv

\* Every step preserves it.
LEMMA NextInv ==
  ASSUME Inv, [Next]_vars
  PROVE  Inv'
<1>1. CASE Next
  <2>1. PICK d \in Inos :
    \/ \E n \in Names :
         \/ \E kind \in {"file", "dir", "symlink"}, long \in BOOLEAN : Create(d, n, kind, long)
         \/ \E i \in Inos : Link(i, d, n)
         \/ Unlink(d, n)
         \/ RemoveDirectory(d, n)
         \/ \E t \in Names :
              \/ RenameInDirectory(d, n, t)
              \/ \E td \in Inos : Rename(d, n, td, t)
    \/ SetXattr(d)
    BY <1>1 DEF Next
  <2>2. QED
    BY <2>1, CreateStep, LinkStepInv, UnlinkStep, RemoveDirectoryStep, RenameInDirectoryStep,
       RenameStep, SetXattrStep
<1>2. CASE UNCHANGED vars
  <2>1. parents' = parents /\ inode' = inode  BY <1>2 DEF vars
  <2>2. TypeOK' /\ SameTree  BY <2>1 DEF Inv, TypeOK, SameTree
  <2>3. QED  BY <2>2, SameTreeInv
<1>3. QED  BY <1>1, <1>2

\* The invariant holds throughout.
LEMMA AlwaysInv == Spec => []Inv
<1>1. Init => Inv  BY InitInv
<1>2. Inv /\ [Next]_vars => Inv'  BY NextInv
<1>3. QED  BY <1>1, <1>2, PTL DEF Spec

\* No sequence of creates, links, removals and renames leaves a directory
\* outside the tree, below itself, or with two names; no name leads nowhere.
THEOREM TreeTheorem == Spec => []OneTree
<1>1. Inv => OneTree  BY InvOneTree
<1>2. QED  BY <1>1, AlwaysInv, PTL

\* Every link count is the number of names there are.
THEOREM LinksTheorem == Spec => []LinksCount
<1>1. Inv => LinksCount  BY DEF Inv
<1>2. QED  BY <1>1, AlwaysInv, PTL

\* The parent pointers of an inode are its names.
THEOREM PointersTheorem == Spec => []PointersAgree
<1>1. Inv => PointersAgree  BY DEF Inv
<1>2. QED  BY <1>1, AlwaysInv, PTL

-----------------------------------------------------------------------------
(* Blocks and usage *)

\* What an inode weighs in the two counts.
Blocks(x) == IF x.kind = "free" THEN 0 ELSE x.nblocks
Used(x)   == IF x.kind = "free" THEN 0 ELSE 1

\* An edit keeps the block count exact, or is one of those Miscounts names.
Settled(old, new) ==
  Counted(old) =>
    \/ Counted(new)
    \/ old.ablocks > 0 /\ ~new.local /\ <<new.names, new.up>> # <<old.names, old.up>>

\* What happens to an inode of a record, as far as its block count goes.
Entails(old, new) ==
  \/ new.kind = "free"
  \/ Counted(new)
  \/ old.kind # "free" /\ Settled(old, new)

\* A record of the inodes new, charged by the changes: change k is that of
\* the inode xs[k], exactly, unless a directory has grown by a move.
Recorded(new, changes, xs) ==
  /\ Commit(new, changes)
  /\ DOMAIN new \subseteq Inos
  /\ \A x \in DOMAIN new : new[x] \in Inode /\ Entails(inode[x], new[x])
  /\ IsFiniteSet(DOMAIN changes)
  /\ xs \in [DOMAIN changes -> DOMAIN new]
  /\ \A j \in DOMAIN changes : \A k \in DOMAIN changes : xs[j] = xs[k] => j = k
  /\ \A x \in DOMAIN new : \E k \in DOMAIN changes : x = xs[k]
  /\ \A k \in DOMAIN changes :
       /\ changes[k].ids = OwnersOf[xs[k]]
       /\ changes[k].inodes = Used(new[xs[k]]) - Used(inode[xs[k]])
       /\ changes[k].blocks \in Int
       /\ uncharged' = {} => changes[k].blocks = Blocks(new[xs[k]]) - Blocks(inode[xs[k]])
  /\ uncharged' = {} => uncharged = {}

\* What Accepted lets through: no count below zero, no enforced owner past
\* its limit.
LimitsHold ==
  dquot \in Dquots /\ \A id \in Enforced : ~Over(HardBlocks[id], dquot[id].blocks) /\ ~Over(HardInodes[id], dquot[id].inodes)

\* The invariant: that of the tree, for the types, what the quota records may
\* hold, and the two properties.
Books == Inv /\ BlocksCounted /\ LimitsHold /\ UsageMatches

-----------------------------------------------------------------------------
(* What a record does to the books *)

\* The block counts of a record's inodes are exact, or it says which are not.
LEMMA RecordBlocks ==
  ASSUME Inv, BlocksCounted, NEW new, NEW changes, NEW xs, Recorded(new, changes, xs)
  PROVE  BlocksCounted'
<1>1. Commit(new, changes)  BY DEF Recorded
<1>2. \A x \in Inos : inode'[x] = IF x \in DOMAIN new THEN new[x] ELSE inode[x]
  BY <1>1 DEF Commit
<1>3. miscounted' = (miscounted \ {i \in DOMAIN new : new[i].kind = "free"})
                      \cup UNION {Miscounts(i, inode[i], new[i]) : i \in DOMAIN new}
  BY <1>1 DEF Commit
<1>4. SUFFICES ASSUME NEW i \in InUse' \ miscounted'
              PROVE  Counted(inode'[i])
  BY DEF BlocksCounted, Counted
<1>5. i \in Inos /\ inode'[i].kind # "free"  BY DEF InUse
<1>6. CASE i \notin DOMAIN new
  <2>1. inode'[i] = inode[i]  BY <1>2, <1>5, <1>6
  <2>2. i \in InUse \ miscounted  BY <2>1, <1>3, <1>5, <1>6 DEF InUse
  <2>3. QED  BY <2>1, <2>2 DEF BlocksCounted, Counted
<1>7. CASE i \in DOMAIN new
  <2>1. inode'[i] = new[i]  BY <1>2, <1>5, <1>7
  <2>2. i \notin miscounted  BY <2>1, <1>3, <1>5
  <2>3. i \notin Miscounts(i, inode[i], new[i])  BY <1>3, <1>7
  <2>4. Entails(inode[i], new[i])  BY <1>7 DEF Recorded
  <2>5. CASE Counted(new[i])  BY <2>1, <2>5
  <2>6. CASE inode[i].kind # "free" /\ Settled(inode[i], new[i])
    <3>1. Counted(inode[i])  BY <2>2, <2>6, <1>5 DEF InUse, BlocksCounted, Counted
    <3>2. QED  BY <2>1, <2>3, <2>6, <3>1 DEF Settled, Miscounts
  <2>7. QED  BY <2>1, <2>4, <2>5, <2>6, <1>5 DEF Entails
<1>8. QED  BY <1>6, <1>7

\* The changes of one owner, zeros for the others.
Part(changes, id, count) ==
  [k \in DOMAIN changes |-> IF id \in changes[k].ids THEN changes[k][count] ELSE 0]

\* What is added to an owner's count is the sum of its changes.
LEMMA AddedIs ==
  ASSUME NEW changes, IsFiniteSet(DOMAIN changes), NEW id, NEW count,
         \A k \in DOMAIN changes : changes[k][count] \in Int
  PROVE  /\ Part(changes, id, count) \in [DOMAIN changes -> Int]
         /\ Added(changes, id, count) = SumFunction(Part(changes, id, count))
         /\ Added(changes, id, count) \in Int
<1> DEFINE K == DOMAIN changes
           at == {k \in K : id \in changes[k].ids}
           g == Part(changes, id, count)
           h == [k \in at |-> changes[k][count]]
<1>1. g \in [K -> Int] /\ at \in SUBSET K /\ \A k \in K \ at : g[k] = 0  BY DEF Part
<1>2. h = [k \in at |-> g[k]]  BY DEF Part
<1>3. Added(changes, id, count) = SumFunction(h)  BY DEF Added
<1> HIDE DEF K, at, g, h
<1>4. SumFunction(g) = SumFunction([k \in at |-> g[k]])  BY <1>1, SumZeros DEF K
<1>5. SumFunction(g) \in Int  BY <1>1, SumType DEF K
<1>6. QED  BY <1>1, <1>2, <1>3, <1>4, <1>5 DEF K, g

\* A dquot no change concerns is added nothing.
LEMMA AddedNothing ==
  ASSUME NEW changes, IsFiniteSet(DOMAIN changes), NEW id, NEW count,
         \A k \in DOMAIN changes : id \in changes[k].ids => changes[k][count] = 0
  PROVE  Added(changes, id, count) = 0
<1> DEFINE at == {k \in DOMAIN changes : id \in changes[k].ids}
           h == [k \in at |-> changes[k][count]]
<1>1. IsFiniteSet(at) /\ h \in [at -> Int] /\ \A k \in at : h[k] = 0  BY FS_Subset
<1>2. Added(changes, id, count) = SumFunction(h)  BY DEF Added
<1> HIDE DEF at, h
<1>3. QED  BY <1>1, <1>2, SumNothing

\* The two counts of a record's changes are integers.
LEMMA RecordedCounts ==
  ASSUME Inv, NEW new, NEW changes, NEW xs, Recorded(new, changes, xs)
  PROVE  /\ IsFiniteSet(DOMAIN changes)
         /\ \A k \in DOMAIN changes : changes[k]["blocks"] \in Int /\ changes[k]["inodes"] \in Int
<1>1. ASSUME NEW k \in DOMAIN changes
      PROVE  changes[k].blocks \in Int /\ changes[k].inodes \in Int
  <2>1. changes[k].blocks \in Int /\ changes[k].inodes = Used(new[xs[k]]) - Used(inode[xs[k]])
    BY DEF Recorded
  <2>2. \A x : Used(x) \in Int  BY DEF Used
  <2>3. QED  BY <2>1, <2>2
<1>2. QED  BY <1>1 DEF Recorded

\* A record adds to every dquot the sum of the changes that concern it.
LEMMA AdjustedIs ==
  ASSUME Inv, dquot \in Dquots, NEW new, NEW changes, NEW xs, Recorded(new, changes, xs),
         NEW id \in Ids
  PROVE  /\ dquot'[id].blocks = dquot[id].blocks + Added(changes, id, "blocks")
         /\ dquot'[id].inodes = dquot[id].inodes + Added(changes, id, "inodes")
         /\ Added(changes, id, "blocks") \in Int
         /\ Added(changes, id, "inodes") \in Int
         /\ dquot[id].blocks \in Nat /\ dquot[id].inodes \in Nat
<1>1. dquot' = Adjusted(dquot, changes)  BY DEF Recorded, Commit
<1>2. IsFiniteSet(DOMAIN changes)  BY RecordedCounts
<1>3. Added(changes, id, "blocks") \in Int
  <2>1. \A k \in DOMAIN changes : changes[k]["blocks"] \in Int  BY RecordedCounts
  <2>2. QED  BY <2>1, <1>2, AddedIs
<1>4. Added(changes, id, "inodes") \in Int
  <2>1. \A k \in DOMAIN changes : changes[k]["inodes"] \in Int  BY RecordedCounts
  <2>2. QED  BY <2>1, <1>2, AddedIs
<1>5. dquot[id].blocks \in Nat /\ dquot[id].inodes \in Nat  BY DEF Dquots
<1>6. CASE id \in Touched(changes)
  <2>1. dquot'[id] = [blocks |-> dquot[id].blocks + Delta(changes, id).blocks,
                      inodes |-> dquot[id].inodes + Delta(changes, id).inodes]
    BY <1>1, <1>6 DEF Adjusted
  <2>2. QED  BY <2>1, <1>3, <1>4, <1>5 DEF Delta
<1>7. CASE id \notin Touched(changes)
  <2>1. dquot'[id] = dquot[id]  BY <1>1, <1>7 DEF Adjusted
  <2>2. \A k \in DOMAIN changes : id \in changes[k].ids => changes[k].blocks = 0 /\ changes[k].inodes = 0
    BY <1>7 DEF Touched
  <2>3. Added(changes, id, "blocks") = 0  BY <2>2, <1>2, AddedNothing
  <2>4. Added(changes, id, "inodes") = 0  BY <2>2, <1>2, AddedNothing
  <2>5. QED  BY <2>1, <2>3, <2>4, <1>5
<1>8. QED  BY <1>3, <1>4, <1>5, <1>6, <1>7

\* A record that is accepted takes no count below zero and no enforced owner
\* past a limit.
LEMMA RecordLimits ==
  ASSUME Inv, LimitsHold, NEW new, NEW changes, NEW xs, Recorded(new, changes, xs)
  PROVE  LimitsHold'
<1>1. dquot' = Adjusted(dquot, changes) /\ Accepted(dquot, changes)  BY DEF Recorded, Commit
<1>2. dquot \in Dquots  BY DEF LimitsHold
<1>3. dquot' = [id \in Ids |-> dquot'[id]]  BY <1>1 DEF Adjusted
<1>4. ASSUME NEW id \in Ids
      PROVE  /\ dquot'[id] \in [blocks : Nat, inodes : Nat]
             /\ id \in Enforced => /\ ~Over(HardBlocks[id], dquot'[id].blocks)
                                   /\ ~Over(HardInodes[id], dquot'[id].inodes)
  <2>1. CASE id \in Touched(changes)
    <3>1. ~Refuses(id, dquot'[id])  BY <1>1, <2>1 DEF Accepted
    <3>2. dquot'[id].blocks \in Int /\ dquot'[id].inodes \in Int  BY <1>2, AdjustedIs
    <3>3. dquot'[id] = [blocks |-> dquot'[id].blocks, inodes |-> dquot'[id].inodes]
      BY <1>1, <2>1 DEF Adjusted
    <3>4. dquot'[id].blocks \in Nat /\ dquot'[id].inodes \in Nat  BY <3>1, <3>2 DEF Refuses
    <3>5. dquot'[id] \in [blocks : Nat, inodes : Nat]  BY <3>3, <3>4
    <3>6. QED  BY <3>1, <3>5 DEF Refuses
  <2>2. CASE id \notin Touched(changes)
    <3>1. dquot'[id] = dquot[id]  BY <1>1, <2>2 DEF Adjusted
    <3>2. QED  BY <3>1 DEF LimitsHold, Dquots
  <2>3. QED  BY <2>1, <2>2
<1>5. dquot' \in Dquots  BY <1>3, <1>4 DEF Dquots
<1>6. QED  BY <1>4, <1>5, QuotaAssumption DEF LimitsHold

\* What an owner holds of the inodes J, inode by inode.
Mine(J, id)       == {i \in Inos : J[i].kind # "free" /\ id \in OwnersOf[i]}
HeldBlocks(J, id) == [x \in Inos |-> IF id \in OwnersOf[x] THEN Blocks(J[x]) ELSE 0]
HeldInodes(J, id) == [x \in Inos |-> IF id \in OwnersOf[x] THEN Used(J[x]) ELSE 0]

\* The sums of check's quota.usage are over all inodes.
LEMMA UsageIs ==
  ASSUME NEW J \in [Inos -> Inode], NEW id
  PROVE  /\ HeldBlocks(J, id) \in [Inos -> Int] /\ HeldInodes(J, id) \in [Inos -> Int]
         /\ SumFunction([i \in Mine(J, id) |-> J[i].nblocks]) = SumFunction(HeldBlocks(J, id))
         /\ Cardinality(Mine(J, id)) = SumFunction(HeldInodes(J, id))
<1> DEFINE mine == Mine(J, id)
           b == HeldBlocks(J, id)
           u == HeldInodes(J, id)
<1>1. b \in [Inos -> Int] /\ u \in [Inos -> Int]  BY DEF HeldBlocks, HeldInodes, Blocks, Used, Inode
<1>2. IsFiniteSet(Inos) /\ mine \in SUBSET Inos /\ IsFiniteSet(mine)
  <2>1. IsFiniteSet(Inos)  BY NamespaceAssumption, FS_Interval DEF Inos
  <2>2. mine \in SUBSET Inos  BY DEF Mine
  <2>3. QED  BY <2>1, <2>2, FS_Subset
<1>3. \A x \in Inos \ mine : b[x] = 0 /\ u[x] = 0  BY DEF HeldBlocks, HeldInodes, Blocks, Used, Mine
<1>4. [i \in mine |-> J[i].nblocks] = [i \in mine |-> b[i]]  BY DEF HeldBlocks, Blocks, Mine
<1>5. [i \in mine |-> 1] = [i \in mine |-> u[i]]  BY DEF HeldInodes, Used, Mine
<1> HIDE DEF mine, b, u
<1>6. SumFunction(b) = SumFunction([i \in mine |-> b[i]])  BY <1>1, <1>2, <1>3, SumZeros
<1>7. SumFunction(u) = SumFunction([i \in mine |-> u[i]])  BY <1>1, <1>2, <1>3, SumZeros
<1>8. SumFunction([i \in mine |-> 1]) = Cardinality(mine)  BY <1>2, SumOnes
<1>9. QED  BY <1>1, <1>4, <1>5, <1>6, <1>7, <1>8 DEF mine, b, u

\* The sums move as the changes say, blocks and inodes.
LEMMA SumsMove ==
  ASSUME Inv, inode' \in [Inos -> Inode], NEW new, NEW changes, NEW xs,
         Recorded(new, changes, xs), NEW id
  PROVE  /\ uncharged' = {} =>
              SumFunction(HeldBlocks(inode', id)) =
                SumFunction(HeldBlocks(inode, id)) + Added(changes, id, "blocks")
         /\ SumFunction(HeldInodes(inode', id)) =
              SumFunction(HeldInodes(inode, id)) + Added(changes, id, "inodes")
<1> DEFINE K == DOMAIN changes
           pb == Part(changes, id, "blocks")
           pu == Part(changes, id, "inodes")
           b == HeldBlocks(inode, id)
           u == HeldInodes(inode, id)
           bb == HeldBlocks(inode', id)
           uu == HeldInodes(inode', id)
<1>1. /\ DOMAIN new \subseteq Inos /\ xs \in [K -> Inos] /\ IsFiniteSet(K)
      /\ \A j \in K : \A k \in K : xs[j] = xs[k] => j = k
  BY DEF Recorded
<1>2. inode \in [Inos -> Inode]  BY DEF Inv, TypeOK
<1>3. IsFiniteSet(Inos)  BY NamespaceAssumption, FS_Interval DEF Inos
<1>4. /\ \A x \in Inos : inode'[x] = IF x \in DOMAIN new THEN new[x] ELSE inode[x]
      /\ \A x \in DOMAIN new : \E k \in K : x = xs[k]
      /\ xs \in [K -> DOMAIN new]
  BY DEF Recorded, Commit
<1>5. \A y \in Inos : (\A k \in K : y # xs[k]) => inode'[y] = inode[y]  BY <1>4
<1>6. \A k \in K : xs[k] \in Inos /\ inode'[xs[k]] = new[xs[k]]  BY <1>1, <1>4
<1>7. \A y \in Inos : Blocks(inode[y]) \in Int /\ Blocks(inode'[y]) \in Int
                      /\ Used(inode[y]) \in Int /\ Used(inode'[y]) \in Int
  BY <1>2 DEF Blocks, Used, Inode
<1>8. /\ b \in [Inos -> Int] /\ u \in [Inos -> Int] /\ bb \in [Inos -> Int] /\ uu \in [Inos -> Int]
  BY <1>2, UsageIs
<1>9. pb \in [K -> Int] /\ Added(changes, id, "blocks") = SumFunction(pb)
  <2>1. \A k \in K : changes[k]["blocks"] \in Int  BY RecordedCounts
  <2>2. QED  BY <2>1, <1>1, AddedIs
<1>10. pu \in [K -> Int] /\ Added(changes, id, "inodes") = SumFunction(pu)
  <2>1. \A k \in K : changes[k]["inodes"] \in Int  BY RecordedCounts
  <2>2. QED  BY <2>1, <1>1, AddedIs
<1>11. \A y \in Inos : (\A k \in K : y # xs[k]) => bb[y] = b[y] /\ uu[y] = u[y]
  BY <1>5 DEF HeldBlocks, HeldInodes
<1>12. ASSUME NEW k \in K PROVE uu[xs[k]] = u[xs[k]] + pu[k]
  <2>1. /\ changes[k].ids = OwnersOf[xs[k]]
        /\ changes[k].inodes = Used(inode'[xs[k]]) - Used(inode[xs[k]])
    BY <1>6 DEF Recorded
  <2>2. xs[k] \in Inos /\ Used(inode[xs[k]]) \in Int /\ Used(inode'[xs[k]]) \in Int  BY <1>6, <1>7
  <2>3. QED  BY <2>1, <2>2 DEF HeldInodes, Part
<1>13. ASSUME uncharged' = {}, NEW k \in K PROVE bb[xs[k]] = b[xs[k]] + pb[k]
  <2>1. /\ changes[k].ids = OwnersOf[xs[k]]
        /\ changes[k].blocks = Blocks(inode'[xs[k]]) - Blocks(inode[xs[k]])
    BY <1>6, <1>13 DEF Recorded
  <2>2. xs[k] \in Inos /\ Blocks(inode[xs[k]]) \in Int /\ Blocks(inode'[xs[k]]) \in Int  BY <1>6, <1>7
  <2>3. QED  BY <2>1, <2>2 DEF HeldBlocks, Part
<1> HIDE DEF K, pb, pu, b, u, bb, uu
<1>14. SumFunction(uu) = SumFunction(u) + SumFunction(pu)
  BY <1>1, <1>3, <1>8, <1>10, <1>11, <1>12, SumMoved
<1>15. ASSUME uncharged' = {} PROVE SumFunction(bb) = SumFunction(b) + SumFunction(pb)
  <2>1. \A k \in K : bb[xs[k]] = b[xs[k]] + pb[k]  BY <1>13, <1>15
  <2>2. \A y \in Inos : (\A k \in K : y # xs[k]) => bb[y] = b[y]  BY <1>11
  <2>3. QED  BY <2>1, <2>2, <1>1, <1>3, <1>8, <1>9, SumMoved
<1>16. QED  BY <1>9, <1>10, <1>14, <1>15 DEF pb, pu, b, u, bb, uu

\* The dquots follow the sums.
LEMMA RecordUsage ==
  ASSUME Inv, LimitsHold, UsageMatches, NEW new, NEW changes, NEW xs, Recorded(new, changes, xs)
  PROVE  UsageMatches'
<1>1. SUFFICES ASSUME uncharged' = {}, NEW id \in Ids
              PROVE  /\ dquot'[id].inodes = Cardinality(Mine(inode', id))
                     /\ dquot'[id].blocks = SumFunction([i \in Mine(inode', id) |-> inode'[i].nblocks])
  <2>1. \A id : {i \in InUse : id \in OwnersOf[i]}' = Mine(inode', id)  BY DEF InUse, Mine
  <2>2. QED  BY <2>1 DEF UsageMatches
<1>2. inode \in [Inos -> Inode] /\ inode' \in [Inos -> Inode]
  <2>1. TypeOK /\ TypeOK'  BY CommitFact DEF Inv, Recorded
  <2>2. QED  BY <2>1 DEF TypeOK
<1>3. uncharged = {}  BY <1>1 DEF Recorded
<1>4. {i \in InUse : id \in OwnersOf[i]} = Mine(inode, id)  BY DEF InUse, Mine
<1>5. /\ dquot[id].inodes = Cardinality(Mine(inode, id))
      /\ dquot[id].blocks = SumFunction([i \in Mine(inode, id) |-> inode[i].nblocks])
  BY <1>3, <1>4 DEF UsageMatches
<1>6. /\ dquot'[id].blocks = dquot[id].blocks + Added(changes, id, "blocks")
      /\ dquot'[id].inodes = dquot[id].inodes + Added(changes, id, "inodes")
  BY AdjustedIs DEF LimitsHold
<1>7. /\ SumFunction(HeldBlocks(inode', id)) =
           SumFunction(HeldBlocks(inode, id)) + Added(changes, id, "blocks")
      /\ SumFunction(HeldInodes(inode', id)) =
           SumFunction(HeldInodes(inode, id)) + Added(changes, id, "inodes")
  BY <1>1, <1>2, SumsMove
<1>8. QED  BY <1>2, <1>5, <1>6, <1>7, UsageIs

\* A record keeps the books.
LEMMA RecordBooks ==
  ASSUME Books, NEW new, NEW changes, NEW xs, Recorded(new, changes, xs)
  PROVE  BlocksCounted' /\ LimitsHold' /\ UsageMatches'
BY RecordBlocks, RecordLimits, RecordUsage DEF Books

-----------------------------------------------------------------------------
(* The inodes of a record *)

\* An inode rewritten, still of its kind.
Rewrote(x, y) == y \in Inode /\ y.kind = x.kind /\ Settled(x, y)

\* A directory's entries edited.
LEMMA EditSettles ==
  ASSUME NEW x \in Inode, NEW names \in NameMaps, NEW up \in Inos,
         names # x.names \/ up # x.up
  PROVE  Rewrote(x, Changed(x, names, up))
<1> DEFINE y == Changed(x, names, up)
<1>1. /\ y \in Inode /\ y.names = names /\ y.up = up /\ SameBut(x, y)
      /\ Counted(x) => Counted(y) \/ (x.ablocks # 0 /\ ~y.local)
  BY ChangedFact
<1>2. x.ablocks \in Nat  BY DEF Inode
<1> HIDE DEF y
<1>3. Settled(x, y)  BY <1>1, <1>2 DEF Settled
<1>4. QED  BY <1>1, <1>3 DEF Rewrote, SameBut, y

\* Its link count set.
LEMMA LinkSettles ==
  ASSUME NEW x, NEW y, Rewrote(x, y), NEW k \in Int
  PROVE  Rewrote(x, [y EXCEPT !.nlink = k])
<1> DEFINE z == [y EXCEPT !.nlink = k]
<1>1. y \in Inode  BY DEF Rewrote
<1>2. /\ z \in Inode /\ z.kind = y.kind /\ z.names = y.names /\ z.up = y.up /\ z.local = y.local
      /\ Counted(y) => Counted(z)
  BY <1>1, LinkedFact
<1> HIDE DEF z
<1>3. QED  BY <1>2 DEF Rewrote, Settled, z

\* Its parent pointers rebuilt.
LEMMA PointSettles ==
  ASSUME NEW x, NEW y, Rewrote(x, y), NEW remove \in SUBSET Pointers, NEW add \in SUBSET Pointers
  PROVE  Rewrote(x, Pointed(y, remove, add))
<1> DEFINE z == Pointed(y, remove, add)
<1>1. y \in Inode  BY DEF Rewrote
<1>2. /\ z \in Inode /\ z.kind = y.kind /\ z.names = y.names /\ z.up = y.up /\ z.local = y.local
      /\ Counted(y) => Counted(z)
  BY <1>1, PointedFact
<1> HIDE DEF z
<1>3. QED  BY <1>2 DEF Rewrote, Settled, z

\* An inode is itself.
LEMMA SameSettles ==
  ASSUME NEW x \in Inode
  PROVE  Rewrote(x, x)
BY DEF Rewrote, Settled

\* The change c is that of the inode p when it becomes x.
Fits(c, p, x) ==
  c = Change(OwnersOf[p], Blocks(x) - Blocks(inode[p]), Used(x) - Used(inode[p]))

\* The charge for an inode rewritten in place is the change of its blocks.
LEMMA ChargeFits ==
  ASSUME NEW p, inode[p].kind # "free", NEW x, Rewrote(inode[p], x)
  PROVE  Fits(Charge(p, inode[p], x, 0), p, x) /\ Entails(inode[p], x) /\ x \in Inode
BY DEF Fits, Charge, Grew, Blocks, Used, Rewrote, Entails

\* What is given back for an inode that goes is all it had.
LEMMA GivenBackFits ==
  ASSUME NEW p, inode[p] \in Inode, inode[p].kind # "free"
  PROVE  LET x == Emptied(inode[p])
         IN  Fits(GivenBack(p), p, x) /\ Entails(inode[p], x) /\ x \in Inode
<1> DEFINE x == Emptied(inode[p])
<1>1. x \in Inode /\ x.kind = "free"  BY EmptiedFact
<1>2. inode[p].nblocks \in Int  BY DEF Inode
<1> HIDE DEF x
<1>3. -inode[p].nblocks = 0 - inode[p].nblocks /\ -1 = 0 - 1  BY <1>2
<1>4. QED  BY <1>1, <1>3 DEF Fits, GivenBack, Blocks, Used, Entails, x

\* What Fits says of a change.
LEMMA FitsIs ==
  ASSUME NEW p, inode[p] \in Inode, NEW x \in Inode, NEW c, Fits(c, p, x)
  PROVE  /\ c.ids = OwnersOf[p] /\ c.inodes = Used(x) - Used(inode[p])
         /\ c.blocks = Blocks(x) - Blocks(inode[p]) /\ c.blocks \in Int
<1>1. x.nblocks \in Int /\ inode[p].nblocks \in Int  BY DEF Inode
<1>2. QED  BY <1>1 DEF Fits, Change, Blocks

\* The places of a sequence.
LEMMA FiniteTo ==
  ASSUME NEW n \in Nat
  PROVE  IsFiniteSet(1 .. n)
<1>1. 1 \in Int /\ n \in Int  OBVIOUS
<1>2. QED  BY <1>1, FS_Interval

\* The record of an operation on an inode and a directory.
LEMMA PairRecorded ==
  ASSUME Books, NEW p \in Inos, NEW q \in Inos, p # q, NEW new, DOMAIN new = {p, q},
         new[p] \in Inode, new[q] \in Inode,
         Entails(inode[p], new[p]), Entails(inode[q], new[q]),
         NEW c, NEW e, Commit(new, <<c, e>>), Fits(c, p, new[p]), Fits(e, q, new[q]),
         uncharged' = uncharged
  PROVE  BlocksCounted' /\ LimitsHold' /\ UsageMatches'
<1> DEFINE changes == <<c, e>>
           xs == <<p, q>>
<1>1. DOMAIN changes = {1, 2} /\ changes[1] = c /\ changes[2] = e  OBVIOUS
<1>2. xs \in [{1, 2} -> {p, q}] /\ xs[1] = p /\ xs[2] = q  OBVIOUS
<1>3. IsFiniteSet({1, 2})
  <2>1. 1 .. 2 = {1, 2}  OBVIOUS
  <2>2. IsFiniteSet(1 .. 2)  BY FiniteTo
  <2>3. QED  BY <2>1, <2>2
<1>4. inode[p] \in Inode /\ inode[q] \in Inode  BY DEF Books, Inv, TypeOK
<1>5. /\ c.ids = OwnersOf[p] /\ c.inodes = Used(new[p]) - Used(inode[p])
      /\ c.blocks = Blocks(new[p]) - Blocks(inode[p]) /\ c.blocks \in Int
  BY <1>4, FitsIs
<1>6. /\ e.ids = OwnersOf[q] /\ e.inodes = Used(new[q]) - Used(inode[q])
      /\ e.blocks = Blocks(new[q]) - Blocks(inode[q]) /\ e.blocks \in Int
  BY <1>4, FitsIs
<1> HIDE DEF changes, xs
<1>7. \A k \in {1, 2} :
       /\ changes[k].ids = OwnersOf[xs[k]]
       /\ changes[k].inodes = Used(new[xs[k]]) - Used(inode[xs[k]])
       /\ changes[k].blocks \in Int
       /\ changes[k].blocks = Blocks(new[xs[k]]) - Blocks(inode[xs[k]])
  BY <1>1, <1>2, <1>5, <1>6
<1>8. /\ \A j \in {1, 2} : \A k \in {1, 2} : xs[j] = xs[k] => j = k
      /\ \A x \in {p, q} : \E k \in {1, 2} : x = xs[k]
  BY <1>2
<1>9. Recorded(new, changes, xs)  BY <1>1, <1>2, <1>3, <1>7, <1>8 DEF Recorded, changes
<1>10. QED  BY <1>9, RecordBooks

-----------------------------------------------------------------------------
(* The operations *)

\* A directory is given an entry.
LEMMA GivenSettles ==
  ASSUME NEW x \in Inode, NEW n \in Names \ DOMAIN x.names, NEW i \in Inos
  PROVE  /\ Rewrote(x, Changed(x, With(x.names, n, i), x.up))
         /\ Changed(x, With(x.names, n, i), x.up).nlink = x.nlink
<1> DEFINE names == With(x.names, n, i)
<1>1. x.names \in NameMaps /\ x.up \in Inos  BY DEF Inode
<1>2. names \in NameMaps /\ DOMAIN names = DOMAIN x.names \cup {n}  BY <1>1, WithFact
<1>3. names # x.names  BY <1>2
<1> HIDE DEF names
<1>4. QED  BY <1>1, <1>2, <1>3, EditSettles, EditFact DEF names

\* A new inode i and its name.
LEMMA CreateRecord ==
  ASSUME Books, NEW d \in Inos, NEW n \in Names, NEW kind \in {"file", "dir", "symlink"},
         NEW long, NEW i \in Inos, inode[i].kind = "free", IsDir(d), ~Has(d, n),
         NEW x, x = Created(i, d, n, kind, long),
         NEW dir, dir = ParentAfter(d, n, i, kind),
         Commit([y \in {i, d} |-> IF y = i THEN x ELSE dir], CreateQuota(d, dir, i, x)),
         uncharged' = uncharged
  PROVE  BlocksCounted' /\ LimitsHold' /\ UsageMatches'
<1> DEFINE e == inode[d]
           changed == Changed(e, With(e.names, n, i), e.up)
           k == e.nlink + (IF kind = "dir" THEN 1 ELSE 0)
           new == [y \in {i, d} |-> IF y = i THEN x ELSE dir]
           c == Change(OwnersOf[i], x.nblocks, 1)
           f == Charge(d, inode[d], dir, 0)
<1>1. Commit(new, <<c, f>>)  BY DEF CreateQuota
<1>2. i # d /\ inode[d].kind # "free"  BY DEF IsDir
<1>3. e \in Inode /\ n \in Names \ DOMAIN e.names  BY DEF Books, Inv, TypeOK, Has
<1>4. e.nlink \in Int  BY <1>3 DEF Inode
<1>5. Rewrote(e, dir)
  <2>1. k \in Int  BY <1>4
  <2>2. dir = [changed EXCEPT !.nlink = @ + (IF kind = "dir" THEN 1 ELSE 0)]  BY DEF ParentAfter
  <2> HIDE DEF e
  <2>3. Rewrote(e, changed) /\ changed.nlink = e.nlink  BY <1>3, GivenSettles
  <2> HIDE DEF changed
  <2>4. dir = [changed EXCEPT !.nlink = k]  BY <2>2, <2>3
  <2> HIDE DEF k
  <2>5. QED  BY <2>1, <2>3, <2>4, LinkSettles
<1>6. TypeOK  BY DEF Books, Inv
<1>7. x \in Inode /\ x.kind = kind /\ Counted(x)
  <2>1. x \in Inode  BY <1>6, CreatedFact
  <2>2. x.kind = kind  BY DEF Created, Freed
  <2>3. Counted(x)  BY <1>6, CreatedFact
  <2>4. QED  BY <2>1, <2>2, <2>3
<1>8. x.kind # "free" /\ x.nblocks \in Int  BY <1>7 DEF Inode
<1>9. DOMAIN new = {i, d} /\ new[i] = x /\ new[d] = dir  BY <1>2
<1>10. Fits(c, i, x) /\ Entails(inode[i], x)
  <2>1. Blocks(x) - Blocks(inode[i]) = x.nblocks /\ Used(x) - Used(inode[i]) = 1
    BY <1>8 DEF Blocks, Used
  <2>2. QED  BY <2>1, <1>7 DEF Fits, Entails
<1>11. Fits(f, d, dir) /\ Entails(inode[d], dir) /\ dir \in Inode  BY <1>2, <1>5, ChargeFits
<1> HIDE DEF c, f, new
<1>12. QED  BY <1>1, <1>2, <1>7, <1>9, <1>10, <1>11, PairRecorded

\* The inode a create takes is free.
LEMMA CreateBooks ==
  ASSUME Books, NEW d \in Inos, NEW n \in Names, NEW kind \in {"file", "dir", "symlink"},
         NEW long, Create(d, n, kind, long)
  PROVE  BlocksCounted' /\ LimitsHold' /\ UsageMatches'
<1> DEFINE i == Min(Free)
           dir == ParentAfter(d, n, i, kind)
           x == Created(i, d, n, kind, long)
<1>1. /\ IsDir(d) /\ ~Has(d, n) /\ Free # {} /\ uncharged' = uncharged
      /\ Commit([y \in {i, d} |-> IF y = i THEN x ELSE dir], CreateQuota(d, dir, i, x))
  BY DEF Create
<1>2. i \in Inos /\ inode[i].kind = "free"
  <2>1. i \in Free  BY <1>1, FreeLeast
  <2>2. QED  BY <2>1 DEF Free
<1> HIDE DEF i
<1>3. QED  BY <1>1, <1>2, CreateRecord

\* Another name for a file.
LEMMA LinkBooks ==
  ASSUME Books, NEW i \in Inos, NEW d \in Inos, NEW n \in Names, Link(i, d, n)
  PROVE  BlocksCounted' /\ LimitsHold' /\ UsageMatches'
<1> DEFINE e == inode[d]
           names == With(e.names, n, i)
           dir == Changed(e, names, e.up)
           y0 == Pointed(inode[i], inode[i].pointers, {Pointer(d, n)})
           x == [y0 EXCEPT !.nlink = @ + 1]
           k == y0.nlink + 1
           new == [y \in {i, d} |-> IF y = i THEN x ELSE dir]
           c == Charge(i, inode[i], x, 0)
           f == Charge(d, inode[d], dir, 0)
<1>1. /\ IsDir(d) /\ inode[i].kind \notin {"dir", "free"} /\ ~Has(d, n)
      /\ Commit(new, <<f, c>>) /\ uncharged' = uncharged
  BY DEF Link
<1>2. i # d /\ inode[d].kind # "free"  BY <1>1 DEF IsDir
<1>3. /\ e \in Inode /\ e.names \in NameMaps /\ e.up \in Inos
      /\ inode[i] \in Inode /\ inode[i].pointers \in SUBSET Pointers
      /\ {Pointer(d, n)} \in SUBSET Pointers
  <2>1. e \in Inode /\ inode[i] \in Inode  BY DEF Books, Inv, TypeOK
  <2>2. QED  BY <2>1 DEF Inode, Pointer, Pointers
<1>4. names \in NameMaps /\ names # e.names
  <2>1. names \in NameMaps /\ DOMAIN names = DOMAIN e.names \cup {n}  BY <1>3, WithFact
  <2>2. n \notin DOMAIN e.names  BY <1>1 DEF Has
  <2>3. QED  BY <2>1, <2>2
<1>5. Rewrote(e, dir)
  <2> HIDE DEF e, names
  <2>1. QED  BY <1>3, <1>4, EditSettles
<1>6. Rewrote(inode[i], x)
  <2>1. Rewrote(inode[i], y0)  BY <1>3, SameSettles, PointSettles
  <2>2. y0.nlink \in Int  BY <2>1 DEF Rewrote, Inode
  <2>3. k \in Int /\ x = [y0 EXCEPT !.nlink = k]  BY <2>2
  <2> HIDE DEF y0, k, x
  <2>4. QED  BY <2>1, <2>3, LinkSettles
<1>7. DOMAIN new = {d, i} /\ new[i] = x /\ new[d] = dir  BY <1>2
<1> HIDE DEF x, dir, new
<1>8. Fits(c, i, x) /\ Entails(inode[i], x) /\ x \in Inode  BY <1>1, <1>6, ChargeFits
<1>9. Fits(f, d, dir) /\ Entails(inode[d], dir) /\ dir \in Inode  BY <1>2, <1>5, ChargeFits
<1> HIDE DEF c, f
<1>10. QED  BY <1>1, <1>2, <1>7, <1>8, <1>9, PairRecorded

\* One name fewer for an inode that keeps others.
LEMMA UnnamedSettles ==
  ASSUME TypeOK, NEW i \in Inos, NEW d, NEW n
  PROVE  Rewrote(inode[i], Unnamed(i, d, n))
<1> DEFINE p == Unpointed(inode[i], d, n)
           y == Pointed(inode[i], p, {})
           k == y.nlink - 1
<1>1. inode[i] \in Inode  BY DEF TypeOK
<1>2. p \in SUBSET Pointers /\ {} \in SUBSET Pointers  BY <1>1 DEF Unpointed, Inode
<1>3. Rewrote(inode[i], y)
  <2> HIDE DEF p
  <2>1. QED  BY <1>1, <1>2, SameSettles, PointSettles
<1>4. y.nlink \in Int  BY <1>3 DEF Rewrote, Inode
<1>5. k \in Int /\ Unnamed(i, d, n) = [y EXCEPT !.nlink = k]  BY <1>4 DEF Unnamed
<1> HIDE DEF y, k
<1>6. QED  BY <1>3, <1>5, LinkSettles

\* A name taken from its directory.
LEMMA TakenSettles ==
  ASSUME NEW x \in Inode, NEW n \in DOMAIN x.names
  PROVE  Rewrote(x, Changed(x, Without(x.names, n), x.up))
<1> DEFINE names == Without(x.names, n)
<1>1. x.names \in NameMaps /\ x.up \in Inos  BY DEF Inode
<1>2. names \in NameMaps /\ DOMAIN names = DOMAIN x.names \ {n}  BY <1>1, WithoutFact
<1>3. names # x.names  BY <1>2
<1> HIDE DEF names
<1>4. QED  BY <1>1, <1>2, <1>3, EditSettles DEF names

\* A file's name removed.
LEMMA UnlinkBooks ==
  ASSUME Books, NEW d \in Inos, NEW n \in Names, Unlink(d, n)
  PROVE  BlocksCounted' /\ LimitsHold' /\ UsageMatches'
<1> DEFINE i == inode[d].names[n]
           e == inode[d]
           dir == Changed(e, Without(e.names, n), e.up)
           freed == inode[i].nlink <= 1
           x == IF freed THEN Emptied(inode[i]) ELSE Unnamed(i, d, n)
           c == IF freed THEN GivenBack(i) ELSE Charge(i, inode[i], x, 0)
           f == Charge(d, inode[d], dir, 0)
           new == [y \in {i, d} |-> IF y = i THEN x ELSE dir]
<1>1. /\ IsDir(d) /\ Has(d, n) /\ ~IsDir(i)
      /\ Commit(new, <<c, f>>) /\ uncharged' = uncharged
  BY DEF Unlink
<1>2. i \in Inos /\ i # d /\ inode[i].kind # "free" /\ inode[d].kind # "free"
  <2>1. i \in InUse  BY <1>1, NamesOfFact DEF Books
  <2>2. QED  BY <2>1, <1>1 DEF InUse, IsDir
<1>3. e \in Inode /\ inode[i] \in Inode /\ TypeOK /\ n \in DOMAIN e.names
  BY <1>1, <1>2 DEF Books, Inv, TypeOK, Has
<1>4. Rewrote(e, dir)
  <2> HIDE DEF e
  <2>1. QED  BY <1>3, TakenSettles
<1>5. DOMAIN new = {i, d} /\ new[i] = x /\ new[d] = dir  BY <1>2
<1> HIDE DEF dir
<1>6. Fits(f, d, dir) /\ Entails(inode[d], dir) /\ dir \in Inode  BY <1>2, <1>4, ChargeFits
<1> HIDE DEF i, new, f
<1>7. Fits(c, i, x) /\ Entails(inode[i], x) /\ x \in Inode
  <2>1. CASE freed  BY <2>1, <1>2, <1>3, GivenBackFits
  <2>2. CASE ~freed
    <3>1. x = Unnamed(i, d, n) /\ c = Charge(i, inode[i], x, 0)  BY <2>2
    <3> HIDE DEF x, c
    <3>2. Rewrote(inode[i], x)  BY <1>2, <1>3, <3>1, UnnamedSettles
    <3>3. QED  BY <1>2, <3>1, <3>2, ChargeFits
  <2>3. QED  BY <2>1, <2>2
<1> HIDE DEF x, c
<1>8. QED  BY <1>1, <1>2, <1>5, <1>6, <1>7, PairRecorded

\* An empty directory removed.
LEMMA RemoveDirectoryBooks ==
  ASSUME Books, NEW d \in Inos, NEW n \in Names, RemoveDirectory(d, n)
  PROVE  BlocksCounted' /\ LimitsHold' /\ UsageMatches'
<1> DEFINE i == inode[d].names[n]
           e == inode[d]
           changed == Changed(e, Without(e.names, n), e.up)
           dir == [changed EXCEPT !.nlink = ParentLinks(d)]
           x == Emptied(inode[i])
           c == GivenBack(i)
           f == Charge(d, inode[d], dir, 0)
           new == [y \in {i, d} |-> IF y = i THEN x ELSE dir]
<1>1. /\ IsDir(d) /\ Has(d, n) /\ IsDir(i)
      /\ Commit(new, <<c, f>>) /\ uncharged' = uncharged
  BY DEF RemoveDirectory
<1>2. i \in Inos /\ i # d /\ inode[i].kind # "free" /\ inode[d].kind # "free"
  <2>1. i \in InUse /\ i # d  BY <1>1, NamesOfFact DEF Books
  <2>2. QED  BY <2>1, <1>1 DEF InUse, IsDir
<1>3. e \in Inode /\ inode[i] \in Inode /\ n \in DOMAIN e.names
  BY <1>1, <1>2 DEF Books, Inv, TypeOK, Has
<1>4. Rewrote(e, dir)
  <2>1. ParentLinks(d) \in Int  BY <1>3 DEF ParentLinks, Inode
  <2> HIDE DEF e
  <2>2. Rewrote(e, changed)  BY <1>3, TakenSettles
  <2> HIDE DEF changed
  <2>3. QED  BY <2>1, <2>2, LinkSettles
<1>5. DOMAIN new = {i, d} /\ new[i] = x /\ new[d] = dir  BY <1>2
<1> HIDE DEF dir
<1>6. Fits(f, d, dir) /\ Entails(inode[d], dir) /\ dir \in Inode  BY <1>2, <1>4, ChargeFits
<1> HIDE DEF i, new, f
<1>7. Fits(c, i, x) /\ Entails(inode[i], x) /\ x \in Inode  BY <1>2, <1>3, GivenBackFits
<1> HIDE DEF x, c
<1>8. QED  BY <1>1, <1>2, <1>5, <1>6, <1>7, PairRecorded

\* An entry that takes another's place in its directory.
LEMMA ReplacedSettles ==
  ASSUME NEW x \in Inode, NEW f \in DOMAIN x.names, NEW t \in Names, f # t, NEW i \in Inos
  PROVE  Rewrote(x, Changed(x, With(Without(x.names, f), t, i), x.up))
<1> DEFINE left == Without(x.names, f)
           names == With(left, t, i)
<1>1. x.names \in NameMaps /\ x.up \in Inos  BY DEF Inode
<1>2. left \in NameMaps /\ DOMAIN left = DOMAIN x.names \ {f}  BY <1>1, WithoutFact
<1> HIDE DEF left
<1>3. names \in NameMaps /\ DOMAIN names = DOMAIN left \cup {t}  BY <1>2, WithFact
<1>4. names # x.names  BY <1>2, <1>3
<1> HIDE DEF names
<1>5. Rewrote(x, Changed(x, names, x.up))  BY <1>1, <1>3, <1>4, EditSettles
<1>6. QED  BY <1>5 DEF names, left

\* The pointers of an inode that moves, whatever its directory's form now.
LEMMA RepointSettles ==
  ASSUME TypeOK, NEW i \in Inos, NEW z, Rewrote(inode[i], z), NEW sd, NEW f,
         NEW td \in Inos, NEW t \in Names
  PROVE  Rewrote(inode[i], Pointed(z, Unpointed(inode[i], sd, f), {Pointer(td, t)}))
<1> DEFINE p == Unpointed(inode[i], sd, f)
           q == {Pointer(td, t)}
<1>1. inode[i] \in Inode /\ inode[td] \in Inode  BY DEF TypeOK
<1>2. p \in SUBSET Pointers  BY <1>1 DEF Unpointed, Inode
<1>3. q \in SUBSET Pointers  BY <1>1 DEF Pointer, Pointers, Inode
<1> HIDE DEF p, q
<1>4. Rewrote(inode[i], Pointed(z, p, q))  BY <1>2, <1>3, PointSettles
<1>5. QED  BY <1>4 DEF p, q

\* A new name in the same directory.
LEMMA RenameInDirectoryBooks ==
  ASSUME Books, NEW d \in Inos, NEW f \in Names, NEW t \in Names, RenameInDirectory(d, f, t)
  PROVE  BlocksCounted' /\ LimitsHold' /\ UsageMatches'
<1> DEFINE i == inode[d].names[f]
           e == inode[d]
           dir == Changed(e, With(Without(e.names, f), t, i), e.up)
           x == Pointed(inode[i], Unpointed(inode[i], d, f), {Pointer(d, t)})
           g == Charge(d, inode[d], dir, 0)
           c == Charge(i, inode[i], x, 0)
           new == [y \in {i, d} |-> IF y = i THEN x ELSE dir]
<1>1. /\ IsDir(d) /\ Has(d, f) /\ ~Has(d, t)
      /\ Commit(new, <<g, c>>) /\ uncharged' = uncharged
  BY DEF RenameInDirectory
<1>2. i \in Inos /\ i # d /\ inode[i].kind # "free" /\ inode[d].kind # "free"
  <2>1. i \in InUse /\ (IsDir(i) => i # d)  BY <1>1, NamesOfFact DEF Books
  <2>2. QED  BY <2>1, <1>1 DEF InUse, IsDir
<1>3. TypeOK /\ e \in Inode /\ inode[i] \in Inode /\ f \in DOMAIN e.names /\ f # t
  BY <1>1, <1>2 DEF Books, Inv, TypeOK, Has
<1>4. DOMAIN new = {d, i} /\ new[i] = x /\ new[d] = dir  BY <1>2
<1> HIDE DEF i, new
<1>5. Rewrote(e, dir)
  <2> HIDE DEF e
  <2>1. QED  BY <1>2, <1>3, ReplacedSettles
<1>6. Rewrote(inode[i], x)
  <2>1. Rewrote(inode[i], inode[i])  BY <1>3, SameSettles
  <2>2. QED  BY <2>1, <1>2, <1>3, RepointSettles
<1> HIDE DEF dir, x
<1>7. Fits(g, d, dir) /\ Entails(inode[d], dir) /\ dir \in Inode  BY <1>2, <1>5, ChargeFits
<1>8. Fits(c, i, x) /\ Entails(inode[i], x) /\ x \in Inode  BY <1>2, <1>6, ChargeFits
<1> HIDE DEF c, g
<1>9. QED  BY <1>1, <1>2, <1>4, <1>7, <1>8, PairRecorded

\* A change that fits unless a directory has grown by a move.
Suits(c, p, x) ==
  /\ c.ids = OwnersOf[p]
  /\ c.inodes = Used(x) - Used(inode[p])
  /\ c.blocks \in Int
  /\ uncharged' = {} => c.blocks = Blocks(x) - Blocks(inode[p])

\* A change that fits is the one the record wants for its inode.
LEMMA FitsSuits ==
  ASSUME NEW p, inode[p] \in Inode, NEW x \in Inode, NEW c, Fits(c, p, x)
  PROVE  Suits(c, p, x)
BY FitsIs DEF Suits

\* A record whose n changes are in a list of the inodes they are for.
Listed(n, new, changes, xs) ==
  /\ n \in Nat /\ DOMAIN changes = 1 .. n
  /\ xs \in [1 .. n -> DOMAIN new]
  /\ \A j \in 1 .. n : \A k \in 1 .. n : xs[j] = xs[k] => j = k
  /\ \A x \in DOMAIN new : \E k \in 1 .. n : x = xs[k]
  /\ DOMAIN new \subseteq Inos
  /\ \A k \in 1 .. n : LET y == new[xs[k]]
                       IN  y \in Inode /\ Entails(inode[xs[k]], y) /\ Suits(changes[k], xs[k], y)
  /\ Commit(new, changes)
  /\ uncharged' = {} => uncharged = {}

\* A list of such changes keeps the books.
LEMMA ListRecorded ==
  ASSUME Books, NEW n, NEW new, NEW changes, NEW xs, Listed(n, new, changes, xs)
  PROVE  BlocksCounted' /\ LimitsHold' /\ UsageMatches'
<1>1. IsFiniteSet(1 .. n)  BY FiniteTo DEF Listed
<1>2. \A x \in DOMAIN new : new[x] \in Inode /\ Entails(inode[x], new[x])  BY DEF Listed
<1>3. Recorded(new, changes, xs)  BY <1>1, <1>2 DEF Recorded, Suits, Listed
<1>4. QED  BY <1>3, RecordBooks

\* An attribute is set or removed.
LEMMA SetXattrBooks ==
  ASSUME Books, NEW i \in Inos, SetXattr(i)
  PROVE  BlocksCounted' /\ LimitsHold' /\ UsageMatches'
<1> DEFINE x == Refork(inode[i], {}, ~inode[i].xattr)
           new == [y \in {i} |-> x]
           c == Charge(i, inode[i], x, 0)
           changes == <<c>>
           xs == <<i>>
<1>1. inode[i].kind # "free" /\ Commit(new, changes) /\ uncharged' = uncharged
  BY DEF SetXattr, Settable
<1>2. inode[i] \in Inode  BY DEF Books, Inv, TypeOK
<1>3. Rewrote(inode[i], x)
  <2> DEFINE a == ~inode[i].xattr
  <2>1. a \in BOOLEAN /\ {} \in SUBSET Pointers  OBVIOUS
  <2> HIDE DEF a
  <2>2. x \in Inode /\ x.kind = inode[i].kind /\ (Counted(inode[i]) => Counted(x))
    BY <2>1, <1>2, ReforkFact DEF a
  <2>3. QED  BY <2>2 DEF Rewrote, Settled
<1>4. DOMAIN new = {i} /\ new[i] = x  OBVIOUS
<1> HIDE DEF x, new
<1>5. Fits(c, i, x) /\ Entails(inode[i], x) /\ x \in Inode  BY <1>1, <1>3, ChargeFits
<1>6. Suits(c, i, x)  BY <1>2, <1>5, FitsSuits
<1> HIDE DEF c
<1>7. DOMAIN changes = 1 .. 1 /\ changes[1] = c /\ xs \in [1 .. 1 -> {i}] /\ xs[1] = i  OBVIOUS
<1>8. \A k \in 1 .. 1 : k = 1  OBVIOUS
<1> HIDE DEF changes, xs
<1>9. Listed(1, new, changes, xs)  BY <1>1, <1>4, <1>5, <1>6, <1>7, <1>8 DEF Listed
<1>10. QED  BY <1>9, ListRecorded

\* The inode a move takes to another directory.
LEMMA MovedSettles ==
  ASSUME Inv, NEW sd \in Inos, NEW f \in Names, Has(sd, f), NEW td \in Inos, NEW t \in Names,
         NEW i, i = Target(sd, f)
  PROVE  Rewrote(inode[i], MovedAfter(i, sd, f, td, t))
<1>1. i \in Inos /\ (IsDir(i) => inode[i].up = sd)
  <2>1. i \in InUse /\ (IsDir(i) => inode[i].up = sd)  BY NamesOfFact DEF Target
  <2>2. QED  BY <2>1 DEF InUse
<1>2. TypeOK /\ inode[i] \in Inode  BY <1>1 DEF Inv, TypeOK
<1>3. Rewrote(inode[i], Reparented(i, sd, td))
  <2>1. CASE IsDir(i) /\ sd # td
    <3> DEFINE x == inode[i]
    <3>1. x \in Inode /\ x.names \in NameMaps /\ td # x.up  BY <1>1, <1>2, <2>1 DEF Inode
    <3>2. Reparented(i, sd, td) = Changed(x, x.names, td)  BY <2>1 DEF Reparented
    <3> HIDE DEF x
    <3>3. Rewrote(x, Changed(x, x.names, td))  BY <3>1, EditSettles
    <3>4. QED  BY <3>2, <3>3 DEF x
  <2>2. CASE ~(IsDir(i) /\ sd # td)  BY <2>2, <1>2, SameSettles DEF Reparented
  <2>3. QED  BY <2>1, <2>2
<1>4. QED  BY <1>1, <1>2, <1>3, RepointSettles DEF MovedAfter

\* Its change leaves out what Reparented made a directory grow by, which is
\* then in uncharged.
LEMMA MovedSuits ==
  ASSUME Inv, NEW sd \in Inos, NEW f \in Names, Has(sd, f), NEW td \in Inos, NEW t \in Names,
         NEW i, i = Target(sd, f),
         uncharged' = IF Grew(inode[i], Reparented(i, sd, td)) # 0 THEN uncharged \cup {i} ELSE uncharged
  PROVE  LET x == MovedAfter(i, sd, f, td, t)
         IN  /\ Suits(Charge(i, Reparented(i, sd, td), x, 0), i, x)
             /\ Entails(inode[i], x) /\ x \in Inode
             /\ uncharged' = {} => uncharged = {}
<1> DEFINE x == MovedAfter(i, sd, f, td, t)
           z == Reparented(i, sd, td)
<1>1. i \in Inos /\ inode[i].kind # "free" /\ inode[i] \in Inode
  <2>1. i \in InUse  BY NamesOfFact DEF Target
  <2>2. QED  BY <2>1 DEF InUse, Inv, TypeOK
<1>2. Rewrote(inode[i], x)  BY MovedSettles
<1>3. x \in Inode /\ x.kind # "free" /\ Entails(inode[i], x)  BY <1>1, <1>2 DEF Rewrote, Entails
<1>4. z \in Inode  BY <1>1, ReparentedFact
<1>5. x.nblocks \in Int /\ z.nblocks \in Int /\ inode[i].nblocks \in Int
  BY <1>1, <1>3, <1>4 DEF Inode
<1> HIDE DEF x, z
<1>6. uncharged' = IF z.nblocks - inode[i].nblocks # 0 THEN uncharged \cup {i} ELSE uncharged
  BY DEF Grew, z
<1>7. uncharged' = {} => uncharged = {} /\ z.nblocks = inode[i].nblocks  BY <1>5, <1>6
<1>8. Suits(Charge(i, z, x, 0), i, x)
  BY <1>1, <1>3, <1>5, <1>7 DEF Suits, Charge, Change, Grew, Blocks, Used
<1>9. QED  BY <1>3, <1>7, <1>8 DEF x, z

\* The two directories of a move.
LEMMA SourceSettles ==
  ASSUME Inv, NEW sd \in Inos, NEW f \in Names, Has(sd, f), NEW td \in Inos, NEW t \in Names,
         sd = td => f # t
  PROVE  Rewrote(inode[sd], SourceAfter(sd, f, td, t))
<1> DEFINE e == inode[sd]
           i == Target(sd, f)
           left == Without(e.names, f)
           z == Changed(e, IF sd = td THEN With(left, t, i) ELSE left, e.up)
           k == SourceLinks(sd, f, td, t)
<1>1. e \in Inode /\ f \in DOMAIN e.names  BY DEF Inv, TypeOK, Has
<1>2. i \in Inos
  <2>1. i \in InUse  BY NamesOfFact DEF Target
  <2>2. QED  BY <2>1 DEF InUse
<1>3. e.nlink \in Int  BY <1>1 DEF Inode
<1>4. k \in Int  BY <1>3 DEF SourceLinks, One
<1>5. SourceAfter(sd, f, td, t) = [z EXCEPT !.nlink = k]  BY DEF SourceAfter
<1> HIDE DEF e, k, i
<1>6. Rewrote(e, z)
  <2>1. CASE sd = td  BY <2>1, <1>1, <1>2, ReplacedSettles
  <2>2. CASE sd # td  BY <2>2, <1>1, TakenSettles
  <2>3. QED  BY <2>1, <2>2
<1> HIDE DEF z
<1>7. Rewrote(e, [z EXCEPT !.nlink = k])  BY <1>4, <1>6, LinkSettles
<1>8. QED  BY <1>5, <1>7 DEF e

\* The one the name moves to had no such name, or one of another inode.
LEMMA DestinationSettles ==
  ASSUME Inv, NEW sd \in Inos, NEW f \in Names, Has(sd, f), NEW td \in Inos, NEW t \in Names,
         Has(td, t) => Target(td, t) # Target(sd, f)
  PROVE  Rewrote(inode[td], DestinationAfter(sd, f, td, t))
<1> DEFINE e == inode[td]
           i == Target(sd, f)
           names == With(e.names, t, i)
           z == Changed(e, names, e.up)
           k == DestinationLinks(sd, f, td, t)
<1>1. e \in Inode  BY DEF Inv, TypeOK
<1>2. i \in Inos
  <2>1. i \in InUse  BY NamesOfFact DEF Target
  <2>2. QED  BY <2>1 DEF InUse
<1>3. e.nlink \in Int /\ e.names \in NameMaps /\ e.up \in Inos  BY <1>1 DEF Inode
<1>4. k \in Int  BY <1>3 DEF DestinationLinks, One
<1>5. DestinationAfter(sd, f, td, t) = [z EXCEPT !.nlink = k]  BY DEF DestinationAfter
<1>6. t \in DOMAIN e.names => e.names[t] # i  BY DEF Has, Target
<1> HIDE DEF e, k, i
<1>7. names \in NameMaps /\ DOMAIN names = DOMAIN e.names \cup {t} /\ names[t] = i
  BY <1>2, <1>3, WithFact, ZenonT(60)
<1>8. names # e.names  BY <1>6, <1>7
<1> HIDE DEF names
<1>9. Rewrote(e, z)  BY <1>1, <1>3, <1>7, <1>8, EditSettles
<1> HIDE DEF z
<1>10. Rewrote(e, [z EXCEPT !.nlink = k])  BY <1>4, <1>9, LinkSettles
<1>11. QED  BY <1>5, <1>10 DEF e

\* The inode whose name a move takes.
LEMMA ReplacedSuits ==
  ASSUME Inv, NEW td \in Inos, NEW t \in Names, Has(td, t), NEW v, v = Target(td, t)
  PROVE  LET x == ReplacedAfter(td, t)
         IN  /\ Suits(IF FreesReplaced(td, t) THEN GivenBack(v) ELSE Charge(v, inode[v], x, 0), v, x)
             /\ Entails(inode[v], x) /\ x \in Inode
<1> DEFINE x == ReplacedAfter(td, t)
           c == IF FreesReplaced(td, t) THEN GivenBack(v) ELSE Charge(v, inode[v], x, 0)
<1>1. v \in Inos /\ inode[v].kind # "free" /\ inode[v] \in Inode /\ TypeOK
  <2>1. v \in InUse  BY NamesOfFact DEF Target
  <2>2. QED  BY <2>1 DEF InUse, Inv, TypeOK
<1>2. Fits(c, v, x) /\ Entails(inode[v], x) /\ x \in Inode
  <2>1. CASE FreesReplaced(td, t)
    <3>1. x = Emptied(inode[v]) /\ c = GivenBack(v)  BY <2>1 DEF ReplacedAfter
    <3> HIDE DEF x, c
    <3>2. QED  BY <3>1, <1>1, GivenBackFits
  <2>2. CASE ~FreesReplaced(td, t)
    <3>1. x = Unnamed(v, td, t) /\ c = Charge(v, inode[v], x, 0)  BY <2>2 DEF ReplacedAfter
    <3> HIDE DEF x, c
    <3>2. Rewrote(inode[v], x)  BY <3>1, <1>1, UnnamedSettles
    <3>3. QED  BY <3>1, <3>2, <1>1, ChargeFits
  <2>3. QED  BY <2>1, <2>2
<1> HIDE DEF x, c
<1>3. Suits(c, v, x)  BY <1>1, <1>2, FitsSuits
<1>4. QED  BY <1>2, <1>3 DEF x, c

\* Change c suits what the record makes of inode p.
Stands(c, p, new) == new[p] \in Inode /\ Entails(inode[p], new[p]) /\ Suits(c, p, new[p])

\* Three inodes in a record, or four.
LEMMA ThreeListed ==
  ASSUME Books, NEW p \in Inos, NEW q \in Inos, NEW r \in Inos, p # q, p # r, q # r,
         NEW new, DOMAIN new = {p, q, r}, NEW a, NEW b, NEW c,
         Stands(a, p, new), Stands(b, q, new), Stands(c, r, new),
         Commit(new, <<a, b, c>>), uncharged' = {} => uncharged = {}
  PROVE  BlocksCounted' /\ LimitsHold' /\ UsageMatches'
<1> DEFINE changes == <<a, b, c>>
           xs == <<p, q, r>>
<1>1. DOMAIN changes = 1 .. 3 /\ changes[1] = a /\ changes[2] = b /\ changes[3] = c  OBVIOUS
<1>2. xs \in [1 .. 3 -> {p, q, r}] /\ xs[1] = p /\ xs[2] = q /\ xs[3] = r  OBVIOUS
<1>3. 1 .. 3 = {1, 2, 3} /\ 3 \in Nat  OBVIOUS
<1>4. Commit(new, changes)  OBVIOUS
<1> HIDE DEF changes, xs
<1>5. \A j \in {1, 2, 3} : \A k \in {1, 2, 3} : xs[j] = xs[k] => j = k  BY <1>2
<1>6. \A x \in {p, q, r} : \E k \in {1, 2, 3} : x = xs[k]  BY <1>2
<1>7. \A k \in {1, 2, 3} : Stands(changes[k], xs[k], new)  BY <1>1, <1>2
<1>8. \A k \in 1 .. 3 : LET y == new[xs[k]]
                        IN  y \in Inode /\ Entails(inode[xs[k]], y) /\ Suits(changes[k], xs[k], y)
  BY <1>3, <1>7 DEF Stands
<1>9. Listed(3, new, changes, xs)  BY <1>1, <1>2, <1>3, <1>4, <1>5, <1>6, <1>8 DEF Listed
<1>10. QED  BY <1>9, ListRecorded

\* A record of four inodes and their four changes keeps the books.
LEMMA FourListed ==
  ASSUME Books, NEW p \in Inos, NEW q \in Inos, NEW r \in Inos, NEW s \in Inos,
         p # q, p # r, q # r, p # s, q # s, r # s,
         NEW new, DOMAIN new = {p, q, r, s}, NEW a, NEW b, NEW c, NEW d,
         Stands(a, p, new), Stands(b, q, new), Stands(c, r, new), Stands(d, s, new),
         Commit(new, <<a, b, c, d>>), uncharged' = {} => uncharged = {}
  PROVE  BlocksCounted' /\ LimitsHold' /\ UsageMatches'
<1> DEFINE changes == <<a, b, c, d>>
           xs == <<p, q, r, s>>
<1>1. DOMAIN changes = 1 .. 4 /\ changes[1] = a /\ changes[2] = b /\ changes[3] = c /\ changes[4] = d
  OBVIOUS
<1>2. xs \in [1 .. 4 -> {p, q, r, s}] /\ xs[1] = p /\ xs[2] = q /\ xs[3] = r /\ xs[4] = s  OBVIOUS
<1>3. 1 .. 4 = {1, 2, 3, 4} /\ 4 \in Nat  OBVIOUS
<1>4. Commit(new, changes)  OBVIOUS
<1> HIDE DEF changes, xs
<1>5. \A j \in {1, 2, 3, 4} : \A k \in {1, 2, 3, 4} : xs[j] = xs[k] => j = k  BY <1>2
<1>6. \A x \in {p, q, r, s} : \E k \in {1, 2, 3, 4} : x = xs[k]  BY <1>2
<1>7. \A k \in {1, 2, 3, 4} : Stands(changes[k], xs[k], new)  BY <1>1, <1>2
<1>8. \A k \in 1 .. 4 : LET y == new[xs[k]]
                        IN  y \in Inode /\ Entails(inode[xs[k]], y) /\ Suits(changes[k], xs[k], y)
  BY <1>3, <1>7 DEF Stands
<1>9. Listed(4, new, changes, xs)  BY <1>1, <1>2, <1>3, <1>4, <1>5, <1>6, <1>8 DEF Listed
<1>10. QED  BY <1>9, ListRecorded

\* Equal sequences of n + 1 elements.
LEMMA Joined ==
  ASSUME NEW U, NEW n \in Nat, NEW s \in Seq(U), NEW t \in Seq(U), NEW r \in Seq(U),
         Len(s) = n, Len(t) = 1, Len(r) = n + 1,
         \A k \in 1 .. n : r[k] = s[k], r[n + 1] = t[1]
  PROVE  s \o t = r
<1>1. /\ s \o t \in Seq(U) /\ Len(s \o t) = Len(s) + Len(t)
      /\ \A i \in 1 .. Len(s) + Len(t) : (s \o t)[i] = IF i <= Len(s) THEN s[i] ELSE t[i - Len(s)]
  BY ConcatProperties
<1>2. Len(s \o t) = n + 1 /\ \A i \in 1 .. n + 1 : (s \o t)[i] = IF i <= n THEN s[i] ELSE t[i - n]
  BY <1>1
<1>3. \A i \in 1 .. n + 1 : (s \o t)[i] = r[i]
  <2>1. SUFFICES ASSUME NEW i \in 1 .. n + 1 PROVE (s \o t)[i] = r[i]  OBVIOUS
  <2>2. CASE i <= n  BY <2>2, <1>2
  <2>3. CASE ~(i <= n)
    <3>1. i = n + 1 /\ i - n = 1  BY <2>3
    <3>2. QED  BY <3>1, <2>3, <1>2
  <2>4. QED  BY <2>2, <2>3
<1>4. QED  BY <1>1, <1>2, <1>3, SeqEqual

\* The lists of changes rename puts together.
LEMMA Joins ==
  ASSUME NEW a, NEW b, NEW c, NEW d
  PROVE  /\ <<a, b>> \o <<>> = <<a, b>>
         /\ <<a, b>> \o <<c>> = <<a, b, c>>
         /\ <<a, b, c>> \o <<>> = <<a, b, c>>
         /\ <<a, b, c>> \o <<d>> = <<a, b, c, d>>
<1> DEFINE U == {a, b, c, d}
           s2 == <<a, b>>
           s3 == <<a, b, c>>
           s4 == <<a, b, c, d>>
           t == <<c>>
           u == <<d>>
<1>1. s2 \in Seq(U) /\ s3 \in Seq(U) /\ s4 \in Seq(U) /\ t \in Seq(U) /\ u \in Seq(U)  OBVIOUS
<1>2. Len(s2) = 2 /\ Len(s3) = 2 + 1 /\ Len(s3) = 3 /\ Len(s4) = 3 + 1 /\ Len(t) = 1 /\ Len(u) = 1
  OBVIOUS
<1>3. s3[2 + 1] = t[1] /\ \A k \in 1 .. 2 : s3[k] = s2[k]  OBVIOUS
<1>4. s4[3 + 1] = u[1] /\ \A k \in 1 .. 3 : s4[k] = s3[k]  OBVIOUS
<1> HIDE DEF U, s2, s3, s4, t, u
<1>5. s2 \o t = s3  BY <1>1, <1>2, <1>3, Joined, ZenonT(60)
<1>6. s3 \o u = s4  BY <1>1, <1>2, <1>4, Joined, ZenonT(60)
<1>7. s2 \o <<>> = s2 /\ s3 \o <<>> = s3  BY <1>1, ConcatEmptySeq
<1>8. QED  BY <1>5, <1>6, <1>7 DEF s2, s3, s4, t, u

\* A name moved, over another or not.
LEMMA RenameBooks ==
  ASSUME Books, NEW sd \in Inos, NEW f \in Names, NEW td \in Inos, NEW t \in Names,
         Rename(sd, f, td, t)
  PROVE  BlocksCounted' /\ LimitsHold' /\ UsageMatches'
<1> DEFINE i == Target(sd, f)
           v == Target(td, t)
           xi == MovedAfter(i, sd, f, td, t)
           xv == ReplacedAfter(td, t)
           xs == SourceAfter(sd, f, td, t)
           xd == DestinationAfter(sd, f, td, t)
           new == RenameRecord(sd, f, td, t)
           cs == Charge(sd, inode[sd], xs, 0)
           ci == Charge(i, Reparented(i, sd, td), xi, 0)
           cd == Charge(td, inode[td], xd, 0)
           cv == IF FreesReplaced(td, t) THEN GivenBack(v) ELSE Charge(v, inode[v], xv, 0)
<1>1. /\ IsDir(sd) /\ IsDir(td) /\ Has(sd, f)
      /\ sd # td \/ Has(td, t)
      /\ Has(td, t) => v # i /\ (IsDir(i) <=> IsDir(v))
      /\ IsDir(i) /\ sd # td => i \notin Climb(td)
      /\ Commit(new, RenameQuota(sd, f, td, t))
      /\ uncharged' = IF Grew(inode[i], Reparented(i, sd, td)) # 0 THEN uncharged \cup {i} ELSE uncharged
  BY DEF Rename, RenameAllowed, Beneath
<1>2. Inv /\ inode[sd] \in Inode /\ inode[td] \in Inode  BY DEF Books, Inv, TypeOK
<1>3. i \in Inos /\ i # sd /\ i # td
  <2>1. i \in InUse /\ (IsDir(i) => i # sd)  BY <1>1, <1>2, NamesOfFact DEF Target
  <2>2. td \in Climb(td)  BY <1>2, ClimbStarts DEF Inv
  <2>3. QED  BY <2>1, <2>2, <1>1 DEF InUse
<1>4. Has(td, t) => v \in Inos /\ v # td /\ v # sd
  <2>1. SUFFICES ASSUME Has(td, t) PROVE v \in Inos /\ v # td /\ v # sd  OBVIOUS
  <2>2. v \in InUse /\ (IsDir(v) => v # td /\ inode[v].up = td)  BY <1>2, <2>1, NamesOfFact DEF Target
  <2>3. v # sd
    <3>1. CASE IsDir(i)
      <4>1. DOMAIN inode[v].names = {}  BY <1>1, <2>1, <3>1 DEF Rename, RenameAllowed
      <4>2. QED  BY <4>1, <1>1 DEF Has
    <3>2. CASE ~IsDir(i)  BY <3>2, <1>1, <2>1
    <3>3. QED  BY <3>1, <3>2
  <2>4. QED  BY <2>2, <2>3, <1>1, <2>1 DEF InUse
<1>5. sd = td => f # t  BY <1>1
<1>6. /\ DOMAIN new = {sd, td, i} \cup (IF Has(td, t) THEN {v} ELSE {})
      /\ new[i] = xi /\ (Has(td, t) => new[v] = xv) /\ new[sd] = xs /\ (sd # td => new[td] = xd)
  <2>1. DOMAIN new = {sd, td, i} \cup (IF Has(td, t) THEN {v} ELSE {})  BY DEF RenameRecord
  <2>2. \A y \in DOMAIN new : new[y] = IF y = i THEN xi
                                       ELSE IF Has(td, t) /\ y = v THEN xv
                                       ELSE IF y = sd THEN xs ELSE xd
    BY DEF RenameRecord
  <2> HIDE DEF new, i, v, xi, xv, xs, xd
  <2>3. QED  BY <2>1, <2>2, <1>1, <1>3, <1>4
<1>7. RenameQuota(sd, f, td, t) = <<cs, ci>> \o (IF sd = td THEN <<>> ELSE <<cd>>)
                                             \o (IF ~Has(td, t) THEN <<>> ELSE <<cv>>)
  BY DEF RenameQuota
<1>8. Suits(ci, i, xi) /\ Entails(inode[i], xi) /\ xi \in Inode /\ (uncharged' = {} => uncharged = {})
  <2> HIDE DEF i
  <2>1. QED  BY <1>1, <1>2, MovedSuits DEF i
<1>9. Suits(cs, sd, xs) /\ Entails(inode[sd], xs) /\ xs \in Inode
  <2>1. Rewrote(inode[sd], xs)  BY <1>1, <1>2, <1>5, SourceSettles
  <2>2. inode[sd].kind # "free"  BY <1>1 DEF IsDir
  <2> HIDE DEF xs
  <2>3. Fits(cs, sd, xs) /\ Entails(inode[sd], xs) /\ xs \in Inode  BY <2>1, <2>2, ChargeFits
  <2>4. QED  BY <2>3, <1>2, FitsSuits
<1>10. Suits(cd, td, xd) /\ Entails(inode[td], xd) /\ xd \in Inode
  <2>1. Rewrote(inode[td], xd)  BY <1>1, <1>2, DestinationSettles
  <2>2. inode[td].kind # "free"  BY <1>1 DEF IsDir
  <2> HIDE DEF xd
  <2>3. Fits(cd, td, xd) /\ Entails(inode[td], xd) /\ xd \in Inode  BY <2>1, <2>2, ChargeFits
  <2>4. QED  BY <2>3, <1>2, FitsSuits
<1>11. Has(td, t) => Suits(cv, v, xv) /\ Entails(inode[v], xv) /\ xv \in Inode
  BY <1>2, ReplacedSuits
<1> HIDE DEF new, xi, xv, xs, xd, cs, ci, cd, cv, i, v
<1>12. /\ Stands(cs, sd, new) /\ Stands(ci, i, new)
       /\ sd # td => Stands(cd, td, new)
       /\ Has(td, t) => Stands(cv, v, new)
  BY <1>6, <1>8, <1>9, <1>10, <1>11 DEF Stands
<1>13. CASE sd = td
  <2>1. RenameQuota(sd, f, td, t) = <<cs, ci, cv>>  BY <1>1, <1>7, <1>13, Joins
  <2>2. DOMAIN new = {sd, i, v} /\ v \in Inos /\ v # sd /\ v # i  BY <1>1, <1>4, <1>6, <1>13
  <2>3. Commit(new, <<cs, ci, cv>>)  BY <2>1, <1>1
  <2>4. QED  BY <1>1, <1>3, <1>8, <1>12, <1>13, <2>2, <2>3, ThreeListed
<1>14. CASE sd # td /\ ~Has(td, t)
  <2>1. RenameQuota(sd, f, td, t) = <<cs, ci, cd>>  BY <1>7, <1>14, Joins
  <2>2. DOMAIN new = {sd, i, td}  BY <1>6, <1>14
  <2>3. Commit(new, <<cs, ci, cd>>)  BY <2>1, <1>1
  <2>4. QED  BY <1>3, <1>8, <1>12, <1>14, <2>2, <2>3, ThreeListed
<1>15. CASE sd # td /\ Has(td, t)
  <2>1. RenameQuota(sd, f, td, t) = <<cs, ci, cd, cv>>  BY <1>7, <1>15, Joins
  <2>2. DOMAIN new = {sd, i, td, v} /\ v \in Inos /\ v # sd /\ v # i /\ v # td
    BY <1>1, <1>4, <1>6, <1>15
  <2>3. Commit(new, <<cs, ci, cd, cv>>)  BY <2>1, <1>1
  <2>4. QED  BY <1>3, <1>8, <1>12, <1>15, <2>2, <2>3, FourListed
<1>16. QED  BY <1>13, <1>14, <1>15

-----------------------------------------------------------------------------
(* The theorems *)

\* A volume with only its root.
LEMMA InitBooks ==
  ASSUME Init
  PROVE  Books
<1>1. Inv /\ Root \in Inos  BY InitInv, NoNamesType
<1>2. \A x \in Inos : /\ inode[x].kind = (IF x = Root THEN "dir" ELSE "free")
                      /\ inode[x].nblocks = 0 /\ inode[x].dblocks = 0 /\ inode[x].ablocks = 0
  BY DEF Init, Freed
<1>3. InUse = {Root}  BY <1>1, <1>2 DEF InUse
<1>4. BlocksCounted  BY <1>1, <1>2, <1>3 DEF BlocksCounted
<1>5. \A id \in Ids : /\ dquot[id].blocks = 0
                      /\ dquot[id].inodes = IF id \in OwnersOf[Root] THEN 1 ELSE 0
  BY DEF Init
<1>6. dquot \in Dquots
  <2> DEFINE one(id) == IF id \in OwnersOf[Root] THEN 1 ELSE 0
  <2>1. dquot = [id \in Ids |-> [blocks |-> 0, inodes |-> one(id)]]  BY DEF Init
  <2>2. \A id \in Ids : one(id) \in Nat  OBVIOUS
  <2> HIDE DEF one
  <2>3. QED  BY <2>1, <2>2 DEF Dquots
<1>7. LimitsHold
  <2>1. ASSUME NEW id \in Enforced
        PROVE  ~Over(HardBlocks[id], dquot[id].blocks) /\ ~Over(HardInodes[id], dquot[id].inodes)
    <3>1. id \in Ids /\ HardBlocks[id] \in Nat /\ HardInodes[id] \in Nat  BY QuotaAssumption
    <3>2. dquot[id].blocks = 0 /\ dquot[id].inodes \in {0, 1}  BY <1>5, <3>1
    <3>3. QED  BY <3>1, <3>2 DEF Over
  <2>2. QED  BY <2>1, <1>6 DEF LimitsHold
<1>8. UsageMatches
  <2>1. ASSUME NEW id \in Ids
        PROVE  LET mine == {i \in InUse : id \in OwnersOf[i]}
               IN  /\ dquot[id].inodes = Cardinality(mine)
                   /\ dquot[id].blocks = SumFunction([i \in mine |-> inode[i].nblocks])
    <3> DEFINE mine == {i \in InUse : id \in OwnersOf[i]}
               g == [i \in mine |-> inode[i].nblocks]
    <3>1. mine = IF id \in OwnersOf[Root] THEN {Root} ELSE {}  BY <1>3
    <3>2. IsFiniteSet(mine) /\ Cardinality(mine) = IF id \in OwnersOf[Root] THEN 1 ELSE 0
      <4>1. CASE id \in OwnersOf[Root]
        <5>1. mine = {Root}  BY <3>1, <4>1
        <5> HIDE DEF mine
        <5>2. QED  BY <4>1, <5>1, FS_Singleton
      <4>2. CASE id \notin OwnersOf[Root]
        <5>1. mine = {}  BY <3>1, <4>2
        <5> HIDE DEF mine
        <5>2. QED  BY <4>2, <5>1, FS_EmptySet
      <4>3. QED  BY <4>1, <4>2
    <3>3. g \in [mine -> Int] /\ \A x \in mine : g[x] = 0  BY <1>1, <1>2, <1>3
    <3> HIDE DEF mine, g
    <3>4. SumFunction(g) = 0  BY <3>2, <3>3, SumNothing
    <3>5. QED  BY <1>5, <3>2, <3>4 DEF mine, g
  <2>2. QED  BY <2>1 DEF UsageMatches
<1>9. QED  BY <1>1, <1>4, <1>7, <1>8 DEF Books

\* Every step keeps the books.
LEMMA NextBooks ==
  ASSUME Books, [Next]_vars
  PROVE  Books'
<1>1. Inv'  BY NextInv DEF Books
<1>2. CASE Next
  <2>1. PICK d \in Inos :
    \/ \E n \in Names :
         \/ \E kind \in {"file", "dir", "symlink"}, long \in BOOLEAN : Create(d, n, kind, long)
         \/ \E i \in Inos : Link(i, d, n)
         \/ Unlink(d, n)
         \/ RemoveDirectory(d, n)
         \/ \E t \in Names :
              \/ RenameInDirectory(d, n, t)
              \/ \E td \in Inos : Rename(d, n, td, t)
    \/ SetXattr(d)
    BY <1>2 DEF Next
  <2>2. BlocksCounted' /\ LimitsHold' /\ UsageMatches'
    BY <2>1, CreateBooks, LinkBooks, UnlinkBooks, RemoveDirectoryBooks, RenameInDirectoryBooks,
       RenameBooks, SetXattrBooks
  <2>3. QED  BY <1>1, <2>2 DEF Books
<1>3. CASE UNCHANGED vars
  BY <1>1, <1>3 DEF vars, Books, BlocksCounted, LimitsHold, UsageMatches, InUse
<1>4. QED  BY <1>2, <1>3

\* The books hold throughout.
LEMMA AlwaysBooks == Spec => []Books
<1>1. Init => Books  BY InitBooks
<1>2. Books /\ [Next]_vars => Books'  BY NextBooks
<1>3. QED  BY <1>1, <1>2, PTL DEF Spec

\* di_nblocks counts the blocks of both forks, but for the directories
\* core_after miscounts.
THEOREM BlocksTheorem == Spec => []BlocksCounted
<1>1. Books => BlocksCounted  BY DEF Books
<1>2. QED  BY <1>1, AlwaysBooks, PTL

\* The dquots hold what the inodes of each owner add up to, for any number of
\* inodes and owners, until a move makes a directory grow.
THEOREM UsageTheorem == Spec => []UsageMatches
<1>1. Books => UsageMatches  BY DEF Books
<1>2. QED  BY <1>1, AlwaysBooks, PTL
=============================================================================
