------------------------------ MODULE Namespace ------------------------------
(***************************************************************************)
(* Names: create, link, unlink, remove, rename (create.rs, unlink.rs,      *)
(* rename.rs, dir_write.rs, dir_edit.rs), the parent pointers that follow  *)
(* them (attr_write.rs) and the quota they are charged to.                 *)
(*                                                                         *)
(* An operation reads the inodes it needs, computes every one of them      *)
(* anew, and commits them in one record, so that it is one step here; what *)
(* it refuses, it refuses before the record, and nothing happens.  A       *)
(* directory's entries are a map from names; how many blocks they take     *)
(* stands for its form, DirForms has the forms.  The inode a create takes  *)
(* is the lowest free one; Inodes has the trees behind the choice.         *)
(***************************************************************************)
EXTENDS Quota, Sequences

CONSTANTS
  Names,
  LastIno,      \* inodes are 0 .. LastIno; the root is 0
  Wide,         \* inodes whose number takes eight bytes
  ShortSpace,   \* entries of four-byte numbers a directory's inode holds
  PerBlock,     \* entries a directory block holds
  InlineAttrs,  \* parent pointers an inode's attribute fork holds
  MaxLinks,     \* (1 << 31) - 1
  OwnersOf,     \* by inode: the dquots its slot's owners have
  MaxOps        \* bound: operations

Inos == 0 .. LastIno
Root == 0

ASSUME NamespaceAssumption ==
  /\ IsFiniteSet(Names) /\ LastIno \in Nat /\ Wide \subseteq Inos
  /\ ShortSpace \in Nat /\ PerBlock \in Nat \ {0} /\ ShortSpace <= PerBlock
  /\ InlineAttrs \in Nat /\ MaxLinks \in Nat /\ MaxOps \in Nat
  /\ OwnersOf \in [Inos -> SUBSET Ids]

VARIABLES
  parents,     \* the volume keeps parent pointers
  inode,       \* by inode: its core, directory and attribute fork
  dquot,       \* by owner: blocks and inodes charged
  miscounted,  \* directories whose attribute blocks an edit has not counted
  uncharged,   \* directories a move has made grow
  ops

vars == <<parents, inode, dquot, miscounted, uncharged, ops>>

NoNames == [n \in {} |-> Root]

\* A slot nothing uses keeps its generation.
Freed(gen) ==
  [kind |-> "free", nlink |-> 0, gen |-> gen, names |-> NoNames, up |-> Root,
   local |-> TRUE, dblocks |-> 0, ablocks |-> 0, nblocks |-> 0,
   xattr |-> FALSE, pointers |-> {}]

With(f, x, v) == [y \in DOMAIN f \cup {x} |-> IF y = x THEN v ELSE f[y]]
Without(f, x) == [y \in DOMAIN f \ {x} |-> f[y]]

IsDir(i)  == inode[i].kind = "dir"
InUse     == {i \in Inos : inode[i].kind # "free"}
Has(d, n) == n \in DOMAIN inode[d].names

-----------------------------------------------------------------------------
(* One directory's change *)

CeilDiv(a, b) == (a + b - 1) \div b

\* lay_out: block form when one block holds the entries, else data blocks
\* and a leaf.
LayOut(n) == IF n <= PerBlock THEN 1 ELSE CeilDiv(n, PerBlock) + 1

\* encode_short_form: one number past four bytes makes all of them eight.
FitsShort(names, up) ==
  LET wide == (DOMAIN names # {} /\ \E n \in DOMAIN names : names[n] \in Wide) \/ up \in Wide
  IN  Cardinality(DOMAIN names) * (IF wide THEN 2 ELSE 1) <= ShortSpace

\* rewrite_directory, edit_directory and convert_to_block_form, then
\* core_after: the inode's block count is the directory's own blocks.
Rewritten(x, names, up) ==
  LET b == LayOut(Cardinality(DOMAIN names))
  IN  [x EXCEPT !.names = names, !.up = up, !.local = FALSE, !.dblocks = b, !.nblocks = b]

\* change_directory: in the inode while it fits there, then in blocks.
Changed(x, names, up) ==
  IF x.local /\ FitsShort(names, up)
  THEN [x EXCEPT !.names = names, !.up = up]
  ELSE Rewritten(x, names, up)

Grew(old, new) == new.nblocks - old.nblocks

\* Directories with attribute blocks that an edit in blocks has rewritten.
Miscounts(i, old, new) ==
  IF old.ablocks > 0 /\ ~new.local /\ <<new.names, new.up>> # <<old.names, old.up>>
  THEN {i} ELSE {}

-----------------------------------------------------------------------------
(* Parent pointers *)

Pointer(d, n) == [dir |-> d, gen |-> inode[d].gen, name |-> n]

\* Blocks of an attribute fork: a value too large for the inode takes a leaf
\* and a block of its own, more pointers than fit a leaf.
AttrBlocks(pointers, xattr) ==
  IF xattr THEN 2 ELSE IF Cardinality(pointers) > InlineAttrs THEN 1 ELSE 0

\* Mutant: the blocks the old fork had stay in the count.
MutRefork(x, pointers, xattr) ==
  LET b == AttrBlocks(pointers, xattr)
  IN  [x EXCEPT !.pointers = pointers, !.xattr = xattr, !.ablocks = b, !.nblocks = @ + b]

\* The fork rebuilt; its old blocks leave the count, its new ones join it.
Refork(x, pointers, xattr) ==
  LET b == AttrBlocks(pointers, xattr)
  IN  [x EXCEPT !.pointers = pointers, !.xattr = xattr, !.ablocks = b,
                !.nblocks = @ - x.ablocks + b]

\* Mutant: a pointer is found by its name alone.
MutUnpointed(x, d, n) == {p \in x.pointers : p.name # n}

\* ParentChange::Remove: by name and directory.
Unpointed(x, d, n) == {p \in x.pointers : ~(p.name = n /\ p.dir = d)}

\* with_parent_pointers: a pointer to remove must be there.
Pointed(x, remove, add) ==
  IF ~parents THEN x ELSE Refork(x, remove \cup add, x.xattr)

HasPointer(x, d, n) == parents => \E p \in x.pointers : p.name = n /\ p.dir = d

\* "attribute blocks exceed the inode's block count": of a fork rebuilt, the
\* old one's blocks are taken off before the new one's are added.
Counts(old, x) ==
  x.pointers # old.pointers \/ x.xattr # old.xattr => x.nblocks - x.ablocks >= 0

-----------------------------------------------------------------------------
(* Committing: the inodes of one record, and its quota *)

Commit(new, changes) ==
  /\ ops < MaxOps
  /\ \A i \in DOMAIN new : Counts(inode[i], new[i])
  /\ Accepted(dquot, changes)
  /\ dquot' = Adjusted(dquot, changes)
  /\ inode' = [i \in Inos |-> IF i \in DOMAIN new THEN new[i] ELSE inode[i]]
  /\ miscounted' = (miscounted \ {i \in DOMAIN new : new[i].kind = "free"})
                     \cup UNION {Miscounts(i, inode[i], new[i]) : i \in DOMAIN new}
  /\ ops' = ops + 1
  /\ UNCHANGED parents

Charge(i, old, new, inodes) == Change(OwnersOf[i], Grew(old, new), inodes)

\* The inode of a last name: emptied, its blocks and itself given back.
Emptied(x) == Freed(x.gen + 1)
GivenBack(i) == Change(OwnersOf[i], -inode[i].nblocks, -1)

-----------------------------------------------------------------------------
(* Operations *)

Init ==
  /\ parents \in BOOLEAN
  /\ inode = [i \in Inos |-> IF i = Root THEN [Freed(0) EXCEPT !.kind = "dir", !.nlink = 2]
                                          ELSE Freed(0)]
  /\ dquot = [id \in Ids |-> [blocks |-> 0, inodes |-> IF id \in OwnersOf[Root] THEN 1 ELSE 0]]
  /\ miscounted = {} /\ uncharged = {}
  /\ ops = 0

Free == {i \in Inos : inode[i].kind = "free"}

\* created_core: long is a symlink whose target needs a block.
Created(i, d, n, kind, long) ==
  LET x == [Freed(inode[i].gen + 1) EXCEPT
              !.kind = kind, !.nlink = IF kind = "dir" THEN 2 ELSE 1, !.up = d,
              !.dblocks = IF long THEN 1 ELSE 0, !.nblocks = IF long THEN 1 ELSE 0]
  IN  IF parents THEN [x EXCEPT !.pointers = {Pointer(d, n)}] ELSE x

\* The directory with its new entry, and the link of a subdirectory's `..`.
ParentAfter(d, n, i, kind) ==
  [Changed(inode[d], With(inode[d].names, n, i), inode[d].up)
     EXCEPT !.nlink = @ + (IF kind = "dir" THEN 1 ELSE 0)]

\* create's changes; it refuses a directory that comes out with fewer
\* blocks.
CreateQuota(d, dir, i, new) ==
  <<Change(OwnersOf[i], new.nblocks, 1), Charge(d, inode[d], dir, 0)>>

\* create: a file, a directory, a symlink.
Create(d, n, kind, long) ==
  LET i   == Min(Free)
      dir == ParentAfter(d, n, i, kind)
      new == Created(i, d, n, kind, long)
  IN  /\ IsDir(d) /\ ~Has(d, n) /\ Free # {}
      /\ long => kind = "symlink"
      /\ Grew(inode[d], dir) >= 0
      /\ Commit([x \in {i, d} |-> IF x = i THEN new ELSE dir], CreateQuota(d, dir, i, new))
      /\ UNCHANGED uncharged

\* link
Link(i, d, n) ==
  LET dir == Changed(inode[d], With(inode[d].names, n, i), inode[d].up)
      x   == [Pointed(inode[i], inode[i].pointers, {Pointer(d, n)}) EXCEPT !.nlink = @ + 1]
  IN  /\ IsDir(d) /\ inode[i].kind \notin {"dir", "free"} /\ inode[i].nlink < MaxLinks
      /\ ~Has(d, n)
      /\ Commit([y \in {i, d} |-> IF y = i THEN x ELSE dir],
                <<Charge(d, inode[d], dir, 0), Charge(i, inode[i], x, 0)>>)
      /\ UNCHANGED uncharged

\* A name fewer for an inode that keeps others.
Unnamed(i, d, n) ==
  [Pointed(inode[i], Unpointed(inode[i], d, n), {}) EXCEPT !.nlink = @ - 1]

\* remove_name's checks of a directory to remove.
Removable(d, i) ==
  DOMAIN inode[i].names = {} /\ inode[i].nlink = 2 /\ inode[d].nlink - 1 >= 2

\* remove_name: unlink_file.
Unlink(d, n) ==
  LET i     == inode[d].names[n]
      dir   == Changed(inode[d], Without(inode[d].names, n), inode[d].up)
      freed == inode[i].nlink <= 1
      x     == IF freed THEN Emptied(inode[i]) ELSE Unnamed(i, d, n)
  IN  /\ IsDir(d) /\ Has(d, n) /\ ~IsDir(i)
      /\ ~freed => HasPointer(inode[i], d, n)
      /\ Commit([y \in {i, d} |-> IF y = i THEN x ELSE dir],
                <<IF freed THEN GivenBack(i) ELSE Charge(i, inode[i], x, 0),
                  Charge(d, inode[d], dir, 0)>>)
      /\ UNCHANGED uncharged

\* Mutant: a directory's link from the removed one's `..` stays.
MutParentLinks(d) == inode[d].nlink

\* remove_name: the removed directory's `..` was a link.
ParentLinks(d) == inode[d].nlink - 1

\* remove_name: remove_directory.
RemoveDirectory(d, n) ==
  LET i   == inode[d].names[n]
      dir == [Changed(inode[d], Without(inode[d].names, n), inode[d].up)
                EXCEPT !.nlink = ParentLinks(d)]
  IN  /\ IsDir(d) /\ Has(d, n) /\ IsDir(i)
      /\ Removable(d, i)
      /\ Commit([y \in {i, d} |-> IF y = i THEN Emptied(inode[i]) ELSE dir],
                <<GivenBack(i), Charge(d, inode[d], dir, 0)>>)
      /\ UNCHANGED uncharged

\* rename_in_directory: no growth out of the inode, which a new name of the
\* same length does not need.
RenameInDirectory(d, f, t) ==
  LET i   == inode[d].names[f]
      dir == Changed(inode[d], With(Without(inode[d].names, f), t, i), inode[d].up)
      x   == Pointed(inode[i], Unpointed(inode[i], d, f), {Pointer(d, t)})
  IN  /\ IsDir(d) /\ Has(d, f) /\ ~Has(d, t)
      /\ HasPointer(inode[i], d, f)
      /\ Commit([y \in {i, d} |-> IF y = i THEN x ELSE dir],
                <<Charge(d, inode[d], dir, 0), Charge(i, inode[i], x, 0)>>)
      /\ UNCHANGED uncharged

\* Directories met on the way up from d.
Climb(d) ==
  LET up[k \in Nat] == IF k = 0 THEN d ELSE inode[up[k - 1]].up
  IN  {up[k] : k \in Inos}

\* Mutant: only the directory it moves into is looked at.
MutBeneath(i, d) == i = d

\* rename: the path up from the destination meets the directory moved.
Beneath(i, d) == i \in Climb(d)

Target(d, n) == inode[d].names[n]

\* rename: what it refuses.  A name of its own directory that is free goes
\* to rename_in_directory instead.
RenameAllowed(sd, f, td, t) ==
  /\ IsDir(sd) /\ IsDir(td) /\ Has(sd, f)
  /\ sd # td \/ Has(td, t)
  /\ Has(td, t) =>
       LET i == Target(sd, f)  v == Target(td, t)
       IN  v # i /\ (IsDir(i) <=> IsDir(v)) /\ (IsDir(v) => DOMAIN inode[v].names = {})
  /\ IsDir(Target(sd, f)) /\ sd # td => ~Beneath(Target(sd, f), td)

\* The replaced inode goes when the name was its last.
FreesReplaced(td, t) ==
  Has(td, t) /\ (IsDir(Target(td, t)) \/ inode[Target(td, t)].nlink <= 1)

One(b) == IF b THEN 1 ELSE 0

\* What rename does to the link counts of the two directories.
SourceLinks(sd, f, td, t) ==
  inode[sd].nlink - One(IsDir(Target(sd, f)) /\ sd # td)
                  - One(sd = td /\ Has(td, t) /\ IsDir(Target(td, t)))
DestinationLinks(sd, f, td, t) ==
  inode[td].nlink + One(IsDir(Target(sd, f))) - One(Has(td, t) /\ IsDir(Target(td, t)))

SourceAfter(sd, f, td, t) ==
  LET left == Without(inode[sd].names, f)
  IN  [Changed(inode[sd], IF sd = td THEN With(left, t, Target(sd, f)) ELSE left, inode[sd].up)
         EXCEPT !.nlink = SourceLinks(sd, f, td, t)]
DestinationAfter(sd, f, td, t) ==
  [Changed(inode[td], With(inode[td].names, t, Target(sd, f)), inode[td].up)
     EXCEPT !.nlink = DestinationLinks(sd, f, td, t)]

\* A directory moved to another has its `..` rewritten.
Reparented(i, sd, td) ==
  IF IsDir(i) /\ sd # td THEN Changed(inode[i], inode[i].names, td) ELSE inode[i]

MovedAfter(i, sd, f, td, t) ==
  Pointed(Reparented(i, sd, td), Unpointed(inode[i], sd, f), {Pointer(td, t)})

ReplacedAfter(td, t) ==
  LET v == Target(td, t)
  IN  IF FreesReplaced(td, t) THEN Emptied(inode[v]) ELSE Unnamed(v, td, t)

\* rename's changes: both directories, the moved inode's attribute fork (not
\* what Reparented made it grow by), the replaced one.
RenameQuota(sd, f, td, t) ==
  LET i == Target(sd, f)
  IN  <<Charge(sd, inode[sd], SourceAfter(sd, f, td, t), 0),
        Charge(i, Reparented(i, sd, td), MovedAfter(i, sd, f, td, t), 0)>>
      \o (IF sd = td THEN <<>> ELSE <<Charge(td, inode[td], DestinationAfter(sd, f, td, t), 0)>>)
      \o (IF ~Has(td, t) THEN <<>>
          ELSE LET v == Target(td, t)
               IN  <<IF FreesReplaced(td, t) THEN GivenBack(v)
                     ELSE Charge(v, inode[v], ReplacedAfter(td, t), 0)>>)

\* The inodes of rename's record.
RenameRecord(sd, f, td, t) ==
  LET i == Target(sd, f)
  IN  [y \in {sd, td, i} \cup (IF Has(td, t) THEN {Target(td, t)} ELSE {}) |->
         IF y = i THEN MovedAfter(i, sd, f, td, t)
         ELSE IF Has(td, t) /\ y = Target(td, t) THEN ReplacedAfter(td, t)
         ELSE IF y = sd THEN SourceAfter(sd, f, td, t)
         ELSE DestinationAfter(sd, f, td, t)]

\* rename, but for the case rename_in_directory takes.
Rename(sd, f, td, t) ==
  LET i == Target(sd, f)
  IN  /\ RenameAllowed(sd, f, td, t)
      /\ HasPointer(inode[i], sd, f)
      /\ Has(td, t) /\ ~FreesReplaced(td, t) => HasPointer(inode[Target(td, t)], td, t)
      /\ Commit(RenameRecord(sd, f, td, t), RenameQuota(sd, f, td, t))
      /\ uncharged' = IF Grew(inode[i], Reparented(i, sd, td)) # 0 THEN uncharged \cup {i}
                      ELSE uncharged

\* validate_attribute_fork: an inode with parent pointers is refused.
Settable(i) == inode[i].kind # "free" /\ inode[i].pointers = {}

\* write_xattr: a value too large for the inode, set or removed.
SetXattr(i) ==
  LET x == Refork(inode[i], {}, ~inode[i].xattr)
  IN  /\ Settable(i)
      /\ Commit([y \in {i} |-> x], <<Charge(i, inode[i], x, 0)>>)
      /\ UNCHANGED uncharged

Next ==
  \E d \in Inos :
    \/ \E n \in Names :
         \/ \E kind \in {"file", "dir", "symlink"}, long \in BOOLEAN : Create(d, n, kind, long)
         \/ \E i \in Inos : Link(i, d, n)
         \/ Unlink(d, n)
         \/ RemoveDirectory(d, n)
         \/ \E t \in Names :
              \/ RenameInDirectory(d, n, t)
              \/ \E td \in Inos : Rename(d, n, td, t)
    \/ SetXattr(d)

Spec == Init /\ [][Next]_vars

-----------------------------------------------------------------------------
(* Properties *)

NamesOf(i) == {e \in Inos \X Names : Has(e[1], e[2]) /\ inode[e[1]].names[e[2]] = i}

\* The directories are one tree: every directory but the root has one name,
\* in the directory its `..` points at, and the way up ends at the root;
\* every name leads to an inode in use and every inode in use has a name.
\* What rename's walk and the pairing of an entry with a Reparent are for.
OneTree ==
  /\ \A i \in InUse \ {Root} : NamesOf(i) # {}
  /\ \A i \in Inos : NamesOf(i) # {} => i \in InUse \ {Root}
  /\ \A d \in {i \in InUse : IsDir(i)} \ {Root} :
       /\ \E n \in Names : NamesOf(d) = {<<inode[d].up, n>>}
       /\ Root \in Climb(d)

\* Every link count is the number of names (for a directory, itself, its
\* name and its subdirectories), through links, replacements and moves:
\* what decides whether the next unlink frees the inode.
LinksCount ==
  \A i \in InUse :
    inode[i].nlink =
      IF IsDir(i) THEN 2 + Cardinality({n \in DOMAIN inode[i].names : IsDir(inode[i].names[n])})
                  ELSE Cardinality(NamesOf(i))

\* An inode's parent pointers are its names, each with the generation its
\* directory has now: freeing a directory and using its slot again never
\* leaves one that means another directory.
PointersAgree ==
  parents => \A i \in InUse : inode[i].pointers = {Pointer(e[1], e[2]) : e \in NamesOf(i)}

\* The dquots hold what check's quota.usage adds up, the blocks and the
\* inodes of each owner's files, as long as no move has made a directory
\* grow: several owners, one record.
UsageMatches ==
  uncharged = {} =>
    \A id \in Ids :
      LET mine == {i \in InUse : id \in OwnersOf[i]}
      IN  /\ dquot[id].inodes = Cardinality(mine)
          /\ dquot[id].blocks = SumFunction([i \in mine |-> inode[i].nblocks])

\* di_nblocks counts the blocks of both forks, but for a directory edited in
\* blocks that has attribute blocks too.
BlocksCounted ==
  \A i \in InUse \ miscounted : inode[i].nblocks = inode[i].dblocks + inode[i].ablocks

\* BlocksCounted without its exception: di_nblocks is "every directory block
\* and every block of its map" (dir_edit.rs), and the attribute fork's are
\* the inode's too.
AllBlocksCounted == miscounted = {}
=============================================================================
