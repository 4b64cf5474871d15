------------------------------ MODULE DirForms ------------------------------
(***************************************************************************)
(* One directory in its four forms (dir_write.rs, dir_block.rs,            *)
(* dir_leaf.rs, dir_node.rs, dir_edit.rs) and what its readers make of it  *)
(* (dir.rs, fs.rs).                                                        *)
(*                                                                         *)
(* In the inode: a list of entries, each with the offset a block would     *)
(* give it.  In one block, or in data blocks with one leaf: laid out anew  *)
(* by every edit.  In node form, past what one leaf indexes: edited in     *)
(* place, a B+tree of (hash, address) records split, joined and collapsed  *)
(* as it changes, and a table of each data block's largest gap.            *)
(*                                                                         *)
(* Lengths are counted in slots of a data block: a name takes Size[n] of   *)
(* them, `.` and `..` one each.  An entry's address is its data block and  *)
(* its offset there.  The edits are recursive, as the code's are, so this  *)
(* module is for TLC alone.                                                *)
(***************************************************************************)
EXTENDS Integers, Sequences, SequencesExt, FiniteSets, FiniteSetsExt

CONSTANTS
  Names,
  Hash,          \* by name, `.` and `..` included: its hash, not unique
  Size,          \* by name: the slots its entry takes
  InoOf,         \* by name: the inode it gets
  Parents,       \* inodes a directory may be moved to
  WriteShortMax, \* dir_write.rs MAX_SHORT_INUM: four bytes are enough up to it
  ReadShortMax,  \* dir.rs MAX_SHORT_INUM
  ShortSpace,    \* slots the inode has for the short form
  MaxCookie,     \* u16::MAX
  Room,          \* slots of a data block
  Cap,           \* records of an index block
  LeafRoom,      \* records of a leaf that has a best for no block yet
  MaxBests,      \* bests a free block holds
  ReadLevels,    \* MAX_SUPPORTED_NODE_LEVEL
  MaxEdits       \* bound: edits

ASSUME DirFormsAssumption ==
  /\ \A n \in Names : Size[n] \in 1 .. Room
  /\ Room \in Nat /\ Cap \in Nat /\ Cap >= 3 /\ LeafRoom \in Nat
  /\ MaxBests \in Nat \ {0} /\ MaxCookie \in Nat /\ MaxEdits \in Nat

VARIABLES
  names,   \* what the calls asked for: the names the directory has
  up,      \* and the directory its `..` is
  form,    \* "short", "block", "leaf", "node"
  short,   \* the short form's entries, in order, each with its cookie
  tree,    \* data blocks, index blocks, free blocks, size
  ok,      \* no edit has met a block it could not make sense of
  edits

vars == <<names, up, form, short, tree, ok, edits>>

Dots == {".", ".."}
SizeOf(n) == IF n \in Dots THEN 1 ELSE Size[n]
Null == -1   \* XFS_DIR2_DATA_FREE_NULL

-----------------------------------------------------------------------------
(* Short form *)

\* encode_short_form: the count of numbers the writer takes for wide.
WideCount(es, parent) ==
  Cardinality({k \in DOMAIN es : es[k].ino > WriteShortMax})
    + (IF parent > WriteShortMax THEN 1 ELSE 0)

ShortSize(es, parent) ==
  FoldLeft(LAMBDA n, e : n + Size[e.name], 0, es)
    + (IF WideCount(es, parent) > 0 THEN Len(es) + 1 ELSE 0)

\* The first cookie is past the two entries that are not written down.
FirstCookie == SizeOf(".") + SizeOf("..")

\* Mutant: one past as many entries as there are.
MutNextCookie(es) == IF es = <<>> THEN FirstCookie ELSE FirstCookie + Len(es)

\* next_cookie
NextCookie(es) ==
  IF es = <<>> THEN FirstCookie ELSE Max({es[k].cookie + Size[es[k].name] : k \in DOMAIN es})

CookiesFit(es) == \A k \in DOMAIN es : es[k].cookie <= MaxCookie

\* short_form_with_entry, short_form_without_entry, short_form_after_rename
ShortWith(es, n, ino) == Append(es, [name |-> n, ino |-> ino, cookie |-> NextCookie(es)])
ShortWithout(es, n)   == SelectSeq(es, LAMBDA e : e.name # n)
ShortRenamed(es, f, t, ino) ==
  Append(ShortWithout(es, f), [name |-> t, ino |-> ino, cookie |-> NextCookie(es)])

\* dir.rs short_form: the numbers its reader counts must be the header's.
ShortParses(es, parent) ==
  WideCount(es, parent) =
    Cardinality({k \in DOMAIN es : es[k].ino > ReadShortMax})
      + (IF parent > ReadShortMax THEN 1 ELSE 0)

-----------------------------------------------------------------------------
(* Laying a directory out anew *)

Entry(n, ino) == [name |-> n, ino |-> ino]

\* entries_from_short_form
FromShort(es, parent) ==
  <<Entry(".", 0), Entry("..", parent)>> \o [k \in DOMAIN es |-> Entry(es[k].name, es[k].ino)]

Slots(es) == FoldLeft(LAMBDA n, e : n + SizeOf(e.name), 0, es)

\* space_needed: a block-form index record takes a slot too.
BlockForm(es) == Slots(es) + Len(es) <= Room

\* dir_leaf.rs pack: as many as fit, then another block.
Pack(es) ==
  FoldLeft(LAMBDA bs, e :
             IF Slots(Last(bs)) + SizeOf(e.name) > Room THEN Append(bs, <<e>>)
             ELSE Front(bs) \o <<Append(Last(bs), e)>>,
           <<<<>>>>, es)

\* A block's best takes the room of a record.
LeafCapacity(groups) == LeafRoom - groups

\* build_data_block: one after the other from the start.
Placed(group) ==
  {[off |-> Slots(SubSeq(group, 1, k - 1)), name |-> group[k].name, ino |-> group[k].ino]
     : k \in DOMAIN group}

\* The records of data, sorted by hash; records of one hash by address.
Address(db, off) == <<db, off>>
SortedIndex(data) ==
  LET recs == UNION {{<<Hash[e.name], Address(db, e.off)>> : e \in data[db]} : db \in DOMAIN data}
  IN  SetToSortSeq(recs, LAMBDA a, b :
        \/ a[1] < b[1]
        \/ a[1] = b[1] /\ a[2][1] * Room + a[2][2] < b[2][1] * Room + b[2][2])

CeilDiv(a, b) == (a + b - 1) \div b

\* bmbt_write.rs shares: n records in as few blocks as hold them, evenly.
Shares(n, max) ==
  LET groups == IF n = 0 THEN 1 ELSE CeilDiv(n, max)
  IN  [i \in 1 .. groups |-> n \div groups + (IF i <= n % groups THEN 1 ELSE 0)]

Cut(recs, sizes) ==
  [i \in DOMAIN sizes |->
     LET at == FoldLeft(+, 0, SubSeq(sizes, 1, i - 1))
     IN  SubSeq(recs, at + 1, at + sizes[i])]

Block(level, recs, back, forw) == [level |-> level, recs |-> recs, back |-> back, forw |-> forw]

\* The blocks of one level, chained, at the given places.
Level(level, parts, at) ==
  [b \in ToSet(at) |->
     LET i == CHOOSE k \in DOMAIN at : at[k] = b
     IN  Block(level, parts[i], IF i = 1 THEN 0 ELSE at[i - 1],
               IF i = Len(at) THEN 0 ELSE at[i + 1])]

Merge(f, g) == [x \in DOMAIN f \cup DOMAIN g |-> IF x \in DOMAIN f THEN f[x] ELSE g[x]]

\* The levels above, until one block is left; it goes to the root's place.
RECURSIVE Stack(_, _, _)
Stack(recs, level, next) ==
  LET parts == Cut(recs, Shares(Len(recs), Cap))
      top   == Len(parts) = 1
      at    == [i \in DOMAIN parts |-> IF top THEN 0 ELSE next + i - 1]
      below == Level(level, parts, at)
  IN  IF top THEN below
      ELSE Merge(below, Stack([i \in DOMAIN parts |-> <<Last(parts[i])[1], at[i]>>],
                              level + 1, next + Len(parts)))

\* The largest gap of a data block.
Taken(block) == UNION {e.off .. e.off + SizeOf(e.name) - 1 : e \in block}
Gaps(block)  == {len \in 0 .. Room : \E s \in 0 .. Room - len : (s .. s + len - 1) \cap Taken(block) = {}}
BestOf(block) == Max(Gaps(block))

FreeBlocks(data) ==
  [k \in 0 .. CeilDiv(Cardinality(DOMAIN data), MaxBests) - 1 |->
     LET n == Min({MaxBests, Cardinality(DOMAIN data) - k * MaxBests})
     IN  [bests |-> [i \in 1 .. n |-> BestOf(data[k * MaxBests + i - 1])], used |-> n]]

Empty == [x \in {} |-> 0]

\* lay_out
LayOut(es) ==
  LET groups == IF BlockForm(es) THEN <<es>> ELSE Pack(es)
      data   == [db \in 0 .. Len(groups) - 1 |-> Placed(groups[db + 1])]
      leaf   == Len(es) <= LeafCapacity(Len(groups))
      recs   == SortedIndex(data)
      one    == Level(0, <<recs>>, <<0>>)
  IN  IF BlockForm(es)
      THEN [form |-> "block", data |-> data, index |-> one, free |-> Empty, size |-> 1, ok |-> TRUE]
      ELSE IF leaf
      THEN [form |-> "leaf", data |-> data, index |-> one, free |-> Empty,
            size |-> Len(groups), ok |-> TRUE]
      ELSE [form |-> "node", data |-> data, index |-> Stack(recs, 0, 1),
            free |-> FreeBlocks(data), size |-> Len(groups), ok |-> TRUE]

\* DirBlocks::entries: every data block in order, by offset.
EntriesIn(block) ==
  LET es == SetToSortSeq(block, LAMBDA a, b : a.off < b.off)
  IN  [k \in DOMAIN es |-> Entry(es[k].name, es[k].ino)]
Entries(t) ==
  LET dbs == SetToSortSeq(DOMAIN t.data, LAMBDA a, b : a < b)
  IN  FoldLeft(LAMBDA es, db : es \o EntriesIn(t.data[db]), <<>>, dbs)

-----------------------------------------------------------------------------
(* The index in node form: paths *)

Recs(t, b)     == t.index[b].recs
Lowest(s)      == CHOOSE n \in 0 .. Cardinality(s) : n \notin s
NewIndexBlock(t) == Lowest(DOMAIN t.index \cup {0})
Corrupt(t)     == [t EXCEPT !.ok = FALSE]
Drop(f, x)     == [y \in DOMAIN f \ {x} |-> f[y]]
Release(t, b)  == [t EXCEPT !.index = Drop(@, b)]
Write(t, b, recs)     == [t EXCEPT !.index[b].recs = recs]
Put(t, b, block)      == [t EXCEPT !.index = Merge([x \in {b} |-> block], @)]
SetBack(t, b, back)   == IF b = 0 THEN t ELSE [t EXCEPT !.index[b].back = back]
SetForw(t, b, forw)   == IF b = 0 THEN t ELSE [t EXCEPT !.index[b].forw = forw]

\* The first record of at least this hash, or the last there is.
ChildFor(recs, hash) ==
  LET at == {k \in DOMAIN recs : recs[k][1] >= hash}
  IN  IF at = {} THEN Len(recs) ELSE Min(at)

\* descend: the nodes passed, each with the child taken, and the leaf.
RECURSIVE Descend(_, _, _, _)
Descend(t, hash, at, nodes) ==
  IF t.index[at].level = 0 THEN [nodes |-> nodes, leaf |-> at]
  ELSE LET i == ChildFor(Recs(t, at), hash)
       IN  Descend(t, hash, Recs(t, at)[i][2], Append(nodes, <<at, i>>))
PathTo(t, hash) == Descend(t, hash, 0, <<>>)

\* next_leaf: up to a node with another child, down its first ones.
RECURSIVE FirstLeaf(_, _, _)
FirstLeaf(t, at, nodes) ==
  IF t.index[at].level = 0 THEN [nodes |-> nodes, leaf |-> at]
  ELSE FirstLeaf(t, Recs(t, at)[1][2], Append(nodes, <<at, 1>>))

NoPath == [nodes |-> <<>>, leaf |-> Null]

RECURSIVE NextLeaf(_, _)
NextLeaf(t, nodes) ==
  IF nodes = <<>> THEN NoPath
  ELSE LET node == Last(nodes)[1]
           i    == Last(nodes)[2] + 1
       IN  IF i <= Len(Recs(t, node))
           THEN FirstLeaf(t, Recs(t, node)[i][2], Append(Front(nodes), <<node, i>>))
           ELSE NextLeaf(t, Front(nodes))

EntryAt(t, address, n) ==
  {e \in IF address[1] \in DOMAIN t.data THEN t.data[address[1]] ELSE {} :
     e.off = address[2] /\ e.name = n}

NotFound == [path |-> NoPath, index |-> 0, at |-> <<0, 0>>]

\* find: leaf after leaf while the last record has the hash.
RECURSIVE FindFrom(_, _, _)
FindFrom(t, n, path) ==
  LET recs == Recs(t, path.leaf)
      hits == {k \in DOMAIN recs : recs[k][1] = Hash[n] /\ EntryAt(t, recs[k][2], n) # {}}
      next == NextLeaf(t, path.nodes)
  IN  IF hits # {} THEN [path |-> path, index |-> Min(hits), at |-> recs[Min(hits)][2]]
      ELSE IF recs = <<>> \/ Last(recs)[1] # Hash[n] \/ next = NoPath THEN NotFound
      ELSE FindFrom(t, n, next)
Find(t, n) == FindFrom(t, n, PathTo(t, Hash[n]))

-----------------------------------------------------------------------------
(* The index in node form: insertion *)

\* fix_hashes: a node's record of a child is the child's last hash.
RECURSIVE FixHashes(_, _, _)
FixHashes(t, nodes, hash) ==
  IF nodes = <<>> THEN t
  ELSE LET node == Last(nodes)[1]
           i    == Last(nodes)[2]
           new  == [t EXCEPT !.index[node].recs[i][1] = hash]
       IN  IF Recs(t, node)[i][1] = hash THEN t
           ELSE IF i # Len(Recs(t, node)) THEN new
           ELSE FixHashes(new, Front(nodes), hash)

\* The root split: its records go to two new blocks below it.
SplitRoot(t, level, left, right) ==
  LET a == NewIndexBlock(t)
      b == Lowest(DOMAIN t.index \cup {0, a})
      u == Put(Put(t, a, Block(level, left, 0, b)), b, Block(level, right, a, 0))
  IN  Put(u, 0, Block(level + 1, <<<<Last(left)[1], a>>, <<Last(right)[1], b>>>>, 0, 0))

\* The upper half of a block goes to a new one after it.
SplitAfter(t, b, left, right) ==
  LET new  == NewIndexBlock(t)
      forw == t.index[b].forw
      u    == Put(t, new, Block(t.index[b].level, right, b, forw))
  IN  SetBack([u EXCEPT !.index[b].recs = left, !.index[b].forw = new], forw, new)

\* node_insert: the child split in two has a record more here.
RECURSIVE NodeInsert(_, _, _, _, _)
NodeInsert(t, nodes, leftHash, new, rightHash) ==
  LET node  == Last(nodes)[1]
      i     == Last(nodes)[2]
      above == Front(nodes)
      recs  == InsertAt([Recs(t, node) EXCEPT ![i][1] = leftHash], i + 1, <<rightHash, new>>)
      half  == Len(recs) \div 2
      left  == SubSeq(recs, 1, half)
      right == SubSeq(recs, half + 1, Len(recs))
  IN  IF Len(recs) <= Cap THEN FixHashes(Write(t, node, recs), above, Last(recs)[1])
      ELSE IF above = <<>> THEN SplitRoot(t, t.index[node].level, left, right)
      ELSE NodeInsert(SplitAfter(t, node, left, right), above,
                      Last(left)[1], NewIndexBlock(t), Last(right)[1])

\* index_insert: after the records of the same hash.
IndexInsert(t, rec) ==
  LET path  == PathTo(t, rec[1])
      old   == Recs(t, path.leaf)
      at    == Cardinality({k \in DOMAIN old : old[k][1] <= rec[1]})
      recs  == InsertAt(old, at + 1, rec)
      half  == Len(recs) \div 2
      left  == SubSeq(recs, 1, half)
      right == SubSeq(recs, half + 1, Len(recs))
  IN  IF Len(recs) <= Cap THEN FixHashes(Write(t, path.leaf, recs), path.nodes, Last(recs)[1])
      ELSE IF path.nodes = <<>> THEN SplitRoot(t, 0, left, right)
      ELSE NodeInsert(SplitAfter(t, path.leaf, left, right), path.nodes,
                      Last(left)[1], NewIndexBlock(t), Last(right)[1])

-----------------------------------------------------------------------------
(* The index in node form: removal *)

\* Mutant: the block after keeps naming the released one.
MutUnlink(t, b) == SetForw(t, t.index[b].back, t.index[b].forw)

\* unlink
Unlink(t, b) ==
  SetBack(SetForw(t, t.index[b].back, t.index[b].forw), t.index[b].forw, t.index[b].back)

\* join: a block at most three eighths full, with the one after it, or
\* before it, when both take three quarters of a block.
RECURSIVE Join(_, _)
Join(t, nodes) ==
  IF nodes = <<>> THEN t
  ELSE LET parent == Last(nodes)[1]
           i      == Last(nodes)[2]
           recs   == Recs(t, parent)
           li     == IF i < Len(recs) THEN i ELSE i - 1
           l      == recs[li][2]
           r      == recs[li + 1][2]
           merged == Recs(t, l) \o Recs(t, r)
           forw   == t.index[r].forw
           u      == SetBack([Release(t, r) EXCEPT !.index[l].recs = merged,
                                                   !.index[l].forw = forw], forw, l)
           left   == RemoveAt([recs EXCEPT ![li][1] = Last(merged)[1]], li + 1)
           v      == Write(u, parent, left)
           w      == IF li = Len(left) THEN FixHashes(v, Front(nodes), left[li][1]) ELSE v
       IN  IF \/ Len(Recs(t, recs[i][2])) * 8 > Cap * 3
              \/ Len(recs) = 1
              \/ Len(merged) * 4 > Cap * 3
           THEN t ELSE Join(w, Front(nodes))

\* node_remove: an emptied child's record.
RECURSIVE NodeRemove(_, _)
NodeRemove(t, nodes) ==
  LET node  == Last(nodes)[1]
      i     == Last(nodes)[2]
      above == Front(nodes)
      recs  == RemoveAt(Recs(t, node), i)
      u     == Write(t, node, recs)
      v     == IF i > Len(recs) THEN FixHashes(u, above, Last(recs)[1]) ELSE u
  IN  IF recs # <<>> THEN Join(v, above)
      ELSE IF above = <<>> THEN Corrupt(t)
      ELSE NodeRemove(Release(Unlink(t, node), node), above)

\* collapse_root: an only child takes the root's place.
RECURSIVE CollapseRoot(_)
CollapseRoot(t) ==
  IF t.index[0].level = 0 \/ Len(Recs(t, 0)) # 1 THEN t
  ELSE LET child == Recs(t, 0)[1][2]
           moved == [t.index[child] EXCEPT !.back = 0, !.forw = 0]
       IN  CollapseRoot(Release(Put(t, 0, moved), child))

\* index_remove
IndexRemove(t, path, i) ==
  LET recs == RemoveAt(Recs(t, path.leaf), i)
      u    == Write(t, path.leaf, recs)
      v    == IF recs = <<>> THEN u ELSE FixHashes(u, path.nodes, Last(recs)[1])
  IN  IF recs # <<>> \/ path.nodes = <<>> THEN CollapseRoot(Join(v, path.nodes))
      ELSE CollapseRoot(NodeRemove(Release(Unlink(t, path.leaf), path.leaf), path.nodes))

-----------------------------------------------------------------------------
(* Data blocks and the table of their bests in node form *)

TrimNull(bests) ==
  LET kept == {k \in DOMAIN bests : bests[k] # Null}
  IN  IF kept = {} THEN <<>> ELSE SubSeq(bests, 1, Max(kept))

\* Mutant: a block that goes stays in the count of those used.
MutForgotten(old) == old

\* set_best of a block that goes.
Forgotten(old) == old - 1

\* set_best: best is Null for a block that goes.
SetBest(t, db, best) ==
  LET k     == db \div MaxBests
      i     == (db % MaxBests) + 1
      had   == k \in DOMAIN t.free
      bests == IF had THEN t.free[k].bests ELSE <<>>
      used  == IF had THEN t.free[k].used ELSE 0
      old   == IF i <= Len(bests) THEN bests[i] ELSE Null
      grown == [j \in 1 .. Max({i, Len(bests)}) |->
                  IF j = i THEN best ELSE IF j <= Len(bests) THEN bests[j] ELSE Null]
      new   == IF best # Null
               THEN [bests |-> grown, used |-> IF old = Null THEN used + 1 ELSE used]
               ELSE [bests |-> TrimNull(grown), used |-> IF old # Null THEN Forgotten(used) ELSE used]
  IN  IF ~had /\ best = Null THEN t
      ELSE IF new.used = 0 THEN [t EXCEPT !.free = Drop(@, k)]
      ELSE [t EXCEPT !.free = Merge([x \in {k} |-> new], @)]

\* room_for: the first block whose best is enough.
RoomFor(t, size) ==
  LET fit == {db \in UNION {{k * MaxBests + i - 1 : i \in DOMAIN t.free[k].bests} : k \in DOMAIN t.free} :
                LET b == t.free[db \div MaxBests].bests[(db % MaxBests) + 1] IN b # Null /\ b >= size}
  IN  IF fit = {} THEN Null ELSE Min(fit)

\* first_gap
FirstGap(block, size) ==
  LET at == {s \in 0 .. Room - size : (s .. s + size - 1) \cap Taken(block) = {}}
  IN  IF at = {} THEN Null ELSE Min(at)

\* add_entry, with new_data_block when no block has room.
AddEntry(t, n, ino) ==
  LET room == RoomFor(t, Size[n])
      db   == IF room # Null THEN room ELSE Lowest(DOMAIN t.data)
      old  == IF room # Null THEN (IF room \in DOMAIN t.data THEN t.data[db] ELSE {}) ELSE {}
      off  == FirstGap(old, Size[n])
      new  == old \cup {[off |-> off, name |-> n, ino |-> ino]}
      u    == [t EXCEPT !.data = Merge([x \in {db} |-> new], @),
                        !.size = IF room = Null THEN Max({@, db + 1}) ELSE @]
  IN  IF off = Null \/ (room # Null /\ room \notin DOMAIN t.data) THEN Corrupt(t)
      ELSE IndexInsert(SetBest(u, db, BestOf(new)), <<Hash[n], Address(db, off)>>)

\* remove_entry: an emptied block goes, but for the first.
RemoveEntry(t, n) ==
  LET found == Find(t, n)
      db    == found.at[1]
      left  == {e \in t.data[db] : e.off # found.at[2]}
      u     == IndexRemove(t, found.path, found.index)
  IN  IF found = NotFound THEN Corrupt(t)
      ELSE IF left = {} /\ db # 0
      THEN SetBest([u EXCEPT !.data = Drop(@, db), !.size = IF db + 1 = @ THEN db ELSE @], db, Null)
      ELSE SetBest([u EXCEPT !.data[db] = left], db, BestOf(left))

-----------------------------------------------------------------------------
(* Editing *)

\* fits_leaf_form, after an edit in node form.
Shrunk(t) ==
  LET es == Entries(t)
  IN  IF t.ok /\ t.index[0].level = 0 /\ Len(es) <= LeafCapacity(Len(Pack(es)))
      THEN LayOut(es) ELSE t

\* edit_directory: in node form the tree edited in place, else the entries
\* edited and laid out anew.
Edited(inPlace, entries) ==
  IF form = "node" THEN Shrunk(inPlace) ELSE LayOut(entries)

Removed(es, n) == SelectSeq(es, LAMBDA e : e.name # n)
Reparented(es, p) == [k \in DOMAIN es |-> IF es[k].name = ".." THEN Entry("..", p) ELSE es[k]]

NoTree == [form |-> "short", data |-> Empty, index |-> Empty, free |-> Empty, size |-> 0, ok |-> TRUE]

InBlocks(t) ==
  /\ form' = t.form /\ tree' = t /\ ok' = (ok /\ t.ok)
  /\ short' = <<>>

\* change_directory: the short form while it fits, then blocks.
InShort(es, parent) ==
  IF ShortSize(es, parent) <= ShortSpace
  THEN form' = "short" /\ short' = es /\ tree' = NoTree /\ ok' = ok
  ELSE InBlocks(LayOut(FromShort(es, parent)))

\* An empty directory, or one rewrite_directory has laid out with every
\* name, as a repair does.
Init ==
  /\ up \in Parents
  /\ \/ names = Empty /\ short = <<>> /\ form = "short" /\ tree = NoTree
     \/ /\ names = InoOf /\ short = <<>>
        /\ tree = LayOut(FromShort([k \in 1 .. Cardinality(Names) |->
                                     Entry(SetToSeq(Names)[k], InoOf[SetToSeq(Names)[k]])], up))
        /\ form = tree.form
  /\ ok = TRUE /\ edits = 0

Edit == edits < MaxEdits /\ edits' = edits + 1

AddName(n) ==
  /\ Edit
  /\ n \notin DOMAIN names
  /\ names' = Merge([x \in {n} |-> InoOf[n]], names)
  /\ UNCHANGED up
  /\ IF form = "short"
     THEN /\ CookiesFit(ShortWith(short, n, InoOf[n]))
          /\ InShort(ShortWith(short, n, InoOf[n]), up)
     ELSE InBlocks(Edited(AddEntry(tree, n, InoOf[n]), Append(Entries(tree), Entry(n, InoOf[n]))))

RemoveName(n) ==
  /\ Edit
  /\ n \in DOMAIN names
  /\ names' = Drop(names, n)
  /\ UNCHANGED up
  /\ IF form = "short" THEN InShort(ShortWithout(short, n), up)
     ELSE InBlocks(Edited(RemoveEntry(tree, n), Removed(Entries(tree), n)))

\* rename_in_directory: the short form is refused when it no longer fits.
RenameName(f, t) ==
  LET ino == names[f]
  IN  /\ Edit
      /\ f \in DOMAIN names /\ t \notin DOMAIN names
      /\ names' = Merge([x \in {t} |-> ino], Drop(names, f))
      /\ UNCHANGED up
      /\ IF form = "short"
         THEN LET es == ShortRenamed(short, f, t, ino)
              IN  /\ CookiesFit(es) /\ ShortSize(es, up) <= ShortSpace
                  /\ InShort(es, up)
         ELSE InBlocks(Edited(AddEntry(RemoveEntry(tree, f), t, ino),
                              Append(Removed(Entries(tree), f), Entry(t, ino))))

\* DirEdit::Reparent
Reparent(p) ==
  /\ Edit
  /\ p # up
  /\ up' = p
  /\ UNCHANGED names
  /\ IF form = "short" THEN InShort(short, p)
     ELSE InBlocks(Edited([tree EXCEPT !.data[0] =
                             {IF e.name = ".." THEN [e EXCEPT !.ino = p] ELSE e : e \in @}],
                          Reparented(Entries(tree), p)))

Next ==
  \/ \E n \in Names : AddName(n) \/ RemoveName(n)
  \/ \E f, t \in Names : RenameName(f, t)
  \/ \E p \in Parents : Reparent(p)

Spec == Init /\ [][Next]_vars

-----------------------------------------------------------------------------
(* Reading *)

\* read_dir, `.` and `..` left out.
Listing == IF form = "short" THEN [k \in DOMAIN short |-> Entry(short[k].name, short[k].ino)]
           ELSE SelectSeq(Entries(tree), LAMBDA e : e.name \notin Dots)

\* Mutant: the records of a hash are all in one leaf.
MutChain(b, hash) ==
  LET recs == Recs(tree, b) IN {recs[k][2] : k \in {j \in DOMAIN recs : recs[j][1] = hash}}

\* The leaves from b on that a hash may lie in.
RECURSIVE Chain(_, _)
Chain(b, hash) ==
  LET recs == Recs(tree, b)
      here == {recs[k][2] : k \in {j \in DOMAIN recs : recs[j][1] = hash}}
      forw == tree.index[b].forw
  IN  IF recs # <<>> /\ Last(recs)[1] = hash /\ form = "node" /\ forw # 0
      THEN here \cup Chain(forw, hash) ELSE here

\* lookup_by_hash: down by hash, then along the chain of leaves.  Nothing
\* where a node has no child of that hash.
RECURSIVE LeafFor(_, _)
LeafFor(b, hash) ==
  LET recs == Recs(tree, b)
  IN  IF tree.index[b].level = 0 THEN b
      ELSE IF \A k \in DOMAIN recs : recs[k][1] < hash THEN Null
      ELSE LeafFor(recs[ChildFor(recs, hash)][2], hash)

LookupByHash(n) ==
  LET leaf == LeafFor(0, Hash[n])
      hits == IF leaf = Null THEN {} ELSE UNION {EntryAt(tree, a, n) : a \in Chain(leaf, Hash[n])}
  IN  {e.ino : e \in hits}

\* lookup and entry_ino
Lookup(n) == IF form = "short" THEN {short[k].ino : k \in {j \in DOMAIN short : short[j].name = n}}
             ELSE LookupByHash(n)

\* parse_leaf_entries
Sorted(recs) == \A k \in 2 .. Len(recs) : recs[k - 1][1] <= recs[k][1]

\* parse_leaf: sorted, and no more than fit; a single leaf has its bests too.
LeafParses(b) ==
  /\ Sorted(Recs(tree, b))
  /\ Len(Recs(tree, b)) <= IF form = "leaf" THEN LeafCapacity(Cardinality(DOMAIN tree.data)) ELSE Cap

\* parse_node, and the levels lookup_by_hash holds it to.
NodeParses(b) ==
  LET recs == Recs(tree, b)  level == tree.index[b].level
  IN  /\ Sorted(recs) /\ Len(recs) \in 1 .. Cap
      /\ level <= ReadLevels
      /\ \A k \in DOMAIN recs : tree.index[recs[k][2]].level = level - 1

\* parse_block_form: the index lies between the entries and the end.
BlockFormParses ==
  /\ Sorted(Recs(tree, 0))
  /\ Slots(Entries(tree)) + Len(Recs(tree, 0)) <= Room

IndexParses ==
  IF form = "block" THEN BlockFormParses
  ELSE \A b \in DOMAIN tree.index : IF tree.index[b].level = 0 THEN LeafParses(b) ELSE NodeParses(b)

\* parse_entries: entries one after the other, none over another or past
\* the end.
DataParses(block) ==
  /\ \A e \in block : e.off + SizeOf(e.name) <= Room
  /\ \A d, e \in block :
       d # e => d.off + SizeOf(d.name) <= e.off \/ e.off + SizeOf(e.name) <= d.off

-----------------------------------------------------------------------------
(* Properties *)

Leaves == {b \in DOMAIN tree.index : tree.index[b].level = 0}

\* The leaves in the order of the tree.
RECURSIVE InOrder(_)
InOrder(b) ==
  IF tree.index[b].level = 0 THEN <<b>>
  ELSE FoldLeft(LAMBDA s, r : s \o InOrder(r[2]), <<>>, Recs(tree, b))

\* Whatever sequence of edits made it and whatever form it is in, listing
\* the directory gives each of its names once and looking one up gives its
\* inode, and a name it does not have is not found, by the reader's walk and
\* by the editor's: records of one hash lie across leaves, and blocks split,
\* join and collapse.
NamesAreFound ==
  /\ Len(Listing) = Cardinality(DOMAIN names)
  /\ \A k \in DOMAIN Listing :
       Listing[k].name \in DOMAIN names /\ Listing[k].ino = names[Listing[k].name]
  /\ \A n \in Names :
       /\ Lookup(n) = IF n \in DOMAIN names THEN {names[n]} ELSE {}
       /\ form = "node" => (Find(tree, n) = NotFound <=> n \notin DOMAIN names)
  /\ form # "short" => Entries(tree)[1].name = "." /\ Entries(tree)[2] = Entry("..", up)

\* Every block the edits leave is one the readers accept, each record of a
\* node is its child's last hash, the leaves' chain is the tree's order both
\* ways, no index block is left that the root does not lead to, and no edit
\* has refused the directory as corrupt.
IndexIsSound ==
  /\ ok
  /\ form # "short" =>
       /\ IndexParses
       /\ \A db \in DOMAIN tree.data : DataParses(tree.data[db])
       /\ \A b \in DOMAIN tree.index : tree.index[b].level > 0 =>
            \A k \in DOMAIN Recs(tree, b) :
              Recs(tree, b)[k][1] = Last(Recs(tree, Recs(tree, b)[k][2]))[1]
       /\ LET order == InOrder(0)
          IN  /\ ToSet(order) = Leaves /\ Len(order) = Cardinality(Leaves)
              /\ \A k \in DOMAIN order :
                   /\ tree.index[order[k]].back = IF k = 1 THEN 0 ELSE order[k - 1]
                   /\ tree.index[order[k]].forw = IF k = Len(order) THEN 0 ELSE order[k + 1]

\* The table that add_entry trusts for a place: each data block's best is
\* its largest gap, blocks that are gone have none, each free block counts
\* the ones it has, and none is left that has none.
BestsAreExact ==
  form = "node" =>
    /\ \A db \in DOMAIN tree.data :
         LET k == db \div MaxBests  i == (db % MaxBests) + 1
         IN  k \in DOMAIN tree.free /\ i \in DOMAIN tree.free[k].bests
               /\ tree.free[k].bests[i] = BestOf(tree.data[db])
    /\ \A k \in DOMAIN tree.free :
         LET used == {i \in DOMAIN tree.free[k].bests : tree.free[k].bests[i] # Null}
         IN  /\ tree.free[k].used = Cardinality(used) /\ used # {}
             /\ \A i \in used : k * MaxBests + i - 1 \in DOMAIN tree.data

\* A short form is read back: the numbers counted as wide are those the
\* reader counts, unless one lies between the two bounds; and its cookies
\* increase, so that a reader's place in it stays its place.
ShortFormReadsBack ==
  form = "short" =>
    /\ \A k \in 2 .. Len(short) : short[k - 1].cookie + Size[short[k - 1].name] <= short[k].cookie
    /\ ({up} \cup {short[k].ino : k \in DOMAIN short}) \cap (WriteShortMax + 1 .. ReadShortMax) = {}
         => ShortParses(short, up)

\* ShortFormReadsBack without its exception: what create, rename and remove
\* write, read_short_form accepts.
ShortFormAlwaysParses == form = "short" => ShortParses(short, up)

\* dir_edit.rs: "`di_size`: up to the end of the last data block."
SizeEndsAtLastBlock == form # "short" => tree.size = Max(DOMAIN tree.data) + 1
=============================================================================
