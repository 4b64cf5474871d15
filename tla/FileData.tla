------------------------------ MODULE FileData ------------------------------
(***************************************************************************)
(* The data of regular files: reads and in-place writes (fs.rs, write.rs), *)
(* writes that allocate (file_write.rs, write_alloc.rs), the three         *)
(* truncates (write.rs, truncate.rs, truncate_to.rs), the exchange of      *)
(* ranges (exchange.rs), and the extent map in the inode or in a tree      *)
(* (extent.rs, bmbt.rs, bmbt_write.rs).                                    *)
(*                                                                         *)
(* A block holds BlockSize bytes.  A file writes bytes of its own value,   *)
(* and zero is the byte of a hole.  Data goes to the device first and the  *)
(* record after it: a record that is not committed leaves the data where   *)
(* it was put and the mount unable to write.  Free space is the set of     *)
(* blocks no record holds; Group has the trees.  The records of all groups *)
(* are one list: a group begins with its headers, so no two meet.          *)
(***************************************************************************)
EXTENDS Quota, SpaceRecords

CONSTANTS
  Files,       \* inode numbers, from 1: a file's number is the byte it writes
  GroupCount,  \* allocation groups
  AgBlocks,    \* blocks of a group
  Home,        \* by file: the group of its inode
  BlockSize,   \* bytes of a block
  Room,        \* extents the inode lists
  LeafMax,     \* records of a tree block
  RootMax,     \* pointers of the root in the inode
  AttrBlocks,  \* by file: blocks of its attribute fork
  Writes,      \* inputs: <<offset, length>>
  Sizes,       \* inputs: sizes to truncate to
  Ranges,      \* inputs: <<block of one, block of the other, blocks>>
  Volumes,     \* volumes to start from
  MaxOps       \* bound: operations

ASSUME FileDataAssumption ==
  /\ Files \subseteq Nat \ {0} /\ GroupCount \in Nat \ {0} /\ AgBlocks \in Nat \ {0}
  /\ Home \in [Files -> 0 .. GroupCount - 1] /\ AttrBlocks \in [Files -> Nat]
  /\ BlockSize \in Nat \ {0} /\ Room \in Nat \ {0} /\ LeafMax \in Nat \ {0, 1} /\ RootMax \in Nat \ {0}

VARIABLES
  file,     \* by file: [size, exts, tree, nblocks, reflink, owner]
  disk,     \* by block: its bytes
  free,     \* blocks no record holds
  rmap,     \* reverse-map records
  refs,     \* reference-count records
  dquot,    \* by owner: its usage
  quota,    \* quota accounting is on
  session,  \* "fresh", "logged" once a record is written, "stopped" after a failed one
  ops,      \* operations done
  want,     \* ghost, by file and byte: what a read may return
  loose     \* ghost: files shortened in place, and files that took blocks from them

vars == <<file, disk, free, rmap, refs, dquot, quota, session, ops, want, loose>>

Bytes      == 0 .. BlockSize - 1
Groups     == 0 .. GroupCount - 1
InGroup(g) == g * AgBlocks + 1 .. (g + 1) * AgBlocks - 1  \* the first block has the headers
MapBlock   == -1      \* OFF_BMBT_BLOCK
CeilDiv(a, b) == (a + b - 1) \div b
Lower(a, b)   == IF a < b THEN a ELSE b
Upper(a, b)   == IF a > b THEN a ELSE b

\* The bytes of a file of n bytes, its last block counted whole.
Whole(n) == 0 .. CeilDiv(n, BlockSize) * BlockSize - 1

-----------------------------------------------------------------------------
(* Extents *)

Extent(off, start, len, unwritten) == [off |-> off, start |-> start, len |-> len, unwritten |-> unwritten]
EndOf(e)      == e.off + e.len
BlocksOf(e)   == e.start .. e.start + e.len - 1
Mapped(es)    == FoldLeft(LAMBDA n, e : n + e.len, 0, es)
InOrder(es)   == SortSeq(es, LAMBDA a, b : a.off < b.off)

\* Extent::parse and parse_list: none empty, each after the one before.
Parses(es) ==
  /\ \A k \in DOMAIN es : es[k].len > 0
  /\ \A k \in 1 .. Len(es) - 1 : EndOf(es[k]) <= es[k + 1].off

\* check_extents_in_bounds
InBounds(es) == \A k \in DOMAIN es : \E g \in Groups : BlocksOf(es[k]) \subseteq InGroup(g)

\* lookup: the first extent that ends past the block, if it has the block.
Lookup(es, fb) ==
  LET past == {k \in DOMAIN es : EndOf(es[k]) > fb}
  IN  IF past # {} /\ es[Min(past)].off <= fb THEN {es[Min(past)]} ELSE {}

\* Extent::map of the written extent at a file block.
WrittenAt(es, fb) == {e.start + (fb - e.off) : e \in {e \in Lookup(es, fb) : ~e.unwritten}}
At(es, fb)        == {e.start + (fb - e.off) : e \in Lookup(es, fb)}

\* read_at: holes and unwritten extents are zeros.
ReadByte(f, i) ==
  LET at == WrittenAt(file[f].exts, i \div BlockSize)
  IN  IF at = {} THEN 0 ELSE disk[CHOOSE b \in at : TRUE][i % BlockSize]

\* A piece of an extent, from one file block to another.
Piece(e, from, to) == [e EXCEPT !.off = from, !.start = @ + (from - e.off), !.len = to - from]
PieceIf(e, from, to) == IF from < to THEN <<Piece(e, from, to)>> ELSE <<>>

\* rmap_of, and the record of a block of the map.
RmapOf(f, e) == Rmap(e.start, e.len, f, e.off, IF e.unwritten THEN "unwritten" ELSE "data")
TreeRec(f, b, n) == Rmap(b, n, f, 0, "map")

-----------------------------------------------------------------------------
(* Taking and giving back blocks *)

RunAt(fr, g, b) ==
  LET ends == {n \in 1 .. AgBlocks : b + n \notin fr \cap InGroup(g)} IN Min(ends)

\* GroupAlloc::take: the first run long enough.
FirstRun(fr, g, n) ==
  LET starts == {b \in fr \cap InGroup(g) : RunAt(fr, g, b) >= n} IN IF starts = {} THEN {} ELSE {Min(starts)}

Longest(fr, g) == Max({0} \cup {RunAt(fr, g, b) : b \in fr \cap InGroup(g)})

\* Free space, records and map blocks as an operation edits them, in memory.
Space == [ok |-> TRUE, free |-> free, rmap |-> rmap, refs |-> refs, tree |-> [f \in Files |-> file[f].tree],
          exts |-> <<>>]

Edited(s, edit)    == [s EXCEPT !.ok = @ /\ edit.ok, !.rmap = edit.recs]
Forget(s, r)       == Edited(s, RemoveRec(s.rmap, r))
Remember(s, r)     == Edited(s, InsertRec(s.rmap, r))
RememberMoved(s, r) == Edited(s, InsertShared(s.rmap, r))

\* take_at
TakeAt(s, r) == Remember([s EXCEPT !.free = @ \ (r.start .. RecEnd(r) - 1)], r)

\* write: one hole, from the home group while it has a run and then from the
\* others; take_up_to takes all that is wanted or the longest run.
RECURSIVE Fill(_, _, _, _, _)
Fill(s, f, from, to, tried) ==
  LET g   == (Home[f] + tried) % GroupCount
      got == Lower(to - from, Longest(s.free, g))
      b   == CHOOSE x \in FirstRun(s.free, g, got) : TRUE
      e   == Extent(from, b, got, FALSE)
  IN  IF from = to \/ ~s.ok THEN s
      ELSE IF tried = GroupCount THEN [s EXCEPT !.ok = FALSE]
      ELSE IF got = 0 THEN Fill(s, f, from, to, tried + 1)
      ELSE Fill([TakeAt(s, RmapOf(f, e)) EXCEPT !.exts = Append(@, e)], f, from + got, to, tried)

\* release_shared and give_back: what nobody else holds is free.
Released(s, start, len) ==
  LET got == Release(s.refs, start, len)
  IN  [s EXCEPT !.ok = @ /\ got.ok /\ got.freeable \cap s.free = {}, !.refs = got.refs, !.free = @ \cup got.freeable]

\* free_in_group: every extent's record, then its blocks.
ReleaseAll(s, f, es) ==
  FoldLeft(LAMBDA x, e : Released(x, e.start, e.len), FoldLeft(LAMBDA x, e : Forget(x, RmapOf(f, e)), s, es), es)

\* The map's blocks go back in the runs they lie in.
RunsOf(bs) ==
  LET starts == {b \in bs : b - 1 \notin bs}
      len(b) == Min({n \in 1 .. Cardinality(bs) : b + n \notin bs})
  IN  {<<b, len(b)>> : b \in starts}
ReleaseTree(s, f, bs) ==
  FoldSet(LAMBDA run, x : Released(Forget(x, TreeRec(f, run[1], run[2])), run[1], run[2]),
          [s EXCEPT !.tree[f] = {}], RunsOf(bs))

\* Blocks of the tree above n leaves; the root is in the inode.
RECURSIVE TreeSize(_)
TreeSize(n) == IF n <= RootMax THEN n ELSE n + TreeSize(CeilDiv(n, LeafMax))

RECURSIVE TakeOnes(_, _, _)
TakeOnes(s, f, n) ==
  LET b == CHOOSE x \in FirstRun(s.free, Home[f], 1) : TRUE
  IN  IF n = 0 \/ ~s.ok THEN s
      ELSE IF FirstRun(s.free, Home[f], 1) = {} THEN [s EXCEPT !.ok = FALSE]
      ELSE TakeOnes([TakeAt(s, TreeRec(f, b, 1)) EXCEPT !.tree[f] = @ \cup {b}], f, n - 1)

\* map_data_fork: listed in the inode when it fits; else a tree built anew.
\* The old tree's blocks go back first, one by one.
MapDataFork(s, f, es) ==
  LET back == FoldSet(LAMBDA b, x : [Forget(x, TreeRec(f, b, 1)) EXCEPT !.free = @ \cup {b}],
                      [s EXCEPT !.tree[f] = {}], s.tree[f])
  IN  TakeOnes(back, f, IF Len(es) <= Room THEN 0 ELSE TreeSize(CeilDiv(Len(es), LeafMax)))

-----------------------------------------------------------------------------
(* Records *)

IsTree(f) == file[f].tree # {}
Charges(f, n) == IF quota /\ n # 0 THEN <<Change({file[f].owner}, n, 0)>> ELSE <<>>

\* accounting_items, for every change of a record.
Charged(changes) == dquot' = Adjusted(dquot, changes)

Open == session # "stopped" /\ ops < MaxOps
Done == ops' = ops + 1

\* What a record leaves of the space.
Settled(s) == free' = s.free /\ rmap' = s.rmap /\ refs' = s.refs

\* filled_core, grown_core, emptied_core: size, extents and blocks counted.
Filled(f, n, es)         == [file EXCEPT ![f].size = n, ![f].exts = es, ![f].nblocks = Mapped(es)]
Grown(F, n, es, blocks)  == [F EXCEPT !.size = n, !.exts = es, !.nblocks = blocks]
Emptied(f)               == [file EXCEPT ![f].size = 0, ![f].exts = <<>>, ![f].tree = {}, ![f].nblocks = 0]

\* Zeros from a byte to the end of its block.
Zeroed(d, b, from, to) == [d EXCEPT ![b] = [i \in Bytes |-> IF i >= from /\ i < to THEN 0 ELSE @[i]]]

\* The record is committed.
Commits == session' = "logged"

\* The data is on the device, the record is not.
Fails ==
  /\ session' = "stopped"
  /\ UNCHANGED <<file, free, rmap, refs, dquot, quota, loose>>

-----------------------------------------------------------------------------
(* In place, without a record *)

\* plan_in_place_write: every block it touches is written.
InPlace(f, first, last) == \A fb \in first .. last : WrittenAt(file[f].exts, fb) # {}

\* Bytes of file f written over blocks es maps; `whole` blocks are zeroed first.
Overwritten(d, f, es, at, end, whole) ==
  [b \in DOMAIN d |->
     LET fbs == {fb \in at \div BlockSize .. (end - 1) \div BlockSize : b \in At(es, fb)}
     IN  IF fbs = {} THEN d[b]
         ELSE LET fb == CHOOSE x \in fbs : TRUE
              IN  [i \in Bytes |->
                     IF fb * BlockSize + i \in at .. end - 1 THEN f
                     ELSE IF fb \in whole THEN 0 ELSE d[b][i]]]

\* write_at: inside the file, on written blocks, while nothing is logged.
WriteAt(f, at, n) ==
  /\ Open /\ session = "fresh" /\ ~file[f].reflink
  /\ at + n <= file[f].size
  /\ InPlace(f, at \div BlockSize, (at + n - 1) \div BlockSize)
  /\ disk' = Overwritten(disk, f, file[f].exts, at, at + n, {})
  /\ want' = [want EXCEPT ![f] = [i \in DOMAIN @ |-> IF i \in at .. at + n - 1 THEN {f} ELSE @[i]]]
  /\ Done /\ UNCHANGED <<file, free, rmap, refs, dquot, quota, session, loose>>

\* truncate: the size alone, and zeros to the end of the block if write_at
\* takes them (it refuses what ends past the size, and what is not written).
Truncate(f, n) ==
  LET to == (n \div BlockSize + 1) * BlockSize
      at == WrittenAt(file[f].exts, n \div BlockSize)
  IN
  /\ Open /\ session = "fresh" /\ ~file[f].reflink /\ n < file[f].size
  /\ disk' = IF n % BlockSize # 0 /\ to <= file[f].size /\ at # {}
             THEN Zeroed(disk, CHOOSE b \in at : TRUE, n % BlockSize, BlockSize) ELSE disk
  /\ file' = [file EXCEPT ![f].size = n]
  /\ want' = [want EXCEPT ![f] = [i \in Whole(n) |-> IF i < n THEN @[i] ELSE {0}]]
  /\ loose' = loose \cup {f}
  /\ Done /\ UNCHANGED <<free, rmap, refs, dquot, quota, session>>

\* Mutant: a new owner takes the file without what it uses.
MutRefuseOwner(f, o) == FALSE

\* refuse_attribute_change: an owner's usage does not move with the file.
RefuseOwner(f, o) == quota /\ o # file[f].owner

\* change_attributes, set_attributes: of what they change, the owner.
ChangeOwner(f, o) ==
  /\ Open /\ ~RefuseOwner(f, o)
  /\ file' = [file EXCEPT ![f].owner = o]
  /\ Commits /\ Done /\ UNCHANGED <<disk, free, rmap, refs, dquot, quota, want, loose>>

-----------------------------------------------------------------------------
(* Writes that allocate *)

\* write_into_empty_file: one run of the home group, the last block padded.
WriteEmpty(f, n) ==
  LET blocks == CeilDiv(n, BlockSize)
      run    == FirstRun(free, Home[f], blocks)
      es     == <<Extent(0, CHOOSE b \in run : TRUE, blocks, FALSE)>>
  IN
  /\ Open /\ file[f].exts = <<>> /\ file[f].size = 0 /\ run # {}
  /\ Accepted(dquot, Charges(f, blocks))
  /\ disk' = Overwritten(disk, f, es, 0, n, 0 .. blocks - 1)
  /\ Done
  /\ \/ /\ Commits /\ Settled(TakeAt(Space, RmapOf(f, es[1])))
        /\ file' = Filled(f, n, es)
        /\ Charged(Charges(f, blocks))
        /\ want' = [want EXCEPT ![f] = [i \in Whole(n) |-> IF i < n THEN {f} ELSE {0}]]
        /\ UNCHANGED <<quota, loose>>
     \/ Fails /\ UNCHANGED want

\* plan: the covered part of an unwritten extent becomes written.
Converted(e, first, last) ==
  LET lo == Upper(e.off, first)
      hi == Lower(EndOf(e), last + 1)
  IN  IF ~e.unwritten \/ EndOf(e) <= first \/ e.off > last THEN <<e>>
      ELSE PieceIf(e, e.off, lo) \o <<[Piece(e, lo, hi) EXCEPT !.unwritten = FALSE]>> \o PieceIf(e, hi, EndOf(e))

\* plan: the gaps between extents.
HolesIn(es, first, last) ==
  LET step(a, e) == IF EndOf(e) <= first \/ e.off > last THEN a
                    ELSE [cursor |-> Upper(a.cursor, EndOf(e)),
                          holes |-> IF e.off > a.cursor THEN Append(a.holes, <<a.cursor, e.off>>) ELSE a.holes]
      swept == FoldLeft(step, [cursor |-> first, holes |-> <<>>], es)
  IN  IF swept.cursor <= last THEN Append(swept.holes, <<swept.cursor, last + 1>>) ELSE swept.holes

\* The extents after a write of these blocks, and the free space.
Planned(f, first, last) ==
  LET es == file[f].exts
      kept == FoldLeft(LAMBDA q, e : q \o Converted(e, first, last), <<>>, es)
      s == FoldLeft(LAMBDA x, h : Fill(x, f, h[1], h[2], 0), [Space EXCEPT !.exts = kept],
                    HolesIn(es, first, last))
  IN  [s EXCEPT !.exts = InOrder(@)]

\* Mutant: the old tail is left as it is.
MutTailZeroed(f, at) == disk

\* A write past the end makes the old last block's tail visible: zeros.
TailZeroed(f, at) ==
  LET F == file[f]
      b == WrittenAt(F.exts, F.size \div BlockSize)
  IN  IF at > F.size /\ F.size % BlockSize # 0 /\ b # {}
      THEN Zeroed(disk, CHOOSE x \in b : TRUE, F.size % BlockSize,
                  Lower(at, (F.size \div BlockSize + 1) * BlockSize) - (F.size \div BlockSize) * BlockSize)
      ELSE disk

\* write
Write(f, at, n) ==
  LET F     == file[f]
      end   == at + n
      first == at \div BlockSize
      last  == (end - 1) \div BlockSize
      whole == {fb \in first .. last : WrittenAt(F.exts, fb) = {}}
  IN
  /\ Open /\ ~F.reflink /\ ~IsTree(f)
  /\ \E p \in {Planned(f, first, last)} :
       /\ p.ok /\ Len(p.exts) <= Room
       /\ Accepted(dquot, Charges(f, Cardinality(free \ p.free)))
       /\ disk' = Overwritten(TailZeroed(f, at), f, p.exts, at, end, whole)
       /\ Done
       /\ \/ /\ Commits /\ Settled(p)
             /\ file' = [file EXCEPT ![f] = Grown(@, Upper(@.size, end), p.exts, @.nblocks + Cardinality(free \ p.free))]
             /\ Charged(Charges(f, Cardinality(free \ p.free)))
             /\ want' = [want EXCEPT ![f] = [i \in Whole(Upper(F.size, end)) |->
                           IF i \in at .. end - 1 THEN {f}
                           ELSE IF i \in DOMAIN @ /\ (i < F.size \/ i >= end) THEN @[i] ELSE {0}]]
             /\ UNCHANGED <<quota, loose>>
          \/ /\ Fails
             /\ want' = [want EXCEPT ![f] = [i \in DOMAIN @ |->
                           IF i \div BlockSize \in whole THEN @[i]
                           ELSE @[i] \cup (IF i \in at .. end - 1 THEN {f} ELSE IF i \in F.size .. at - 1 THEN {0} ELSE {})]]

-----------------------------------------------------------------------------
(* Truncates through the log *)

\* truncate_to_zero: every extent and the tree.
TruncateToZero(f) ==
  LET F == file[f]
      n == Mapped(F.exts) + Cardinality(F.tree)
  IN
  /\ Open /\ F.exts # <<>>
  /\ \E s \in {ReleaseAll(ReleaseTree(Space, f, F.tree), f, F.exts)} : s.ok /\ Settled(s)
  /\ Accepted(dquot, Charges(f, -n))
  /\ file' = Emptied(f)
  /\ Charged(Charges(f, -n))
  /\ want' = [want EXCEPT ![f] = [i \in {} |-> {}]]
  /\ loose' = loose \ {f}
  /\ Commits /\ Done /\ UNCHANGED <<disk, quota>>

\* What a size keeps of the extents, and what it frees.
Kept(es, keep)  == FoldLeft(LAMBDA q, e : q \o PieceIf(e, e.off, Lower(EndOf(e), keep)), <<>>, es)
Freed(es, keep) == FoldLeft(LAMBDA q, e : q \o PieceIf(e, Upper(e.off, keep), EndOf(e)), <<>>, es)

\* One extent: its record out, the part that stays back in, the rest freed.
CutAt(s, f, e, keep) ==
  LET stay == Kept(<<e>>, keep)
      go   == Freed(<<e>>, keep)[1]
  IN  Released(FoldLeft(LAMBDA x, k : Remember(x, RmapOf(f, k)), Forget(s, RmapOf(f, e)), stay), go.start, go.len)

\* truncate_to: the part block at the new end, or at the old one, is zeroed
\* ahead of the record; a tree that is cut must fit in the inode.
TruncateTo(f, n) ==
  LET F     == file[f]
      edge  == Lower(n, F.size)
      keep  == IF n >= F.size THEN Upper(CeilDiv(n, BlockSize), Max({0} \cup {EndOf(e) : e \in Range(F.exts)}))
               ELSE CeilDiv(n, BlockSize)
      kept  == Kept(F.exts, keep)
      gone  == Freed(F.exts, keep)
      drop  == IF gone = <<>> THEN {} ELSE F.tree
      freed == Mapped(gone) + Cardinality(drop)
      zero  == IF edge % BlockSize = 0 THEN {} ELSE WrittenAt(F.exts, edge \div BlockSize)
      cut   == FoldLeft(LAMBDA x, e : CutAt(x, f, e, keep), Space, SelectSeq(F.exts, LAMBDA e : EndOf(e) > keep))
  IN
  /\ Open /\ n # F.size
  /\ zero = {} \/ ~F.reflink
  /\ gone = <<>> \/ Len(kept) <= Room
  /\ Accepted(dquot, Charges(f, -freed))
  /\ disk' = IF zero = {} THEN disk ELSE Zeroed(disk, CHOOSE b \in zero : TRUE, edge % BlockSize, BlockSize)
  /\ Done
  /\ \E s \in {IF drop = {} THEN cut ELSE ReleaseTree(cut, f, drop)} :
       /\ s.ok
       /\ \/ /\ Commits /\ Settled(s)
             /\ file' = [file EXCEPT ![f] = [Grown(@, n, kept, @.nblocks - freed) EXCEPT !.tree = @ \ drop]]
             /\ Charged(Charges(f, -freed))
             /\ want' = [want EXCEPT ![f] = [i \in Whole(n) |-> IF i < edge THEN @[i] ELSE {0}]]
             /\ UNCHANGED <<quota, loose>>
          \/ /\ Fails
             /\ want' = [want EXCEPT ![f] = [i \in DOMAIN @ |->
                           IF zero # {} /\ i >= edge /\ i \div BlockSize = edge \div BlockSize THEN @[i] \cup {0} ELSE @[i]]]

-----------------------------------------------------------------------------
(* Exchange *)

\* cut: the pieces inside n blocks from first, and those outside.
Inside(es, first, n) ==
  FoldLeft(LAMBDA q, e : q \o PieceIf(e, Upper(e.off, first), Lower(EndOf(e), first + n)), <<>>, es)
Outside(es, first, n) ==
  FoldLeft(LAMBDA q, e : q \o PieceIf(e, e.off, Lower(EndOf(e), first)) \o PieceIf(e, Upper(e.off, first + n), EndOf(e)),
           <<>>, es)

\* shifted
Shifted(es, from, to) == [k \in DOMAIN es |-> [es[k] EXCEPT !.off = @ - from + to]]

\* joined: neighbours in the file and on the device, alike, are one extent.
Joined(es) ==
  LET step(q, e) ==
        IF /\ q # <<>> /\ Last(q).unwritten = e.unwritten
           /\ EndOf(Last(q)) = e.off /\ Last(q).start + Last(q).len = e.start
        THEN Append(Front(q), [Last(q) EXCEPT !.len = @ + e.len]) ELSE Append(q, e)
  IN  FoldLeft(step, <<>>, InOrder(es))

\* A file that takes a shared block takes the flag.
TakesFlag(a, b) == file[a].reflink \/ file[b].reflink

\* The bytes of a's range, as b's were.
Moved(a, b, fa, fb, n) ==
  [i \in DOMAIN want[a] |->
     IF i \div BlockSize \notin fa .. fa + n - 1 THEN want[a][i] ELSE want[b][i - fa * BlockSize + fb * BlockSize]]

\* Every moved piece's record out, then every one in under its new owner.
Rerecorded(s, a, b, inA, inB, fa, fb) ==
  LET forget(x, f, es)   == FoldLeft(LAMBDA y, e : Forget(y, RmapOf(f, e)), x, es)
      remember(x, f, es) == FoldLeft(LAMBDA y, e : RememberMoved(y, RmapOf(f, e)), x, es)
  IN  remember(remember(forget(forget(s, a, inA), b, inB), b, Shifted(inA, fa, fb)), a, Shifted(inB, fb, fa))

\* exchange_range
Exchange(a, b, fa, fb, n) ==
  LET A == file[a]
      B == file[b]
      inA == Inside(A.exts, fa, n)
      inB == Inside(B.exts, fb, n)
      newA == Joined(Outside(A.exts, fa, n) \o Shifted(inB, fb, fa))
      newB == Joined(Outside(B.exts, fb, n) \o Shifted(inA, fa, fb))
      held(f, s, gave, took) ==
        file[f].nblocks - gave - Cardinality(file[f].tree) + took + Cardinality(s.tree[f])
  IN
  /\ Open
  /\ fa + n <= CeilDiv(A.size, BlockSize) /\ fb + n <= CeilDiv(B.size, BlockSize)
  /\ A.nblocks >= Mapped(inA) + Cardinality(A.tree) /\ B.nblocks >= Mapped(inB) + Cardinality(B.tree)
  /\ \E s \in {MapDataFork(MapDataFork(Rerecorded(Space, a, b, inA, inB, fa, fb), a, newA), b, newB)} :
       LET na == held(a, s, Mapped(inA), Mapped(inB))
           nb == held(b, s, Mapped(inB), Mapped(inA))
           charges == Charges(a, na - A.nblocks) \o Charges(b, nb - B.nblocks)
       IN
       /\ s.ok /\ Accepted(dquot, charges)
       /\ Charged(charges) /\ Settled(s)
       /\ file' = [file EXCEPT
            ![a] = [Grown(@, @.size, newA, na) EXCEPT !.tree = s.tree[a], !.reflink = TakesFlag(a, b)],
            ![b] = [Grown(@, @.size, newB, nb) EXCEPT !.tree = s.tree[b], !.reflink = TakesFlag(b, a)]]
  /\ want' = [want EXCEPT ![a] = Moved(a, b, fa, fb, n), ![b] = Moved(b, a, fb, fa, n)]
  /\ loose' = IF {a, b} \cap loose = {} THEN loose ELSE loose \cup {a, b}
  /\ Commits /\ Done /\ UNCHANGED <<disk, quota>>

-----------------------------------------------------------------------------
(* The specification *)

Init ==
  \E v \in Volumes, q \in BOOLEAN :
    /\ file = v.file /\ disk = v.disk /\ free = v.free /\ rmap = v.rmap /\ refs = v.refs
    /\ dquot = v.dquot /\ want = v.want
    /\ quota = q /\ session = "fresh" /\ ops = 0 /\ loose = {}

\* Mounted again, with the records replayed.
Remount ==
  /\ session # "fresh"
  /\ session' = "fresh"
  /\ UNCHANGED <<file, disk, free, rmap, refs, dquot, quota, ops, want, loose>>

Next ==
  \/ \E f \in Files, w \in Writes : WriteAt(f, w[1], w[2]) \/ Write(f, w[1], w[2])
  \/ \E f \in Files, n \in Sizes : Truncate(f, n) \/ TruncateTo(f, n) \/ (n > 0 /\ WriteEmpty(f, n))
  \/ \E f \in Files : TruncateToZero(f)
  \/ \E f \in Files, o \in Ids : ChangeOwner(f, o)
  \/ \E a, b \in Files, r \in Ranges : a # b /\ Exchange(a, b, r[1], r[2], r[3])
  \/ Remount

Spec == Init /\ [][Next]_vars

-----------------------------------------------------------------------------
(* Properties *)

\* Every file reads: its extents parse and lie in their groups, and each byte
\* is what was last written there, or zero where nothing was, after any mix
\* of writes, truncates and exchanges and of records that were not committed.
\* The last block counts whole, since an exchange moves it whole.  Files
\* shortened in place keep blocks past their end and are left out.
ReadsAreTheFiles ==
  \A f \in Files :
    /\ Parses(file[f].exts) /\ InBounds(file[f].exts)
    /\ f \notin loose => \A i \in DOMAIN want[f] : ReadByte(f, i) \in want[f][i]

\* The uses of blocks as the files have them and as the records list them.
Mappings == UNION {UNION {{<<e.start + k, f, e.off + k>> : k \in 0 .. e.len - 1} : e \in Range(file[f].exts)} : f \in Files}
TreeUses == UNION {{<<b, f, MapBlock>> : b \in file[f].tree} : f \in Files}
Recorded(r) == {<<r.start + k, r.owner, IF MapBlockRec(r) THEN MapBlock ELSE r.off + k>> : k \in 0 .. r.len - 1}
Owners(b) == Cardinality({m \in Mappings \cup TreeUses : m[1] = b})
Shared(b) == {r.count : r \in {r \in Range(refs) : b \in r.start .. RecEnd(r) - 1}}

\* A block is free, or one file's tree's, or mapped as often as its refcount
\* record says, and the reverse map records each use once: however records
\* were split, trimmed and joined, nothing is leaked, used twice or listed
\* twice, and both lists are in order with what could be joined joined.  A
\* file that maps a shared block is marked as sharing, so that nothing
\* writes it in place.
EveryUseRecorded ==
  /\ UNION {Recorded(r) : r \in Range(rmap)} = Mappings \cup TreeUses
  /\ FoldLeft(LAMBDA n, r : n + r.len, 0, rmap) = Cardinality(Mappings \cup TreeUses)
  /\ \A i, j \in DOMAIN rmap : i < j => KeyLess(rmap[i], rmap[j]) /\ ~Continues(rmap[i], rmap[j])
  /\ RefsInOrder(refs) /\ Merged(refs) = refs
  /\ \A b \in DOMAIN disk :
       IF Shared(b) = {} THEN Owners(b) = (IF b \in free THEN 0 ELSE 1) ELSE Shared(b) = {Owners(b)} /\ b \notin free
  /\ \A f \in Files : (\E e \in Range(file[f].exts) : \E b \in BlocksOf(e) : Shared(b) # {}) => file[f].reflink

Held(f) == Mapped(file[f].exts) + Cardinality(file[f].tree)

\* With accounting on, an owner is charged for the blocks its files hold, and
\* every inode counts them, but for its attribute fork's, which filling and
\* emptying the file forget.
HeldIsCounted ==
  /\ \A f \in Files : file[f].nblocks \in {Held(f), Held(f) + AttrBlocks[f]}
  /\ quota => \A o \in Ids :
       dquot[o].blocks = MapThenSumSet(LAMBDA f : Held(f) + AttrBlocks[f], {f \in Files : file[f].owner = o})

\* Every inode counts every block of both its forks.
AllHeldIsCounted == \A f \in Files : file[f].nblocks = Held(f) + AttrBlocks[f]

\* truncate.rs "AND THEY GO BACK IN THE RUNS THE REVERSE MAP HOLDS ... Two map
\* blocks that happen to adjoin are a single record there": a run of a file's
\* map blocks is in one record, so that truncate_to_zero and truncate_to can
\* give it back.
MapRunsAreRecords ==
  \A f \in Files : \A run \in RunsOf(file[f].tree) : RemoveRec(rmap, TreeRec(f, run[1], run[2])).ok

\* "anything that later extends the file over them, this driver or the
\* kernel, would expose data the file is no longer supposed to hold. Zeroing
\* costs one block write and closes that": a file shortened in place reads as
\* any other.
NothingExposed ==
  \A f \in Files : \A i \in 0 .. file[f].size - 1 : ReadByte(f, i) \in want[f][i]
=============================================================================
