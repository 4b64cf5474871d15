------------------------------ MODULE LogItems ------------------------------
(***************************************************************************)
(* What a checkpoint carries and what replay makes of it.  An operation    *)
(* describes the buffers, dquots and inodes it changed as items            *)
(* (buf_write.rs, log_write.rs, quota.rs), an item is a format operation   *)
(* and the regions it announces, and the operations of a checkpoint are    *)
(* dealt to records at operation boundaries.  The mount reads its own      *)
(* images, in its overlay (fs.rs).  After a crash all that is left is the  *)
(* device and the records, and replay (log_recover.rs) has to read from    *)
(* them what the mount read.                                               *)
(*                                                                         *)
(* Journal has the ring, the tail and the pushes, and BlockReuse the       *)
(* cancellations; here a mount writes what it replayed home and starts an  *)
(* empty log.  A block is a few chunks, the first of which counts those in *)
(* use; an inode a core and a few words of literal area.                   *)
(***************************************************************************)
EXTENDS Integers, Sequences, SequencesExt, FiniteSetsExt

CONSTANTS
  Blocks,      \* metadata blocks
  Inodes,      \* inode numbers
  Chunk,       \* inodes an icreate item makes
  Owners,      \* dquots
  ChunkCount,  \* chunks of a block
  Area,        \* words of the literal area
  MaxPayload,  \* words a record holds
  Fills,       \* inputs: chunks in use of a new block
  Lens,        \* inputs: words of a fork
  MaxTx        \* bound: checkpoints

ASSUME LogItemsAssumption ==
  /\ Chunk \subseteq Inodes /\ ChunkCount \in Nat \ {0, 1} /\ Area \in Nat \ {0}
  /\ Fills \subseteq 0 .. ChunkCount - 1 /\ Lens \subseteq Nat
  /\ MaxPayload \in Nat /\ MaxTx \in Nat

VARIABLES
  device,   \* [blk, ino, dq]: what is at home
  mine,     \* what the mount reads, and after a crash what it read
  up,       \* mounted
  log,      \* records
  pending,  \* records of the checkpoint being written
  after,    \* what the mount reads once they are
  txs       \* checkpoints begun

vars == <<device, mine, up, log, pending, after, txs>>

Lower(a, b) == IF a < b THEN a ELSE b
Upper(a, b) == IF a > b THEN a ELSE b

\* Words ws over those of seq from a place on.
Over(seq, from, ws) == [k \in DOMAIN seq |-> IF k \in from .. from + Len(ws) - 1 THEN ws[k - from + 1] ELSE seq[k]]

\* OP_ALIGN: an operation is padded, its size field is not.
Padded(ws) == IF Len(ws) % 2 = 1 THEN Append(ws, 0) ELSE ws

-----------------------------------------------------------------------------
(* Buffers *)

\* runs_of, runs: maximal runs of set bits, as <<first, how many>>.
RunsOf(set) ==
  LET firsts == SetToSortSeq({c \in set : c - 1 \notin set}, <)
  IN  [k \in DOMAIN firsts |-> <<firsts[k], Min({n \in 1 .. ChunkCount : firsts[k] + n \notin set})>>]

\* changed_chunks: a chunk is logged when it differs.
ChangedChunks(was, new) == {c \in 1 .. ChunkCount : was[c] # new[c]}

BufItem(b, dirty, new) == [kind |-> "buf", at |-> b, dirty |-> dirty, new |-> new]

\* A block that did not exist is compared with zeros, an old one with what
\* the mount reads there.
Zeros == [c \in 1 .. ChunkCount |-> 0]
FreshItem(b, new)  == BufItem(b, ChangedChunks(Zeros, new), new)
EditedItem(b, new) == BufItem(b, ChangedChunks(mine.blk[b].chunks, new), new)

\* A block as it will read: the checksum recovery computes.
ImageAsWritten(chunks) == [chunks |-> chunks, sum |-> TRUE]

-----------------------------------------------------------------------------
(* Inode cores *)

\* A core's fields of two bytes: flags2, and three whose use nrext64 moves.
Value(field) == field[2]
Field(n)     == <<0, n>>
Wide(core)   == core.flags2 = Field(1)

\* field_layout: in a wide core the counts are at 24 and 76, else at 76, 80.
FieldLayout(wide) == {"flags2", "size"} \cup (IF wide THEN {"f24", "f76"} ELSE {"f76", "f80"})

\* The inode's own flag says which, not the volume's.
Core(wide, forkoff, form, size, n, a) ==
  [forkoff |-> forkoff, form |-> form, flags2 |-> Field(IF wide THEN 1 ELSE 0), size |-> Field(size),
   f24 |-> IF wide THEN Field(n) ELSE Field(0),
   f76 |-> IF wide THEN Field(a) ELSE Field(n),
   f80 |-> IF wide THEN Field(0) ELSE Field(a)]

DataLen(core) == Value(IF Wide(core) THEN core.f24 ELSE core.f76)
AttrLen(core) == Value(IF Wide(core) THEN core.f76 ELSE core.f80)

Swapped(core, fields) ==
  [f \in DOMAIN core |-> IF f \in fields THEN Reverse(core[f]) ELSE core[f]]

\* log_dinode_from_disk: native order in the log.
LogDinodeFromDisk(core) == Swapped(core, FieldLayout(Wide(core)))

\* log_dinode_to_disk: the flags are still in native order.
LogDinodeToDisk(logged) == Swapped(logged, FieldLayout(logged.flags2 = Reverse(Field(1))))

-----------------------------------------------------------------------------
(* The root of an extent tree: a count, keys, then pointers *)

ForkLen(core) == IF core.forkoff = 0 THEN Area ELSE core.forkoff
RootMax(n)    == (n - 1) \div 2

\* inode_root_to_log: the pointers straight after the keys there are.
RootToLog(fork) ==
  LET n == fork[1] IN <<n>> \o SubSeq(fork, 2, 1 + n) \o SubSeq(fork, 2 + RootMax(Len(fork)), 1 + RootMax(Len(fork)) + n)

\* logged_root_to_disk: the pointers after room for all the keys.
RootToDisk(logged, len) ==
  LET n    == logged[1]
      from == RootMax(Len(logged))
  IN  [k \in 1 .. len |->
         CASE k = 1 -> n
           [] k \in 2 .. 1 + n -> logged[k]
           [] k \in 2 + RootMax(len) .. 1 + RootMax(len) + n -> logged[k - RootMax(len) + from]
           [] OTHER -> 0]

Root(n, v, len) == RootToDisk(<<n>> \o [k \in 1 .. 2 * n |-> v], len)

-----------------------------------------------------------------------------
(* Inode items *)

NoFork == [form |-> "none", words |-> <<>>]
Fork(form, words) == [form |-> form, words |-> words]

\* `new` is the inode as the mount will read it.
InodeItem(i, new, data, attr, size) ==
  [kind |-> "inode", at |-> i, new |-> new, data |-> data, attr |-> attr, size |-> size]

\* inode_log_format: the core alone.
CoreItem(i, new) == InodeItem(i, new, NoFork, NoFork, 2)

\* inode_log_format_with_fork: three operations, whatever the fork's length.
WithFork(i, new, data) == InodeItem(i, new, data, NoFork, 3)

\* inode_log_format_with_forks: an empty fork is no operation.
WithForks(i, new, data, attr) ==
  InodeItem(i, new, data, attr, 2 + (IF data.words = <<>> THEN 0 ELSE 1) + (IF attr.words = <<>> THEN 0 ELSE 1))

\* inode_ops_with_attr
OpsWithAttr(i, new, attr) == IF attr.words = <<>> THEN CoreItem(i, new) ELSE WithForks(i, new, NoFork, attr)

\* Mutant: an exchange logs a fork that has become empty.
MutExchangeItem(i, new, data) == WithFork(i, new, data)

\* exchange_range: a fork that has become empty is not logged.
ExchangeItem(i, new, data) == IF data.words = <<>> THEN CoreItem(i, new) ELSE WithFork(i, new, data)

IcreateItem     == [kind |-> "icreate", at |-> Chunk]
DquotItem(o, v) == [kind |-> "dquot", at |-> o, record |-> v]

\* A kernel's item: the pointer to the next unlinked inode.
UnlinkedItem(i, next) == [kind |-> "inobuf", at |-> i, next |-> next]

-----------------------------------------------------------------------------
(* Operations *)

Op(tid, flag, fmt, words) == [tid |-> tid, flag |-> flag, fmt |-> fmt, words |-> words]
NoFmt        == [kind |-> "none", size |-> 1]
TransHeader  == [kind |-> "header", size |-> 1]
Region(t, w) == Op(t, "none", NoFmt, w)
Regions(t, fork) == IF fork.form = "none" THEN <<>> ELSE <<Region(t, Padded(fork.words))>>

\* ops of a buffer: the format operation, then one region a run.
BufferOps(t, x) ==
  LET runs == RunsOf(x.dirty)
  IN  <<Op(t, "none", [kind |-> "buf", at |-> x.at, size |-> 1 + Len(runs), map |-> x.dirty], <<>>)>>
      \o [k \in DOMAIN runs |-> Region(t, SubSeq(x.new, runs[k][1], runs[k][1] + runs[k][2] - 1))]

\* The core, then each fork padded.
InodeOps(t, x) ==
  <<Op(t, "none", [kind |-> "inode", at |-> x.at, size |-> x.size, data |-> x.data.form, attr |-> x.attr.form,
                  dsize |-> Len(x.data.words), asize |-> Len(x.attr.words)], <<>>),
    Region(t, <<LogDinodeFromDisk(x.new.core)>>)>>
  \o Regions(t, x.data) \o Regions(t, x.attr)

ItemOps(t, x) ==
  CASE x.kind = "buf"     -> BufferOps(t, x)
    [] x.kind = "inode"   -> InodeOps(t, x)
    [] x.kind = "icreate" -> <<Op(t, "none", [kind |-> "icreate", at |-> x.at, size |-> 1], <<>>)>>
    [] x.kind = "dquot"   -> <<Op(t, "none", [kind |-> "dquot", at |-> x.at, size |-> 2], <<>>), Region(t, <<x.record>>)>>
    [] x.kind = "inobuf"  -> <<Op(t, "none", [kind |-> "inobuf", at |-> x.at, size |-> 2], <<>>), Region(t, <<x.next, 0>>)>>

\* The checkpoint: a start, its header, the items, a commit.
CheckpointOps(t, items) ==
  <<Op(t, "start", NoFmt, <<>>), Op(t, "none", TransHeader, <<>>)>>
  \o FoldLeft(LAMBDA q, x : q \o ItemOps(t, x), <<>>, items)
  \o <<Op(t, "commit", NoFmt, <<>>)>>

OpCost(op) == 1 + Len(op.words)
Payload(ops) == FoldLeft(LAMBDA n, op : n + OpCost(op), 0, ops)

\* split_into_records: at operation boundaries.
SplitIntoRecords(ops) ==
  FoldLeft(LAMBDA recs, op :
             IF Payload(Last(recs)) + OpCost(op) > MaxPayload
             THEN Append(recs, <<op>>) ELSE Append(Front(recs), Append(Last(recs), op)),
           <<<<>>>>, ops)

\* An operation larger than a record is refused.
Fits(ops) == \A k \in DOMAIN ops : OpCost(ops[k]) <= MaxPayload

\* A kernel's record may end in part of a region: the rest begins the next
\* record and says so.
CutAt(ops, k, n) ==
  <<Append(SubSeq(ops, 1, k - 1), [ops[k] EXCEPT !.words = SubSeq(@, 1, n)]),
    <<[ops[k] EXCEPT !.words = SubSeq(@, n + 1, Len(@)), !.flag = "continue"]>> \o SubSeq(ops, k + 1, Len(ops))>>

-----------------------------------------------------------------------------
(* What the mount reads once a checkpoint is logged *)

\* freshly_initialised_inode leaves the unlinked pointer zero; recovery makes
\* it null.
Null == 9
FreshInode == [core |-> Core(FALSE, 0, "ext", 0, 0, 0), next |-> 0, area |-> [k \in 1 .. Area |-> 0], sum |-> TRUE]
MadeInode  == [FreshInode EXCEPT !.next = Null]

\* logged_buffers, logged_inode, apply_overlay; every inode of a new chunk.
Logged(vol, x) ==
  CASE x.kind = "buf"     -> [vol EXCEPT !.blk[x.at] = ImageAsWritten(x.new)]
    [] x.kind = "inode"   -> [vol EXCEPT !.ino[x.at] = x.new]
    [] x.kind = "icreate" -> [vol EXCEPT !.ino = [i \in Inodes |-> IF i \in x.at THEN FreshInode ELSE @[i]]]
    [] x.kind = "dquot"   -> [vol EXCEPT !.dq[x.at] = x.record]
    [] x.kind = "inobuf"  -> [vol EXCEPT !.ino[x.at].next = x.next]
LoggedAll(vol, items) == FoldLeft(Logged, vol, items)

-----------------------------------------------------------------------------
(* Replay *)

\* add_region: an operation without bytes is none of the item's regions.
IsNothing(op) == op.fmt = NoFmt /\ op.words = <<>>

Continues(op) == op.flag = "continue"

\* add_region
AddRegion(items, op) ==
  LET n    == Len(items)
      more == n > 0 /\ Len(items[n].regions) < items[n].total
  IN  IF Continues(op)
      THEN IF n = 0 THEN items
           ELSE [items EXCEPT ![n].regions[Len(items[n].regions)].words = @ \o op.words]
      ELSE IF IsNothing(op) \/ (n = 0 /\ op.fmt = TransHeader) THEN items
      ELSE IF more THEN [items EXCEPT ![n].regions = Append(@, op)]
      ELSE Append(items, [regions |-> <<op>>, total |-> Upper(op.fmt.size, 1)])

\* read_ops: gathered by transaction, handed on at its commit.
ReadOp(s, op) ==
  CASE op.flag = "start"  -> [s EXCEPT !.flight = [u \in DOMAIN @ \cup {op.tid} |-> IF u = op.tid THEN <<>> ELSE @[u]]]
    [] op.flag = "commit" /\ op.tid \in DOMAIN s.flight ->
         [s EXCEPT !.done = @ \o s.flight[op.tid], !.flight = [u \in DOMAIN @ \ {op.tid} |-> @[u]]]
    [] op.flag \in {"none", "continue"} /\ op.tid \in DOMAIN s.flight -> [s EXCEPT !.flight[op.tid] = AddRegion(@, op)]
    [] OTHER -> s

\* The committed items of a log, in order.
ItemsOf(records) ==
  FoldLeft(LAMBDA s, rec : FoldLeft(ReadOp, s, rec), [flight |-> [u \in {} |-> <<>>], done |-> <<>>], records).done

\* apply_buffer: each run of the bitmap has one region; the rest of the
\* block is what it was.
ApplyBuffer(vol, x) ==
  LET f    == x.regions[1].fmt
      runs == RunsOf(f.map)
      put(chunks, k) == Over(chunks, runs[k][1], SubSeq(x.regions[k + 1].words, 1, runs[k][2]))
      both == [k \in 1 .. Lower(Len(runs), Len(x.regions) - 1) |-> k]
  IN  [vol EXCEPT !.blk[f.at] = [chunks |-> FoldLeft(put, @.chunks, both), sum |-> TRUE]]

\* apply_inode: the core over all but the unlinked pointer, then each fork
\* where the new core has it.
ApplyInode(vol, x) ==
  LET f     == x.regions[1].fmt
      was   == vol.ino[f.at]
      core  == LogDinodeToDisk(x.regions[2].words[1])
      data  == f.data # "none" /\ f.dsize > 0
      attr  == f.attr # "none" /\ f.asize > 0
      words(k, n) == SubSeq(x.regions[k].words, 1, n)
      area1 == IF ~data THEN was.area
               ELSE IF f.data = "root" THEN Over(was.area, 1, RootToDisk(words(3, f.dsize), ForkLen(core)))
               ELSE Over(was.area, 1, words(3, f.dsize))
      area2 == IF ~attr THEN area1 ELSE Over(area1, core.forkoff + 1, words(IF data THEN 4 ELSE 3, f.asize))
  IN  [vol EXCEPT !.ino[f.at] = [core |-> core, next |-> was.next, area |-> area2, sum |-> TRUE]]

\* replay: items it does not know are counted, not applied.
Apply(vol, x) ==
  LET f == x.regions[1].fmt
  IN  CASE f.kind = "buf"     -> ApplyBuffer(vol, x)
        [] f.kind = "inode"   -> ApplyInode(vol, x)
        [] f.kind = "icreate" -> [vol EXCEPT !.ino = [i \in Inodes |-> IF i \in f.at THEN MadeInode ELSE @[i]]]
        [] f.kind = "dquot"   -> [vol EXCEPT !.dq[f.at] = x.regions[2].words[1]]
        [] f.kind = "inobuf"  -> [vol EXCEPT !.ino[f.at].next = x.regions[2].words[1]]
        [] OTHER              -> vol
Replayed == FoldLeft(Apply, device, ItemsOf(log))

-----------------------------------------------------------------------------
(* Checkpoints this driver writes *)

\* The inode with a data fork of n words, or a root of n pointers.
WithData(I, n, v) ==
  [I EXCEPT !.core = Core(Wide(@), @.forkoff, "ext", v, n, AttrLen(@)), !.area = Over(@, 1, [k \in 1 .. n |-> v])]
WithRoot(I, n, v) ==
  [I EXCEPT !.core = Core(Wide(@), @.forkoff, "root", v, n, AttrLen(@)), !.area = Over(@, 1, Root(n, v, ForkLen(I.core)))]
DataFork(I) ==
  IF I.core.form = "root" THEN Fork("root", RootToLog(SubSeq(I.area, 1, ForkLen(I.core))))
  ELSE Fork("ext", SubSeq(I.area, 1, DataLen(I.core)))

\* What the data fork needs beside an attribute fork: a root is packed.
Required(I) == IF I.core.form = "root" THEN 1 + 2 * I.area[1] ELSE Upper(1, DataLen(I.core))

\* change_xattr: the attribute fork as far right as it fits; past the data
\* fork the area is cleared, and a root laid out again for its new length.
WithAttr(I, n, v) ==
  LET off  == IF I.core.form = "root" \/ n = 0 THEN Required(I) ELSE Upper(Required(I), Area - n)
      data == IF I.core.form = "root" THEN RootToDisk(DataFork(I).words, off) ELSE SubSeq(I.area, 1, Required(I))
  IN  [I EXCEPT !.core = Core(Wide(@), off, @.form, v, DataLen(@), n),
                !.area = Over(Over([k \in 1 .. Area |-> 0], 1, data), off + 1, [k \in 1 .. n |-> v])]
AttrFork(I) ==
  IF AttrLen(I.core) = 0 THEN NoFork
  ELSE Fork("ext", SubSeq(I.area, I.core.forkoff + 1, I.core.forkoff + AttrLen(I.core)))

\* A block with n of its chunks in use.
Filled(n, v) == [c \in 1 .. ChunkCount |-> IF c = 1 THEN n + 1 ELSE IF c <= n + 1 THEN v ELSE 0]
InUse(b)     == mine.blk[b].chunks[1] - 1

\* The blocks a checkpoint changes: none; a new one, charged to its owner;
\* or one in use, where what is past its count stays.
BlockItems(v) ==
  {<<>>}
  \cup {<<FreshItem(b, Filled(n, v)), DquotItem(o, v)>> : b \in Blocks, n \in Fills, o \in Owners}
  \cup UNION {{<<EditedItem(b, [mine.blk[b].chunks EXCEPT ![1] = n + 1, ![n + 1] = v])>> :
                  n \in 1 .. Lower(ChunkCount - 1, InUse(b) + 1)} : b \in {b \in Blocks : InUse(b) >= 0}}

\* commit_record, once nothing is left to refuse.
Begin(items) ==
  LET ops == CheckpointOps(txs + 1, items)
  IN
  /\ up /\ pending = <<>> /\ txs < MaxTx /\ Fits(ops)
  /\ pending' = SplitIntoRecords(ops)
  /\ after' = LoggedAll(mine, items)
  /\ txs' = txs + 1
  /\ UNCHANGED <<device, mine, up, log>>

\* log_inode_core: a core that keeps its forks.  truncate_to_zero: blocks
\* too, and a core with an empty extent list whatever the fork was.
LogCore(i) ==
  LET I    == mine.ino[i]
      kept == [I EXCEPT !.core.size = Field(txs + 1)]
      none == [I EXCEPT !.core = Core(Wide(@), @.forkoff, "ext", 0, 0, AttrLen(@))]
  IN
  \/ Begin(<<CoreItem(i, kept)>>)
  \/ \E bl \in BlockItems(txs + 1) : Begin(Append(bl, CoreItem(i, none)))

\* truncate_to that changes the map, write: the extents that stay, the item
\* last.
LogExtents(i, n) ==
  LET new == WithData(mine.ino[i], n, txs + 1)
  IN
  /\ n <= ForkLen(mine.ino[i].core)
  /\ \E bl \in BlockItems(txs + 1) : Begin(Append(bl, WithFork(i, new, DataFork(new))))

\* exchange_range: two inodes, each with the map its length needs.
Maps(i, v) ==
  LET I == mine.ino[i]
  IN  {WithData(I, n, v) : n \in {n \in Lens : n <= ForkLen(I.core)}} \cup {WithRoot(I, n, v) : n \in {n \in Lens \ {0} : n <= RootMax(ForkLen(I.core))}}
Exchange(i, j) ==
  \E bl \in BlockItems(txs + 1), a \in Maps(i, txs + 1), b \in Maps(j, txs + 1) :
    Begin(bl \o <<ExchangeItem(i, a, DataFork(a)), ExchangeItem(j, b, DataFork(b))>>)

\* set_xattr: the attribute fork, and a root that had to move.
SetXattr(i, n) ==
  LET new == WithAttr(mine.ino[i], n, txs + 1)
      root == IF new.core.form = "root" THEN DataFork(new) ELSE NoFork
  IN
  /\ new.core.forkoff + n <= Area
  /\ \E bl \in BlockItems(txs + 1) : Begin(Append(bl, WithForks(i, new, root, AttrFork(new))))

\* create: a new chunk or a free slot of one; the parent's fork; the new
\* inode with what it has of data and attribute fork.
Create(p, i, n, a) ==
  LET v   == txs + 1
      dir == WithData(mine.ino[p], 1, v)
      make(base) ==
        LET plain == WithData([base EXCEPT !.core = Core(Wide(@), 0, "ext", 0, 0, 0)], n, v)
            new   == IF a = 0 THEN plain ELSE WithAttr(plain, a, v)
            data  == IF n = 0 THEN NoFork ELSE DataFork(new)
        IN  IF a > 0 THEN WithForks(i, new, data, AttrFork(new))
            ELSE IF n = 0 THEN CoreItem(i, new) ELSE WithFork(i, new, data)
  IN
  /\ p # i /\ Upper(1, n) + a <= Area
  /\ \E bl \in BlockItems(v) :
       \/ Begin(bl \o <<WithFork(p, dir, DataFork(dir)), make(mine.ino[i])>>)
       \/ /\ i \in Chunk /\ p \notin Chunk
          /\ Begin(bl \o <<IcreateItem, WithFork(p, dir, DataFork(dir)), make(FreshInode)>>)

\* unlink: the parent's fork; the inode freed, or with one parent less.
Unlink(p, i, a) ==
  LET v    == txs + 1
      dir  == WithData(mine.ino[p], 1, v)
      gone == [mine.ino[i] EXCEPT !.core = Core(Wide(@), 0, "ext", v, 0, 0)]
      left == WithAttr(mine.ino[i], a, v)
  IN
  /\ p # i /\ Required(mine.ino[i]) + a <= Area /\ mine.ino[i].core.form = "ext"
  /\ \E bl \in BlockItems(v) :
       \/ Begin(bl \o <<WithFork(p, dir, DataFork(dir)), CoreItem(i, gone)>>)
       \/ Begin(bl \o <<WithFork(p, dir, DataFork(dir)), OpsWithAttr(i, left, AttrFork(left))>>)

\* append_at: one record; after the last the mount reads what was logged.
WriteRecord ==
  /\ pending # <<>>
  /\ log' = Append(log, Head(pending)) /\ pending' = Tail(pending)
  /\ mine' = IF Len(pending) = 1 THEN after ELSE mine
  /\ UNCHANGED <<device, up, after, txs>>

Crash ==
  /\ up
  /\ up' = FALSE /\ pending' = <<>> /\ after' = mine
  /\ UNCHANGED <<device, mine, log, txs>>

\* What replay read is written home, and the log begins empty.
Mount ==
  /\ ~up
  /\ up' = TRUE /\ log' = <<>>
  /\ device' = Replayed /\ mine' = Replayed /\ after' = Replayed
  /\ UNCHANGED <<pending, txs>>

\* A volume with old contents everywhere, whose log is empty or a kernel's:
\* an unlinked pointer, an inode and a block, a region of it cut by the end
\* of a record.
Stale == [blk |-> [b \in Blocks |-> [chunks |-> [c \in 1 .. ChunkCount |-> IF c = 1 THEN 0 ELSE -1], sum |-> TRUE]],
          ino |-> [i \in Inodes |-> [MadeInode EXCEPT !.core = Core(i \notin Chunk, 0, "ext", 0, 0, 0), !.area = [k \in 1 .. Area |-> -1]]],
          dq  |-> [o \in Owners |-> 0]]
KernelItems(i) ==
  LET new == [WithAttr(WithData(Stale.ino[i], 2, 0), 1, 0) EXCEPT !.next = 7]
  IN  <<UnlinkedItem(i, 7), WithForks(i, new, DataFork(new), AttrFork(new))>>
      \o SetToSeq({BufItem(b, ChangedChunks(Stale.blk[b].chunks, Filled(1, -2)), Filled(1, -2)) : b \in Blocks})

Init ==
  /\ device = Stale /\ up = FALSE /\ pending = <<>> /\ txs = 0
  /\ \/ mine = Stale /\ log = <<>>
     \/ \E i \in Chunk : \E ops \in {CheckpointOps(0, KernelItems(i))} :
          /\ mine = LoggedAll(Stale, KernelItems(i))
          /\ \E k \in DOMAIN ops : \E n \in 1 .. Len(ops[k].words) - 1 : log = CutAt(ops, k, n)
  /\ after = mine

Next ==
  \/ \E i \in Inodes : LogCore(i)
  \/ \E i \in Inodes, n \in Lens : LogExtents(i, n) \/ SetXattr(i, n)
  \/ \E i, j \in Inodes : i # j /\ Exchange(i, j)
  \/ \E p, i \in Inodes, n, a \in {0, 1} : Create(p, i, n, a)
  \/ \E p, i \in Inodes, a \in {0, 1} : Unlink(p, i, a)
  \/ WriteRecord \/ Crash \/ Mount

Spec == Init /\ [][Next]_vars

-----------------------------------------------------------------------------
(* Properties *)

\* What is read of a volume: of a block the chunks in use, of an inode its
\* core, its unlinked pointer, and as much of each fork as the core says.
DataOf(I) == IF I.core.form = "root" THEN RootToLog(SubSeq(I.area, 1, ForkLen(I.core))) ELSE SubSeq(I.area, 1, DataLen(I.core))
View(vol, next(_)) ==
  [blk |-> [b \in Blocks |-> <<vol.blk[b].sum, SubSeq(vol.blk[b].chunks, 1, Upper(1, vol.blk[b].chunks[1]))>>],
   ino |-> [i \in Inodes |-> <<vol.ino[i].core, next(vol.ino[i].next), vol.ino[i].sum, DataOf(vol.ino[i]), AttrFork(vol.ino[i])>>],
   dq  |-> vol.dq]

\* Whenever the power goes, replay reads from the device and the records what
\* the mount read: each checkpoint whose last record is written, whole, and
\* nothing of one that is not.  Though only chunks that changed are logged,
\* a new block is compared with zeros and not with what the device holds,
\* forks are padded, roots and cores converted, a checkpoint spread over
\* records and a region over two.  An unlinked pointer of a new chunk that is
\* zero in the mount counts as the null one.
ReplayReadsTheSame ==
  LET unset(n) == IF n = 0 THEN Null ELSE n IN View(Replayed, unset) = View(mine, unset)

\* freshly_initialised_inode is "An inode as recovery will have written it":
\* the same to the byte.  It is not, and the image is what a push writes home.
ReplayReadsExactly ==
  LET asIs(n) == n IN View(Replayed, asIs) = View(mine, asIs)
=============================================================================
