-------------------------------- MODULE Group --------------------------------
(***************************************************************************)
(* One allocation group's space (group_write.rs, agfl.rs, ag_btree.rs).    *)
(*                                                                         *)
(* Every block past the headers is free, on the free list, part of one of  *)
(* the group's trees, or mapped by files.  An operation opens the group    *)
(* once, takes and gives back blocks in memory, and lays the trees out     *)
(* again from the records: the trees grow from the free list, the free     *)
(* list is topped up from free space, and the group header is written last.*)
(*                                                                         *)
(* Free space is the set of free blocks, its records the runs of that set; *)
(* a reverse mapping is a block with its owner, its records the runs of    *)
(* one owner; a reference count is a block's, 0 where it has no record.    *)
(* A file's offsets are its block numbers, so that adjoining blocks of a   *)
(* file are one record.                                                    *)
(***************************************************************************)
EXTENDS AgSpace

CONSTANTS
  Data, Attrs,  \* data forks, and attribute forks
  HasRmap, HasRefcount, \* features of the volume
  LeafRecords,  \* records a leaf holds, by tree
  Capacity,     \* agfl::capacity
  Wants,        \* blocks an operation may ask for at a time
  Aligns,       \* alignments it may ask for
  MaxEdits,     \* bound: takes and frees in one operation
  MaxCommits,   \* bound: operations that commit
  Starts,       \* what files may map at first: maps and unwritten
  None

Forks  == Data \cup Attrs
Trees  == {"bno", "cnt", "rmap", "refc"}

ASSUME GroupAssumption ==
  /\ Capacity \in Nat \ {0}
  /\ LeafRecords \in [Trees -> Nat \ {0}]
  /\ Wants \subseteq Nat \ {0} /\ Aligns \subseteq Nat \ {0}
  /\ MaxEdits \in Nat /\ MaxCommits \in Nat
  /\ HasRmap \in BOOLEAN /\ HasRefcount \in BOOLEAN
  /\ Data \cap Attrs = {} /\ IsFiniteSet(Forks) /\ {"ag", "refc"} \cap Forks = {}

VARIABLES
  disk,    \* the group as committed: free, list, trees, rmap, refs, header
  maps,    \* the blocks each fork maps, as committed
  unwritten, \* those of them mapped as unwritten extents
  group,   \* GroupAlloc: the group as the running operation has it, or None
  op,      \* the rest of the running operation
  record,  \* the last record: tree blocks it logs first, blocks it cancels
  why,     \* how the last operation ended
  commits  \* operations that have committed

vars == <<disk, maps, unwritten, group, op, record, why, commits>>

-----------------------------------------------------------------------------
(* Reverse mappings, and the records of the trees *)

Owned(b, owner, flag) == [block |-> b, owner |-> owner, unwritten |-> flag]
Mappings(S, owner, flag) == {Owned(b, owner, flag) : b \in S}

\* How many records each tree has to hold.
Records(g, t) ==
  CASE t \in {"bno", "cnt"} -> Cardinality(RunStarts(g.free))
    [] t = "rmap" -> 1 + Cardinality({m \in g.rmap : [m EXCEPT !.block = @ - 1] \notin g.rmap})
    [] t = "refc" -> Cardinality({b \in Blocks : /\ g.refs[b] # 0
                                                 /\ b - 1 \in Blocks => g.refs[b - 1] # g.refs[b]})

Layout(g, t) == Plan(LeafRecords[t], Records(g, t))

Present == {"bno", "cnt"} \cup (IF HasRmap THEN {"rmap"} ELSE {})
                          \cup (IF HasRefcount THEN {"refc"} ELSE {})

-----------------------------------------------------------------------------
(* The free list: a ring of entries *)

Entries(l) == [i \in 1 .. l.count |-> l.slot[(l.first + i - 1) % Capacity]]

\* Agfl::parse: the indices have to describe the count.
Parses(l) ==
  /\ l.count <= Capacity
  /\ l.count # 0 => /\ l.first < Capacity /\ l.last < Capacity
                    /\ ((l.last + Capacity - l.first) % Capacity) + 1 = l.count

\* Agfl::take, n times: the oldest blocks.
ListTake(l, n) == [l EXCEPT !.first = (@ + n) % Capacity, !.count = @ - n]

\* Agfl::put, for each of a sequence.
ListPut(l, blocks) ==
  LET at == IF l.count = 0 THEN l.first ELSE (l.last + 1) % Capacity
      n  == Len(blocks)
  IN  IF n = 0 THEN l
      ELSE [slot  |-> [i \in 0 .. Capacity - 1 |->
                         LET k == (i + Capacity - at) % Capacity
                         IN  IF k < n THEN blocks[k + 1] ELSE l.slot[i]],
            first |-> l.first,
            last  |-> (at + n - 1) % Capacity,
            count |-> l.count + n]

-----------------------------------------------------------------------------
(* refill_free_list and relay *)

\* What the kernel keeps on the list: a split at every level of each
\* free-space tree and of the reverse map, by the levels of the group header.
Need(levels) ==
  LET need == 2 * levels["bno"] + 2 * levels["cnt"]
                + (IF HasRmap THEN 2 * levels["rmap"] ELSE 0)
  IN  IF need < Capacity THEN need ELSE Capacity

\* A tree and the list after they have traded blocks, or the refusal.
Traded(g, t, blocks, list) == [g EXCEPT !.trees[t] = blocks, !.list = list]
Refused(g, reason) == [g EXCEPT !.fail = reason]

\* Mutants: no refill; blocks moved without leaving free space; moved with
\* no reverse mapping.
MutRefillNever(g) == g

MutRefillKeepsFree(g) ==
  LET short == Need(disk.levels) - g.list.count
      moved == SubSeq(InOrder(g.free), 1, short)
  IN  IF short <= 0 \/ Cardinality(g.free) < short THEN g
      ELSE [g EXCEPT !.list = ListPut(@, moved)]

MutRefillNoRmap(g) ==
  LET short == Need(disk.levels) - g.list.count
      moved == SubSeq(InOrder(g.free), 1, short)
      set   == {moved[i] : i \in 1 .. Len(moved)}
  IN  IF short <= 0 \/ Cardinality(g.free) < short THEN g
      ELSE [g EXCEPT !.free = @ \ set, !.list = ListPut(@, moved)]

Refill(g) ==
  LET short == Need(disk.levels) - g.list.count
      moved == SubSeq(InOrder(g.free), 1, short)
      set   == {moved[i] : i \in 1 .. Len(moved)}
  IN  IF short <= 0 THEN g
      ELSE IF Cardinality(g.free) < short THEN Refused(g, "no space to refill")
      ELSE [g EXCEPT !.free = @ \ set,
                     !.list = ListPut(@, moved),
                     !.rmap = IF HasRmap THEN @ \cup Mappings(set, "ag", FALSE) ELSE @]

\* A tree takes what it lacks from the free list.
Grow(g, t, n) ==
  IF g.list.count < n THEN Refused(g, "free list empty")
  ELSE Traded(g, t, g.trees[t] \o SubSeq(Entries(g.list), 1, n), ListTake(g.list, n))

\* A tree puts back what it has too much of, its last block first.
Shrink(g, t, n) ==
  LET held  == g.trees[t]
      spare == [i \in 1 .. n |-> held[Len(held) + 1 - i]]
  IN  IF g.list.count + n > Capacity THEN Refused(g, "free list full")
      ELSE Traded(g, t, SubSeq(held, 1, Len(held) - n), ListPut(g.list, spare))

\* A tree laid out again.
Relay(g, t) ==
  LET held == Len(g.trees[t])
      want == Layout(g, t).blocks
  IN  IF g.fail # "no" \/ t \notin Present THEN g
      ELSE IF want > held THEN Grow(g, t, want - held) ELSE Shrink(g, t, held - want)

TreeBlocks(g) == UNION {{g.trees[t][i] : i \in 1 .. Len(g.trees[t])} : t \in Trees}

\* into_items: the list, the four trees in their order.
IntoItems(g) ==
  IF ~op.took THEN g
  ELSE Relay(Relay(Relay(Relay(Refill(g), "bno"), "cnt"), "rmap"), "refc")

\* The group header, which describes what the trees came out as.
Levels(g) == [t \in Trees |-> IF t \in Present THEN Layout(g, t).levels ELSE 0]

\* Mutant: the by-length tree is forgotten.
MutBtreeBlksOneTree(g) ==
  (Len(g.trees["bno"]) - 1) + (IF HasRmap THEN Len(g.trees["rmap"]) - 1 ELSE 0)

BtreeBlks(g) ==
  (Len(g.trees["bno"]) - 1) + (Len(g.trees["cnt"]) - 1)
    + (IF HasRmap THEN Len(g.trees["rmap"]) - 1 ELSE 0)

Headed(g) == [free |-> g.free, list |-> g.list, trees |-> g.trees, rmap |-> g.rmap,
              refs |-> g.refs, levels |-> Levels(g),
              freeblks |-> Cardinality(g.free), btreeblks |-> BtreeBlks(g)]

-----------------------------------------------------------------------------
(* The group as it is found *)

\* As mkfs leaves it: each tree its root, and the list what it needs.
Roots == [bno |-> <<1>>, cnt |-> <<2>>,
          rmap |-> IF HasRmap THEN <<3>> ELSE <<>>,
          refc |-> IF ~HasRefcount THEN <<>> ELSE IF HasRmap THEN <<4>> ELSE <<3>>]

\* The list has been round before: it begins at the end of its ring.
StartList ==
  LET n == Need([t \in Trees |-> 1])
      first == Capacity - 1
  IN  [slot |-> [i \in 0 .. Capacity - 1 |->
                   LET k == (i + Capacity - first) % Capacity
                   IN  IF k < n THEN Cardinality(Present) + 1 + k ELSE None],
       first |-> first, last |-> (first + n - 1) % Capacity, count |-> n]

\* How many forks map a block.
Owners(m, b) == Cardinality({f \in Forks : b \in m[f]})

\* The blocks past them, where the files are.  Files share blocks on volumes
\* that count references, and attribute forks never do.
Rest == Cardinality(Present) + StartList.count + 1 .. LastBlock

ASSUME StartsAssumption ==
  /\ Cardinality(Present) + StartList.count <= LastBlock
  /\ \A s \in Starts :
       /\ s.maps \in [Forks -> SUBSET Rest]
       /\ s.unwritten \subseteq UNION {s.maps[f] : f \in Forks}
       /\ \A b \in Rest : Owners(s.maps, b) > 1 =>
            HasRefcount /\ \A f \in Attrs : b \notin s.maps[f]

StartGroup(m, u) ==
  LET mapped == UNION {m[f] : f \in Forks}
      listed == {Entries(StartList)[i] : i \in 1 .. StartList.count}
      roots  == TreeBlocks([trees |-> Roots])
  IN  [free   |-> Blocks \ (mapped \cup listed \cup roots),
       list   |-> StartList,
       trees  |-> Roots,
       rmap   |-> IF ~HasRmap THEN {}
                  ELSE (UNION {Mappings(m[f] \ u, f, FALSE) \cup Mappings(m[f] \cap u, f, TRUE)
                                 : f \in Forks})
                         \cup Mappings(listed \cup {1, 2, 3}, "ag", FALSE)
                         \cup (IF HasRefcount THEN Mappings({4}, "refc", FALSE) ELSE {}),
       refs   |-> [b \in Blocks |-> LET n == Owners(m, b) IN IF n >= 2 THEN n ELSE 0]]

Init ==
  /\ \E s \in Starts :
       /\ maps = s.maps
       /\ unwritten = s.unwritten
       /\ disk = Headed(StartGroup(s.maps, s.unwritten))
  /\ \A t \in Present : disk.levels[t] = 1
  /\ group = None /\ op = None
  /\ record = [logs |-> {}, cancels |-> {}]
  /\ why = "none" /\ commits = 0

-----------------------------------------------------------------------------
(* One operation *)

\* GroupAlloc::open
Open ==
  /\ group = None
  /\ Parses(disk.list)
  /\ group' = [free |-> disk.free, list |-> disk.list, trees |-> disk.trees,
               rmap |-> disk.rmap, refs |-> disk.refs, fail |-> "no"]
  /\ op' = [edits |-> 0, took |-> FALSE, released |-> FALSE,
            settled |-> disk.free, ahead |-> {}, cancels |-> {},
            maps |-> maps, unwritten |-> unwritten]
  /\ why' = "running"
  /\ UNCHANGED <<disk, maps, unwritten, record, commits>>

\* The operation ends with nothing written: what it held is dropped.
Drop(reason) ==
  /\ group' = None /\ op' = None /\ why' = reason
  /\ UNCHANGED <<disk, maps, unwritten, record, commits>>

\* A refusal elsewhere in the operation.
Abandon == group # None /\ Drop("abandoned")

Editing ==
  /\ group # None
  /\ op.edits < MaxEdits /\ commits < MaxCommits

Edited(free, rmap, refs, m, ahead, cancels) ==
  /\ group' = [group EXCEPT !.free = free, !.rmap = rmap, !.refs = refs]
  /\ op' = [op EXCEPT !.edits = @ + 1, !.took = TRUE, !.maps = m, !.ahead = ahead,
                      !.unwritten = @ \cap UNION {m[f] : f \in Forks},
                      !.cancels = @ \cup cancels, !.released = @ \/ cancels # {}]
  /\ UNCHANGED <<disk, maps, unwritten, record, why, commits>>

\* take_at: blocks leave free space and the reverse map names their owner.
TakeAt(run, f, ahead) ==
  Edited(group.free \ run,
         IF HasRmap THEN group.rmap \cup Mappings(run, f, FALSE) ELSE group.rmap,
         group.refs, [op.maps EXCEPT ![f] = @ \cup run], ahead, {})

\* take and take_aligned: the first free run that holds the blocks.  A
\* caller takes all it takes before it releases an attribute fork.
Take(f, want, align) ==
  /\ Editing /\ ~op.released
  /\ LET fits == Fits(group.free, want, align)
     IN  IF fits = {} THEN Drop("no space")
         ELSE TakeAt(Run(Lowest(fits), want), f, op.ahead)

\* take_up_to: the blocks wanted, or the longest run there is.
TakeUpTo(f, want) ==
  /\ Editing /\ ~op.released
  /\ LET longest == Longest(group.free)
         got     == IF want <= longest THEN want ELSE longest
     IN  IF got = 0 THEN Drop("no space")
         ELSE TakeAt(Run(Lowest(Fits(group.free, got, 1)), got), f, op.ahead)

\* Mutant: blocks given back in this record will do.
MutTakeSettledAny(f, want) ==
  /\ Editing /\ ~op.released
  /\ LET fits == Fits(group.free, want, 1)
         run  == Run(Lowest(fits), want)
     IN  fits # {} /\ TakeAt(run, f, op.ahead \cup run)

\* take_settled: only blocks that were free when the group was opened, for
\* values written ahead of the record.
TakeSettled(f, want) ==
  /\ Editing /\ ~op.released
  /\ LET fits == Fits(op.settled \cap group.free, want, 1)
         run  == Run(Lowest(fits), want)
     IN  IF fits = {} THEN Drop("no space")
         ELSE TakeAt(run, f, op.ahead \cup run)

\* release_shared: what no other file holds may go, and the rest has one
\* owner fewer, a record of one owner being none.
Freeable(run) == IF HasRefcount THEN {b \in run : group.refs[b] = 0} ELSE run
Released(run) ==
  [b \in Blocks |-> CASE b \in run /\ group.refs[b] = 2 -> 0
                     [] b \in run /\ group.refs[b] > 2 -> group.refs[b] - 1
                     [] OTHER -> group.refs[b]]

\* forget_rmap, release_shared and give_back for an extent of a data fork,
\* all of it or (truncate_to) part.
FreeExtent(f, run) ==
  /\ Editing
  /\ run \subseteq op.maps[f]
  /\ run \subseteq op.unwritten \/ run \cap op.unwritten = {}
  /\ LET held == Mappings(run, f, run \subseteq op.unwritten)
     IN  IF HasRmap /\ ~(held \subseteq group.rmap) THEN Drop("reverse map disagrees")
         ELSE IF Freeable(run) \cap group.free # {} THEN Drop("already free")
         ELSE Edited(group.free \cup Freeable(run), group.rmap \ held,
                     IF HasRefcount THEN Released(run) ELSE group.refs,
                     [op.maps EXCEPT ![f] = @ \ run], op.ahead, {})

\* release_attribute_blocks: the fork's old blocks, each with a cancellation.
ReleaseFork(f) ==
  /\ Editing
  /\ maps[f] # {} /\ maps[f] \subseteq op.maps[f]
  /\ LET held == Mappings(maps[f], f, FALSE)
     IN  IF HasRmap /\ ~(held \subseteq group.rmap) THEN Drop("reverse map disagrees")
         ELSE IF maps[f] \cap group.free # {} THEN Drop("already free")
         ELSE Edited(group.free \cup maps[f], group.rmap \ held, group.refs,
                     [op.maps EXCEPT ![f] = @ \ maps[f]], op.ahead, maps[f])

\* Filesystem::write over part of an unwritten extent: the extent list says
\* written from here on.
Convert(f, run) ==
  /\ Editing
  /\ run \subseteq op.maps[f] \cap op.unwritten
  /\ op' = [op EXCEPT !.edits = @ + 1, !.unwritten = @ \ run]
  /\ UNCHANGED <<disk, maps, unwritten, group, record, why, commits>>

\* into_items, and the record committed with the files' own changes.
Commit ==
  /\ group # None
  /\ op.edits > 0
  /\ LET g == IntoItems(group)
     IN  IF g.fail # "no" THEN Drop(g.fail)
         ELSE /\ disk' = IF op.took THEN Headed(g) ELSE disk
              /\ maps' = op.maps
              /\ unwritten' = op.unwritten
              /\ record' = [logs |-> TreeBlocks(g) \ TreeBlocks(disk), cancels |-> op.cancels]
              /\ group' = None /\ op' = None
              /\ why' = "committed"
              /\ commits' = commits + 1

Next ==
  \/ Open \/ Abandon \/ Commit
  \/ \E f \in Forks, want \in Wants :
       \/ \E align \in Aligns : Take(f, want, align)
       \/ f \in Data /\ TakeUpTo(f, want)
       \/ f \in Attrs /\ TakeSettled(f, want)
       \/ \E b \in Blocks : f \in Data /\ FreeExtent(f, Run(b, want))
       \/ \E b \in Blocks : f \in Data /\ Convert(f, Run(b, want))
  \/ \E f \in Attrs : ReleaseFork(f)

Spec == Init /\ [][Next]_vars

-----------------------------------------------------------------------------
(* Properties *)

InTree(g, t) == {g.trees[t][i] : i \in 1 .. Len(g.trees[t])}
Listed(g)    == {Entries(g.list)[i] : i \in 1 .. g.list.count}
Mapped(m)    == UNION {m[f] : f \in Forks}
Distinct(s)  == \A i, j \in 1 .. Len(s) : s[i] = s[j] => i = j

\* Whatever has been taken, freed, grown into and shrunk out of, every block
\* of the group has one use: free, on the list once, once in one tree, or
\* mapped by files, and the list is one an allocator can open again.  The
\* trees grow into blocks their own edit moves.
EveryBlockHasOneUse ==
  LET uses == [u \in Trees \cup {"free", "list", "files"} |->
                 IF u \in Trees THEN InTree(disk, u)
                 ELSE IF u = "free" THEN disk.free
                 ELSE IF u = "list" THEN Listed(disk) ELSE Mapped(maps)]
  IN  /\ \A u, v \in DOMAIN uses : u # v => uses[u] \cap uses[v] = {}
      /\ UNION {uses[u] : u \in DOMAIN uses} = Blocks
      /\ Parses(disk.list) /\ Distinct(Entries(disk.list))
      /\ \A t \in Trees : Distinct(disk.trees[t])

\* What the reverse map should hold, by the rule of check.rs (rmap_key).
Expected ==
  (UNION {Mappings(maps[f] \ unwritten, f, FALSE)
            \cup Mappings(maps[f] \cap unwritten, f, TRUE) : f \in Forks})
    \cup Mappings(Listed(disk) \cup UNION {InTree(disk, t) : t \in Trees \ {"refc"}},
                  "ag", FALSE)
    \cup Mappings(InTree(disk, "refc"), "refc", FALSE)

\* The reverse map names, for every block in use and no other, each file that
\* uses it or else the group: no take, free, refill or relay forgets one or
\* leaves one behind.  (Which of the group's owners, and the unwritten flag,
\* are ReverseMapAgrees and FreesAreAccepted below.)
ReverseMapNamesOwners ==
  LET names(S) == {<<m.block, IF m.owner = "refc" THEN "ag" ELSE m.owner>> : m \in S}
  IN  HasRmap => /\ names(disk.rmap) = names(Expected)
                 /\ Cardinality(disk.rmap) = Cardinality(Expected)

\* Blocks written ahead of the record hold nothing a reader of the volume
\* without that record would read: take_settled's reason to exist.
AheadIsUnused == group # None => op.ahead \subseteq disk.free

\* The header's counts: what a mount adds up as available is every block but
\* the mapped ones, the roots, and the reference-count tree.
CountsAddUp ==
  disk.freeblks + disk.list.count + disk.btreeblks
    = LastBlock - Cardinality(Mapped(maps)) - Cardinality(Present \ {"refc"})
        - Len(disk.trees["refc"])

\* The list is refilled "before any tree is laid out again": one take or one
\* free of an extent is never refused for want of a block for the trees, nor
\* a release of an attribute fork in few pieces.
OneEditNeverStarves ==
  [][group # None /\ op.edits = 1 => why' # "free list empty"]_vars

\* release_freed_attribute_fork: a block "handed out again in the same record
\* would be cancelled in that record, and recovery would not replay what it
\* newly holds".
CancelledIsNotLogged == record.logs \cap record.cancels = {}

\* check.rs finds every block of the reverse map under the owner rmap_key
\* expects, the reference-count tree's own included.
ReverseMapAgrees == HasRmap => disk.rmap = Expected

\* A free of what a file maps is accepted: the reverse map has it.
FreesAreAccepted == why # "reverse map disagrees" /\ why # "already free"
=============================================================================
