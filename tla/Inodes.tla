------------------------------- MODULE Inodes -------------------------------
(***************************************************************************)
(* One group's inodes (inode_btree.rs, create.rs, unlink.rs, rename.rs).   *)
(*                                                                         *)
(* Inodes come in chunks.  The inode tree holds every chunk, the           *)
(* free-inode tree those with a free inode, and both are laid out again    *)
(* from the chunks by each operation, in blocks taken from the group's     *)
(* free space.  A create does all its taking through one allocator.  An    *)
(* operation that frees an inode lays the inode trees out with an          *)
(* allocator of their own and gives the file's blocks back through         *)
(* another; both read the group as it was, and each logs the group's       *)
(* header and free space if it changed them.                               *)
(*                                                                         *)
(* The group's own trees and free list are left to Group: here free space  *)
(* is what an allocator logs.  A refusal writes nothing, so that a refused *)
(* operation is one that does not happen.                                  *)
(***************************************************************************)
EXTENDS AgSpace

CONSTANTS
  PerChunk,     \* INODES_PER_CHUNK
  ChunkBlocks,  \* blocks a chunk takes
  Align,        \* sb_inoalignmt
  LeafChunks,   \* chunk records a leaf holds
  Sizes,        \* blocks a file's data may take
  LooseTree,    \* blocks the inode tree has at first beyond its plan
  MaxOps        \* bound: operations

ASSUME InodesAssumption ==
  /\ PerChunk \in Nat \ {0} /\ ChunkBlocks \in Nat \ {0} /\ Align \in Nat \ {0}
  /\ LeafChunks \in Nat \ {0} /\ Sizes \subseteq Nat \ {0}
  /\ LooseTree \subseteq Nat /\ MaxOps \in Nat
  /\ Align + ChunkBlocks - 1 <= LastBlock
  /\ \A loose \in LooseTree : ChunkBlocks + 2 + loose <= LastBlock

VARIABLES
  space,   \* free blocks, as the group's trees and header say
  chunks,  \* by first block: the chunk's free inodes
  inobt,   \* the blocks of the inode tree
  finobt,  \* the blocks of the free-inode tree
  agi,     \* count, freecount and newino of the group's inode header
  files,   \* by inode in use: the blocks it maps in this group
  dirs,    \* blocks of directories and long symlinks in this group
  doubled, \* a record has logged this group's header twice
  ops

vars == <<space, chunks, inobt, finobt, agi, files, dirs, doubled, ops>>

With(f, x, v)  == [y \in DOMAIN f \cup {x} |-> IF y = x THEN v ELSE f[y]]
Without(f, x)  == [y \in DOMAIN f \ {x} |-> f[y]]
Listing(s)     == {s[i] : i \in 1 .. Len(s)}

Slots == 0 .. PerChunk - 1
Root  == [chunk |-> Align, slot |-> 0]

-----------------------------------------------------------------------------
(* One allocator's edits: the free space it has, and whether it changed it *)

Opened == [free |-> space, took |-> FALSE, fail |-> FALSE]

Taking(g, blocks) ==
  [g EXCEPT !.free = @ \ blocks, !.took = TRUE]

\* free_extent refuses blocks that are free already.
Giving(g, blocks) ==
  IF blocks = {} THEN g
  ELSE [g EXCEPT !.free = @ \cup blocks, !.took = TRUE, !.fail = @ \/ blocks \cap g.free # {}]

\* relay over InodeTreeBlocks: each block it lacks is the first free one,
\* and each it has too many of goes back to free space.
Laid(g, held, records) ==
  LET want == Plan(LeafChunks, records).blocks
      lack == want - Len(held)
      got  == SubSeq(InOrder(g.free), 1, lack)
      keep == SubSeq(held, 1, want)
  IN  IF lack > Cardinality(g.free) THEN [group |-> [g EXCEPT !.fail = TRUE], blocks |-> held]
      ELSE IF lack > 0 THEN [group |-> Taking(g, Listing(got)), blocks |-> held \o got]
      ELSE [group |-> Giving(g, Listing(held) \ Listing(keep)), blocks |-> keep]

WithFree(c) == {s \in DOMAIN c : c[s] # {}}

\* Trees::into_items_in: the inode tree, then the free-inode tree.
TreesIn(g, c) ==
  LET i == Laid(g, inobt, Cardinality(DOMAIN c))
      f == Laid(i.group, finobt, Cardinality(WithFree(c)))
  IN  [group |-> f.group, inobt |-> i.blocks, finobt |-> f.blocks]

-----------------------------------------------------------------------------
(* The group as mkfs leaves it, or as another writer's looser trees do *)

Init ==
  \E loose \in LooseTree :
    /\ chunks = [s \in {Align} |-> Slots \ {0}]
    /\ LET held == SubSeq(InOrder(Blocks \ Run(Align, ChunkBlocks)), 1, 2 + loose)
       IN  /\ inobt  = SubSeq(held, 1, 1 + loose)
           /\ finobt = <<held[2 + loose]>>
           /\ space  = Blocks \ (Run(Align, ChunkBlocks) \cup Listing(held))
    /\ agi = [count |-> PerChunk, freecount |-> PerChunk - 1, newino |-> Align]
    /\ files = [i \in {Root} |-> {}]
    /\ dirs = {}
    /\ doubled = FALSE
    /\ ops = 0

-----------------------------------------------------------------------------
(* Operations *)

FreeCount(c) == Cardinality({p \in (DOMAIN c) \X Slots : p[2] \in c[p[1]]})

\* choose_free_inode: the lowest free inode of the lowest chunk with one.
Chosen(c) ==
  LET s == Lowest(WithFree(c)) IN [chunk |-> s, slot |-> Lowest(c[s])]

\* A chunk made from the first aligned run of free space, all of it free.
WithChunk(s) == With(chunks, s, Slots)

\* Mutant: the count does not grow by the new chunk.
MutCountedNoChunk(c, newino) == [agi EXCEPT !.freecount = FreeCount(c), !.newino = newino]

\* set_counts
Counted(c, newino) ==
  [count     |-> agi.count + PerChunk * (Cardinality(DOMAIN c) - Cardinality(DOMAIN chunks)),
   freecount |-> FreeCount(c),
   newino    |-> newino]

\* Mutant: the trees' blocks are taken from a second copy of the group.
MutCreateTreesTwoCopies(g, c) == TreesIn(Opened, c)

\* Through the create's own allocator for the group.
CreateTrees(g, c) == TreesIn(g, c)

\* create: an inode, of a new chunk when every chunk is full; the trees; and
\* a block for the directory or the symlink, all through one allocator.
Create(dir) ==
  LET made   == WithFree(chunks) = {}
      starts == Fits(space, ChunkBlocks, Align)
      s      == Lowest(starts)
      g      == IF made THEN Taking(Opened, Run(s, ChunkBlocks)) ELSE Opened
      c      == IF made THEN WithChunk(s) ELSE chunks
      ino    == Chosen(c)
      after  == [c EXCEPT ![ino.chunk] = @ \ {ino.slot}]
      t      == CreateTrees(g, after)
      block  == IF dir THEN {Lowest(t.group.free)} ELSE {}
  IN  /\ ops < MaxOps
      /\ made => starts # {} /\ s \notin DOMAIN chunks
      /\ ~t.group.fail
      /\ dir => t.group.free # {}
      /\ space'  = t.group.free \ block
      /\ chunks' = after
      /\ inobt'  = t.inobt
      /\ finobt' = t.finobt
      /\ agi'    = Counted(after, IF made THEN s ELSE agi.newino)
      /\ files'  = With(files, ino, {})
      /\ dirs'   = dirs \cup block
      /\ ops'    = ops + 1
      /\ UNCHANGED doubled

\* write_into_empty_file: one allocator for the file's group.
Fill(ino, want) ==
  LET fits == Fits(space, want, 1)
      run  == Run(Lowest(fits), want)
  IN  /\ ops < MaxOps
      /\ ino # Root /\ files[ino] = {}
      /\ fits # {}
      /\ space' = space \ run
      /\ files' = [files EXCEPT ![ino] = run]
      /\ ops'   = ops + 1
      /\ UNCHANGED <<chunks, inobt, finobt, agi, dirs, doubled>>

\* freed_inode_items: the inode back to its chunk, the trees laid out again
\* through an allocator opened for them.
FreedInode(ino) ==
  LET c == [chunks EXCEPT ![ino.chunk] = @ \cup {ino.slot}]
  IN  [chunks |-> c, trees |-> TreesIn(Opened, c)]

\* The operation's own allocator: the directory's edits and the file's blocks.
Released(ino, dirGives, dirTakes) ==
  LET g    == Giving(Opened, dirGives)
      took == IF dirTakes /\ g.free # {} THEN Taking(g, {Lowest(g.free)}) ELSE g
  IN  [group |-> Giving(took, files[ino]),
       dirs  |-> (dirs \ dirGives) \cup (g.free \ took.free),
       fail  |-> dirTakes /\ g.free = {}]

\* Both allocators' images are in the record, and the later one stands.
Freeing(ino, own, a, later) ==
  LET t == a.trees.group
      g == own.group
  IN  /\ ops < MaxOps
      /\ ino # Root
      /\ ~t.fail /\ ~g.fail /\ ~own.fail
      /\ space' = CASE t.took /\ g.took -> later
                    [] t.took /\ ~g.took -> t.free
                    [] OTHER -> g.free
      /\ doubled' = (doubled \/ (t.took /\ g.took))
      /\ chunks' = a.chunks
      /\ inobt'  = a.trees.inobt
      /\ finobt' = a.trees.finobt
      /\ agi'    = Counted(a.chunks, agi.newino)
      /\ files'  = Without(files, ino)
      /\ dirs'   = own.dirs
      /\ ops'    = ops + 1

\* remove_name of a last name: the inode trees' items come first.
Unlink(ino, dirGives) ==
  LET own == Released(ino, dirGives, FALSE)
  IN  Freeing(ino, own, FreedInode(ino), own.group.free)

\* rename over a last name: the inode trees' items come last.  The directory
\* the name arrives in may take a block.
RenameOver(ino, dirGives, dirTakes) ==
  LET own == Released(ino, dirGives, dirTakes)
      a   == FreedInode(ino)
  IN  Freeing(ino, own, a, a.trees.group.free)

AtMostOne(S) == {{}} \cup {{x} : x \in S}

Next ==
  \/ \E dir \in BOOLEAN : Create(dir)
  \/ \E ino \in DOMAIN files :
       \/ \E want \in Sizes : Fill(ino, want)
       \/ \E gives \in AtMostOne(dirs) :
            \/ Unlink(ino, gives)
            \/ \E takes \in BOOLEAN : RenameOver(ino, gives, takes)

Spec == Init /\ [][Next]_vars

-----------------------------------------------------------------------------
(* Properties *)

\* How many of the group's free space, directories, inode trees, chunks and
\* files name a block.
Naming(b) ==
  Cardinality({S \in {"free", "dirs", "inobt", "finobt"} :
                 b \in CASE S = "free"  -> space
                          [] S = "dirs"  -> dirs
                          [] S = "inobt" -> Listing(inobt)
                          [] S = "finobt" -> Listing(finobt)})
    + Cardinality({s \in DOMAIN chunks : b \in Run(s, ChunkBlocks)})
    + Cardinality({i \in DOMAIN files : b \in files[i]})

\* As long as no record has logged the group's header from two copies, every
\* block has one use and none is lost, whatever has been made, grown into,
\* shrunk out of and freed: create's "every take this operation makes goes
\* through this" is what it rests on.
OneUseUnlessDoubled == ~doubled => \A b \in Blocks : Naming(b) = 1

\* The inode header's counts are those of the inodes files have, through new
\* chunks, full ones and freed inodes.
CountsAgree ==
  /\ agi.count = PerChunk * Cardinality(DOMAIN chunks)
  /\ agi.freecount = agi.count - Cardinality(DOMAIN files)

\* InodeTreeBlocks: "Through the operation's one allocator for the group, so
\* the group's header and free list are logged once, from one copy."
HeaderLoggedOnce == ~doubled
=============================================================================
