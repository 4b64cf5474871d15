----------------------------- MODULE BlockReuse -----------------------------
(***************************************************************************)
(* Blocks that change hands while records about them are outstanding.      *)
(*                                                                         *)
(* A block is logged while it holds metadata (a directory or map block, an *)
(* attribute leaf) and written straight to the device, ahead of the record *)
(* that claims it, while it holds file data or a remote attribute value.   *)
(* An image of its past life may still be in the overlay (read in place of *)
(* the block, and pushed over it later) and in a record (replayed over     *)
(* it).  BLF_CANCEL and Overlay::forget are what should prevent that.      *)
(*                                                                         *)
(* One step writes one checkpoint: how records reach the ring, and how     *)
(* they can fail to, is the module Journal's subject.  A block's content   *)
(* is the number of the operation that wrote it.                           *)
(***************************************************************************)
EXTENDS Integers, Sequences, FiniteSets

CONSTANTS
  Blocks,
  PlainFrees,   \* uses whose blocks are given back with no cancellation here
  Rebuilds,     \* whether parent pointers are kept in attribute blocks here
  MaxOps        \* bound: operations in a behaviour

ASSUME ReuseAssumption ==
  /\ PlainFrees \subseteq {"data", "dir"}
  /\ Rebuilds \in BOOLEAN
  /\ MaxOps \in Nat

VARIABLES
  use,          \* what every block is, as the checkpoints so far say
  dev,          \* device: every block where it belongs
  overlay,      \* Overlay::logged, 0 for none
  log,          \* the records from the tail the newest one names, in order
  pushed,       \* Filesystem::oldest_record is None
  pc,           \* "idle", or the device write made ahead of its record
  ahead,        \* the blocks that write filled
  leaf,         \* the attribute leaf the running operation will log, if any
  count,        \* operations so far
  want,         \* history: what each block's owner last wrote to it
  stale         \* history: blocks handed on with an old image still about

vars == <<use, dev, overlay, log, pushed, pc, ahead, leaf, count, want, stale>>

Uses == {"free", "dir", "data", "attr", "remote"}

Checkpoint == [writes : [Blocks -> Nat], cancels : SUBSET Blocks]

NoImages == [b \in Blocks |-> 0]

Free   == {b \in Blocks : use[b] = "free"}
Fork   == {b \in Blocks : use[b] \in {"attr", "remote"}}

Init ==
  /\ use = [b \in Blocks |-> "free"]
  /\ dev = [b \in Blocks |-> 0]
  /\ overlay = NoImages
  /\ log = <<>> /\ pushed = TRUE
  /\ pc = "idle" /\ ahead = {} /\ leaf = {}
  /\ count = 0
  /\ want = [b \in Blocks |-> 0]
  /\ stale = {}

-----------------------------------------------------------------------------
(* Records, the overlay and replay *)

\* The images of a set of blocks, written by this operation.
Image(bs) == [b \in Blocks |-> IF b \in bs THEN count + 1 ELSE 0]

Over(base, images) ==
  [b \in Blocks |-> IF images[b] # 0 THEN images[b] ELSE base[b]]

\* commit_record: after a push the record is its own tail.
Committed(writes, cancels) ==
  /\ LET r == [writes |-> Image(writes), cancels |-> cancels]
     IN  log' = IF pushed THEN <<r>> ELSE Append(log, r)
  /\ pushed' = FALSE
  /\ count' = count + 1

\* Mutant: a forgotten block is no longer in the map at all.
MutLoggedDrops(writes, forgotten) ==
  overlay' = [b \in Blocks \ forgotten |-> Over(overlay, Image(writes))[b]]

\* logged_buffers, after cancelled_buffers has let go of `forgotten'.
Logged(writes, forgotten) ==
  overlay' = Over([b \in Blocks |-> IF b \in forgotten THEN 0 ELSE overlay[b]],
                  Image(writes))

\* Pass one counts the cancellations, pass two consumes each where it is
\* met: an image is applied unless a cancellation is still to come.
Applies(i, b) ==
  /\ log[i].writes[b] # 0
  /\ \A j \in i .. Len(log) : b \notin log[j].cancels

Replayed ==
  [b \in Blocks |->
     LET applied == {i \in DOMAIN log : Applies(i, b)}
     IN  IF applied = {} THEN 0
         ELSE log[CHOOSE i \in applied : \A j \in applied : j <= i].writes[b]]

Held == {b \in Blocks : overlay[b] # 0}

\* Blocks with an image in the overlay, or in a record that replay applies.
Lingering == Held \cup {b \in Blocks : Replayed[b] # 0}

-----------------------------------------------------------------------------
(* Operations *)

Start == pc = "idle" /\ count < MaxOps

Stays == UNCHANGED <<pc, ahead, leaf>>

\* Filesystem::sync.  The log stays as it is until the next record.
Sync ==
  /\ pc = "idle"
  /\ dev' = Over(dev, overlay)
  /\ overlay' = NoImages
  /\ pushed' = TRUE
  /\ stale' = stale \ Free
  /\ UNCHANGED <<use, log, pc, ahead, leaf, count, want>>

\* A directory or map block is taken and logged, or logged again
\* (DirBlocks::add, dir_write, create, bmbt_write).
LogDir(b) ==
  /\ Start
  /\ use[b] \in {"free", "dir"}
  /\ use' = [use EXCEPT ![b] = "dir"]
  /\ want' = [want EXCEPT ![b] = count + 1]
  /\ Committed({b}, {}) /\ Logged({b}, {})
  /\ stale' = stale \ {b}
  /\ UNCHANGED dev /\ Stays

\* DirBlocks::release, free_file_extents and the map blocks of a truncate
\* give the block back and log neither a cancellation nor a forget.
FreePlain(b) ==
  /\ Start
  /\ use[b] \in PlainFrees
  /\ use' = [use EXCEPT ![b] = "free"]
  /\ Committed({}, {}) /\ Logged({}, {})
  /\ stale' = IF b \in Lingering' THEN stale \cup {b} ELSE stale \ {b}
  /\ UNCHANGED <<dev, want>> /\ Stays

\* write_into_empty_file and write_alloc put the bytes on the device first ...
DataAhead(b) ==
  /\ Start
  /\ use[b] = "free"
  /\ dev' = [dev EXCEPT ![b] = count + 1]
  /\ pc' = "data" /\ ahead' = {b}
  /\ UNCHANGED <<use, overlay, log, pushed, leaf, count, want, stale>>

\* ... and then commit the record that claims them.
DataClaimed ==
  /\ pc = "data"
  /\ use' = [b \in Blocks |-> IF b \in ahead THEN "data" ELSE use[b]]
  /\ want' = [b \in Blocks |-> IF b \in ahead THEN count + 1 ELSE want[b]]
  /\ Committed({}, {}) /\ Logged({}, {})
  /\ pc' = "idle" /\ ahead' = {}
  /\ UNCHANGED <<dev, leaf, stale>>

\* An attribute fork is always rebuilt whole, in blocks that were free, and
\* its remote values go to the device ahead of the record that maps them.
\* write_xattr pushes the overlay before it takes the blocks.
SetAttr(new, values) ==
  /\ Start
  /\ new \cup values \subseteq Free /\ new \cap values = {}
  /\ overlay' = NoImages /\ pushed' = TRUE
  /\ dev' = [b \in Blocks |-> IF b \in values THEN count + 1 ELSE Over(dev, overlay)[b]]
  /\ pc' = "set" /\ ahead' = values /\ leaf' = new
  /\ stale' = stale \ Free
  /\ UNCHANGED <<use, log, count, want>>

\* ParentFork, under a link, unlink or rename: the same, except that only a
\* fork with remote values pushes.
RebuildParents(new, values) ==
  /\ Rebuilds
  /\ Start
  /\ new # {} /\ Fork # {}
  /\ new \cup values \subseteq Free /\ new \cap values = {}
  /\ IF values = {}
     THEN UNCHANGED <<overlay, pushed, dev, stale>>
     ELSE /\ overlay' = NoImages /\ pushed' = TRUE
          /\ dev' = [b \in Blocks |-> IF b \in values THEN count + 1
                                      ELSE Over(dev, overlay)[b]]
          /\ stale' = stale \ Free
  /\ pc' = "rebuild" /\ ahead' = values /\ leaf' = new
  /\ UNCHANGED <<use, log, count, want>>

\* The record that maps the rebuilt fork: the new leaf is logged, every old
\* block given back and cancelled.  Neither caller tells the overlay.
ForkCommitted ==
  /\ pc \in {"set", "rebuild"}
  /\ use' = [b \in Blocks |-> IF b \in ahead THEN "remote"
                              ELSE IF b \in leaf THEN "attr"
                              ELSE IF b \in Fork THEN "free" ELSE use[b]]
  /\ want' = [b \in Blocks |-> IF b \in ahead \cup leaf THEN count + 1 ELSE want[b]]
  /\ Committed(leaf, Fork) /\ Logged(leaf, {})
  /\ stale' = (stale \ (leaf \cup Fork))
                \cup (IF pc = "rebuild" THEN Fork \cap Held ELSE {})
  /\ pc' = "idle" /\ ahead' = {} /\ leaf' = {}
  /\ UNCHANGED dev

\* Mutant: cancelled_buffers is not called.
MutFreeInodeNoForget ==
  /\ Start
  /\ Fork # {}
  /\ use' = [b \in Blocks |-> IF b \in Fork THEN "free" ELSE use[b]]
  /\ Committed({}, Fork) /\ Logged({}, {})
  /\ stale' = stale \ Fork
  /\ UNCHANGED <<dev, want>> /\ Stays

\* Mutant: the record carries no cancellations.
MutFreeInodeNoCancel ==
  /\ Start
  /\ Fork # {}
  /\ use' = [b \in Blocks |-> IF b \in Fork THEN "free" ELSE use[b]]
  /\ Committed({}, {}) /\ Logged({}, Fork)
  /\ stale' = stale \ Fork
  /\ UNCHANGED <<dev, want>> /\ Stays

\* The last link goes (unlink, or a rename over the file): its attribute
\* blocks are cancelled in the record, then forgotten by the overlay.
FreeInode ==
  /\ Start
  /\ Fork # {}
  /\ use' = [b \in Blocks |-> IF b \in Fork THEN "free" ELSE use[b]]
  /\ Committed({}, Fork) /\ Logged({}, Fork)
  /\ stale' = stale \ Fork
  /\ UNCHANGED <<dev, want>> /\ Stays

Next ==
  \/ Sync
  \/ \E b \in Blocks : LogDir(b) \/ FreePlain(b) \/ DataAhead(b)
  \/ DataClaimed
  \/ \E new, values \in SUBSET Blocks : SetAttr(new, values) \/ RebuildParents(new, values)
  \/ ForkCommitted
  \/ FreeInode

Spec == Init /\ [][Next]_vars

-----------------------------------------------------------------------------
(* Properties *)

TypeOK ==
  /\ use \in [Blocks -> Uses]
  /\ dev \in [Blocks -> Nat] /\ overlay \in [Blocks -> Nat] /\ want \in [Blocks -> Nat]
  /\ log \in Seq(Checkpoint)
  /\ pushed \in BOOLEAN
  /\ pc \in {"idle", "data", "set", "rebuild"}
  /\ ahead \in SUBSET Blocks /\ leaf \in SUBSET Blocks
  /\ count \in Nat
  /\ stale \in SUBSET Blocks

\* fs.rs cancelled_buffers "must neither be read in place of what is written
\* there next nor pushed over it": whoever owns a block reads from it what
\* it last wrote there.
ReadsOwnBlocks ==
  \A b \in Blocks : use[b] # "free" => Over(dev, overlay)[b] = want[b]

\* log_recover::replay "A block that was freed and handed out again is logged
\* with BLF_CANCEL": a crash at any time, between a device write and its
\* record included, replays to blocks that hold what their owner wrote.
ReplayKeepsBlocks ==
  \A b \in Blocks : use[b] # "free" => Over(dev, Replayed)[b] = want[b]

\* Both, for every block that was not given back by one of the paths that
\* leave an image of it behind; a push before it is handed on closes those.
ReadsOwnUnlessStale ==
  \A b \in Blocks \ stale : use[b] # "free" => Over(dev, overlay)[b] = want[b]

ReplayKeepsUnlessStale ==
  \A b \in Blocks \ stale : use[b] # "free" => Over(dev, Replayed)[b] = want[b]
=============================================================================
