------------------------------- MODULE Journal -------------------------------
(***************************************************************************)
(* The journal of one volume and the mount that writes it (fs.rs,         *)
(* log_write.rs, overlay.rs, log.rs, log_recover.rs).                      *)
(*                                                                         *)
(* A journalled operation writes a checkpoint (one or more log records)    *)
(* into the ring, then keeps the metadata images it logged in memory (the  *)
(* overlay) until a push writes them to their home blocks.  The program is *)
(* sequential; what interleaves with it is the device: any write can fail  *)
(* or be cut short, and the machine can stop between any two writes.       *)
(* `pc' names the device write the running operation is about to make.     *)
(*                                                                         *)
(* DATA ABSTRACTION.  Checkpoints are numbered 1, 2, ... in commit order,  *)
(* and a metadata block's content is the number of the checkpoint (or      *)
(* in-place write) that wrote it last; 0 is what it held at the start.     *)
(* A log record is a header position, a length and what it carries.        *)
(***************************************************************************)
EXTENDS Integers, Sequences, FiniteSets

CONSTANTS
  Blocks,        \* metadata blocks with a home outside the log
  AgBlock,       \* the one that holds an allocation group's counters
  LogBlocks,     \* basic blocks in the ring
  PadBlocks,     \* basic blocks of the smallest pad record
  CycleData,     \* XLOG_CYCLE_DATA_ENTRIES: payload blocks a header describes
  MaxDirty,      \* MAX_DIRTY_BYTES, in blocks
  MaxCycle,      \* the last cycle number there is (u32::MAX)
  Shapes,        \* record end offsets a checkpoint may have, e.g. <<2, 5>>
  UnmountShape,  \* the same for the unmount record
  StartLogs,     \* logs a volume may arrive with
  MaxOps,        \* bound: operations in a behaviour
  None

VARIABLES
  home,          \* device: the metadata blocks where they belong
  ring,          \* device: the log records whose header is in the ring
  sbCount,       \* device: the counters in the primary superblock
  mnt,           \* "off", "ro" or "rw"
  overlay,       \* Overlay::logged: images held in memory, 0 for none
  oldest,        \* Filesystem::oldest_record
  nextHead,      \* Filesystem::next_head
  logged,        \* Filesystem::logged_anything
  failed,        \* Filesystem::write_failed
  pc,            \* the next device write of the running operation
  cur,           \* the running operation
  res,           \* how the last call returned
  count,         \* history: checkpoints and in-place writes made so far
  view,          \* history: what they leave in every block, in order
  exposed        \* history: a commit pushed before its own images were held

device == <<home, ring, sbCount>>
mount  == <<mnt, overlay, oldest, nextHead, logged, failed>>
hist   == <<count, view, exposed>>
vars   == <<device, mount, pc, cur, res, hist>>

-----------------------------------------------------------------------------
(* Records and heads *)

Lsn == [cycle : Nat, block : Nat]

LsnOf(r) == [cycle |-> r.cycle, block |-> r.block]

\* h_lsn compared as one u64: the cycle first, then the block.
AtOrBefore(a, b) == a.cycle < b.cycle \/ (a.cycle = b.cycle /\ a.block <= b.block)

HeadPos == [cycle : Nat, block : Nat, free : Nat]

Kinds == {"checkpoint", "pad", "unmount"}

Record ==
  [cycle : Nat, block : Nat, len : Nat, tail : Lsn, kind : Kinds, ck : Nat,
   first : BOOLEAN, last : BOOLEAN, writes : SUBSET Blocks, whole : BOOLEAN]

\* The operation between commit_record's first line and its last.
Operation ==
  [kind : {"none", "checkpoint", "unmount"}, writes : SUBSET Blocks,
   ends : Shapes \cup {UnmountShape, <<>>}, done : Nat, head : HeadPos, tail : Lsn]

\* A checkpoint's records follow each other, none of them empty.
RecordEnds(s) ==
  /\ s \in Seq(Nat) /\ s # <<>> /\ s[1] > 0
  /\ \A i, j \in DOMAIN s : i < j => s[i] < s[j]

Overlaps(r, s) == r.block < s.block + s.len /\ s.block < r.block + r.len

\* A log that arrives was written by something that kept to the ring: its
\* records have blocks of their own, and the newest of them says that the
\* volume was unmounted, without which mount_rw refuses it.
CleanLog(log) ==
  /\ \A r \in log : /\ r \in Record /\ r.cycle <= MaxCycle
                    /\ r.len > 0 /\ r.block + r.len <= LogBlocks
  /\ \A r, s \in log : Overlaps(r, s) => r = s
  /\ log = {} \/ \E n \in log : n.kind = "unmount" /\ \A s \in log : AtOrBefore(s, n)

\* The ring has a block and a pad has a header.
ASSUME JournalAssumption ==
  /\ AgBlock \in Blocks
  /\ LogBlocks \in Nat \ {0} /\ PadBlocks \in Nat \ {0} /\ MaxCycle \in Nat \ {0}
  /\ CycleData \in Nat /\ MaxDirty \in Nat /\ MaxOps \in Nat
  /\ \A s \in Shapes \cup {UnmountShape} : RecordEnds(s)
  /\ \A log \in StartLogs : CleanLog(log)
  /\ None \notin Lsn /\ None \notin HeadPos /\ None \notin [Blocks -> Nat]

\* The record with the greatest sequence number whose header is in the
\* ring, which is what both searches of log.rs look for.
Newest == CHOOSE r \in ring : \A s \in ring : AtOrBefore(s, r)

\* What log::inspect reports: only the newest header is looked at, its
\* checksum is not.  A torn record of one operation is read through a body
\* block that may or may not be its own, so either answer is possible.
LogStates ==
  IF ring = {} THEN {"Empty"}
  ELSE IF Newest.kind # "unmount" THEN {"NeedsReplay"}
  ELSE IF Newest.whole THEN {"CleanlyUnmounted"}
  ELSE {"CleanlyUnmounted", "NeedsReplay"}

\* log::head: where the next record goes, worked out from the newest one.
ScanHead ==
  IF ring = {} THEN [cycle |-> 1, block |-> 0, free |-> LogBlocks]
  ELSE LET next == Newest.block + Newest.len
       IN  IF next = LogBlocks
           THEN [cycle |-> Newest.cycle + 1, block |-> 0, free |-> LogBlocks]
           ELSE [cycle |-> Newest.cycle, block |-> next, free |-> LogBlocks - next]

\* log::head refuses a cycle it cannot increment and a record that runs
\* past the end of the ring.
ScanFails ==
  /\ ring # {}
  /\ \/ Newest.block + Newest.len > LogBlocks
     \/ Newest.block + Newest.len = LogBlocks /\ Newest.cycle = MaxCycle

CurrentHead == IF nextHead # None THEN nextHead ELSE ScanHead

\* Mutant: a checkpoint larger than the gap is written past the ring's end.
MutWrapsGapOnly(needed, free) == free > needed /\ free - needed < PadBlocks

\* Mutant: the leftover a pad would need is not looked at.
MutWrapsFullOnly(needed, free) == needed > free

\* log_write::wraps_first
WrapsFirst(needed, free) ==
  needed > free \/ (free > needed /\ free - needed < PadBlocks)

\* One device write of a record, whole: what it lies over is gone.
Landed(r) == {s \in ring : ~Overlaps(s, r)} \cup {r}

\* A record write that failed or was cut short left the record whole, its
\* header without all of its body, or no header.  An older header under it
\* either went too or is still there above a body that is not its own.
Torn(r) ==
  LET under   == {s \in ring : Overlaps(s, r)}
      spoiled == {[s EXCEPT !.whole = FALSE] : s \in under}
  IN  {Landed(r), ring, (ring \ under) \cup {[r EXCEPT !.whole = FALSE]}}
        \cup {(ring \ under) \cup keep : keep \in {{}, spoiled}}

-----------------------------------------------------------------------------
(* Recovery, as log_recover::replay does it *)

\* The blocks a walk from `from' to `to' passes, round the end of the ring.
Between(from, to, b) ==
  IF from <= to THEN from <= b /\ b <= to ELSE b >= from \/ b <= to

\* How far into the walk a record is met.
WalkPos(from, b) == IF b >= from THEN b - from ELSE b + LogBlocks - from

Walked(n) == {r \in ring : Between(n.tail.block, n.block, r.block)}

After(r) == IF r.block + r.len = LogBlocks THEN 0 ELSE r.block + r.len

\* walk succeeds: a record begins where the tail says, every record's
\* checksum verifies, and each begins where the one before it ended.
WalkReaches(n) ==
  /\ n.whole
  /\ \E r \in Walked(n) : r.block = n.tail.block
  /\ \A r \in Walked(n) :
       /\ r.whole
       /\ r = n \/ \E s \in Walked(n) : s.block = After(r)

\* read_ops: a transaction is applied at its COMMIT, if its START was met.
Applied(n) ==
  {r \in Walked(n) :
     /\ r.kind = "checkpoint" /\ r.last
     /\ \E s \in Walked(n) : s.kind = "checkpoint" /\ s.ck = r.ck /\ s.first}

\* The record met last in a walk from block `from'.
MetLast(from, records) ==
  CHOOSE r \in records : \A s \in records :
    WalkPos(from, s.block) <= WalkPos(from, r.block)

\* Images the replay leaves in its overlay, 0 where it leaves none.
Replayed(n) ==
  LET applied    == Applied(n)
      writers(b) == {r \in applied : b \in r.writes}
  IN  [b \in Blocks |-> IF writers(b) = {} THEN 0
                        ELSE MetLast(n.tail.block, writers(b)).ck]

Over(base, images) ==
  [b \in Blocks |-> IF images[b] # 0 THEN images[b] ELSE base[b]]

\* What the volume on the device is, to a reader that replays its log.
NeedsReplay == ring # {} /\ Newest.kind # "unmount"
Recoverable == ~NeedsReplay \/ WalkReaches(Newest)
Recovered   == IF NeedsReplay THEN Over(home, Replayed(Newest)) ELSE home

-----------------------------------------------------------------------------
(* Mounting *)

NoImages == [b \in Blocks |-> 0]
NoOp     == [kind |-> "none", writes |-> {}, ends |-> <<>>, done |-> 0,
             head |-> [cycle |-> 0, block |-> 0, free |-> 0],
             tail |-> [cycle |-> 0, block |-> 0]]

Init ==
  /\ home = [b \in Blocks |-> 0]
  /\ ring \in StartLogs
  /\ sbCount = 0
  /\ mnt = "off" /\ overlay = NoImages /\ oldest = None /\ nextHead = None
  /\ logged = FALSE /\ failed = FALSE
  /\ pc = "idle" /\ cur = NoOp /\ res = "ok"
  /\ count = 0 /\ view = [b \in Blocks |-> 0] /\ exposed = FALSE

\* Everything a mount keeps is in memory.
Forget ==
  /\ mnt' = "off" /\ overlay' = NoImages /\ oldest' = None /\ nextHead' = None
  /\ logged' = FALSE /\ failed' = FALSE
  /\ pc' = "idle" /\ cur' = NoOp

\* Filesystem::mount_rw refuses a log that needs replay.
MountRw ==
  /\ mnt = "off"
  /\ \E s \in LogStates :
       IF s = "NeedsReplay"
       THEN /\ res' = "dirty" /\ UNCHANGED mnt
       ELSE /\ res' = "ok" /\ mnt' = "rw"
  /\ UNCHANGED <<device, overlay, oldest, nextHead, logged, failed, pc, cur, hist>>

\* Filesystem::mount replays a dirty log into memory; the device is not
\* touched, and a walk that does not reach the newest record is an error.
MountRo ==
  /\ mnt = "off"
  /\ \E s \in LogStates :
       \/ /\ s # "NeedsReplay"
          /\ res' = "ok" /\ mnt' = "ro" /\ UNCHANGED overlay
       \/ /\ s = "NeedsReplay" /\ WalkReaches(Newest)
          /\ res' = "ok" /\ mnt' = "ro" /\ overlay' = Replayed(Newest)
       \/ /\ s = "NeedsReplay" /\ ~WalkReaches(Newest)
          /\ res' = "corrupt" /\ UNCHANGED <<mnt, overlay>>
  /\ UNCHANGED <<device, oldest, nextHead, logged, failed, pc, cur, hist>>

CloseRo == mnt = "ro" /\ Forget /\ res' = "ok" /\ UNCHANGED <<device, hist>>

\* The machine stops, or the handle is dropped without an unmount.
Crash == mnt = "rw" /\ Forget /\ res' = "ok" /\ UNCHANGED <<device, hist>>

-----------------------------------------------------------------------------
(* The push *)

Writable == mnt = "rw" /\ ~failed

Held == {b \in Blocks : overlay[b] # 0}

\* The running call returns an error; unmount takes the mount with it.
Returns(why, stop) ==
  /\ res' = why
  /\ IF cur.kind = "unmount" THEN Forget
     ELSE /\ failed' = stop /\ pc' = "idle" /\ cur' = NoOp
          /\ UNCHANGED <<mnt, overlay, oldest, nextHead, logged>>

\* Mutant: the tail is not let go of when everything is home.
MutPushedKeepsTail ==
  /\ home' = Over(home, overlay)
  /\ exposed' = FALSE
  /\ UNCHANGED oldest

\* Overlay::push in Filesystem::sync: every image goes home, a flush, and
\* only then are they let go and the tail allowed to move.
Pushed ==
  /\ home' = Over(home, overlay)
  /\ oldest' = None
  /\ exposed' = FALSE

\* A push that failed part way wrote some of the images and dropped none.
PushFails ==
  /\ \E some \in SUBSET Held :
       home' = [b \in Blocks |-> IF b \in some THEN overlay[b] ELSE home[b]]
  /\ Returns("io", TRUE)
  /\ UNCHANGED <<ring, sbCount, hist>>

\* Filesystem::sync, called by the user (and by the C ABI's sync).
Sync ==
  /\ Writable /\ pc = "idle"
  /\ \/ /\ Pushed /\ overlay' = NoImages /\ res' = "ok"
        /\ UNCHANGED <<ring, sbCount, mnt, nextHead, logged, failed, pc, cur, count, view>>
     \/ PushFails

-----------------------------------------------------------------------------
(* commit_record *)

Needed(op) == op.ends[Len(op.ends)]

\* Where record i of the checkpoint starts, relative to its first block.
StartOf(op, i) == IF i = 1 THEN 0 ELSE op.ends[i - 1]

\* Mutant: a record names itself as the tail, whatever is outstanding.
MutPlaceOwnTail(kind, writes, ends) ==
  LET head == CurrentHead
      need == ends[Len(ends)]
  IN  /\ pc' = IF WrapsFirst(need, head.free) THEN "wrap" ELSE "append"
      /\ cur' = [kind |-> kind, writes |-> writes, ends |-> ends, done |-> 0,
                 head |-> head, tail |-> LsnOf(head)]

\* The first lines of commit_record: find the head, then decide whether
\* the whole checkpoint goes there or begins the ring again.
Place(kind, writes, ends) ==
  LET head == CurrentHead
      need == ends[Len(ends)]
  IN  /\ pc' = IF WrapsFirst(need, head.free) THEN "wrap" ELSE "append"
      /\ cur' = [kind |-> kind, writes |-> writes, ends |-> ends, done |-> 0,
                 head |-> head,
                 tail |-> IF oldest # None THEN oldest ELSE LsnOf(head)]

ScanRefused == nextHead = None /\ ScanFails

\* A journalled operation reaches commit_record.
Commit ==
  /\ Writable /\ pc = "idle" /\ count < MaxOps
  /\ \/ /\ ~ScanRefused
        /\ \E w \in SUBSET Blocks \ {{}}, ends \in Shapes : Place("checkpoint", w, ends)
        /\ UNCHANGED <<device, mount, res, hist>>
     \/ /\ ScanRefused
        /\ res' = "refused"
        /\ UNCHANGED <<device, mount, pc, cur, hist>>

\* Before the ring is begun again everything outstanding is pushed.
WrapPush ==
  /\ pc = "wrap"
  /\ \/ /\ Pushed /\ overlay' = NoImages /\ pc' = "pad"
        /\ UNCHANGED <<ring, sbCount, mnt, nextHead, logged, failed, cur, res, count, view>>
     \/ PushFails

\* Mutant: the tail read before the wrap is still used after it.
MutBeginAgainOldTail ==
  LET old   == cur.head
      total == old.block + old.free
  IN  IF old.cycle = MaxCycle \/ Needed(cur) > total
      THEN Returns("refused", failed)
      ELSE /\ cur' = [cur EXCEPT
                        !.head = [cycle |-> old.cycle + 1, block |-> 0, free |-> total]]
           /\ pc' = "append"
           /\ UNCHANGED <<mount, res>>

\* The head after the wrap: block 0 of the next cycle, if there is one and
\* the checkpoint fits the whole ring.  A refusal leaves next_head alone.
BeginAgain ==
  LET old   == cur.head
      total == old.block + old.free
  IN  IF old.cycle = MaxCycle \/ Needed(cur) > total
      THEN Returns("refused", failed)
      ELSE /\ cur' = [cur EXCEPT
                        !.head = [cycle |-> old.cycle + 1, block |-> 0, free |-> total],
                        !.tail = [cycle |-> old.cycle + 1, block |-> 0]]
           /\ pc' = "append"
           /\ UNCHANGED <<mount, res>>

PadRecord ==
  [cycle |-> cur.head.cycle, block |-> cur.head.block, len |-> cur.head.free,
   tail |-> LsnOf(cur.head), kind |-> "pad", ck |-> 0,
   first |-> TRUE, last |-> TRUE, writes |-> {}, whole |-> TRUE]

\* append_pad fills the blocks left before the end of the ring, if any.  It
\* refuses a gap too small for an empty record, inside or_stop_writing, and
\* encode_record's assertion stops a gap too large for one header.
WrapPad ==
  /\ pc = "pad"
  /\ UNCHANGED <<home, sbCount, hist>>
  /\ \/ /\ cur.head.free = 0
        /\ BeginAgain
        /\ UNCHANGED ring
     \/ /\ cur.head.free \in 1 .. PadBlocks - 1
        /\ Returns("refused", TRUE)
        /\ UNCHANGED ring
     \/ /\ cur.head.free > CycleData + 1
        /\ Returns("panic", failed)
        /\ UNCHANGED ring
     \/ /\ cur.head.free \in PadBlocks .. CycleData + 1
        /\ \/ ring' = Landed(PadRecord) /\ BeginAgain
           \/ ring' \in Torn(PadRecord) /\ Returns("io", TRUE)

\* The record append_at_with_tail writes next.
NextRecord ==
  LET i == cur.done + 1 IN
  [cycle |-> cur.head.cycle, block |-> cur.head.block + StartOf(cur, i),
   len |-> cur.ends[i] - StartOf(cur, i), tail |-> cur.tail,
   kind |-> cur.kind, ck |-> (IF cur.kind = "checkpoint" THEN count + 1 ELSE 0),
   first |-> (i = 1), last |-> (i = Len(cur.ends)),
   writes |-> cur.writes, whole |-> TRUE]

\* A checkpoint has happened once its last record is on the device whole.
Happened ==
  IF cur.kind = "checkpoint"
  THEN /\ count' = count + 1
       /\ view' = [b \in Blocks |-> IF b \in cur.writes THEN count + 1 ELSE view[b]]
  ELSE UNCHANGED <<count, view>>

\* Mutant: the operation does not hand its images over.
MutImagesNone(n) == NoImages

\* The images the operation hands to logged_buffers and logged_inode.
Images(n) == [b \in Blocks |-> IF b \in cur.writes THEN n ELSE 0]

\* The end of commit_record: the tail and the head are remembered, and a
\* full overlay is pushed before the operation has added its own images.
Committed ==
  /\ IF cur.kind = "unmount"
     THEN Forget
     ELSE /\ oldest' = IF oldest # None THEN oldest ELSE LsnOf(cur.head)
          /\ logged' = TRUE
          /\ nextHead' = [cycle |-> cur.head.cycle,
                          block |-> cur.head.block + Needed(cur),
                          free |-> cur.head.free - Needed(cur)]
          /\ UNCHANGED <<mnt, failed>>
          /\ IF Cardinality(Held) >= MaxDirty
             THEN pc' = "bound" /\ UNCHANGED <<cur, overlay>>
             ELSE /\ pc' = "idle" /\ cur' = NoOp
                  /\ overlay' = Over(overlay, Images(count + 1))

\* append_at_with_tail writes the next record of the checkpoint.
AppendRecord ==
  /\ pc = "append"
  /\ \/ /\ ring' = Landed(NextRecord)
        /\ IF NextRecord.last
           THEN Happened /\ Committed /\ res' = "ok"
           ELSE /\ cur' = [cur EXCEPT !.done = @ + 1]
                /\ UNCHANGED <<mount, pc, res, count, view>>
        /\ UNCHANGED <<home, sbCount, exposed>>
     \/ /\ ring' \in Torn(NextRecord)
        /\ IF ring' = Landed(NextRecord) /\ NextRecord.last
           THEN Happened ELSE UNCHANGED <<count, view>>
        /\ Returns("io", TRUE)
        /\ UNCHANGED <<home, sbCount, exposed>>

\* The push that bounds the memory, at the end of commit_record.  The
\* operation's own images are held only after it.
BoundPush ==
  /\ pc = "bound"
  /\ \/ /\ home' = Over(home, overlay) /\ oldest' = None
        /\ exposed' = TRUE
        /\ overlay' = Images(count)
        /\ pc' = "idle" /\ cur' = NoOp
        /\ UNCHANGED <<ring, sbCount, mnt, nextHead, logged, failed, res, count, view>>
     \/ PushFails

-----------------------------------------------------------------------------
(* Unmounting, and writing in place *)

\* Filesystem::unmount begins with a push.
UnmountPush ==
  /\ Writable /\ pc = "idle"
  /\ \/ /\ Pushed /\ overlay' = NoImages
        /\ pc' = "counters" /\ cur' = [NoOp EXCEPT !.kind = "unmount"]
        /\ UNCHANGED <<ring, sbCount, mnt, nextHead, logged, failed, res, count, view>>
     \/ /\ \E some \in SUBSET Held :
             home' = [b \in Blocks |-> IF b \in some THEN overlay[b] ELSE home[b]]
        /\ res' = "io" /\ Forget
        /\ UNCHANGED <<ring, sbCount, hist>>

\* Mutant: the counters are left as they were.
MutUnmountCountersSkipped ==
  /\ pc = "counters"
  /\ IF ScanRefused
     THEN Returns("refused", FALSE)
     ELSE Place("unmount", {}, UnmountShape) /\ UNCHANGED <<mount, res>>
  /\ UNCHANGED <<device, hist>>

\* The groups' counters go into the primary superblock, in place; then the
\* unmount record is committed like any other.
UnmountCounters ==
  /\ pc = "counters"
  /\ \/ /\ sbCount' = Over(home, overlay)[AgBlock]
        /\ IF ScanRefused
           THEN Returns("refused", FALSE)
           ELSE Place("unmount", {}, UnmountShape) /\ UNCHANGED <<mount, res>>
     \/ /\ sbCount' \in {sbCount, Over(home, overlay)[AgBlock]}
        /\ Returns("io", TRUE)
  /\ UNCHANGED <<home, ring, hist>>

\* write_at, set_attributes and truncate, before any checkpoint:
\* straight to the block, and refused once this mount has logged.  A failed
\* write may have landed, and does not stop the mount.
WriteInPlace(b) ==
  /\ Writable /\ pc = "idle" /\ count < MaxOps
  /\ \/ /\ ~logged
        /\ home' = [home EXCEPT ![b] = count + 1]
        /\ view' = [view EXCEPT ![b] = count + 1]
        /\ count' = count + 1
        /\ res' \in {"ok", "io"}
        /\ UNCHANGED <<ring, sbCount, mount, pc, cur, exposed>>
     \/ /\ res' = IF logged THEN "refused" ELSE "io"
        /\ UNCHANGED <<device, mount, pc, cur, hist>>

InPlace == \E b \in Blocks \ {AgBlock} : WriteInPlace(b)

Next ==
  \/ MountRw \/ MountRo \/ CloseRo \/ Crash
  \/ Sync \/ Commit \/ WrapPush \/ WrapPad \/ AppendRecord \/ BoundPush
  \/ UnmountPush \/ UnmountCounters \/ InPlace

Spec == Init /\ [][Next]_vars

-----------------------------------------------------------------------------
(* Properties *)

TypeOK ==
  /\ home \in [Blocks -> Nat] /\ sbCount \in Nat
  /\ ring \subseteq Record
  /\ mnt \in {"off", "ro", "rw"}
  /\ overlay \in [Blocks -> Nat]
  /\ oldest \in Lsn \cup {None} /\ nextHead \in HeadPos \cup {None}
  /\ logged \in BOOLEAN /\ failed \in BOOLEAN /\ exposed \in BOOLEAN
  /\ pc \in {"idle", "wrap", "pad", "append", "bound", "counters"}
  /\ cur \in Operation
  /\ res \in {"ok", "io", "refused", "panic", "dirty", "corrupt"}
  /\ count \in Nat /\ view \in [Blocks -> Nat]

\* README.md "a crash at any checkpoint replays to a prefix of them": what
\* replay makes of the device is every checkpoint that reached the log
\* whole, in order, and nothing else.
CrashSafe == Recoverable => Recovered = view

\* The same, except between a commit that pushed a full overlay ahead of
\* its own images (commit_record's last step) and the push after it.
CrashSafeUnlessExposed == ~exposed => CrashSafe

\* While this mount's device has not failed, a crash leaves a log that
\* log_recover::walk can follow from the tail to the newest record: neither
\* a wrap nor a pad ever overwrites a record recovery still needs.
AlwaysRecoverable == mnt = "rw" /\ ~failed => Recoverable

\* A record write cut short can spoil the record the tail names only where
\* the ring begins again with no pad to move the tail first, and then
\* everything is already home: the log cannot be followed, but it holds
\* nothing the metadata blocks lack.
TornWrapLosesNothing ==
  NeedsReplay /\ Newest.whole /\ ~Recoverable => home = view

\* overlay.rs "so each operation is built on the one before it": between
\* operations a writable mount reads what all the checkpoints left.  And
\* mount_with_cache replays into memory: a read-only mount of a dirty log
\* reads what a writable mount read before the crash, and an operation that
\* never returned is there whole or not at all.
ReadsCommitted ==
  (mnt = "rw" /\ pc = "idle" /\ ~failed) \/ (mnt = "ro" /\ ~exposed) => Over(home, overlay) = view

\* A log that says it was cleanly unmounted, its record torn or whole, is on
\* a volume with every change home and the groups' counters in the
\* superblock (Filesystem::unmount's order).
CleanMeansSettled ==
  "CleanlyUnmounted" \in LogStates => home = view /\ sbCount = view[AgBlock]

\* log_write::wraps_first: no commit leaves a gap before the end of the ring
\* that a pad record cannot fill.
GapCanBePadded ==
  nextHead # None => nextHead.free = 0 \/ nextHead.free >= PadBlocks

\* fs.rs writable_device "once a log write or a push has failed on this
\* one": a mount stops writing only because the device failed it.
StopsOnlyOnIo == failed => res = "io"

\* encode_record's assertion "max_payload should have refused it": no
\* checkpoint that has to wrap meets a gap too large for one pad record.
NeverPanics == res # "panic"

\* Filesystem::dirty_bytes "never more than the bound a commit pushes at".
DirtyBounded == mnt = "rw" => Cardinality(Held) <= MaxDirty

-----------------------------------------------------------------------------
(* The journal implements an atomic store *)

\* What the volume is to whoever mounts it next.
Volume ==
  IF ~NeedsReplay THEN home
  ELSE LET n == Newest
       IN  IF WalkReaches(n) THEN Over(home, Replayed(n)) ELSE None

Store == INSTANCE AtomicStore WITH content <- Volume, n <- count, Unreadable <- None

\* Every device write is either one whole checkpoint or in-place write of
\* the store, or changes nothing a reader of the volume sees, or is a cut
\* short write after which the log cannot be followed.
ImplementsStore == Store!Spec
=============================================================================
