# A verification of the XFS driver

This directory holds TLA+ models of the driver in `src/`, the TLC
configurations that check them on small instances, and proofs that TLAPS
checks for every instance. `PROJECT.json` is the index: components, runs,
mutants, the lines each definition models, findings, hazards, theorems.

## The system

The crate reads and writes XFS volumes from user space. A volume is a device
of blocks; metadata changes are journalled the way the Linux kernel journals
them, so that either this driver or the kernel can recover the volume.

| Part | State it keeps | Operations | Hard because |
|---|---|---|---|
| Journal (`fs.rs`, `log.rs`, `log_write.rs`, `log_recover.rs`, `overlay.rs`) | on the device: home blocks, the log ring, the superblock's counters; in memory: overlay of logged images, `oldest_record`, `next_head`, `logged_anything`, `write_failed` | `mount`, `mount_rw`, `commit_record`, `sync`, `unmount`, `replay` | crashes between any two device writes, writes cut short, a ring that is reused, a tail that must lag |
| File data (`write.rs`, `file_write.rs`, `write_alloc.rs`, `truncate*.rs`, `exchange.rs`) | extent maps, sizes, data blocks | `write_at`, write into an empty file, allocating write, truncate, exchange | data goes out ahead of the record that claims it; blocks change hands |
| Log items (`buf_write.rs`, `log_write.rs`, `log_recover.rs`) | none of their own: what a record says of blocks and inodes | describe a change, split a checkpoint, put it together again | only differences are logged, and what is left out is whatever the device holds |
| Namespace (`create.rs`, `unlink.rs`, `rename.rs`) | entries, link counts, parent pointers | create, link, unlink, rename | one record must carry all of several inodes, directories and groups |
| Directory forms (`dir_*.rs`) | one directory as a short list, a block, blocks with a leaf, or blocks with a tree of hashes and a free index | add, remove, rename, look up | the form changes under the names; hashes collide |
| Space (`group_write.rs`, `agfl.rs`, `*_btree.rs`, `rmap.rs`, `refcount.rs`, `bmbt*.rs`) | per-group free space in two trees, reverse map, reference counts, the free list that feeds the trees | take, give back, share, inode chunks | the trees allocate from what they describe |
| Extended attributes (`attr.rs`, `attr_write.rs`, `acl.rs`) | attribute fork: inline, leaf and node blocks, remote values | set, remove, rebuild for parent pointers | forks are rebuilt in new blocks, the old ones cancelled |
| Quota (`quota.rs`, `quota/record.rs`) | counts and limits per id | charge, refuse | several ids in one record |
| Check and repair (`check.rs`, `repair.rs`, `*_repair.rs`) | none: recomputes what the volume should hold | check, repair | whole-volume invariants |
| Formats, mkfs, superblock | byte layouts | parse, format | conversions |
| C interface, command line (`capi.rs`, `cli/`) | a handle | forwards to the above | argument conversion |

All calls come from one thread at a time (a mount's mutexes are taken one
after the other inside a call, and the C interface documents one caller), so
the concurrency is between the program and the device: a write may fail, be
cut short, or be the last one before the machine stops. The properties are
about what every such ending leaves behind.

The parts interact in one way: every operation above the journal builds one
list of log items and calls `commit_record`, then hands the same images to the
overlay (`logged_buffers`, `logged_inode`), through which the mount reads from
then on. File data and remote attribute values bypass this and are written to
the device first.

## Modules

`Journal.tla` - the journal and the mount. Device: `home` (metadata blocks),
`ring` (records whose header is in the log), `sbCount` (the superblock's
counters). Memory: `overlay`, `oldest`, `nextHead`, `logged`, `failed`. The
running call is `pc` (which device write comes next) and `cur`. A block's
content is the number of the checkpoint or in-place write that wrote it last; a
record is a position, a length, its tail and what it carries. One action per
device write of each call:

| Action | Code |
|---|---|
| `MountRw`, `MountRo` | `mount_rw` refuses a dirty log, `mount_with_cache` replays it into memory |
| `Commit` | `commit_record` up to the placing of the checkpoint |
| `WrapPush`, `WrapPad` | its wrap: push, pad record, the ring begun again or refused |
| `AppendRecord` | one `append_at_with_tail`; after the last, `oldest`, `next_head` and the images |
| `BoundPush` | the push at `MAX_DIRTY_BYTES` that ends `commit_record` |
| `Sync` | `sync` |
| `UnmountPush`, `UnmountCounters` | `unmount`, whose record then goes through `AppendRecord` |
| `InPlace` | `write_at`, `set_attributes`, `truncate` on a mount that has not logged |
| `Crash`, `CloseRo` | the handle goes; only the device remains |

Every device write has a failing alternative. A record write that fails
(`Torn`) may have left the record whole, its header only, or nothing, and an
older record under it gone, spoiled or intact. `Recovered` is what
`log_recover::replay` makes of the device: the walk from the newest record's
tail, every checksum verified, transactions applied at their commit.

`AtomicStore.tla` - what the journal promises: numbered checkpoints, each whole
or not at all, in order, never lost; a cut-short write may leave the volume
unreadable (the kernel then refuses it too). `Journal!ImplementsStore` maps
the device, as the next mount would read it, to the store's content.

`BlockReuse.tla` - one block's life after another. A block is logged while it
is a directory, map or attribute-leaf block and written directly while it is
file data or a remote value. The module has the overlay, the records from the
tail, and each path that takes, frees, cancels or forgets a block, with the
step between a direct write and the record that claims it kept apart. `stale`
collects the blocks that a path gave back leaving an image behind; the
properties say exactly how far the rest can be trusted.

`HeadSearch.tla` - how a mount finds the newest record: the bisection by cycle
number over the blocks of the ring (`newest_record_by_cycle`), the scan of every
block it stands in for (`scan_whole_ring`), and the head derived from the
answer. The log is blocks with a cycle stamp and possibly a header; a record may
be cut short at any of its blocks, and (for a log another writer left) two
records may have been in flight.

`AgSpace.tla` - runs of blocks in a group, first fit, and `ag_btree::plan`, the
number of blocks and levels a tree of so many records takes.

`Group.tla` - one allocation group's space. `disk` is the committed group: free
blocks, the free list as the ring it is, the blocks of the two free-space trees,
the reverse map and the reference counts, and the header's counts. `group` and
`op` are a running operation's `GroupAlloc` and what its caller holds. Every way
to take (`take`, `take_aligned`, `take_up_to`, `take_settled`) and to free
(`free_file_extents`, `release_attribute_blocks`) is an action on memory;
`Commit` is `into_items`: refill the list by the levels the header had, lay out
the four trees in order, each growing from the list or shrinking onto it, then
the header. Free space and reverse mappings are sets of blocks, and their records
the maximal runs: what the record lists must amount to. `refs` is the reference
count of each block, 0 for one without a record; a free of a shared block takes
one owner off it. `StartsAssumption` says what the files may map at first: blocks
past the roots and the list, shared only where references are counted.

`Inodes.tla` - one group's inode chunks, the two inode trees, and the three
operations that change them. A create takes its chunk, the trees' blocks and a
directory block through one allocator; an unlink or a replacing rename uses one
for the inode trees and one for everything else, and the record carries what both
log, in the order the code lists them.

`LogItems.tla` - what a checkpoint carries and what replay makes of it. A block
is a few chunks, an inode a core (whose byte order and places of the extent
counts are converted), an unlinked pointer and a literal area shared by two
forks. Each operation is an action that describes its change as items; items
become operations, operations records of bounded size. `mine` is what the mount
reads through its overlay, `Replayed` what recovery makes of `device` and `log`:
the state machine of regions and items (`AddRegion`, `ReadOp`), chunks by their
bitmap, cores and roots converted back. The first log may be a kernel's, whose
records can end inside a region.

`Quota.tla` - `accounting_items` and `adjust_record`: changes of several owners
added up by dquot, each applied or the operation refused.

`Namespace.tla` - every operation on names as one step on inodes: entries, link
count, `..`, generation, parent pointers, blocks of both forks, and the charge
to the owners. Directories are maps from names; their number of blocks stands
for the form. `uncharged` and `miscounted` are ghosts for two things the code
leaves out, below.

`DirForms.tla` - one directory in its four forms. Short form with its cookies
and widths; block and leaf form laid out anew by each edit; node form edited in
place: the tree of hashes split, joined and collapsed, the chain of leaves, the
free index with its table of largest gaps. Readers (`Lookup`, `Listing`) are
operators of their own, from `dir.rs` and `fs.rs`.

`SpaceRecords.tla` - the reverse map and the reference counts as the lists of
records they are: `insert`, `insert_shared`, `remove`, `release`.

`FileData.tla` - two files' extent maps, sizes and bytes through every write,
truncate and exchange. `disk` holds bytes, stale ones included; `want` is the
ghost of what a read may return. A record may fail after the data is out
(`session`), and `loose` collects what the in-place truncate leaves unzeroed.

`Check.tla` - a volume as a map from sectors to contents, and the checker as one
operator from the volume to its findings, pass by pass in the code's order, with
what each pass does when something cannot be read. The only step is a medium
that damages the volume.

`Repair.tla` - rules that plan from a report, refuse or withhold; the
verification of every sector, the writes in device order, the one flush behind
them, the check afterwards and the exit code. A run may stop at any step (`Stop`),
be failed by a write or the flush and exit with the code for that (`WriteFails`,
`FlushFails`), or be cut off by the power (`PowerLoss`); until the flush has
returned, any of what was written may be lost, sector by sector. A metadata inode
is held by no name, and the inode rule leaves it as it is or refuses.

`OrderFacts.tla` - least and greatest elements of sets of naturals, for
arguments by least counterexample, and what a step repeated from a start to an
end keeps; and sums over finite sets: what changing one term does.
`AgSpaceProofs.tla` - what `AgSpace`'s operators give: blocks in order, runs that
fit, and a tree's plan, which is defined for every number of records.

`JournalProofs.tla`, `HeadSearchProofs.tla`, `BlockReuseProofs.tla`,
`NamespaceProofs.tla` (with those about `Quota`), `GroupProofs.tla`,
`InodesProofs.tla` - the theorems.

The `MC*.tla` modules give values to the constants for TLC; `Inodes` needs none.

How the modules meet: `Journal` says when a checkpoint is there as a whole,
`LogItems` that its contents are then the contents the mount had, `BlockReuse`
that blocks which change hands keep to their owners across both. The modules
above them (`Group`, `Inodes`, `FileData`, `Namespace`) take a checkpoint as one
step, which the first three justify, and share `Quota` and `SpaceRecords`.
`DirForms` opens what `Namespace` has as a map; `Repair` extends `Check`.

## Runs

| Run | Shows |
|---|---|
| `journal` | all interleavings of three operations with pushes, wraps, unmounts, crashes, remounts, failed and torn writes, in a ring of nine blocks and two cycles |
| `journal_store` | refinement of `AtomicStore`, with checkpoints that can outgrow a pad record's reach or the ring |
| `replay` | two checkpoints of any operation over one block, two inodes and a dquot, records of ten words, the power lost before any of them, after an empty log or a kernel's cut at any region |
| `reuse` | three blocks, five operations, every free path |
| `search` | a ring of nine blocks through four cycles with any record, or two in flight, cut short: the bisection answers as the scan does, or with the record before the two |
| `group` | two operations of up to two takes and frees on a volume with a reverse map and reference counts, with files that share blocks and trees that grow a level, shrink and refill |
| `inodes` | six creates, writes, unlinks and replacing renames over inode trees that grow and shrink |
| `filedata` | four writes, truncates and exchanges from five volumes: a hole and an unwritten extent, shared blocks, a block mapped twice, a map in a tree |
| `namespace` | five operations on names among four inodes, with and without parent pointers, two owners with limits |
| `directory` | six edits of a directory of up to five names, two of one hash and one of the hash of `..` |
| `check` | every volume that one or two damaged or unreadable sectors make of a sound one |
| `repair` | fsck run again and again on volumes with up to two faults; once, at any step, a run is stopped, failed by the device, or cut off by the power, which keeps any of the writes not flushed |

Bounds. Nine blocks with records of two to four make a ring that fills with
the second or third checkpoint, so that each wrap, each pad and each torn
overwrite of a record happens, and two cycles make the cycle limit happen.
`MaxDirty` is two blocks, so a commit meets a full overlay. Three operations
suffice for a record before, at and after the wrap. In `BlockReuse` five
operations cover log, free, take, rewrite and one push in any order; the proofs
remove both bounds there.

In `LogItems` a block of three chunks can have a run before and after one left
out; five words of literal area let a root lie in two places; a second
checkpoint meets what the first left in chunks and words past the counts.

In `Group` a leaf holds two records (the reverse map seven, the reference
counts one) and a node two pointers, so that two edits change the size of every tree;
26 blocks leave room for a second level and for the refill after the first
growth, and two commits make the second start from trees and a list the first
one moved. The free list begins at the end of its ring. In `Inodes` a chunk is
two inodes in two blocks and a leaf one chunk record: four creates give the
inode tree two levels, six operations let it be freed into.

In `FileData` a block is two bytes and an inode lists two extents, so that every
second write moves a map into a tree and back. In `Namespace` five operations
make a directory, one below it, and a move that would tie them in a loop; a slot
is freed and used again with the next generation. In `DirForms` an index block
holds three records and a free block two bests: six edits reach node form, split
a leaf in a run of one hash, and trim the free index. In `Check` and `Repair`
two faults are what it takes for one to hide the other.

Deadlock is checked in the runs of `Journal`, `LogItems`, `BlockReuse`, `Group`
and `Repair`. The others end where their bound on operations, edits or faults
does, or, in `HeadSearch`, where the machine stopped; a refused operation is one
that does not happen.

Fairness. Every call of this driver is a finite sequence of device writes and
nothing in it waits, so only `Repair` is about liveness. `Settles` says that
fsck run again and again comes to rest. It assumes weak fairness of the steps of
the run under way and of starting the next one (`Proceeds`): that is the user or
the boot that calls it, not a promise of the code; each step inside a run is the
next statement of a program. Faults, stops, device failures and power losses are
bounded and never fair.

## What the models show against the code

Each property below states what a comment, document or test says of the code,
the model refutes it, and the run's own property says how far the rest holds.
Put the definition under INVARIANTS of the configuration named to see the steps.

| Definition, configuration | What the code does | What it says |
|---|---|---|
| `Journal!CrashSafe`, `MCJournal.cfg` | `commit_record` (`fs.rs:374`) pushes a full overlay after its record is written and before its caller adds that record's images, and clears `oldest_record`: the next record names itself as the tail, and a crash after it replays without the one before. `CrashSafeUnlessExposed`: only this window | README.md:75 "a crash at any checkpoint replays to a prefix of them" |
| `Journal!NeverPanics`, `MCJournal.cfg` with `LogBlocks = 8`, `CycleData = 2`, `Shapes <- LargeShapes` | a gap of more blocks than one header describes, met by a checkpoint of several records, fails `encode_record`'s assertion (`log_write.rs:355`) | log_write.rs:775 promises `Error::UnsupportedFeature` |
| `Journal!DirtyBounded`, `MCJournal.cfg` with `MaxDirty = 1` | the overlay ends above the bound, for the reason above | |
| `Journal!StopsOnlyOnIo`, `MCJournalStore.cfg` | a log another writer ended one block short of the ring's end cannot be padded; the refusal counts as a device failure | |
| `LogItems!ReplayReadsExactly`, `MCLogItems.cfg` | `freshly_initialised_inode` (`create.rs:504`) leaves `di_next_unlinked` zero in every inode of a new chunk, `apply_icreate` (`log_recover.rs:863`) and the kernel make it null: what a push writes home is not what replay would, and `inode_repair.rs:202` does not take it for a good inode | create.rs:491 "An inode as recovery will have written it" |
| `BlockReuse!ReplayKeepsBlocks`, `MCBlockReuse.cfg` | a directory block is given back with no cancellation (`dir_node.rs:274`), so an earlier image is replayed over the file data written there since | log_recover.rs:397 "A block that was freed and handed out again is logged with `BLF_CANCEL` at the point it changed hands" |
| `BlockReuse!ReadsOwnBlocks`, `MCBlockReuse.cfg` | attribute blocks given back by a parent-pointer rebuild are cancelled in the record and not forgotten by the overlay | |
| `Group!CancelledIsNotLogged`, `MCGroup.cfg` | `refill_free_list` (`group_write.rs:830`) may take a block this record cancels, and a tree grow into it; replay then suppresses the tree's image | attr_write.rs:816-819 says such a block "would be cancelled in that record, and recovery would not replay what it newly holds", and the caller's order keeps only its own takes from it |
| `Group!FreesAreAccepted`, `MCGroup.cfg` | a write into a preallocated extent (`write_alloc.rs:153`) leaves the reverse-map record flagged unwritten, and a later free of that part is refused | truncate.rs:126-127 "a record is matched on its flags" |
| `Group!ReverseMapAgrees`, `MCGroup.cfg` | the reference-count tree trades blocks with the free list and the reverse map keeps the owner each block had | |
| `Inodes!HeaderLoggedOnce`, `MCInodes.cfg` | freeing an inode may log its group's header twice, from two copies of the group (`unlink.rs:232`); `OneUseUnlessDoubled`: nothing else gives a block two uses | group_write.rs:305 "so the group's header and free list are logged once, from one copy" |
| `Namespace!AllBlocksCounted`, `MCNamespace.cfg` | a directory edited in blocks has its block count set from the data fork alone (`dir_node.rs:1208`), and loses its attribute blocks from it | dir_edit.rs:62 "`di_nblocks`: every directory block and every block of its map." |
| `DirForms!ShortFormAlwaysParses`, `MCDirForms.cfg` | the writer widens above 0x7fffffff (`dir_write.rs:584`), the reader counts above 0xffffffff (`dir.rs:77`): a short form with a number between the two is refused by this driver's own reader | |
| `DirForms!SizeEndsAtLastBlock`, `MCDirForms.cfg` | a directory whose last data block goes shrinks by that block, though the ones before it may be gone already (`dir_node.rs:928`) | dir_edit.rs "`di_size`: up to the end of the last data block." |
| `Check!NothingUnreachedBehindUnread`, `MCCheck.cfg` | an inode that cannot be read is no directory to the pass that counts names, and what it holds is reported unreached | check.rs:1777 "NOTHING IS UNREACHED BEHIND A DIRECTORY THAT COULD NOT BE READ" |
| `Check!NoUsageJudgedUnread`, `MCCheck.cfg` | a quota block that cannot be read is reported and passed over (`check/quotas.rs:236-247`), and every owner of inodes whose record is in it is then reported to have none (`297-307`). `NothingManufactured`: this, claims against a reference-count tree that was not read, and the realtime bitmap after a partial walk are the only comparisons made without what they need | check/quotas.rs:46-50 "comparing them would manufacture mismatches" |
| `Repair!LossIsResumed`, `MCRepair.cfg` | every change is written before the one flush (`repair.rs:712-715`), so a power loss may keep the inode tree and not the header that counts it: the header's count is then neither what the tree says nor what the rule makes of it, and the inode rule refuses (`inode_repair.rs:266`). `LossIsResumedOrRefused`: a plan that is made ends the repair | |
| `Repair!ReadyPlanAccounts`, `MCRepair.cfg` | the inode rule withholds while there are directory findings (`inode_repair.rs:107`), the directory rule while there are inode findings (`directory_repair.rs:114`): with both, neither repairs, run after run, and the plan does not list them | docs/fsck-output.md:100 "A plan lists every error no rule repairs under `unplanned`" |
| `FileData!MapRunsAreRecords`, `MCFileData.cfg` | `map_blocks` are freed as the runs of their numbers, which need not be the reverse map's records when another run of the file's map adjoins | truncate.rs:268 "AND THEY GO BACK IN THE RUNS THE REVERSE MAP HOLDS" |
| `FileData!AllHeldIsCounted`, `MCFileData.cfg` | filling an empty file sets `di_nblocks` from its data alone (`file_write.rs:94`) and emptying one sets it to zero (`group_write.rs:222`), though an attribute fork may hold blocks. `HeldIsCounted`: no other block is miscounted | group_write.rs:221 "The inode core a truncated file has: no size, no blocks, no extents." |
| `FileData!NothingExposed`, `MCFileData.cfg` | a truncate in place of a shared or partly unwritten tail leaves bytes past the end that a later extension shows | write.rs:516-521, truncate_to.rs:29 |

Smaller things met while modelling, which no property is about: a rename that
makes a moved directory grow by its new `..` is not charged for it
(`rename.rs:258`); `adjust_record` enforces limits on decreases too; a new file
in a freed slot keeps the owner it had until it is set; a dquot never written has
no UUID; the writer's hash tree may have five levels and the reader follows two;
`apply` reads again the sectors it will write, and not the others its plan was made
from, which the exclusive claim has to keep; a metadata inode whose mode became a
directory's is no finding on a volume without a realtime section, and the directory
rule then refuses every plan.

## Proofs

`JournalProofs!TypeCorrect`: `TypeOK` is not inductive. The invariant adds that
every record in the ring ends inside it, that a head's block and free blocks
always make up the ring, and that a checkpoint being written fits the head it
was placed at (which is what makes `free - needed` a natural number).

`JournalProofs!GapsCanBePadded`: no commit leaves a gap a pad cannot fill,
under `ShapesLeaveRoom`: no checkpoint is within a pad record of the whole
ring. The hypothesis is needed: after a wrap the code does not look at the gap
again.

`JournalProofs!JournalIsSafe` is the invariant behind the five safety theorems of
the journal: `ReplaysToAPrefix`, `LogCanBeFollowed`, `TornWrapIsHarmless`,
`CleanLogIsSettled` and `MountsReadCommitted`. None of the five is inductive: that
a log replays to what happened says nothing of the log one device write later,
and that depends on what the mount holds in memory. `Safe` has four parts:

* `Tidy`: records lie inside the ring and over no other;
* `Sound`: what a reader makes of the log with this newest record is the history.
  A clean log has everything home; a walk that succeeds carries an image, and the
  right one, of every block that is not home; a whole record that no walk reaches
  lies on a volume that needs no replay;
* `MountSays`: what a mount that may not write holds;
* `Running`: what a mount that may write holds, by the device write it is about to
  make. At rest, the head is behind the newest record and the walk to it succeeds
  without passing the end of the ring (`Ready`, `Chain`), or nothing is held and
  all is home (`Plain`); the tail the next record will name is one a walk
  can begin at (`Tailed`). In the middle of a checkpoint of several records the
  first of them is met by the walk (`Begun`); after one that met a full overlay
  the log carries what was not pushed (`Covered`).

Its lemmas are about one record laid in a ring, whole or cut short: which records
it removes, and how the walk to the new record relates to the walk to the old one.
As in `BlockReuse`, the record that a replay applies last to a block is chosen, not
computed, so that no induction over the log is needed.

`JournalProofs!JournalIsAnAtomicStore`: the refinement of `AtomicStore`, step by
step. The store's contents are the history when the log can be followed and `None`
otherwise (`VolumeIs`, from `ReplaysToAPrefix`); only a mount that may write
changes the device (`OnlyWritersWrite`); and it adds to the history one checkpoint
or in-place write at a time, after which the log can be followed (`OneMore`). The
hypothesis is that no commit meets a full overlay: it would push all but its own
images and forget the tail, and until the next push a crash may replay without
that commit (`exposed`, the first row of the table above). The run
`journal_store` has fewer metadata blocks than the overlay may hold, and so is
within the hypothesis; `journal` is not.

`HeadSearchProofs!SearchFindsNewest` and `ScanFindsTheHead`: for a ring of any size,
any lengths of records and any number of them, in flight or cut short. A log with
holes has no order a bisection could rely on, so the invariant is not about where
the holes are but about what follows a record: once the next one is begun, the
block behind a record is never again of an older cycle than it had then
(`Followed`), which leaves the last, and with two in flight two, that a bisection
may stop at (`Loose`). Records do not overlap in the order they were written
(`Chain`), so the last one is the one the scan takes. `Bisect` is a recursive
function; that it has a value is shown by least counterexample over the span
(`SettledExists`). The first theorem assumes `RecordsFitWindow`, which the code
has: `HEAD_WINDOW_BLOCKS` is several of the largest records. TLC shows it is
needed: with a record longer than the window the bisection gives up on a whole
log, and the scan answers.

`BlockReuseProofs!OwnersReadTheirBlocks` and `ReplayKeepsTheirBlocks`: for any
set of blocks and any number of operations. The first rests on what an image
in the overlay means for a block in each use; the second on which image a
replay applies last (`LastWins`), and how that changes when a record is
appended or starts a new tail. Sequences are reasoned about with the library's
theorems; what would be an induction over the log is a choice of the last
applied record, whose existence comes from `OrderFacts`.

`NamespaceProofs!TreeTheorem`, `LinksTheorem`, `PointersTheorem`: for any set of
inodes, any finite set of names and any number of operations. `OneTree` walks up
from a directory for as many steps as there are inodes, which no step can be
argued from. The invariant says it without counting (`Rooted`): no non-empty set
of directories, the root apart, is closed under "parent of". A rename that moves a directory
below itself would make such a set, and the code's own walk is what refuses it.
The rest of the invariant is the shape of the table (`OnlyDirsName`: only
directories have entries; `Entered`: every inode in use but the root has a name,
a directory just one, in the directory its `..` says), `LinksCount` and
`PointersAgree`. Every operation on names has one shape: an inode loses at most
one entry and gains at most one, and counts, `..` and parent pointers move with
them (`EntryStep`, `KindStep`, `UpStep`, `LinkStep`, `BackStep`). `InvStep` shows
that a step of that shape keeps the invariant; one lemma per operation shows
that it has it.

`NamespaceProofs!BlocksTheorem`, `UsageTheorem`: for any owners, limits and
inodes. The accounts are sums over the inode table, so the argument
is about how a sum moves when one or several inodes change owner or size
(`OrderFacts`), and that `accounting_items` adds up the same differences. Two
ghosts stay in the statements, for the two things the code leaves out
(`uncharged`, `miscounted`).

`GroupProofs`: `OneUseTheorem`, `AheadTheorem`, `CountsTheorem` and
`NamesTheorem`, for any size of group, of leaves, nodes and free list, with or
without a reverse map and reference counts. The four are one invariant, since
none is inductive alone: the committed group and the group a running operation
holds each `Fit` what the files map, or will map. `Fit` is `Good` (the uses part
the blocks, the list is a ring whose indices describe its count and holds no
block twice, no tree does), `Names` (the reverse map has one mapping for each
name due) and `Shared` (a reference count is the number of owners where there
are several). `Shared` is what makes a free sound: the blocks
`release_shared` lets go are the ones with one owner, this one. Every edit and
every relay moves a set of blocks from one use to another (`Moves`), which is
argued once (`MovePart`); the rest shows which set, through the arithmetic of
the ring (`RingTake`, `RingPut`). That `plan` is defined for every number of
records is shown by least counterexample (`AgSpaceProofs!OverExists`).

`InodesProofs!OneUseUnlessDoubledTheorem` and `CountsAgreeTheorem`: for any size
of group and chunk, any alignment, leaves and nodes and any number of operations.
`CountsAgree` rests on `Typed`, whose last part says that the inodes with a file
are exactly the slots no chunk has free (`Used`); it holds whether or not a
record was doubled. The first is from a partition: while no record has logged the
header twice, free space, directories, both trees, chunks and files part the
blocks (`Apart`), and no block is in two chunks or two files. `Naming`, a sum of
counts, is not inductive itself. Whatever an operation does is a trade between
free space and one of the others (`Trades`, `ApartTrades`). In an operation with
two allocators the two trades are made from the same copy, and only one of them
survives; if it was not doubled then one of the allocators changed nothing, which
is what `LaidFact` and `ReleasedFact` say of an allocator that reports so.

Assumptions on constants are the modules' own: `Names` of `Namespace` and the
forks of `Group` are finite, and a block of dquots holds at least one. In
`Group` the start is what `mkfs` writes, with any files past the list. In
`Inodes` the first chunk and the trees lie inside the group. A log the journal
starts from (`CleanLog`) is empty or ends in an unmount record, and its records
have blocks of their own; `None` is none of the values it stands beside.

Only model-checked: `Settles` (liveness); `ReplayReadsTheSame` of `LogItems`, whose
checkpoints are put together by folds over sequences of regions; everything of
`DirForms`, `FileData`, `Check` and `Repair`, which have recursive operators (what
folds and recursive operators compute for every input would be an induction over
data, which the prover does not do); and `OneEditNeverStarves`, which is about
sizes and not true for all of them: an attribute fork in many pieces, released in
one edit, adds as many records of free space, and where they fill more leaves than
the list has blocks TLC finds the operation refused. The run has leaves of two
records and forks in one piece.

## Plan

1. `Group` over several groups, with an operation that takes in one and frees in
   another.
2. The attribute fork's leaf and node layout.
3. `set_label` and the superblock's counters as items of `LogItems`.

## Not modelled, and limits

* The C interface and the command line (but for fsck's run and exit code)
  convert arguments around the calls above. `mkfs`, the superblock and the
  remaining formats are byte layouts written or read once, in sequence.
* `set_label`, the realtime mount, and the leaf and node layout of attributes.
* The cycle stamping of record blocks, block encodings of the extent tree, and a
  directory block of several filesystem blocks, which is patched block by block
  under one checksum.
* In `Journal` the newest record is what both searches look for; that they find
  it is `HeadSearch`.
* In `LogItems` a chunk in use is never all zero. A new block is logged as what
  differs from zeros, so an all-zero chunk that is in use (sixty-four full data
  blocks in a row, in a new free-index block) would keep what the device had.
* In `Group`, `Inodes`, `FileData` and `Namespace` a record is committed whole:
  that it is applied whole or not at all is `Journal`'s part. Operations over
  several groups are one group's share of them.
* A torn record write that the ring's reuse places over the tail's record can
  make the log impossible to follow; `TornWrapLosesNothing` says nothing is
  lost then, but a mount refuses the volume.
* In `Check` a quota type's records are in one block, of which a damaged record is
  reported by itself; version 4 superblocks, which keep group and project records
  in one file, are not modelled.
* In `Repair` the unlinked lists, the alignment of chunks and the names a directory
  may not have are left out of the inode rule's census. A chunk that begins or ends
  to have free inodes changes the free inode tree in place: the code lays that tree
  out again through the allocator (`inode_repair.rs:304-312`), which changes the
  group's header and free list when the tree grows or shrinks, or the list needs
  blocks. One run of a history ends half way: a power loss on top of a stop is not
  in the run.
* The Linux kernel's recovery is outside; replay here is this driver's own.
