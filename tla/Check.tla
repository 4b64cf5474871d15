-------------------------------- MODULE Check --------------------------------
(***************************************************************************)
(* The checker (check.rs, check/quotas.rs): every structure of a volume    *)
(* read once and held against the others that describe the same thing.     *)
(*                                                                         *)
(* A volume is a map from its sectors to what they hold: the superblock    *)
(* and its copies, each group's headers, free list and trees, each inode,  *)
(* each directory's block and its index, the realtime bitmap and summary,  *)
(* the quota files.  A sector that does not read as what it should be says *)
(* how in `state`.  A check is a function of the volume, so it is an       *)
(* operator, built from one operator per pass, each from the checker's     *)
(* record to its next.  The steps are a medium that damages the volume.    *)
(***************************************************************************)
EXTENDS Integers, Sequences, SequencesExt, FiniteSets, FiniteSetsExt

CONSTANTS
  Groups,      \* 0 .. n
  Length,      \* by group: its blocks, from the geometry
  Inos,        \* inode numbers
  GroupOf,     \* by inode number: its group
  BlockOf,     \* by inode number: the block of its chunk
  Root,        \* sb_rootino
  HeaderLen,   \* blocks of the four headers
  Log,         \* [group, start, len]: the internal log
  Reflink, Rmapbt, Finobt,
  Kinds,       \* quota types, a subset of user, group, project
  RtSizes,     \* realtime extent sizes between 4 KiB and 1 GiB
  RtPerBlock,  \* bits of a block of the realtime bitmap
  PerKind,     \* PER_KIND
  Sound,       \* volumes before any damage
  Exposed,     \* kinds of sector the medium damages
  MaxFaults    \* bound: damaged sectors

ASSUME CheckAssumption ==
  /\ Length \in [Groups -> Nat] /\ GroupOf \in [Inos -> Groups]
  /\ BlockOf \in [Inos -> Nat] /\ Root \in Inos
  /\ Reflink \in BOOLEAN /\ Rmapbt \in BOOLEAN /\ Finobt \in BOOLEAN
  /\ PerKind \in Nat \ {0} /\ RtPerBlock \in Nat \ {0} /\ MaxFaults \in Nat

VARIABLES
  vol,      \* the volume
  faults    \* how many sectors have been damaged

Nothing == -1

\* A pass over what the passes before it left.
Then(c, Pass(_)) == CHOOSE d \in {Pass(x) : x \in {c}} : TRUE

\* A set of numbers, ascending.
InOrder(S) == SelectSeq([k \in 1 .. Max(S \cup {0}) + 1 |-> k - 1], LAMBDA n : n \in S)

Sb        == <<"sb", 0>>
Copy(g)   == <<"copy", g>>
Agf(g)    == <<"agf", g>>
Agi(g)    == <<"agi", g>>
Agfl(g)   == <<"agfl", g>>
Bno(g)    == <<"bno", g>>
Cnt(g)    == <<"cnt", g>>
RmapOf(g) == <<"rmap", g>>
Refc(g)   == <<"refc", g>>
Inobt(g)  == <<"inobt", g>>
Finobts(g) == <<"finobt", g>>
Slot(i)   == <<"inode", i>>
Dir(i)    == <<"dir", i>>
Index(i)  == <<"index", i>>
Bitmap    == <<"rtbitmap", 0>>
Summary   == <<"rtsummary", 0>>
QuotaOf(k) == <<"quota", k>>

-----------------------------------------------------------------------------
(* The report *)

\* stops_the_walk
Stops(code) ==
  code \in {"checksum", "identity", "agf-unreadable", "agi-unreadable", "agfl-unreadable",
            "btree-unreadable", "inobt-record", "extent-unreadable", "inode-unreadable",
            "dir-root", "dir-not-a-directory", "dir-unreadable", "mount", "quota-unreadable"}

\* The names of findings.
Code ==
  {"checksum", "identity", "sb-copy-unreadable", "sb-copy-field", "sb-copy-uuid", "agf-unreadable",
   "agi-unreadable", "agfl-unreadable", "ag-length", "btree-unreadable", "inobt-record", "inobt-chunk-count",
   "finobt-mismatch", "freesp-empty", "freesp-overlap", "freesp-cnt-order", "freesp-disagree",
   "counter-agf-freeblks", "counter-agf-longest", "counter-agf-btreeblks", "counter-agi-inodes",
   "counter-agi-iblocks", "counter-agi-fblocks", "counter-sb-icount", "counter-sb-ifree", "counter-sb-fdblocks",
   "range-block", "range-extent", "cross-link", "lost", "extent-unreadable", "inode-unreadable",
   "inode-free-in-use", "inode-allocated-unused", "inode-nlink", "dir-root", "dir-not-a-directory",
   "dir-unreadable", "dir-entry-target", "dir-entry-ftype", "dir-reached-twice", "dir-unreached",
   "log-replayed", "mount", "rt-geometry", "rt-extent", "rt-cross-link", "rt-bitmap", "rt-summary",
   "counter-sb-frextents", "rmap-missing", "rmap-stale", "rmap-owner", "rmap-duplicate", "refcount-stale",
   "refcount-count", "repair-not-exclusive", "repair-feature", "repair-log-dirty", "repair-incomplete",
   "repair-ambiguous", "quota-flags", "quota-inode", "quota-unreadable", "quota-usage"}

\* severity
IsError(code) ==
  code \in Code \ {"log-replayed", "repair-not-exclusive", "repair-feature", "repair-log-dirty",
               "repair-incomplete", "repair-ambiguous"}

\* record: up to PER_KIND findings of one code in one group are listed.
Recorded(r, f) ==
  IF Cardinality({k \in DOMAIN r.findings : r.findings[k].code = f.code /\ r.findings[k].ag = f.ag}) < PerKind
  THEN [r EXCEPT !.partial = @ \/ Stops(f.code), !.findings = Append(@, f)]
  ELSE [r EXCEPT !.partial = @ \/ Stops(f.code), !.suppressed = @ + 1]

\* find, find_at: an inode's finding is in the inode's group.
Find(c, code, ag, at) ==
  [c EXCEPT !.report = Recorded(@, [code |-> code, ag |-> ag, at |-> at])]

FindIno(c, code, i) ==
  Find(c, code, IF i \in Inos THEN GroupOf[i] ELSE Nothing, i)

FindIf(cond, c, code, ag, at) == IF cond THEN Find(c, code, ag, at) ELSE c

\* Comparisons made in order, each a condition and the code it is found under.
FindEach(c, ag, comparisons) ==
  FoldLeft(LAMBDA d, p : FindIf(p[1], d, p[2], ag, Nothing), c, comparisons)

\* failed: a checksum, or a header that names another place, is that
\* whatever was being read.
FailedCode(code, state) == IF state \in {"checksum", "identity"} THEN state ELSE code
Failed(c, code, state, ag, at) == Find(c, FailedCode(code, state), ag, at)

\* is_clean
Clean(r) ==
  /\ ~r.partial /\ r.suppressed = 0
  /\ \A k \in DOMAIN r.findings : ~IsError(r.findings[k].code)

Codes(r) == {r.findings[k].code : k \in DOMAIN r.findings}

-----------------------------------------------------------------------------
(* Claims *)

Unclaimed   == <<"nothing", 0>>
Owned(what) == <<what, 0>>
IsData(o)   == o[1] = "data"
InoOf(o)    == IF o[1] \in {"data", "attr", "extents"} THEN o[2] ELSE Nothing
BlocksIn(e) == e.start .. e.start + e.len - 1
One(b)      == [start |-> b, len |-> 1]

\* Mutant: sharing is allowed to any two files.
MutClashes(c, g, e, o) ==
  {b \in BlocksIn(e) : c.owner[g][b] # Unclaimed /\ ~(IsData(c.owner[g][b]) /\ IsData(o))}

\* The blocks already another's, but for what the refcount tree says files share.
Clashes(c, g, e, o) ==
  {b \in BlocksIn(e) : /\ c.owner[g][b] # Unclaimed
                       /\ ~(IsData(c.owner[g][b]) /\ IsData(o) /\ b \in c.shared[g])}

\* The blocks nobody had are the claimant's.
Taken(c, g, e, o) ==
  [c EXCEPT !.owner[g] = [b \in DOMAIN @ |-> IF b \in BlocksIn(e) /\ @[b] = Unclaimed THEN o ELSE @[b]],
            !.claimed[g] = Append(@, [at |-> e, owner |-> o])]

\* claim
Claim(c, g, e, o) ==
  IF g \notin Groups THEN Find(c, "range-block", Nothing, Nothing)
  ELSE IF e.start >= Length[g] \/ e.len > Length[g] - e.start
  THEN Find(c, "range-block", g, InoOf(o))
  ELSE FindIf(Clashes(c, g, e, o) # {}, Taken(c, g, e, o), "cross-link", g, InoOf(o))

ClaimBlocks(c, g, bs, o) == FoldLeft(LAMBDA d, b : Claim(d, g, One(b), o), c, InOrder(bs))

Unread(c, g) == [c EXCEPT !.unread = @ \cup {g}]

-----------------------------------------------------------------------------
(* The superblock copies, and a group's headers and trees *)

\* secondaries: every geometry and feature field, then the UUID.
Secondaries(c, v) ==
  FoldLeft(LAMBDA d, g :
             LET s == v[Copy(g)]
             IN  IF s = "unreadable" THEN Find(d, "sb-copy-unreadable", g, Nothing)
                 ELSE FindIf(s = "other", FindIf(s = "field", d, "sb-copy-field", g, Nothing),
                             "sb-copy-uuid", g, Nothing),
           c, InOrder(Groups \ {0}))

\* The headers' own blocks, and the log's.
LogBlocks(c, g) ==
  IF Log.group = g THEN Claim(c, g, [start |-> Log.start, len |-> Log.len], Owned("log")) ELSE c
Headers(c, g) ==
  LogBlocks(Claim(c, g, [start |-> 0, len |-> HeaderLen], Owned("headers")), g)

\* A header that does not read leaves its group unread and its totals short.
Abandoned(c, g) ==
  [c EXCEPT !.unread = @ \cup {g}, !.unlisted = @ \cup {g}, !.freeShort = TRUE, !.inodesShort = TRUE]

FreeList(c, v, g) ==
  IF v[Agfl(g)].state = "ok"
  THEN ClaimBlocks(c, g, v[Agfl(g)].list, Owned("free list"))
  ELSE Unread(Failed(c, "agfl-unreadable", v[Agfl(g)].state, g, Nothing), g)

TreeUnread(c, v, t, g) == Unread(Failed(c, "btree-unreadable", v[t].state, g, Nothing), g)

\* The refcount tree, and the blocks it says are shared.
RefcountTree(c, v, g) ==
  LET t == v[Refc(g)]
      shared == {r \in Range(t.recs) : r.count > 1 /\ ~r.cow}
  IN  IF ~Reflink THEN c
      ELSE IF t.state # "ok" THEN TreeUnread(c, v, Refc(g), g)
      ELSE [ClaimBlocks(c, g, t.blocks, Owned("refcount tree")) EXCEPT
                     !.shared[g] = @ \cup UNION {BlocksIn(r) : r \in shared},
                     !.refcounts[g] = t.recs]

\* One of the three trees whose blocks the AGF counts.
SpaceTree(c, v, t, g, name) ==
  IF v[t].state = "ok" THEN ClaimBlocks(c, g, v[t].blocks, Owned(name))
  ELSE TreeUnread(c, v, t, g)

Walked(v, t) == v[t].state = "ok"
RecordsOf(v, t) == IF Walked(v, t) THEN v[t].recs ELSE <<>>

RmapTree(c, v, g) ==
  IF Rmapbt
  THEN [SpaceTree(c, v, RmapOf(g), g, "rmap tree") EXCEPT !.rmaps[g] = RecordsOf(v, RmapOf(g))]
  ELSE c

Lengths(es) == FoldLeft(LAMBDA n, e : n + e.len, 0, es)
Longest(es) == FoldLeft(LAMBDA n, e : IF e.len > n THEN e.len ELSE n, 0, es)

\* Blocks of the trees the AGF counts, past their roots.
PastRoots(v, g) ==
  Cardinality(v[Bno(g)].blocks) - 1 + Cardinality(v[Cnt(g)].blocks) - 1
    + (IF Rmapbt THEN Cardinality(v[RmapOf(g)].blocks) - 1 ELSE 0)

\* Extents in order, none empty, each claimed as free.
ByBlock(c, g, es) ==
  FoldLeft(LAMBDA d, k :
             LET e == es[k]
                 a == FindIf(e.len = 0, d, "freesp-empty", g, e.start)
                 b == FindIf(k > 1 /\ e.start < es[k - 1].start + es[k - 1].len,
                             a, "freesp-overlap", g, e.start)
             IN  Claim(b, g, e, Owned("free")),
           c, [k \in 1 .. Len(es) |-> k])

OutOfOrder(es) ==
  \E k \in 1 .. Len(es) - 1 : \/ es[k].len > es[k + 1].len
                              \/ es[k].len = es[k + 1].len /\ es[k].start >= es[k + 1].start

SameExtents(a, b) == ToSet(a) = ToSet(b) /\ Len(a) = Len(b)

\* free_space: the two trees against each other and the AGF; what was not
\* walked is compared with nothing.
FreeSpace(c, v, g) ==
  LET es == RecordsOf(v, Bno(g))
      cs == RecordsOf(v, Cnt(g))
      f  == v[Agf(g)]
      bno == Walked(v, Bno(g))
      all == bno /\ Walked(v, Cnt(g)) /\ (Rmapbt => Walked(v, RmapOf(g)))
  IN  FindEach(ByBlock(c, g, es), g,
        <<<<OutOfOrder(cs), "freesp-cnt-order">>,
          <<bno /\ Walked(v, Cnt(g)) /\ ~SameExtents(es, cs), "freesp-disagree">>,
          <<bno /\ Lengths(es) # f.freeblks, "counter-agf-freeblks">>,
          <<bno /\ Longest(es) # f.longest, "counter-agf-longest">>,
          <<all /\ f.btreeblks # PastRoots(v, g), "counter-agf-btreeblks">>>>)

FreeTotals(c, v, g) ==
  [c EXCEPT !.fdblocks = @ + Lengths(RecordsOf(v, Bno(g))) + v[Agf(g)].flcount + v[Agf(g)].btreeblks,
            !.freeShort = @ \/ ~Walked(v, Bno(g))]

\* record_counted: a record wrong in its free count alone is read with the
\* count its mask has.
Decoded(r) == [r EXCEPT !.freecount = Cardinality(r.free)]
Miscounted(r) == r.freecount # Cardinality(r.free)
ChunksOf(v, g) ==
  LET good == SelectSeq(RecordsOf(v, Inobt(g)), LAMBDA r : r.ok)
  IN  [k \in 1 .. Len(good) |-> Decoded(good[k])]
Listed(v, g) == Walked(v, Inobt(g)) /\ \A r \in Range(v[Inobt(g)].recs) : r.ok

\* A group not all of whose records decode is unread, its inodes unlisted.
Unlisting(c, v, g) ==
  IF Listed(v, g) THEN c ELSE [c EXCEPT !.unread = @ \cup {g}, !.unlisted = @ \cup {g}]

\* The inode tree: its block count, and each record.
InodeTree(c, v, g) ==
  LET t == v[Inobt(g)]
      one(x, r) == IF ~r.ok THEN Find(x, "inobt-record", g, r.first)
                   ELSE FindIf(Miscounted(r), x, "inobt-chunk-count", g, r.first)
  IN  Unlisting(IF t.state # "ok" THEN Failed(c, "btree-unreadable", t.state, g, Nothing)
                ELSE FoldLeft(one, ClaimBlocks(FindIf(v[Agi(g)].iblocks # Cardinality(t.blocks), c,
                                                      "counter-agi-iblocks", g, Nothing),
                                               g, t.blocks, Owned("inode tree")), t.recs),
                v, g)

\* The free inode tree holds exactly the chunks with a free inode.
FreeInodeTree(c, v, g) ==
  LET t    == v[Finobts(g)]
      got  == SelectSeq(t.recs, LAMBDA r : r.ok /\ ~Miscounted(r))
      want == SelectSeq(ChunksOf(v, g), LAMBDA r : r.freecount > 0)
      d == ClaimBlocks(FindIf(v[Agi(g)].fblocks # Cardinality(t.blocks), c, "counter-agi-fblocks", g, Nothing),
                       g, t.blocks, Owned("free inode tree"))
  IN  IF ~Finobt THEN c
      ELSE IF t.state # "ok" THEN TreeUnread(c, v, Finobts(g), g)
      ELSE FindIf(Listed(v, g) /\ got # want, d, "finobt-mismatch", g, Nothing)

SumOf(rs, F(_)) == FoldLeft(LAMBDA n, r : n + F(r), 0, rs)
Counted(rs)     == SumOf(rs, LAMBDA r : r.count)
FreeCounted(rs) == SumOf(rs, LAMBDA r : r.freecount)

\* chunks: each against itself, its blocks claimed, its inodes sorted into
\* allocated and free; then the AGI's counts.
Chunks(c, v, g) ==
  LET rs == ChunksOf(v, g)
      a  == v[Agi(g)]
      one(x, r) ==
        [ClaimBlocks(FindIf(Cardinality(r.exists) # r.count, x, "inobt-chunk-count", g, r.first),
                     g, {BlockOf[i] : i \in r.exists}, Owned("inodes"))
           EXCEPT !.free = @ \cup (r.exists \cap r.free),
                  !.allocated = @ \cup (r.exists \ r.free)]
  IN  [FindIf(Listed(v, g) /\ (Counted(rs) # a.count \/ FreeCounted(rs) # a.freecount),
              FoldLeft(one, c, rs), "counter-agi-inodes", g, Nothing)
         EXCEPT !.icount = @ + Counted(rs), !.ifree = @ + FreeCounted(rs),
                !.inodesShort = @ \/ ~Listed(v, g)]

\* The free list, and the trees that count space.
SpaceTrees(c, v, g) ==
  LET shared == RefcountTree(FreeList(c, v, g), v, g)
  IN  RmapTree(SpaceTree(SpaceTree(shared, v, Bno(g), g, "bno tree"), v, Cnt(g), g, "cnt tree"), v, g)

\* A group whose two headers read.
GroupBody(c, v, g) ==
  LET l == FindIf(v[Agf(g)].length # Length[g] \/ v[Agi(g)].length # v[Agf(g)].length,
                  c, "ag-length", g, Nothing)
  IN  Chunks(FreeInodeTree(InodeTree(
        FreeTotals(FreeSpace(SpaceTrees(l, v, g), v, g), v, g), v, g), v, g), v, g)

\* group
Group(c, v, g) ==
  IF v[Agf(g)].state # "ok"
  THEN Abandoned(Failed(Headers(c, g), "agf-unreadable", v[Agf(g)].state, g, Nothing), g)
  ELSE IF v[Agi(g)].state # "ok"
  THEN Abandoned(Failed(Headers(c, g), "agi-unreadable", v[Agi(g)].state, g, Nothing), g)
  ELSE GroupBody(Headers(c, g), v, g)

-----------------------------------------------------------------------------
(* Inodes and what they map *)

InUseSlot(v, i)  == v[Slot(i)].state = "ok" /\ v[Slot(i)].mode # "free"
IsDirSlot(v, i)  == v[Slot(i)].mode = "dir"
Special(v)       == {v[Sb].rt.bmino, v[Sb].rt.sumino} \cup {v[Sb].quota[k].ino : k \in Kinds}

\* fork: an extent outside one group is reported and not claimed.
Fork(c, v, i) ==
  LET s == v[Slot(i)]
      one(d, e) == IF e.group \notin Groups \/ e.start + e.len > Length[e.group]
                   THEN FindIno(d, "range-extent", i)
                   ELSE Claim(d, e.group, e, <<"data", i>>)
  IN  IF s.forkstate # "ok" THEN Failed(c, "extent-unreadable", s.forkstate, GroupOf[i], i)
      ELSE FoldLeft(one, ClaimBlocks(c, GroupOf[i], s.tree, <<"extents", i>>), s.extents)

\* fork, of the attributes: blocks of the inode's own group.
AttrFork(c, v, i) ==
  LET s == v[Slot(i)]
      one(d, b) == IF b >= Length[GroupOf[i]] THEN FindIno(d, "range-extent", i)
                   ELSE Claim(d, GroupOf[i], One(b), <<"attr", i>>)
  IN  IF s.attrstate # "ok" THEN Failed(c, "extent-unreadable", s.attrstate, GroupOf[i], i)
      ELSE FoldLeft(one, c, InOrder(s.attrs))

\* realtime_fork: its extent tree is claimed like any other, extents inside
\* the realtime section are kept for the bitmap.
RealtimeFork(c, v, i) ==
  LET one(d, e) == IF e.len > 0 /\ e.start + e.len <= v[Sb].rt.blocks
                   THEN [d EXCEPT !.rtUsed = Append(@, [start |-> e.start, len |-> e.len, ino |-> i])]
                   ELSE FindIno(d, "rt-extent", i)
  IN  IF v[Slot(i)].forkstate # "ok"
      THEN Failed(c, "extent-unreadable", v[Slot(i)].forkstate, GroupOf[i], i)
      ELSE FoldLeft(one, ClaimBlocks(c, GroupOf[i], v[Slot(i)].tree, <<"extents", i>>), v[Slot(i)].extents)

\* blocks_of
BlocksOfInode(c, v, i) ==
  AttrFork(IF v[Slot(i)].rt THEN RealtimeFork(c, v, i) ELSE Fork(c, v, i), v, i)

Used(c, v, i) == [BlocksOfInode(c, v, i) EXCEPT !.usable = @ \cup {i}]

\* An inode the tree calls free must be free, if it reads at all.
FreeInodes(c, v) ==
  FoldLeft(LAMBDA d, i : IF InUseSlot(v, i) THEN FindIno(d, "inode-free-in-use", i) ELSE d,
           c, InOrder(c.free))

\* An inode the tree calls allocated must be in use.
AllocatedInodes(c, v) ==
  FoldLeft(LAMBDA d, i :
             LET s == v[Slot(i)]
             IN  IF s.state # "ok" THEN Failed(d, "inode-unreadable", s.state, GroupOf[i], i)
                 ELSE IF s.mode = "free" THEN FindIno(d, "inode-allocated-unused", i)
                 ELSE Used(d, v, i),
           c, InOrder(c.allocated))

\* Mutant: an inode in no chunk that was read is taken to be free.
MutUnknown(c, i) == FALSE

\* unknown: nothing that was read says whether the inode is allocated.
Unknown(c, i) ==
  i \in Inos /\ GroupOf[i] \in c.unlisted /\ i \notin c.allocated /\ i \notin c.free

\* adopt: read on its own.
Adopts(c, v, i) == i \in c.usable \/ (Unknown(c, i) /\ InUseSlot(v, i))
Adopted(c, v, i) == IF i \notin c.usable /\ Adopts(c, v, i) THEN Used(c, v, i) ELSE c

FreeButUsed(c, v) == {i \in c.free : InUseSlot(v, i)}

-----------------------------------------------------------------------------
(* Quota *)

Ids(v, k)     == DOMAIN v[QuotaOf(k)].recs
QuotaFiles(v) == {v[Sb].quota[k].ino : k \in Kinds}

Complete(c) == c.unlisted = {} /\ c.allocated \subseteq c.usable

\* An inode whose realtime blocks cannot be had from its block count.
Uncountable(v, i) ==
  v[Slot(i)].rt /\ (v[Slot(i)].forkstate # "ok" \/ Lengths(v[Slot(i)].extents) > v[Slot(i)].nblocks)

UncountableCode(v, i) ==
  IF v[Slot(i)].forkstate # "ok" THEN "quota-unreadable" ELSE "quota-usage"

RtBlocks(v, i) == IF v[Slot(i)].rt THEN Lengths(v[Slot(i)].extents) ELSE 0

\* What the inodes of one owner use, the quota files' own left out.
Usage(c, v, k, id) ==
  LET own == {i \in c.usable \ QuotaFiles(v) : v[Slot(i)].owner = id}
  IN  [blocks |-> FoldSet(LAMBDA i, n : n + v[Slot(i)].nblocks - RtBlocks(v, i), 0, own),
       inodes |-> Cardinality(own),
       rt |-> FoldSet(LAMBDA i, n : n + RtBlocks(v, i), 0, own)]

\* One type's inode: present when accounting, one type's alone, a plain file
\* that maps extents.
QuotaInodeFault(c, v, k) ==
  LET q == v[Sb].quota[k]
      s == v[Slot(q.ino)]
  IN  IF q.ino = Nothing THEN q.active
      ELSE IF \E j \in Kinds : j < k /\ v[Sb].quota[j].ino = q.ino THEN TRUE
      ELSE IF q.ino \notin c.usable THEN ~Unknown(c, q.ino)
      ELSE s.mode # "file" \/ s.local \/ s.rt \/ s.nlink # 1 \/ q.ino \in {Root, v[Sb].rt.bmino, v[Sb].rt.sumino}

\* The block the records are in: what does not read is passed over, and so
\* is an unwritten extent or one beyond the ID space.
QuotaBlock(c, v, k) ==
  LET t == v[QuotaOf(k)].state
  IN  IF t = "ok" THEN c
      ELSE FindIno(c, IF t = "bad" THEN "quota-unreadable" ELSE "quota-inode", v[Sb].quota[k].ino)

\* The owners whose record, good or not, was met.
RecordsMet(v, k) == IF v[QuotaOf(k)].state = "ok" THEN Ids(v, k) ELSE {}

\* The records, each against what the inodes of its owner use; then the
\* owners of inodes that have none.
QuotaRecords(c, v, k) ==
  LET q    == v[Sb].quota[k]
      t    == v[QuotaOf(k)]
      used == {v[Slot(i)].owner : i \in c.usable \ QuotaFiles(v)}
      cmp  == q.active /\ q.checked /\ Complete(c) /\ \A i \in c.usable \ QuotaFiles(v) : ~Uncountable(v, i)
      wrong(id) == {f \in {"blocks", "inodes", "rt"} : t.recs[id][f] # Usage(c, v, k, id)[f]}
      one(d, id) == IF ~t.recs[id].ok THEN FindIno(d, "quota-inode", q.ino)
                    ELSE IF ~cmp THEN d
                    ELSE FoldSet(LAMBDA f, x : FindIno(x, "quota-usage", q.ino), d, wrong(id))
  IN  FoldSet(LAMBDA id, x : FindIno(x, "quota-usage", q.ino),
              FoldLeft(one, QuotaBlock(c, v, k), InOrder(RecordsMet(v, k))),
              IF cmp THEN used \ RecordsMet(v, k) ELSE {})

\* quotas
Quotas(c, v) ==
  LET one(d, k) ==
        LET q == v[Sb].quota[k]
        IN  IF QuotaInodeFault(d, v, k) THEN FindIno(d, "quota-inode", q.ino)
            ELSE IF q.ino \notin d.usable THEN d
            ELSE IF v[Slot(q.ino)].forkstate # "ok" THEN FindIno(d, "quota-unreadable", q.ino)
            ELSE QuotaRecords(IF q.active /\ q.checked /\ Complete(d)
                              THEN FoldSet(LAMBDA i, x : FindIno(x, UncountableCode(v, i), q.ino), d,
                                           {i \in d.usable \ QuotaFiles(v) : Uncountable(v, i)})
                              ELSE d, v, k)
  IN  FoldLeft(one, FindIf(~v[Sb].qflagsok, c, "quota-flags", Nothing, Nothing), InOrder(Kinds))

-----------------------------------------------------------------------------
(* The directory tree *)

\* read_short_form_lenient and read_dir with every_data_block_parses: an
\* undefined type or parent is read past in the inode, and fails a block.
Local(v, i)   == v[Slot(i)].local
EntsOf(v, i)  ==
  IF Local(v, i) THEN v[Slot(i)].ents ELSE IF Dir(i) \in DOMAIN v THEN v[Dir(i)].ents ELSE {}
DirState(v, i) ==
  IF Local(v, i) THEN "ok"
  ELSE IF v[Slot(i)].forkstate # "ok" THEN v[Slot(i)].forkstate
  ELSE IF Dir(i) \notin DOMAIN v THEN "bad"      \* file data
  ELSE IF v[Dir(i)].state # "ok" THEN v[Dir(i)].state
  ELSE IF \E e \in v[Dir(i)].ents : e.ftype = "undefined" THEN "bad" ELSE "ok"
Tolerated(c, v, i) ==
  LET odd == {e \in v[Slot(i)].ents : e.ftype = "undefined"}
      d   == IF Local(v, i) /\ v[Slot(i)].up \notin Inos THEN FindIno(c, "dir-unreadable", i) ELSE c
  IN  IF Local(v, i) THEN FoldSet(LAMBDA e, x : FindIno(x, "dir-entry-ftype", i), d, odd) ELSE d

NamesInOrder(ents) == SetToSortSeq(ents, LAMBDA a, b : a.name < b.name)
Typed(e) == e.ftype # "undefined"

\* An entry whose inode is in use: one more link, and a directory to visit.
Reaches(w, v, d, e) ==
  LET isdir == IsDirSlot(v, e.ino)
      twice == isdir /\ e.ino \in w.reached
      typed == FindIf(Typed(e) /\ e.ftype # v[Slot(e.ino)].mode, w.c, "dir-entry-ftype", GroupOf[d], d)
  IN  [w EXCEPT !.links[e.ino] = @ + 1,
                !.subdirs[d] = IF isdir THEN @ + 1 ELSE @,
                !.reached = @ \cup {e.ino},
                !.stack = IF isdir /\ ~twice THEN Append(@, e.ino) ELSE @,
                !.c = FindIf(twice, typed, "dir-reached-twice", GroupOf[e.ino], e.ino)]

\* One entry of directory d, its inode adopted if it can be.
Named(w, v, d, e) ==
  IF Unknown(w.c, e.ino) /\ e.ino \notin w.c.usable
  THEN [w EXCEPT !.unlisted = @ \/ ~Typed(e) \/ e.ftype = "dir"]
  ELSE IF e.ino \notin w.c.usable
  THEN [w EXCEPT !.c = FindIno(@, "dir-entry-target", d)]
  ELSE Reaches(w, v, d, e)

Entry(w, v, d, e) == Named([w EXCEPT !.c = Adopted(@, v, e.ino)], v, d, e)

\* One directory off the stack.
Visit(w, v) ==
  LET d == w.stack[Len(w.stack)]
      p == [w EXCEPT !.stack = Front(@)]
      t == [p EXCEPT !.c = Tolerated(@, v, d)]
  IN  IF ~IsDirSlot(v, d) THEN [p EXCEPT !.c = FindIno(@, "dir-not-a-directory", d)]
      ELSE IF DirState(v, d) # "ok"
      THEN [t EXCEPT !.c = Failed(@, "dir-unreadable", DirState(v, d), GroupOf[d], d), !.unlisted = TRUE]
      ELSE FoldLeft(LAMBDA x, e : Entry(x, v, d, e), t, NamesInOrder(EntsOf(v, d)))

RECURSIVE Walk(_, _)
Walk(w, v) == IF w.stack = <<>> THEN w ELSE Walk(Visit(w, v), v)

AtRoot(c) ==
  [c |-> c, links |-> [i \in Inos |-> 0], subdirs |-> [i \in Inos |-> 0],
   reached |-> {Root}, unlisted |-> FALSE, stack |-> <<Root>>]

\* The root, then every directory it leads to.
Descent(w, v) ==
  IF Root \in w.c.usable THEN Walk(w, v)
  ELSE [w EXCEPT !.c = FindIno(@, "dir-root", Root), !.stack = <<>>, !.unlisted = Unknown(w.c, Root)]

Tree(c, v) == Descent(AtRoot(Adopted(c, v, Root)), v)

\* Every inode is reached, and its link count is the names that reach it;
\* neither is judged when a directory could not be listed.
Judge(w, v) ==
  LET want(i) == IF IsDirSlot(v, i) THEN 2 + w.subdirs[i] ELSE w.links[i]
      one(c, i) == IF i \notin w.reached THEN FindIno(c, "dir-unreached", i)
                   ELSE IF v[Slot(i)].nlink # want(i) THEN FindIno(c, "inode-nlink", i)
                   ELSE c
  IN  IF w.unlisted THEN w.c ELSE FoldLeft(one, w.c, InOrder(w.c.usable \ Special(v)))

\* The quota files, which no directory names.
AdoptQuotas(c, v) ==
  FoldSet(LAMBDA k, x : IF v[Sb].quota[k].ino = Nothing THEN x ELSE Adopted(x, v, v[Sb].quota[k].ino),
          c, Kinds)

\* inodes
UsedInodes(c, v) ==
  Then(Then(c, LAMBDA x : FreeInodes(x, v)), LAMBDA x : AllocatedInodes(x, v))
OwnedInodes(c, v) ==
  Then(Then(UsedInodes(c, v), LAMBDA x : AdoptQuotas(x, v)), LAMBDA x : Quotas(x, v))
Inodes(c, v) ==
  Then(Then(OwnedInodes(c, v), LAMBDA x : Tree([x EXCEPT !.usable = @ \cup FreeButUsed(x, v)], v)),
       LAMBDA w : Judge(w, v))

-----------------------------------------------------------------------------
(* What is left: lost blocks, counters, the realtime section, rmap, refcount *)

\* unclaimed: one finding for each group whose owners were all read.
LostBlocks(c, g) == {b \in DOMAIN c.owner[g] : c.owner[g][b] = Unclaimed}
UnclaimedPass(c) ==
  FoldLeft(LAMBDA d, g : FindIf(g \notin d.unread /\ LostBlocks(d, g) # {}, d, "lost", g, Nothing),
           c, InOrder(Groups))

\* counters: against totals no group left short, on a volume not replayed.
Counters(c, v) ==
  LET s == v[Sb]
  IN  IF s.dirty THEN Find(c, "log-replayed", Nothing, Nothing)
      ELSE FindEach(c, Nothing,
             <<<<~c.inodesShort /\ s.icount # c.icount, "counter-sb-icount">>,
               <<~c.inodesShort /\ s.ifree # c.ifree, "counter-sb-ifree">>,
               <<~c.freeShort /\ s.fdblocks # c.fdblocks, "counter-sb-fdblocks">>>>)

RECURSIVE Log2(_)
Log2(n) == IF n <= 1 THEN 0 ELSE 1 + Log2(n \div 2)
CeilDiv(a, b) == (a + b - 1) \div b

\* Each field of the realtime geometry that is not what the others make it.
RtGeometry(r) ==
  LET n == r.blocks \div r.extsize
  IN  (IF r.extsize \notin RtSizes THEN {"extsize"}
       ELSE (IF r.extents # n THEN {"extents"} ELSE {})
              \cup (IF r.log # Log2(n) THEN {"log"} ELSE {})
              \cup (IF r.bmblocks # CeilDiv(n, RtPerBlock) THEN {"bmblocks"} ELSE {}))
        \cup (IF r.bmino = r.sumino THEN {"bmino"} ELSE {})

\* Realtime extents each file maps, in order.
RtRanges(c, r) ==
  SetToSortSeq({<<u.start \div r.extsize, (u.start + u.len - 1) \div r.extsize + 1, u.ino>> : u \in Range(c.rtUsed)},
               LAMBDA a, b : \/ a[1] < b[1] \/ (a[1] = b[1] /\ a[2] < b[2])
                             \/ (a[1] = b[1] /\ a[2] = b[2] /\ a[3] < b[3]))

\* Ranges that start before another file's furthest reach.
RtCrossed(rs) ==
  LET sweep(a, k) ==
        [crossed |-> IF rs[k][1] < a.until /\ a.ino # rs[k][3] THEN a.crossed \cup {k} ELSE a.crossed,
         until |-> IF rs[k][2] > a.until THEN rs[k][2] ELSE a.until,
         ino   |-> IF rs[k][2] > a.until THEN rs[k][3] ELSE a.ino]
  IN  FoldLeft(sweep, [crossed |-> {}, until |-> 0, ino |-> Nothing], [k \in 1 .. Len(rs) |-> k]).crossed

\* Runs of extents free and mapped, or in use and mapped by nothing.
RtWrong(v, rs) ==
  LET mapped(x) == \E k \in DOMAIN rs : x \in rs[k][1] .. rs[k][2] - 1
      bad(x)    == (x \in v[Bitmap].free) = mapped(x)
      X         == 0 .. v[Sb].rt.extents - 1
  IN  {x \in X : bad(x) /\ ~(x - 1 \in X /\ bad(x - 1) /\ (x \in v[Bitmap].free) = (x - 1 \in v[Bitmap].free))}

\* The summary: free runs by size class and the bitmap block they start in.
FreeRuns(v) ==
  LET free == v[Bitmap].free \cap (0 .. v[Sb].rt.extents - 1)
      starts == {x \in free : x - 1 \notin free}
      len(x) == Min({n \in 1 .. v[Sb].rt.extents : x + n \notin free})
  IN  {<<x, len(x)>> : x \in starts}
RtSummaryWanted(v) ==
  [p \in (0 .. v[Sb].rt.log) \X (0 .. v[Sb].rt.bmblocks - 1) |->
     Cardinality({r \in FreeRuns(v) : Log2(r[2]) = p[1] /\ r[1] \div RtPerBlock = p[2]})]

\* read_file: a plain file that reads to its last block, which may come too soon.
ReadFile(v, i, s) ==
  IF v[Slot(i)].state # "ok" THEN v[Slot(i)].state
  ELSE IF v[Slot(i)].mode # "file" THEN "bad"
  ELSE IF v[Slot(i)].forkstate # "ok" THEN v[Slot(i)].forkstate
  ELSE v[s].state

\* What the files map against each other, the bitmap and its free count.
RtBitmap(c, v) ==
  LET r  == v[Sb].rt
      rs == RtRanges(c, r)
      free == Cardinality(v[Bitmap].free \cap (0 .. r.extents - 1))
  IN  FindIf(~v[Sb].dirty /\ free # r.frextents,
             FoldSet(LAMBDA x, d : Find(d, "rt-bitmap", Nothing, x),
                     FoldSet(LAMBDA k, d : Find(d, "rt-cross-link", GroupOf[rs[k][3]], rs[k][3]), c, RtCrossed(rs)),
                     RtWrong(v, rs)),
             "counter-sb-frextents", Nothing, Nothing)

\* The summary against the bitmap's free runs.
RtSummary(c, v) ==
  LET r    == v[Sb].rt
      want == RtSummaryWanted(v)
      read == ReadFile(v, r.sumino, Summary)
  IN  IF read = "short" THEN FindIno(c, "rt-summary", r.sumino)
      ELSE IF read # "ok" THEN Failed(c, "inode-unreadable", read, GroupOf[r.sumino], r.sumino)
      ELSE FoldSet(LAMBDA p, x : FindIno(x, "rt-summary", r.sumino), c,
                   {p \in DOMAIN want : v[Summary].counts[p] # want[p]})

\* realtime: nothing is compared with a geometry, or a bitmap, that is not one.
Realtime(c, v) ==
  LET r    == v[Sb].rt
      read == ReadFile(v, r.bmino, Bitmap)
  IN  IF r.blocks = 0 THEN c
      ELSE IF RtGeometry(r) # {}
      THEN FoldSet(LAMBDA f, x : Find(x, "rt-geometry", Nothing, Nothing), c, RtGeometry(r))
      ELSE IF read = "short" THEN FindIno(c, "rt-bitmap", r.bmino)
      ELSE IF read # "ok" THEN Failed(c, "inode-unreadable", read, GroupOf[r.bmino], r.bmino)
      ELSE RtSummary(RtBitmap(c, v), v)

\* rmap_key: who the reverse map should name.
RmapKey(o) ==
  IF o[1] \in {"free list", "bno tree", "cnt tree", "rmap tree"} THEN Owned("ag")
  ELSE IF o[1] \in {"inode tree", "free inode tree"} THEN Owned("inobt")
  ELSE o

Expected(c, g) ==
  UNION {{<<b, RmapKey(x.owner)>> : b \in BlocksIn(x.at)} :
           x \in {y \in Range(c.claimed[g]) : y.owner # Owned("free")}}

\* What is expected and not recorded, recorded for another, and recorded only.
RmapVerdicts(want, got) ==
  LET lack == want \ got
      more == got \ want
      both == {p[1] : p \in lack} \cap {p[1] : p \in more}
  IN  [missing |-> {p \in lack : p[1] \notin both}, owner |-> {p \in lack : p[1] \in both},
       stale |-> {p \in more : p[1] \notin both}]

\* runs: consecutive blocks of one owner are one finding.
RunStarts(ps) == {p \in ps : <<p[1] - 1, p[2]>> \notin ps}

RecordBlocks(g, r) == BlocksIn(r) \cap (0 .. Length[g] - 1)

\* reverse_mapping_group
ReverseMappingGroup(c, v, g) ==
  LET recs == SelectSeq(c.rmaps[g], LAMBDA r : r.owner # Owned("cow"))
      got  == UNION {{<<b, recs[k].owner>> : b \in RecordBlocks(g, recs[k])} : k \in DOMAIN recs}
      twice == {p \in got : Cardinality({k \in DOMAIN recs : recs[k].owner = p[2] /\ p[1] \in RecordBlocks(g, recs[k])}) > 1}
      verdict == RmapVerdicts(Expected(c, g), got)
      say(d, code, ps) == FoldSet(LAMBDA p, x : Find(x, code, g, p[1]), d, RunStarts(ps))
  IN  say(say(say(say(c, "rmap-missing", verdict.missing), "rmap-owner", verdict.owner),
              "rmap-stale", verdict.stale), "rmap-duplicate", twice)

\* reverse_mappings: not after a partial scan.
ReverseMappings(c, v) ==
  IF c.report.partial THEN c
  ELSE FoldLeft(LAMBDA d, g : ReverseMappingGroup(d, v, g), c, InOrder(IF Rmapbt THEN Groups ELSE {}))

\* File mappings of a block, one for each extent.
Mappings(c, g, b) ==
  Cardinality({k \in DOMAIN c.claimed[g] : IsData(c.claimed[g][k].owner) /\ b \in BlocksIn(c.claimed[g][k].at)})

\* reference_counts: the records, run by run.
ReferenceCounts(c, v) ==
  LET verdict(g, r, b) == IF Mappings(c, g, b) <= 1 THEN "refcount-stale"
                          ELSE IF Mappings(c, g, b) # r.count THEN "refcount-count" ELSE "right"
      starts(g, r) == {b \in BlocksIn(r) : b = r.start \/ Mappings(c, g, b) # Mappings(c, g, b - 1)}
      rec(g, d, r) == FoldSet(LAMBDA b, x : FindIf(verdict(g, r, b) # "right", x, verdict(g, r, b), g, b),
                              d, starts(g, r))
      grp(d, g) == FoldLeft(LAMBDA x, r : rec(g, x, r), d, SelectSeq(c.refcounts[g], LAMBDA r : ~r.cow))
  IN  IF c.report.partial THEN c ELSE FoldLeft(grp, c, InOrder(Groups))

-----------------------------------------------------------------------------
(* check *)

Fresh ==
  [report |-> [findings |-> <<>>, suppressed |-> 0, partial |-> FALSE],
   owner |-> [g \in Groups |-> [b \in 0 .. Length[g] - 1 |-> Unclaimed]],
   claimed |-> [g \in Groups |-> <<>>], shared |-> [g \in Groups |-> {}],
   rmaps |-> [g \in Groups |-> <<>>], refcounts |-> [g \in Groups |-> <<>>],
   allocated |-> {}, free |-> {}, usable |-> {}, rtUsed |-> <<>>,
   unread |-> {}, unlisted |-> {}, icount |-> 0, ifree |-> 0, fdblocks |-> 0,
   freeShort |-> FALSE, inodesShort |-> FALSE]

\* check: the passes, in order.
OverGroups(v) ==
  FoldLeft(LAMBDA c, g : Then(c, LAMBDA x : Group(x, v, g)), Secondaries(Fresh, v), InOrder(Groups))
OverInodes(v) == Then(OverGroups(v), LAMBDA x : Inodes(x, v))
OverCounts(v) == Then(Then(OverInodes(v), UnclaimedPass), LAMBDA x : Counters(x, v))
OverRmaps(v)  == Then(Then(OverCounts(v), LAMBDA x : Realtime(x, v)), LAMBDA x : ReverseMappings(x, v))
Report(v)     == Then(OverRmaps(v), LAMBDA x : ReferenceCounts(x, v)).report

-----------------------------------------------------------------------------
(* The medium: what may happen to a sector.  A checksum that no longer     *)
(* fits, a header of another place, a header that is not one; or a sound   *)
(* sector whose content is wrong.                                          *)

Unreads(x) == {[x EXCEPT !.state = b] : b \in {"bad", "checksum"}}

\* File data has no checksum of its own: the read fails, or the data is not
\* all there, unwritten or out of place.
Misplaced == {"short", "unwritten", "outside"}
FileDataDamage(x, ways) == {[x EXCEPT !.state = b] : b \in {"bad"} \cup ways}

HeaderDamage(x) ==
  {[x EXCEPT ![f] = @ + 1] : f \in DOMAIN x \ {"state"}}

TreeDamage(x, alter(_)) ==
  {[x EXCEPT !.recs = r] : r \in {alter(q) : q \in {x.recs}} \cup {SelectSeq(x.recs, LAMBDA e : e # x.recs[k]) : k \in DOMAIN x.recs}}

\* A record grown by one, or written twice.
Grown(q)   == IF q = <<>> THEN q ELSE [q EXCEPT ![1].len = @ + 1]
Doubled(q) == IF q = <<>> THEN q ELSE Append(q, q[1])
Flipped(q) == IF q = <<>> THEN q ELSE
  [q EXCEPT ![1].free = IF @ = {} THEN q[1].exists ELSE {}, ![1].freecount = IF q[1].free = {} THEN Cardinality(q[1].exists) ELSE 0]
OffByOne(q) == IF q = <<>> THEN q ELSE [q EXCEPT ![1].freecount = @ + 1]
Undecoded(q) == IF q = <<>> THEN q ELSE [q EXCEPT ![1].ok = FALSE]

SlotDamage(x) ==
  {[x EXCEPT !.nlink = @ + 1], [x EXCEPT !.forkstate = "bad"], [x EXCEPT !.nblocks = @ + 1]}
    \cup (IF x.mode = "file" THEN {[x EXCEPT !.mode = "dir"], [x EXCEPT !.extents = <<>>]} ELSE {})
    \cup (IF x.attrs # {} THEN {[x EXCEPT !.attrstate = "bad"], [x EXCEPT !.attrs = {b + 1 : b \in @}]} ELSE {})
    \cup (IF x.extents # <<>> THEN {[x EXCEPT !.extents[1].len = @ + 1]} ELSE {})
    \cup (IF x.local THEN {[x EXCEPT !.up = Nothing]}
             \cup {[x EXCEPT !.ents = (@ \ {e}) \cup {[e EXCEPT !.ftype = t]}] : e \in x.ents, t \in {"undefined", "file", "dir"}}
             \cup {[x EXCEPT !.ents = @ \ {e}] : e \in x.ents}
           ELSE {})

DirDamage(x) ==
  {[x EXCEPT !.up = i] : i \in {x.up + 1} \cap Inos} \cup
  {[x EXCEPT !.ents = @ \ {e}] : e \in x.ents}
    \cup {[x EXCEPT !.ents = (@ \ {e}) \cup {[e EXCEPT !.ftype = t]}] : e \in x.ents, t \in {"undefined", "dir"}}
    \cup {[x EXCEPT !.ents = (@ \ {e}) \cup {[e EXCEPT !.ino = i]}] : e \in x.ents, i \in Inos}

Damage(v, s) ==
  LET x == v[s]
      k == s[1]
  IN  (CASE k = "copy" -> {"field", "unreadable", "other"}
         [] k = "sb" -> {[x EXCEPT ![f] = @ + 1] : f \in {"icount", "ifree", "fdblocks"}}
         [] k \in {"agf", "agi"} -> HeaderDamage(x)
         [] k \in {"bno", "cnt", "rmap", "refc"} -> TreeDamage(x, Grown) \cup TreeDamage(x, Doubled)
         [] k = "inobt" -> UNION {TreeDamage(x, Flipped), TreeDamage(x, OffByOne), TreeDamage(x, Undecoded)}
         [] k = "finobt" -> UNION {TreeDamage(x, Flipped), TreeDamage(x, OffByOne)}
         [] k = "inode" -> IF x.mode = "free" THEN {[x EXCEPT !.mode = "file"]} ELSE SlotDamage(x)
         [] k = "dir" -> DirDamage(x)
         [] k = "index" -> {[x EXCEPT !.agrees = FALSE]}
         [] k = "rtbitmap" -> {[x EXCEPT !.free = (@ \ {b}) \cup ({b} \ @)] : b \in 0 .. v[Sb].rt.extents - 1}
                                \cup FileDataDamage(x, {"short"})
         [] k = "rtsummary" -> {[x EXCEPT !.counts[p] = @ + 1] : p \in DOMAIN x.counts} \cup FileDataDamage(x, {"short"})
         [] k = "quota" -> {[x EXCEPT !.recs[i].inodes = @ + 1] : i \in DOMAIN x.recs}
                             \cup {[x EXCEPT !.recs[i].ok = FALSE] : i \in DOMAIN x.recs}
                             \cup FileDataDamage(x, {"unwritten", "outside"})
         [] OTHER -> {})
      \cup (IF k \in {"copy", "sb", "index", "rtbitmap", "rtsummary", "quota"} THEN {} ELSE Unreads(x))

Init == vol \in Sound /\ faults = 0

\* The medium damages one sector.
Fault ==
  /\ faults < MaxFaults
  /\ \E s \in {s \in DOMAIN vol : s[1] \in Exposed} : \E x \in Damage(vol, s) : vol' = [vol EXCEPT ![s] = x]
  /\ faults' = faults + 1

Next == Fault
Spec == Init /\ [][Next]_<<vol, faults>>

-----------------------------------------------------------------------------
(* What a clean volume is, without walking it *)

LiveChunks(v, g) == Range(v[Inobt(g)].recs)
Allocated(v) == UNION {UNION {r.exists \ r.free : r \in LiveChunks(v, g)} : g \in Groups}
InChunks(v)  == UNION {UNION {r.exists : r \in LiveChunks(v, g)} : g \in Groups}
LiveInos(v)  == {i \in InChunks(v) : InUseSlot(v, i)}
DirsOf(v)    == {i \in LiveInos(v) : IsDirSlot(v, i)}
AllRead(v) ==
  /\ \A s \in DOMAIN v : s[1] \notin {"sb", "copy", "index", "inode", "dir"} => v[s].state = "ok"
  /\ \A i \in LiveInos(v) : v[Slot(i)].forkstate = "ok" /\ v[Slot(i)].attrstate = "ok"

Treed(v, t, g) == v[<<t, g>>].blocks

\* Every use of a block: who, and which of their claims.
UsesOf(v, g, b) ==
  UNION {
    {<<Owned("headers"), 0>> : x \in {0} \cap (IF b < HeaderLen THEN {0} ELSE {})},
    {<<Owned("log"), 0>> : x \in {0} \cap (IF Log.group = g /\ b \in Log.start .. Log.start + Log.len - 1 THEN {0} ELSE {})},
    {<<Owned("free list"), x>> : x \in v[Agfl(g)].list \cap {b}},
    {<<Owned(t), 0>> : t \in {t \in {"bno", "cnt", "inobt"} \cup (IF Rmapbt THEN {"rmap"} ELSE {})
                                  \cup (IF Reflink THEN {"refc"} ELSE {}) \cup (IF Finobt THEN {"finobt"} ELSE {}) :
                                b \in Treed(v, t, g)}},
    {<<Owned("inodes"), r.first>> : r \in {r \in LiveChunks(v, g) : \E i \in r.exists : BlockOf[i] = b}},
    {<<Owned("free"), k>> : k \in {k \in DOMAIN v[Bno(g)].recs : b \in BlocksIn(v[Bno(g)].recs[k])}},
    UNION {{<<<<"data", i>>, k>> : k \in {k \in DOMAIN v[Slot(i)].extents :
              ~v[Slot(i)].rt /\ v[Slot(i)].extents[k].group = g /\ b \in BlocksIn(v[Slot(i)].extents[k])}} : i \in LiveInos(v)},
    {<<<<"attr", i>>, 0>> : i \in {i \in LiveInos(v) : GroupOf[i] = g /\ b \in v[Slot(i)].attrs}},
    {<<<<"extents", i>>, 0>> : i \in {i \in LiveInos(v) : GroupOf[i] = g /\ b \in v[Slot(i)].tree}}}

SharedBy(v, g, b) == {r.count : r \in {r \in Range(v[Refc(g)].recs) : b \in BlocksIn(r) /\ ~r.cow}}

\* Every block of every group has one use, or is shared by as many files as
\* the refcount tree says; what is used lies in its group.
OneUseEach(v) ==
  \A g \in Groups :
    /\ \A b \in 0 .. Length[g] - 1 :
         LET u == UsesOf(v, g, b)
         IN  IF Cardinality(u) = 1 THEN Reflink => SharedBy(v, g, b) = {}
             ELSE Reflink /\ u # {} /\ (\A x \in u : IsData(x[1])) /\ SharedBy(v, g, b) = {Cardinality(u)}
    /\ \A i \in LiveInos(v) : \A e \in Range(v[Slot(i)].extents) :
         ~v[Slot(i)].rt => e.start + e.len <= Length[e.group]
    /\ \A i \in LiveInos(v) : \A b \in v[Slot(i)].attrs \cup v[Slot(i)].tree : b < Length[GroupOf[i]]
    /\ \A e \in Range(v[Bno(g)].recs) : e.len > 0 /\ e.start + e.len <= Length[g]
    /\ Reflink => \A r \in Range(v[Refc(g)].recs) : r.start + r.len <= Length[g]

\* The two free-space trees are one set of extents, each in its order.
FreeTreesAgree(v) ==
  \A g \in Groups :
    LET a == v[Bno(g)].recs
        c == v[Cnt(g)].recs
    IN  /\ \A k \in 1 .. Len(a) - 1 : a[k].start + a[k].len <= a[k + 1].start
        /\ ~OutOfOrder(c) /\ Len(a) = Len(c) /\ Range(a) = Range(c)

\* Headers and superblock count what the trees hold.
CountsWhole(v) ==
  LET total(F(_)) == FoldSet(LAMBDA g, n : n + F(g), 0, Groups)
  IN
  /\ \A g \in Groups :
       /\ v[Agf(g)].length = Length[g] /\ v[Agi(g)].length = Length[g]
       /\ v[Agf(g)].freeblks = Lengths(v[Bno(g)].recs) /\ v[Agf(g)].longest = Longest(v[Bno(g)].recs)
       /\ v[Agf(g)].btreeblks = PastRoots(v, g)
       /\ v[Agi(g)].count = Cardinality(UNION {r.exists : r \in LiveChunks(v, g)})
       /\ v[Agi(g)].freecount = Cardinality(UNION {r.free : r \in LiveChunks(v, g)})
       /\ v[Agi(g)].iblocks = Cardinality(v[Inobt(g)].blocks)
       /\ Finobt => v[Agi(g)].fblocks = Cardinality(v[Finobts(g)].blocks)
       /\ \A r \in LiveChunks(v, g) : r.count = Cardinality(r.exists) /\ r.freecount = Cardinality(r.free)
       /\ Finobt => v[Finobts(g)].recs = SelectSeq(v[Inobt(g)].recs, LAMBDA r : r.free # {})
  /\ v[Sb].dirty \/
       /\ v[Sb].icount = total(LAMBDA g : v[Agi(g)].count) /\ v[Sb].ifree = total(LAMBDA g : v[Agi(g)].freecount)
       /\ v[Sb].fdblocks = total(LAMBDA g : v[Agf(g)].freeblks + v[Agf(g)].flcount + v[Agf(g)].btreeblks)

Reach(v) ==
  LET step(S) == S \cup UNION {{e.ino : e \in EntsOf(v, d)} : d \in S \cap DirsOf(v)}
      go[n \in 0 .. Cardinality(Inos)] == IF n = 0 THEN {Root} ELSE step(go[n - 1])
  IN  go[Cardinality(Inos)]

\* Inodes in use are the allocated ones; every one is reached, a directory
\* by one name; each name has its inode's type; link counts count names.
NamesWhole(v) ==
  LET names == {<<d, e>> : d \in DirsOf(v), e \in UNION {EntsOf(v, d) : d \in DirsOf(v)}}
      real  == {p \in names : p[2] \in EntsOf(v, p[1])}
      of(i) == {p \in real : p[2].ino = i}
  IN
  /\ LiveInos(v) = Allocated(v) /\ Root \in DirsOf(v)
  /\ \A d \in DirsOf(v) \ Special(v) : IF Local(v, d) THEN v[Slot(d)].up \in Inos ELSE Dir(d) \in DOMAIN v /\ v[Dir(d)].state = "ok"
  /\ \A p \in real : p[2].ino \in LiveInos(v) /\ p[2].ftype = v[Slot(p[2].ino)].mode
  /\ LiveInos(v) \ Special(v) \subseteq Reach(v)
  /\ \A i \in LiveInos(v) \ Special(v) :
       IF i \in DirsOf(v)
       THEN /\ Cardinality(of(i)) = (IF i = Root THEN 0 ELSE 1)
            /\ v[Slot(i)].nlink = 2 + Cardinality({e \in EntsOf(v, i) : e.ftype = "dir"})
       ELSE v[Slot(i)].nlink = Cardinality(of(i))

\* The reverse map records every use but free space, once.
RmapWhole(v) ==
  Rmapbt => \A g \in Groups :
    LET recs == SelectSeq(v[RmapOf(g)].recs, LAMBDA r : r.owner # Owned("cow"))
        name(o) == IF o[1] \in {"free list", "bno", "cnt", "rmap"} THEN Owned("ag")
                   ELSE IF o[1] \in {"inobt", "finobt"} THEN Owned("inobt")
                   ELSE IF o[1] = "refc" THEN Owned("refcount tree") ELSE o
    IN  \A b \in 0 .. Length[g] - 1 :
          LET at == {k \in DOMAIN recs : b \in BlocksIn(recs[k])}
          IN  /\ {recs[k].owner : k \in at} = {name(u[1]) : u \in UsesOf(v, g, b)} \ {Owned("free")}
              /\ \A j, k \in at : recs[j].owner = recs[k].owner => j = k

\* A realtime extent is free or one file's; the summary counts the free runs.
RtWhole(v) ==
  LET r == v[Sb].rt
      users(x) == {i \in LiveInos(v) : v[Slot(i)].rt /\ \E e \in Range(v[Slot(i)].extents) :
                     \E b \in BlocksIn(e) : b \div r.extsize = x}
  IN  r.blocks > 0 =>
        /\ \A i \in {r.bmino, r.sumino} : v[Slot(i)].mode = "file"
        /\ \A x \in 0 .. r.extents - 1 : Cardinality(users(x)) = (IF x \in v[Bitmap].free THEN 0 ELSE 1)
        /\ \A i \in LiveInos(v) : v[Slot(i)].rt => \A e \in Range(v[Slot(i)].extents) : e.start + e.len <= r.blocks
        /\ v[Sb].dirty \/ r.frextents = Cardinality(v[Bitmap].free)
        /\ v[Summary].counts = RtSummaryWanted(v)

\* A quota file is a plain file of one name that no directory holds; its
\* records add up what each owner's inodes use.
QuotaWhole(v) ==
  LET files == {v[Sb].quota[k].ino : k \in Kinds}
      own(id) == {i \in LiveInos(v) : v[Slot(i)].owner = id /\ i \notin files}
      blocks(S) == FoldSet(LAMBDA i, n : n + v[Slot(i)].nblocks - RtBlocks(v, i), 0, S)
  IN  \A k \in Kinds : v[Sb].quota[k].ino # Nothing =>
        /\ v[Sb].quota[k].ino \in LiveInos(v)
        /\ v[Slot(v[Sb].quota[k].ino)].mode = "file" /\ ~v[Slot(v[Sb].quota[k].ino)].local
        /\ v[Slot(v[Sb].quota[k].ino)].nlink = 1
        /\ \A id \in Ids(v, k) : v[QuotaOf(k)].recs[id].ok
        /\ v[Sb].quota[k].active /\ v[Sb].quota[k].checked =>
             /\ {v[Slot(i)].owner : i \in LiveInos(v) \ files} \subseteq Ids(v, k)
             /\ \A i \in LiveInos(v) : RtBlocks(v, i) <= v[Slot(i)].nblocks
             /\ \A id \in Ids(v, k) :
                  /\ v[QuotaOf(k)].recs[id].inodes = Cardinality(own(id))
                  /\ v[QuotaOf(k)].recs[id].blocks = blocks(own(id))
                  /\ v[QuotaOf(k)].recs[id].rt = FoldSet(LAMBDA i, n : n + RtBlocks(v, i), 0, own(id))

Whole(v) ==
  /\ AllRead(v)
  /\ \A g \in Groups : \A r \in LiveChunks(v, g) : r.ok
  /\ \A g \in Groups \ {0} : v[Copy(g)] = "good"
  /\ OneUseEach(v) /\ FreeTreesAgree(v) /\ CountsWhole(v) /\ NamesWhole(v)
  /\ RmapWhole(v) /\ RtWhole(v) /\ QuotaWhole(v)

\* A volume is called clean (is_clean) exactly when, read directly, every
\* block has one owner or as many as its refcount, the trees agree with each
\* other, the headers and the superblock count them, names reach every inode
\* as often as its link count says, and rmap, realtime bitmap and quota
\* records describe what is there.
CleanMeansWhole == Clean(Report(vol)) <=> Whole(vol)

\* What is damaged in its content alone: every sector made readable.  Data
\* that reads and is not all there is content.
Healed(v) ==
  [s \in DOMAIN v |->
     IF s[1] \in {"sb", "copy", "index"} THEN v[s]
     ELSE IF s[1] = "inode" THEN [v[s] EXCEPT !.state = "ok", !.forkstate = "ok", !.attrstate = "ok"]
     ELSE IF s[1] = "inobt" THEN [v[s] EXCEPT !.state = "ok", !.recs = [k \in DOMAIN @ |-> [@[k] EXCEPT !.ok = TRUE]]]
     ELSE [v[s] EXCEPT !.state = IF @ \in Misplaced THEN @ ELSE "ok"]]

InodesRead(v) ==
  \A i \in Inos : v[Slot(i)].state = "ok" /\ v[Slot(i)].forkstate = "ok" /\ v[Slot(i)].attrstate = "ok"

\* What is compared whether or not everything was read: claims with the
\* refcount tree that says what is shared, the realtime bitmap with the files
\* that map its extents, and the owners of inodes with the quota records that
\* were met, when a block of records could not be read.
Unguarded(v, r, f) ==
  \/ /\ f.code = "cross-link" /\ f.ag \in Groups
     /\ v[Agf(f.ag)].state # "ok" \/ v[Agi(f.ag)].state # "ok" \/ v[Refc(f.ag)].state # "ok"
  \/ f.code = "rt-bitmap" /\ r.partial
  \/ f.code = "quota-usage" /\ \E k \in Kinds : v[QuotaOf(k)].state = "bad" /\ f.at = v[Sb].quota[k].ino

\* One finding again, of two claims by whichever came second.
SameFinding(f, h) ==
  f.code = h.code /\ f.ag = h.ag /\ (f.code \in {"cross-link", "rt-cross-link"} \/ f.at = h.at)

\* A walk that could not read a header, a tree, a record or a directory says
\* so and nothing more: but for those three comparisons, every other finding is
\* one it would have made had it read everything (the cases behind #394,
\* #489, #496, #497, #503, #507).
NothingManufactured ==
  InodesRead(vol) =>
    \A r \in {Report(vol)}, whole \in {Report(Healed(vol))} :
      \A f \in Range(r.findings) : \/ Stops(f.code) \/ Unguarded(vol, r, f)
                                   \/ \E h \in Range(whole.findings) : SameFinding(f, h)

\* "NOTHING IS UNREACHED BEHIND A DIRECTORY THAT COULD NOT BE READ": no
\* inode is called unreached that a readable volume would reach.
NothingUnreachedBehindUnread ==
  \A f \in Range(Report(vol).findings) :
    f.code = "dir-unreached" => f \in Range(Report(Healed(vol)).findings)

\* "comparing them would manufacture mismatches": no usage is called wrong, and
\* no record missing, that a readable volume would have right.
NoUsageJudgedUnread ==
  \A f \in Range(Report(vol).findings) :
    f.code = "quota-usage" => f \in Range(Report(Healed(vol)).findings)
=============================================================================
