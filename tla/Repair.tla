------------------------------- MODULE Repair -------------------------------
(***************************************************************************)
(* Repair (repair.rs, inode_repair.rs, directory_repair.rs) and the        *)
(* fsck.xfs -y run that applies it (cli/xfs/fsck.rs).                      *)
(*                                                                         *)
(* A plan is made from one check of the volume: each rule reads the volume *)
(* as it is and proposes sectors to replace, or refuses.  A run plans,     *)
(* reads every sector of the plan again, writes them in device order,      *)
(* flushes the device once, checks the volume again and exits with a code. *)
(* The medium may damage the volume between runs, a run may stop or be     *)
(* failed by the device at any step, and the power may go: what was        *)
(* written and not flushed is then on the medium or not, sector by sector. *)
(***************************************************************************)
EXTENDS Check

CONSTANTS
  Place,        \* by sector: where it is on the device
  MaxCrashes    \* bound: runs that end half way

ASSUME RepairAssumption == MaxCrashes \in Nat

VARIABLES
  pc,        \* "idle", "planned", "writing" or "flushed"
  plan,      \* the plan of the run
  todo,      \* sectors the run has still to write, in order
  exit,      \* the exit code of the last run, or Nothing
  crashes    \* runs that ended half way

rvars == <<vol, faults, pc, plan, todo, exit, crashes>>

-----------------------------------------------------------------------------
(* Proposals *)

InodeCodes   == {"inode-free-in-use", "inode-allocated-unused", "inode-nlink", "inobt-chunk-count", "finobt-mismatch"}
DirCodes     == {"dir-entry-ftype", "dir-unreadable", "dir-not-a-directory"}
CopyCodes    == {"sb-copy-field", "sb-copy-unreadable"}
CounterCodes == {"counter-agf-freeblks", "counter-agf-longest", "counter-agf-btreeblks", "counter-agi-inodes",
                 "counter-agi-iblocks", "counter-agi-fblocks", "counter-sb-icount", "counter-sb-ifree",
                 "counter-sb-fdblocks"}

\* completes: what stops the walk and DirectoryMetadata repairs.
Completed == {"dir-unreadable", "dir-not-a-directory"}

Has(r, codes) == Codes(r) \cap codes # {}

NoChange   == [s \in {} |-> 0]
Leaves     == [ok |-> TRUE, put |-> NoChange]
Refuses    == [ok |-> FALSE, put |-> NoChange]
Patched(v, put) == put @@ v

\* Proposal::put: a sector already as proposed is not a change.
Proposes(v, w) == [ok |-> TRUE, put |-> [s \in {s \in DOMAIN v : v[s] # w[s]} |-> w[s]]]

\* One sector is one rule's; another rule's proposal for it fails the plan.
Joined(a, b) ==
  IF ~b.ok \/ DOMAIN a.put \cap DOMAIN b.put # {} THEN Refuses
  ELSE [ok |-> TRUE, put |-> a.put @@ b.put]

-----------------------------------------------------------------------------
(* The rules *)

\* SuperblockCopies: the one damaged copy, unless it is another filesystem's.
SuperblockCopies(v, r) ==
  LET damaged == {f.ag : f \in {f \in Range(r.findings) : f.code \in CopyCodes \cup {"sb-copy-uuid"}}}
  IN  IF damaged = {} THEN Leaves
      ELSE IF Cardinality(damaged) > 1 \/ "sb-copy-uuid" \in Codes(r) THEN Refuses
      ELSE Proposes(v, [v EXCEPT ![Copy(CHOOSE g \in damaged : TRUE)] = "good"])

\* relaxed_record: the mask of a record is believed, its free count kept.
Declared(v, g) == FreeCounted(v[Inobt(g)].recs)
SlotsOf(v)     == UNION {UNION {r.exists : r \in Range(v[Inobt(g)].recs)} : g \in Groups}

Unused(v) == {i \in Inos : v[Slot(i)].mode = "free"}

\* plan_changes: every chunk and every slot reads, no chunk lies over another,
\* an unused slot owns nothing, and a metadata inode is in use and not free.
Census(v) ==
  /\ \A g \in Groups :
       /\ v[Agi(g)].state = "ok" /\ v[Inobt(g)].state = "ok"
       /\ \A r \in Range(v[Inobt(g)].recs) :
            r.ok /\ Cardinality(r.exists) = r.count /\ (r.free \cup Unused(v)) \cap r.exists \cap Special(v) = {}
       /\ \A j, k \in DOMAIN v[Inobt(g)].recs :
            j < k => Max(v[Inobt(g)].recs[j].exists) < Min(v[Inobt(g)].recs[k].exists)
  /\ \A i \in SlotsOf(v) :
       LET s == v[Slot(i)]
       IN  s.state = "ok" /\ (s.mode = "free" => s.nblocks = 0 /\ s.extents = <<>> /\ s.attrs = {} /\ s.nlink = 0)

\* check_parent, and what read_dir refuses.
ParentIs(v, d, up) ==
  /\ \A e \in EntsOf(v, d) : Typed(e)
  /\ IF Local(v, d) THEN v[Slot(d)].up = up
     ELSE /\ v[Slot(d)].forkstate = "ok" /\ Dir(d) \in DOMAIN v
          /\ v[Dir(d)].state = "ok" /\ v[Dir(d)].up = up

\* One directory of the traversal: its names differ and name inodes in use,
\* of the type they say, no metadata inode and no directory twice.
NameStep(w, v) ==
  LET d    == Last(w.stack)[1]
      es   == EntsOf(v, d)
      subs == {e \in es : v[Slot(e.ino)].mode = "dir"}
      next == {e.ino : e \in subs}
      good == /\ d \in SlotsOf(v) /\ IsDirSlot(v, d) /\ ParentIs(v, d, Last(w.stack)[2])
              /\ \A e, f \in es : e.name = f.name => e = f
              /\ \A e \in es : e.ino \in SlotsOf(v) \ Special(v) /\ v[Slot(e.ino)].mode = e.ftype
              /\ next \cap w.dirs = {} /\ Cardinality(next) = Cardinality(subs)
      push == InOrder(next)
  IN  IF ~good THEN [w EXCEPT !.ok = FALSE, !.stack = <<>>]
      ELSE [w EXCEPT !.stack = Front(@) \o [k \in DOMAIN push |-> <<push[k], d>>],
                     !.dirs = @ \cup next,
                     !.links = [i \in Inos |-> IF i = d THEN 2 + Cardinality(subs)
                                               ELSE @[i] + Cardinality({e \in es \ subs : e.ino = i})]]

RECURSIVE Namespace(_, _)
Namespace(w, v) == IF w.stack = <<>> THEN w ELSE Namespace(NameStep(w, v), v)

\* namespace: from the root.
Traversal(v) ==
  Namespace([ok |-> TRUE, stack |-> <<<<Root, Root>>>>, dirs |-> {Root}, links |-> [i \in Inos |-> 0]], v)

\* The volume with inodes in use allocated, the rest free, and every count
\* and link count that follows.
Reallocated(v, links) ==
  LET mask(r)  == {i \in r.exists : v[Slot(i)].mode = "free"}
      fixed(g) == [k \in DOMAIN v[Inobt(g)].recs |->
                     [v[Inobt(g)].recs[k] EXCEPT !.free = mask(v[Inobt(g)].recs[k]),
                                                 !.freecount = Cardinality(mask(v[Inobt(g)].recs[k]))]]
      free(g)  == FreeCounted(fixed(g))
      ifree    == FoldSet(LAMBDA g, n : n + free(g), 0, Groups)
  IN  [s \in DOMAIN v |->
         CASE s[1] = "inobt"  -> [v[s] EXCEPT !.recs = fixed(s[2])]
           [] s[1] = "finobt" -> [v[s] EXCEPT !.recs = SelectSeq(fixed(s[2]), LAMBDA r : r.freecount > 0)]
           [] s[1] = "agi"    -> [v[s] EXCEPT !.freecount = free(s[2])]
           [] s[1] = "sb"     -> [v[s] EXCEPT !.ifree = ifree]
           [] s[1] = "inode" /\ v[s].mode # "free" /\ links[s[2]] > 0 -> [v[s] EXCEPT !.nlink = links[s[2]]]
           [] OTHER -> v[s]] @@ v

\* Mutant: only the counters the wrong masks were made with.
MutCorroborated(v, w) ==
  /\ \A g \in Groups : v[Agi(g)].count = Counted(w[Inobt(g)].recs) /\ v[Agi(g)].freecount = Declared(v, g)
  /\ v[Sb].ifree = FoldSet(LAMBDA g, n : n + Declared(v, g), 0, Groups)

\* Counters that are neither what they should be nor what the wrong masks
\* make them are another's fault.
Corroborated(v, w) ==
  /\ \A g \in Groups : /\ v[Agi(g)].count = Counted(w[Inobt(g)].recs)
                       /\ v[Agi(g)].freecount \in {Declared(v, g), w[Agi(g)].freecount}
  /\ v[Sb].ifree \in {FoldSet(LAMBDA g, n : n + Declared(v, g), 0, Groups), w[Sb].ifree}

\* The traversal t reaches every inode in use but the metadata inodes, and
\* the volume w it makes checks with nothing to say.
InodesSound(v, t, w) ==
  /\ t.ok /\ \A i \in SlotsOf(v) \ Special(v) : v[Slot(i)].mode # "free" => t.links[i] > 0
  /\ \A g \in Groups : v[Finobts(g)].state = "ok" /\ \A c \in Range(v[Finobts(g)].recs) : c.ok
  /\ Corroborated(v, w) /\ Report(w).findings = <<>>

\* InodeAllocation: leaves a damaged directory to be repaired first.
InodeAllocation(v, r) ==
  IF ~Has(r, InodeCodes) \/ Has(r, DirCodes) THEN Leaves
  ELSE IF ~Census(v) THEN Refuses
  ELSE Then(Traversal(v), LAMBDA t : Then(Reallocated(v, t.links),
         LAMBDA w : IF InodesSound(v, t, w) THEN Proposes(v, w) ELSE Refuses))

\* allocated_inodes: each reads and is in use.
AllocatedRead(v) ==
  /\ \A g \in Groups :
       /\ v[Agi(g)].state = "ok" /\ v[Inobt(g)].state = "ok"
       /\ \A r \in Range(v[Inobt(g)].recs) : r.ok /\ ~Miscounted(r)
  /\ \A i \in Allocated(v) : InUseSlot(v, i)

Directories(v) == {i \in Allocated(v) : IsDirSlot(v, i)}

\* read_directory and scan_data: blocks that verify, and names of allocated inodes.
DirectoryReads(v, d) ==
  /\ Local(v, d) \/ (v[Slot(d)].forkstate = "ok" /\ Dir(d) \in DOMAIN v /\ v[Dir(d)].state = "ok")
  /\ \A e \in EntsOf(v, d) : e.ino \in Allocated(v)
  /\ \A e, f \in EntsOf(v, d) : e.name = f.name => e = f

ParentsOf(v, i) ==
  (IF i = Root THEN {<<Root, 0>>} ELSE {})
    \cup UNION {{<<d, e.name>> : e \in {e \in EntsOf(v, d) : e.ino = i}} : d \in Directories(v)}

\* scan_data: each entry's type, from its inode.
Retyped(v, es) == {[e EXCEPT !.ftype = v[Slot(e.ino)].mode] : e \in es}

\* fix_parent: the one directory that names it.
FixParent(v, x, d) == [x EXCEPT !.up = (CHOOSE p \in ParentsOf(v, d) : TRUE)[1]]

\* repair_index: from the entries, in the blocks it has.
RepairIndex(x) == [x EXCEPT !.agrees = TRUE]

\* Every directory's types, parent and index.
Rebuilt(v) ==
  LET fix(x, d) == FixParent(v, [x EXCEPT !.ents = Retyped(v, @)], d)
  IN  [s \in DOMAIN v |->
         CASE s[1] = "inode" /\ s[2] \in Directories(v) /\ Local(v, s[2]) -> fix(v[s], s[2])
           [] s[1] = "dir" /\ s[2] \in Directories(v) -> fix(v[s], s[2])
           [] s[1] = "index" /\ s[2] \in Directories(v) -> RepairIndex(v[s])
           [] OTHER -> v[s]] @@ v

\* DirectoryMetadata: leaves a volume whose inodes are not settled; what it
\* proposes must read to the end with no directory fault left.
DirectoryMetadata(v, r) ==
  IF Has(r, InodeCodes) THEN Leaves
  ELSE IF ~AllocatedRead(v) \/ (\E d \in Directories(v) : ~DirectoryReads(v, d)) THEN Refuses
  ELSE IF \E d \in Directories(v) : Cardinality(ParentsOf(v, d)) # 1 THEN Refuses
  ELSE Then(Rebuilt(v), LAMBDA w :
         IF v = w THEN Leaves
         ELSE IF \E c \in {Report(w)} : c.partial \/ Has(c, DirCodes) THEN Refuses ELSE Proposes(v, w))

\* count_group, as far as it reads.
GroupReads(v, g) ==
  /\ v[Agf(g)].state = "ok" /\ v[Agi(g)].state = "ok"
  /\ \A t \in {Bno(g), Cnt(g), Inobt(g)} \cup (IF Finobt THEN {Finobts(g)} ELSE {})
              \cup (IF Rmapbt THEN {RmapOf(g)} ELSE {}) : v[t].state = "ok"
  /\ \A r \in Range(v[Inobt(g)].recs) : r.ok /\ ~Miscounted(r)

\* Every header's counters, from its trees.
GroupCounted(v, g) ==
  [agf |-> [v[Agf(g)] EXCEPT !.freeblks = Lengths(v[Bno(g)].recs), !.longest = Longest(v[Bno(g)].recs),
                             !.btreeblks = PastRoots(v, g)],
   agi |-> [v[Agi(g)] EXCEPT !.count = Counted(v[Inobt(g)].recs), !.freecount = FreeCounted(v[Inobt(g)].recs),
                             !.iblocks = Cardinality(v[Inobt(g)].blocks),
                             !.fblocks = IF Finobt THEN Cardinality(v[Finobts(g)].blocks) ELSE @]]

\* Mutant: the free list is left out of the free blocks.
MutSbCounted(v) ==
  [v[Sb] EXCEPT !.fdblocks = FoldSet(LAMBDA g, n : n + GroupCounted(v, g).agf.freeblks, 0, Groups)]

\* The superblock's counters, added up from the groups.
SbCounted(v) ==
  LET total(F(_)) == FoldSet(LAMBDA g, n : n + F(g), 0, Groups)
  IN  [v[Sb] EXCEPT !.icount = total(LAMBDA g : GroupCounted(v, g).agi.count),
                    !.ifree  = total(LAMBDA g : GroupCounted(v, g).agi.freecount),
                    !.fdblocks = total(LAMBDA g : GroupCounted(v, g).agf.freeblks
                                         + v[Agf(g)].flcount + GroupCounted(v, g).agf.btreeblks)]

\* Mutant: the AGIs are counted for the superblock and not written.
MutRecounted(v) ==
  [s \in DOMAIN v |-> CASE s[1] = "agf" -> GroupCounted(v, s[2]).agf
                        [] s[1] = "sb"  -> SbCounted(v)
                        [] OTHER -> v[s]]

Recounted(v) ==
  [s \in DOMAIN v |-> CASE s[1] = "agf" -> GroupCounted(v, s[2]).agf
                        [] s[1] = "agi" -> GroupCounted(v, s[2]).agi
                        [] s[1] = "sb"  -> SbCounted(v)
                        [] OTHER -> v[s]]

\* Counters: left until the inodes are settled, and not made from trees that
\* were not found sound.
CountersRule(v, r) ==
  LET errors == {c \in Codes(r) : IsError(c)}
  IN  IF ~Has(r, CounterCodes) \/ Has(r, InodeCodes) THEN Leaves
      ELSE IF ~(errors \subseteq CounterCodes \cup CopyCodes) \/ \E g \in Groups : ~GroupReads(v, g) THEN Refuses
      ELSE Proposes(v, Recounted(v))

-----------------------------------------------------------------------------
(* The plan *)

\* preconditions
Precluded(v, r) ==
  \/ v[Sb].rt.blocks # 0 \/ \E k \in Kinds : v[Sb].quota[k].active
  \/ v[Sb].dirty
  \/ r.partial /\ \E c \in Codes(r) : Stops(c) /\ c \notin Completed
  \/ r.suppressed > 0
  \/ Has(r, {"cross-link", "dir-reached-twice"})

Owned4 == CopyCodes \cup InodeCodes \cup DirCodes \cup CounterCodes

\* The rules in order; one that refuses ends it.
AndThen(p, q) == IF p.ok THEN Joined(p, q) ELSE p
Proposed(v, r) ==
  AndThen(AndThen(AndThen(SuperblockCopies(v, r), InodeAllocation(v, r)), DirectoryMetadata(v, r)),
          CountersRule(v, r))

\* plan_with, on one check of the volume.
PlanFor(v, r) ==
  Then(IF Precluded(v, r) THEN Refuses ELSE Proposed(v, r), LAMBDA p :
    [ready |-> p.ok, put |-> p.put, before |-> [s \in DOMAIN p.put |-> v[s]],
     unplanned |-> {c \in Codes(r) : IsError(c)} \ Owned4, clean |-> Clean(r)])

PlanOf(v) == Then(Report(v), LAMBDA r : PlanFor(v, r))
NoPlan    == [ready |-> FALSE, put |-> NoChange, before |-> NoChange, unplanned |-> {}, clean |-> FALSE]

-----------------------------------------------------------------------------
(* A run *)

CLEAN == 0
CORRECTED == 1
UNCORRECTED == 4
OPERATIONAL == 8

RepairInit ==
  /\ Init /\ pc = "idle" /\ plan = NoPlan /\ todo = <<>> /\ exit = Nothing /\ crashes = 0

\* The medium, between runs and under a plan not yet applied.
Damaged == Fault /\ pc \in {"idle", "planned"} /\ UNCHANGED <<pc, plan, todo, exit, crashes>>

\* An inode in use, freed in its group's trees and in every count.
Misfreed ==
  /\ pc = "idle" /\ faults < MaxFaults /\ faults' = faults + 1
  /\ \E g \in Groups : \E k \in DOMAIN vol[Inobt(g)].recs :
       \E i \in vol[Inobt(g)].recs[k].exists \ vol[Inobt(g)].recs[k].free :
         LET rs == [vol[Inobt(g)].recs EXCEPT ![k].free = @ \cup {i}, ![k].freecount = @ + 1]
         IN  vol' = [vol EXCEPT ![Inobt(g)].recs = rs, ![Sb].ifree = @ + 1, ![Agi(g)].freecount = @ + 1,
                                ![Finobts(g)].recs = SelectSeq(rs, LAMBDA r : r.free # {})]
  /\ UNCHANGED <<pc, plan, todo, exit, crashes>>

\* claim, mount and plan: the exclusive claim is held to the end of the run.
MakePlan ==
  /\ pc = "idle"
  /\ plan' = PlanOf(vol)
  /\ pc' = "planned" /\ exit' = Nothing
  /\ UNCHANGED <<vol, faults, todo, crashes>>

Finish(code) == exit' = code /\ pc' = "idle" /\ plan' = NoPlan /\ todo' = <<>>

\* Nothing to write: the plan's own check is the report.
NothingToWrite ==
  /\ pc = "planned" /\ (~plan.ready \/ plan.put = NoChange)
  /\ Finish(IF plan.clean /\ plan.ready THEN CLEAN ELSE UNCORRECTED)
  /\ UNCHANGED <<vol, faults, crashes>>

\* Mutant: what was read again is held against what is to be written.
MutVerified(v) == \A s \in DOMAIN plan.put : v[s] = plan.put[s]

\* Every sector of the plan still holds what the plan was made from.
Verified(v) == \A s \in DOMAIN plan.before : v[s] = plan.before[s]

\* Changes in device order.
InPlace(S) ==
  LET at == InOrder({Place[s] : s \in S})
  IN  [k \in DOMAIN at |-> CHOOSE s \in S : Place[s] = at[k]]

\* apply: all of it is read again before any of it is written.
StartWriting ==
  /\ pc = "planned" /\ plan.ready /\ plan.put # NoChange /\ Verified(vol)
  /\ pc' = "writing" /\ todo' = InPlace(DOMAIN plan.put)
  /\ UNCHANGED <<vol, faults, plan, exit, crashes>>

StalePlan ==
  /\ pc = "planned" /\ plan.ready /\ plan.put # NoChange /\ ~Verified(vol)
  /\ Finish(OPERATIONAL)
  /\ UNCHANGED <<vol, faults, crashes>>

WriteSector ==
  /\ pc = "writing" /\ todo # <<>>
  /\ vol' = [vol EXCEPT ![Head(todo)] = plan.put[Head(todo)]]
  /\ todo' = Tail(todo)
  /\ UNCHANGED <<faults, pc, plan, exit, crashes>>

\* One flush, when every change is written.
Flush ==
  /\ pc = "writing" /\ todo = <<>>
  /\ pc' = "flushed"
  /\ UNCHANGED <<vol, faults, plan, todo, exit, crashes>>

\* recheck, from a fresh mount.
CheckAgain ==
  /\ pc = "flushed"
  /\ Finish(CORRECTED + (IF Clean(Report(vol)) THEN CLEAN ELSE UNCORRECTED))
  /\ UNCHANGED <<vol, faults, crashes>>

Run == MakePlan \/ NothingToWrite \/ StartWriting \/ StalePlan \/ WriteSector \/ Flush \/ CheckAgain

\* What the run has written, and the volume without some of it.
Written    == DOMAIN plan.put \ Range(todo)
Without(S) == Patched(vol, [s \in S |-> plan.before[s]])

Ended == crashes < MaxCrashes /\ crashes' = crashes + 1 /\ UNCHANGED faults

\* The process stops: what it wrote is still what the device reads.
Stop == pc # "idle" /\ Ended /\ pc' = "idle" /\ plan' = NoPlan /\ todo' = <<>> /\ UNCHANGED <<vol, exit>>

\* The power is lost before the flush has returned.
PowerLoss ==
  /\ pc = "writing" /\ Ended /\ pc' = "idle" /\ plan' = NoPlan /\ todo' = <<>>
  /\ \E S \in SUBSET Written : vol' = Without(S)
  /\ UNCHANGED exit

\* A write fails, and the run says so with what it wrote in place.
WriteFails == pc = "writing" /\ todo # <<>> /\ Ended /\ Finish(OPERATIONAL) /\ UNCHANGED vol

\* The flush fails: any of what was written may not be kept.
FlushFails ==
  /\ pc = "writing" /\ todo = <<>> /\ Ended /\ Finish(OPERATIONAL)
  /\ \E S \in SUBSET Written : vol' = Without(S)

RepairNext == Damaged \/ Misfreed \/ Run \/ Stop \/ PowerLoss \/ WriteFails \/ FlushFails

\* Run is always enabled, and after finitely many writes it changes pc.
Proceeds == pc' \in {"idle", "planned", "writing", "flushed"} \ {pc}

\* fsck is run again, at the next start if it was stopped, and a run goes on:
\* weak fairness of Run, said of the step it leads to (TLC would make the plan
\* to find out that Run is enabled).
RepairSpec == RepairInit /\ [][RepairNext]_rvars /\ WF_pc(Proceeds)

-----------------------------------------------------------------------------
(* Properties *)

\* The volume a plan is being applied to is still, in the sectors the plan
\* does not write as well, the one it was made from.
PlanHolds == PlanOf(Patched(vol, plan.before)).put = plan.put

\* The volume v, once plan p is written to it, has all that the plan under
\* way was to write.
Completes(p, v) == \A s \in DOMAIN plan.put : Patched(v, p.put)[s] = plan.put[s]

\* A repair whose process stops, or whose device fails it, between two writes
\* leaves a volume the next run plans for, and that plan ends what the first
\* began: apply writes in device order, counters ahead of the trees they count.
InterruptedIsResumed ==
  pc = "writing" /\ PlanHolds => \A again \in {PlanOf(vol)} : Completes(again, vol)

\* A repair cut off by the power, or by a flush that fails, leaves any of what
\* it wrote on the medium.  The next run ends what it began or refuses: no
\* half of a repair is taken for what the volume should be.
LossIsResumedOrRefused ==
  pc = "writing" /\ todo = <<>> /\ PlanHolds =>
    \A S \in SUBSET Written : \A again \in {PlanOf(Without(S))} :
      again.ready => Completes(again, Without(S))

\* A repair cut off by the power is ended by the next run, as one that was
\* stopped is.
LossIsResumed ==
  pc = "writing" /\ todo = <<>> /\ PlanHolds =>
    \A S \in SUBSET Written : \A again \in {PlanOf(Without(S))} : Completes(again, Without(S))

\* A plan made from a check that read everything leaves no finding that was
\* not there: no rule breaks what another part of the check looks at.
NoNewFindings ==
  pc = "writing" /\ todo = <<>> /\ PlanHolds =>
    \A was \in {Report(Patched(vol, plan.before))}, now \in {Report(vol)} :
      ~was.partial => {c \in Codes(now) : IsError(c)} \subseteq Codes(was)

\* Runs that are no longer damaged or stopped come to an end of repairing:
\* every plan from then on is refused, or has nothing to change.
Settles == <>[](pc = "planned" => plan.put = NoChange)

\* "A plan lists every error no rule repairs under `unplanned`, so a partial
\* repair never reads as a complete one": a ready plan of a damaged volume
\* changes something or lists what it leaves.
ReadyPlanAccounts ==
  pc = "planned" /\ plan.ready /\ ~plan.clean => plan.put # NoChange \/ plan.unplanned # {}
=============================================================================
