---------------------------- MODULE JournalProofs ----------------------------
(***************************************************************************)
(* Theorems about Journal, for every ring size, every set of blocks, every *)
(* set of checkpoint shapes and any number of operations.                  *)
(***************************************************************************)
EXTENDS Journal, OrderFacts, SequenceTheorems

USE JournalAssumption

-----------------------------------------------------------------------------
(* Shapes and heads *)

LEMMA ShapeFacts ==
  ASSUME NEW s \in Shapes \cup {UnmountShape}
  PROVE  /\ s \in Seq(Nat) /\ Len(s) \in Nat /\ Len(s) >= 1 /\ DOMAIN s = 1 .. Len(s)
         /\ \A i \in 1 .. Len(s) : s[i] \in Nat /\ s[i] > 0 /\ s[i] <= s[Len(s)]
         /\ \A i \in 2 .. Len(s) : s[i - 1] < s[i]
<1>1. RecordEnds(s)  OBVIOUS
<1>2. s \in Seq(Nat) /\ s # <<>>  BY <1>1 DEF RecordEnds
<1>3. Len(s) \in Nat /\ DOMAIN s = 1 .. Len(s) /\ Len(s) >= 1
  BY <1>2, LenProperties, EmptySeq
<1>4. \A i \in 1 .. Len(s) : s[i] \in Nat  BY <1>2, <1>3, ElementOfSeq
<1>5. \A i \in 1 .. Len(s) : s[i] > 0
  <2>1. s[1] > 0 /\ \A i \in 1 .. Len(s) : 1 < i => s[1] < s[i]
    BY <1>1, <1>3 DEF RecordEnds
  <2>2. QED  BY <1>3, <1>4, <2>1
<1>6. \A i \in 1 .. Len(s) : s[i] <= s[Len(s)]
  <2>1. \A i \in 1 .. Len(s) : i < Len(s) => s[i] < s[Len(s)]
    BY <1>1, <1>3 DEF RecordEnds
  <2>2. QED  BY <1>3, <1>4, <2>1
<1>7. \A i \in 2 .. Len(s) : s[i - 1] < s[i]
  BY <1>1, <1>3 DEF RecordEnds
<1>8. QED  BY <1>2, <1>3, <1>4, <1>5, <1>6, <1>7

\* Where a record may go, and where the records in the ring are.
HeadInRing(h) == h \in HeadPos /\ h.cycle <= MaxCycle /\ h.block + h.free = LogBlocks

RingOK ==
  \A r \in ring : r \in Record /\ r.cycle <= MaxCycle /\ r.block + r.len <= LogBlocks

\* A ring with records has a newest one.
LEMMA NewestInRing ==
  ASSUME RingOK, ring # {}
  PROVE  Newest \in ring /\ \A s \in ring : AtOrBefore(s, Newest)
<1>1. \E r \in ring : \A s \in ring : AtOrBefore(s, r)
  <2> DEFINE C == {c \in Nat : \E r \in ring : r.cycle = c}
  <2>0. \A r \in ring : r.cycle \in Nat /\ r.block \in Nat /\ r.len \in Nat
    BY DEF RingOK, Record
  <2>1. PICK c \in C : \A d \in C : d <= c
    <3>1. C # {} /\ \A d \in C : d <= MaxCycle
      BY <2>0 DEF RingOK
    <3>2. MaxCycle \in Nat /\ C \in SUBSET Nat  OBVIOUS
    <3> HIDE DEF C
    <3>3. QED  BY <3>1, <3>2, GreatestExists
  <2> DEFINE B == {b \in Nat : \E r \in ring : r.cycle = c /\ r.block = b}
  <2>2. PICK b \in B : \A d \in B : d <= b
    <3>1. B # {} /\ \A d \in B : d <= LogBlocks
      BY <2>0 DEF RingOK
    <3>2. LogBlocks \in Nat /\ B \in SUBSET Nat  OBVIOUS
    <3> HIDE DEF B
    <3>3. QED  BY <3>1, <3>2, GreatestExists
  <2>3. PICK r \in ring : r.cycle = c /\ r.block = b  OBVIOUS
  <2>4. ASSUME NEW s \in ring PROVE AtOrBefore(s, r)
    <3>1. s.cycle \in C /\ (s.cycle = c => s.block \in B)  BY <2>0
    <3>2. s.cycle <= c /\ (s.cycle = c => s.block <= b)  BY <2>1, <2>2, <3>1
    <3>3. QED  BY <2>0, <2>3, <3>2 DEF AtOrBefore
  <2>5. QED  BY <2>3, <2>4
<1>2. QED  BY <1>1 DEF Newest

\* A walk that meets records meets one of them last.
LEMMA MetLastIsMet ==
  ASSUME RingOK, NEW from \in Nat, NEW records \in SUBSET ring, records # {}
  PROVE  /\ MetLast(from, records) \in records
         /\ \A s \in records :
              WalkPos(from, s.block) <= WalkPos(from, MetLast(from, records).block)
<1>0. \A r \in ring : r.block \in Nat /\ r.block <= LogBlocks
  BY DEF RingOK, Record
<1>1. \A r \in records : /\ WalkPos(from, r.block) + from \in Nat
                         /\ WalkPos(from, r.block) + from <= LogBlocks + LogBlocks
  BY <1>0 DEF WalkPos
<1>2. \E r \in records : \A s \in records :
        WalkPos(from, s.block) <= WalkPos(from, r.block)
  <2> DEFINE T == {k \in Nat : \E r \in records : k = WalkPos(from, r.block) + from}
  <2>1. T \in SUBSET Nat /\ T # {} /\ \A k \in T : k <= LogBlocks + LogBlocks
    <3>1. PICK r \in records : TRUE  OBVIOUS
    <3>2. WalkPos(from, r.block) + from \in T  BY <1>1
    <3>3. QED  BY <1>1, <3>2
  <2>2. PICK k \in T : \A j \in T : j <= k
    <3>1. LogBlocks + LogBlocks \in Nat  OBVIOUS
    <3> HIDE DEF T
    <3>2. QED  BY <2>1, <3>1, GreatestExists
  <2>3. PICK r \in records : k = WalkPos(from, r.block) + from  OBVIOUS
  <2>4. ASSUME NEW s \in records
        PROVE  WalkPos(from, s.block) <= WalkPos(from, r.block)
    <3>1. WalkPos(from, s.block) + from \in T  BY <1>1
    <3>2. WalkPos(from, s.block) + from <= WalkPos(from, r.block) + from
      BY <2>2, <2>3, <3>1
    <3>3. WalkPos(from, s.block) \in Int /\ WalkPos(from, r.block) \in Int
      BY <1>0 DEF WalkPos
    <3>4. QED  BY <3>2, <3>3
  <2>5. QED  BY <2>4
<1>3. QED  BY <1>2 DEF MetLast

LEMMA ReplayedType ==
  ASSUME RingOK, ring # {}
  PROVE  Replayed(Newest) \in [Blocks -> Nat]
<1>1. Newest \in ring  BY NewestInRing
<1>2. Newest.tail.block \in Nat  BY <1>1 DEF RingOK, Record, Lsn
<1>3. Applied(Newest) \in SUBSET ring  BY DEF Applied, Walked
<1> DEFINE writers(b) == {r \in Applied(Newest) : b \in r.writes}
<1>4. ASSUME NEW b \in Blocks, writers(b) # {}
      PROVE  MetLast(Newest.tail.block, writers(b)).ck \in Nat
  <2>1. MetLast(Newest.tail.block, writers(b)) \in ring
    BY <1>2, <1>3, <1>4, MetLastIsMet
  <2>2. QED  BY <2>1 DEF RingOK, Record
<1>5. Replayed(Newest) =
        [b \in Blocks |-> IF writers(b) = {} THEN 0
                          ELSE MetLast(Newest.tail.block, writers(b)).ck]
  BY DEF Replayed
<1> HIDE DEF writers
<1>6. QED  BY <1>4, <1>5

\* log::head answers a place in the ring whenever it does not refuse.
LEMMA ScanHeadInRing ==
  ASSUME RingOK, ~ScanFails
  PROVE  HeadInRing(ScanHead)
<1>1. CASE ring = {}
  BY <1>1 DEF ScanHead, HeadInRing, HeadPos
<1>2. CASE ring # {}
  <2>1. Newest \in ring  BY <1>2, NewestInRing
  <2>2. /\ Newest.cycle \in Nat /\ Newest.block \in Nat /\ Newest.len \in Nat
        /\ Newest.cycle <= MaxCycle /\ Newest.block + Newest.len <= LogBlocks
    BY <2>1 DEF RingOK, Record
  <2>3. ~(Newest.block + Newest.len = LogBlocks /\ Newest.cycle = MaxCycle)
    BY <1>2 DEF ScanFails
  <2>4. ScanHead = IF Newest.block + Newest.len = LogBlocks
                   THEN [cycle |-> Newest.cycle + 1, block |-> 0, free |-> LogBlocks]
                   ELSE [cycle |-> Newest.cycle, block |-> Newest.block + Newest.len,
                         free |-> LogBlocks - (Newest.block + Newest.len)]
    BY <1>2 DEF ScanHead
  <2> HIDE DEF Newest
  <2>5. QED  BY <2>2, <2>3, <2>4 DEF HeadInRing, HeadPos
<1>3. QED  BY <1>1, <1>2

-----------------------------------------------------------------------------
(* The inductive invariant, by what it is about *)

Results == {"ok", "io", "refused", "panic", "dirty", "corrupt"}

DeviceOK == home \in [Blocks -> Nat] /\ sbCount \in Nat /\ RingOK

HeadOK == nextHead = None \/ HeadInRing(nextHead)

MountOK ==
  /\ mnt \in {"off", "ro", "rw"} /\ overlay \in [Blocks -> Nat]
  /\ oldest \in Lsn \cup {None} /\ HeadOK
  /\ logged \in BOOLEAN /\ failed \in BOOLEAN

\* An operation on its way to the ring has a place in it, and once it is
\* appending all of its records fit there.
StageOK ==
  /\ pc \in {"wrap", "pad", "append"} =>
       /\ HeadInRing(cur.head)
       /\ \/ cur.kind = "checkpoint" /\ cur.ends \in Shapes
          \/ cur.kind = "unmount" /\ cur.ends = UnmountShape
  /\ pc \in {"wrap", "pad"} => cur.done = 0
  /\ pc = "append" => Needed(cur) <= cur.head.free /\ cur.done < Len(cur.ends)

OpOK ==
  /\ pc \in {"idle", "wrap", "pad", "append", "bound", "counters"}
  /\ cur \in Operation /\ res \in Results
  /\ StageOK

HistOK == count \in Nat /\ view \in [Blocks -> Nat] /\ exposed \in BOOLEAN

Inv == DeviceOK /\ MountOK /\ OpOK /\ HistOK

LEMMA InvGivesTypes == Inv => TypeOK
<1> SUFFICES ASSUME Inv PROVE TypeOK  OBVIOUS
<1>1. ring \subseteq Record  BY DEF Inv, DeviceOK, RingOK
<1>2. nextHead \in HeadPos \cup {None}  BY DEF Inv, MountOK, HeadOK, HeadInRing
<1>3. QED  BY <1>1, <1>2 DEF Inv, DeviceOK, MountOK, OpOK, HistOK, Results, TypeOK

LEMMA NoOpType == NoOp \in Operation
BY DEF NoOp, Operation, HeadPos, Lsn

LEMMA OverType ==
  ASSUME NEW base \in [Blocks -> Nat], NEW images \in [Blocks -> Nat]
  PROVE  Over(base, images) \in [Blocks -> Nat]
BY DEF Over

LEMMA InvInit == Init => Inv
<1> SUFFICES ASSUME Init PROVE Inv  OBVIOUS
<1>1. DeviceOK  BY DEF Init, DeviceOK, RingOK, CleanLog
<1>2. MountOK
  <2>1. overlay \in [Blocks -> Nat]  BY DEF Init, NoImages
  <2>2. QED  BY <2>1 DEF Init, MountOK, HeadOK
<1>3. OpOK  BY NoOpType DEF Init, OpOK, StageOK, Results
<1>4. HistOK  BY DEF Init, HistOK
<1>5. QED  BY <1>1, <1>2, <1>3, <1>4 DEF Inv

-----------------------------------------------------------------------------
(* The parts of an action *)

LEMMA ForgetKeeps ==
  ASSUME Forget, res' \in Results
  PROVE  MountOK' /\ OpOK'
<1>1. overlay' \in [Blocks -> Nat]  BY DEF Forget, NoImages
<1>2. MountOK'  BY <1>1 DEF Forget, MountOK, HeadOK
<1>3. OpOK'  BY NoOpType DEF Forget, OpOK, StageOK
<1>4. QED  BY <1>2, <1>3

LEMMA ReturnsKeeps ==
  ASSUME MountOK, NEW why \in Results, NEW stop \in BOOLEAN, Returns(why, stop)
  PROVE  MountOK' /\ OpOK'
<1>1. res' \in Results  BY DEF Returns
<1>2. CASE cur.kind = "unmount"
  <2>1. Forget  BY <1>2 DEF Returns
  <2>2. QED  BY <1>1, <2>1, ForgetKeeps
<1>3. CASE cur.kind # "unmount"
  <2>1. failed' \in BOOLEAN  BY <1>3, Zenon DEF Returns
  <2>2. pc' = "idle" /\ cur' = NoOp /\ UNCHANGED <<mnt, overlay, oldest, nextHead, logged>>
    BY <1>3, Zenon DEF Returns
  <2>3. MountOK'  BY <2>1, <2>2 DEF MountOK, HeadOK
  <2>4. OpOK'  BY <1>1, <2>2, NoOpType DEF OpOK, StageOK
  <2>5. QED  BY <2>3, <2>4
<1>4. QED  BY <1>2, <1>3

LEMMA PushFailsKeeps ==
  ASSUME Inv, PushFails
  PROVE  Inv'
<1>1. MountOK' /\ OpOK'
  <2>1. Returns("io", TRUE) /\ "io" \in Results /\ TRUE \in BOOLEAN
    BY DEF PushFails, Results
  <2>2. QED  BY <2>1, ReturnsKeeps DEF Inv
<1>2. DeviceOK'
  BY DEF PushFails, Inv, DeviceOK, MountOK, RingOK
<1>3. HistOK'  BY DEF PushFails, hist, Inv, HistOK
<1>4. QED  BY <1>1, <1>2, <1>3 DEF Inv

\* A record with a place in the ring leaves the ring well formed, whole or
\* cut short.
LEMMA LandedKeeps ==
  ASSUME RingOK, NEW r \in Record, r.cycle <= MaxCycle, r.block + r.len <= LogBlocks
  PROVE  /\ ring' = Landed(r) => RingOK'
         /\ ring' \in Torn(r) => RingOK'
<1> DEFINE Fits(s) == s \in Record /\ s.cycle <= MaxCycle /\ s.block + s.len <= LogBlocks
<1>1. Fits(r) /\ \A s \in ring : Fits(s)  BY DEF RingOK
<1>2. ASSUME NEW s, Fits(s) PROVE Fits([s EXCEPT !.whole = FALSE])
  BY <1>2 DEF Record
<1> DEFINE under   == {s \in ring : Overlaps(s, r)}
           spoiled == {[s EXCEPT !.whole = FALSE] : s \in under}
<1>3. \A s \in spoiled : Fits(s)
  <2>1. ASSUME NEW s \in under PROVE Fits([s EXCEPT !.whole = FALSE])
    <3>1. Fits(s)  BY <1>1
    <3> HIDE DEF Fits
    <3>2. QED  BY <1>2, <3>1
  <2> HIDE DEF Fits
  <2>2. QED  BY <2>1
<1>4. \A s \in Landed(r) : Fits(s)
  <2> HIDE DEF Fits
  <2>1. QED  BY <1>1 DEF Landed
<1>5. ASSUME NEW t \in Torn(r) PROVE \A s \in t : Fits(s)
  <2>1. \/ t = Landed(r) \/ t = ring
        \/ t = (ring \ under) \cup {[r EXCEPT !.whole = FALSE]}
        \/ t = (ring \ under) \cup {} \/ t = (ring \ under) \cup spoiled
    BY <1>5 DEF Torn
  <2>2. Fits([r EXCEPT !.whole = FALSE])
    <3> HIDE DEF Fits
    <3>1. QED  BY <1>1, <1>2
  <2> HIDE DEF Fits, spoiled
  <2>3. QED  BY <1>1, <1>3, <1>4, <2>1, <2>2
<1>6. ASSUME \A s \in ring' : Fits(s) PROVE RingOK'
  BY <1>6 DEF RingOK
<1> HIDE DEF Fits
<1>7. QED  BY <1>4, <1>5, <1>6

\* commit_record's first lines put the operation somewhere in the ring, and
\* on to appending only if all of it fits there.
LEMMA PlaceKeeps ==
  ASSUME Inv, ~ScanRefused, NEW kind, NEW writes \in SUBSET Blocks, NEW ends,
         \/ kind = "checkpoint" /\ ends \in Shapes
         \/ kind = "unmount" /\ ends = UnmountShape,
         Place(kind, writes, ends), res' \in Results
  PROVE  OpOK'
<1> DEFINE head == CurrentHead
           need == ends[Len(ends)]
<1>1. HeadInRing(head)
  <2>1. CASE nextHead # None
    BY <2>1 DEF CurrentHead, Inv, MountOK, HeadOK
  <2>2. CASE nextHead = None
    BY <2>2, ScanHeadInRing DEF CurrentHead, ScanRefused, Inv, DeviceOK
  <2>3. QED  BY <2>1, <2>2
<1>2. LsnOf(head) \in Lsn  BY <1>1 DEF HeadInRing, HeadPos, LsnOf, Lsn
<1>3. (IF oldest # None THEN oldest ELSE LsnOf(head)) \in Lsn
  BY <1>2 DEF Inv, MountOK
<1>4. ends \in Shapes \cup {UnmountShape}  OBVIOUS
<1>5. /\ Len(ends) \in Nat /\ Len(ends) >= 1 /\ need \in Nat
  BY <1>4, ShapeFacts
<1>6. /\ pc' = IF WrapsFirst(need, head.free) THEN "wrap" ELSE "append"
      /\ cur' = [kind |-> kind, writes |-> writes, ends |-> ends, done |-> 0,
                 head |-> head,
                 tail |-> IF oldest # None THEN oldest ELSE LsnOf(head)]
  BY DEF Place
<1> HIDE DEF head
<1>7. /\ cur'.kind = kind /\ cur'.ends = ends /\ cur'.done = 0 /\ cur'.head = head
  BY <1>6
<1>8. cur' \in Operation
  BY <1>1, <1>3, <1>4, <1>6 DEF Operation, HeadInRing
<1>9. StageOK'
  <2>1. Needed(cur') = need  BY <1>7 DEF Needed
  <2>2. pc' = "append" => need <= head.free
    BY <1>1, <1>5, <1>6 DEF WrapsFirst, HeadInRing, HeadPos
  <2>3. QED  BY <1>1, <1>5, <1>6, <1>7, <2>1, <2>2 DEF StageOK
<1>10. QED  BY <1>6, <1>8, <1>9 DEF OpOK

\* Beginning the ring again gives the whole of it, in the next cycle.
LEMMA BeginAgainKeeps ==
  ASSUME Inv, pc = "pad", BeginAgain
  PROVE  MountOK' /\ OpOK'
<1> DEFINE old   == cur.head
           total == old.block + old.free
<1>0. HeadInRing(old)  BY DEF Inv, OpOK, StageOK
<1>1. CASE old.cycle = MaxCycle \/ Needed(cur) > total
  <2>1. Returns("refused", failed)  BY <1>1 DEF BeginAgain
  <2>2. MountOK /\ failed \in BOOLEAN /\ "refused" \in Results
    BY DEF Inv, MountOK, Results
  <2>3. QED  BY <2>1, <2>2, ReturnsKeeps
<1>2. CASE ~(old.cycle = MaxCycle \/ Needed(cur) > total)
  <2> DEFINE new == [cycle |-> old.cycle + 1, block |-> 0, free |-> total]
             lsn == [cycle |-> old.cycle + 1, block |-> 0]
  <2>1. /\ cur' = [cur EXCEPT !.head = new, !.tail = lsn]
        /\ pc' = "append" /\ UNCHANGED <<mount, res>>
    BY <1>2, Zenon DEF BeginAgain
  <2>2. total = LogBlocks /\ HeadInRing(new) /\ lsn \in Lsn
    BY <1>0, <1>2 DEF HeadInRing, HeadPos, Lsn
  <2>3. cur \in Operation  BY DEF Inv, OpOK
  <2>4. \/ cur.kind = "checkpoint" /\ cur.ends \in Shapes
        \/ cur.kind = "unmount" /\ cur.ends = UnmountShape
    BY DEF Inv, OpOK, StageOK
  <2>5. MountOK'  BY <2>1 DEF mount, Inv, MountOK, HeadOK
  <2>6. Len(cur.ends) \in Nat /\ Len(cur.ends) >= 1 /\ Needed(cur) \in Nat
    BY <2>4, ShapeFacts DEF Needed
  <2>7. cur' \in Operation
    BY <2>1, <2>2, <2>3 DEF Operation, HeadInRing
  <2>8. /\ cur'.head = new /\ cur'.kind = cur.kind /\ cur'.ends = cur.ends
        /\ cur'.done = cur.done
    BY <2>1, <2>3 DEF Operation
  <2>9. Needed(cur') = Needed(cur) /\ Needed(cur) <= new.free
    BY <1>0, <1>2, <2>2, <2>6, <2>8 DEF Needed, HeadInRing, HeadPos
  <2>10. cur.done = 0  BY DEF Inv, OpOK, StageOK
  <2>11. OpOK'
    <3>1. StageOK'
      BY <2>1, <2>2, <2>4, <2>6, <2>8, <2>9, <2>10 DEF StageOK
    <3>2. QED  BY <2>1, <2>7, <3>1 DEF OpOK, Inv
  <2>12. QED  BY <2>5, <2>11
<1>3. QED  BY <1>1, <1>2

\* The records the two writers make have their place in the ring.
LEMMA PadRecordFits ==
  ASSUME Inv, pc = "pad"
  PROVE  /\ PadRecord \in Record /\ PadRecord.cycle <= MaxCycle
         /\ PadRecord.block + PadRecord.len <= LogBlocks
<1>1. HeadInRing(cur.head)  BY DEF Inv, OpOK, StageOK
<1>2. LsnOf(cur.head) \in Lsn  BY <1>1 DEF HeadInRing, HeadPos, LsnOf, Lsn
<1>3. QED  BY <1>1, <1>2 DEF PadRecord, Record, Kinds, HeadInRing, HeadPos

LEMMA RecordType ==
  ASSUME NEW c \in Nat, NEW b \in Nat, NEW l \in Nat, NEW t \in Lsn, NEW k \in Kinds,
         NEW n \in Nat, NEW f \in BOOLEAN, NEW e \in BOOLEAN, NEW w \in SUBSET Blocks
  PROVE  [cycle |-> c, block |-> b, len |-> l, tail |-> t, kind |-> k, ck |-> n,
          first |-> f, last |-> e, writes |-> w, whole |-> TRUE] \in Record
BY DEF Record

LEMMA NextRecordFits ==
  ASSUME Inv, pc = "append"
  PROVE  /\ NextRecord \in Record /\ NextRecord.cycle <= MaxCycle
         /\ NextRecord.block + NextRecord.len <= LogBlocks
         /\ NextRecord.last <=> cur.done + 1 = Len(cur.ends)
<1> DEFINE i == cur.done + 1
           s == cur.ends
<1>1. /\ HeadInRing(cur.head) /\ s \in Shapes \cup {UnmountShape}
      /\ cur.kind \in {"checkpoint", "unmount"}
      /\ Needed(cur) <= cur.head.free /\ cur.done < Len(s)
  BY DEF Inv, OpOK, StageOK
<1>2. cur.done \in Nat /\ cur.writes \in SUBSET Blocks /\ cur.tail \in Lsn
  BY DEF Inv, OpOK, Operation
<1>3. Len(s) \in Nat  BY <1>1, ShapeFacts
<1>4. i \in 1 .. Len(s)  BY <1>1, <1>2, <1>3
<1>5. s[i] \in Nat /\ s[i] <= s[Len(s)] /\ s[Len(s)] \in Nat
  BY <1>1, <1>3, <1>4, ShapeFacts
<1>6. StartOf(cur, i) \in Nat /\ StartOf(cur, i) < s[i]
  <2>1. CASE i = 1  BY <1>1, <1>4, <2>1, ShapeFacts DEF StartOf
  <2>2. CASE i # 1
    <3>1. i \in 2 .. Len(s) /\ i - 1 \in 1 .. Len(s)  BY <1>2, <1>3, <1>4, <2>2
    <3>2. s[i - 1] < s[i] /\ s[i - 1] \in Nat  BY <1>1, <3>1, ShapeFacts
    <3>3. StartOf(cur, i) = s[i - 1]  BY <2>2 DEF StartOf
    <3>4. QED  BY <3>2, <3>3
  <2>3. QED  BY <2>1, <2>2
<1>7. NextRecord =
        [cycle |-> cur.head.cycle, block |-> cur.head.block + StartOf(cur, i),
         len |-> s[i] - StartOf(cur, i), tail |-> cur.tail, kind |-> cur.kind,
         ck |-> (IF cur.kind = "checkpoint" THEN count + 1 ELSE 0),
         first |-> (i = 1), last |-> (i = Len(s)),
         writes |-> cur.writes, whole |-> TRUE]
  BY DEF NextRecord
<1>8. count \in Nat  BY DEF Inv, HistOK
<1>9. NextRecord \in Record
  <2> DEFINE at == cur.head.block + StartOf(cur, i)
             l  == s[i] - StartOf(cur, i)
             n  == IF cur.kind = "checkpoint" THEN count + 1 ELSE 0
             f  == (i = 1)
             e  == (i = Len(s))
  <2>1. l \in Nat  BY <1>5, <1>6
  <2>2. at \in Nat /\ cur.head.cycle \in Nat  BY <1>1, <1>6 DEF HeadInRing, HeadPos
  <2>3. n \in Nat  BY <1>8
  <2>4. f \in BOOLEAN /\ e \in BOOLEAN  OBVIOUS
  <2>5. cur.kind \in Kinds  BY <1>1 DEF Kinds
  <2>6. NextRecord =
          [cycle |-> cur.head.cycle, block |-> at, len |-> l, tail |-> cur.tail,
           kind |-> cur.kind, ck |-> n, first |-> f, last |-> e,
           writes |-> cur.writes, whole |-> TRUE]
    BY <1>7
  <2> HIDE DEF at, l, n, f, e
  <2>7. QED  BY <1>2, <2>1, <2>2, <2>3, <2>4, <2>5, <2>6, RecordType
<1>10. NextRecord.block + NextRecord.len <= LogBlocks
  <2>1. NextRecord.block + NextRecord.len
          = (cur.head.block + StartOf(cur, i)) + (s[i] - StartOf(cur, i))
    BY <1>7
  <2>2. s[Len(s)] <= cur.head.free  BY <1>1 DEF Needed
  <2>3. /\ cur.head.block \in Nat /\ cur.head.free \in Nat
        /\ cur.head.block + cur.head.free = LogBlocks
    BY <1>1 DEF HeadInRing, HeadPos
  <2> DEFINE at == StartOf(cur, i)
             hb == cur.head.block
             hf == cur.head.free
             last == s[Len(s)]
             si == s[i]
  <2>4. /\ si \in Nat /\ last \in Nat /\ at \in Nat /\ hb \in Nat /\ hf \in Nat
        /\ si <= last /\ last <= hf /\ hb + hf = LogBlocks
        /\ NextRecord.block + NextRecord.len = (hb + at) + (si - at)
    BY <1>5, <1>6, <2>1, <2>2, <2>3
  <2> HIDE DEF at, hb, hf, last, si
  <2>5. (hb + at) + (si - at) <= LogBlocks  BY <2>4
  <2>6. QED  BY <2>4, <2>5
<1>11. NextRecord.cycle <= MaxCycle  BY <1>1, <1>7 DEF HeadInRing
<1>12. NextRecord.last <=> cur.done + 1 = Len(cur.ends)  BY <1>7, Zenon
<1>13. QED  BY <1>9, <1>10, <1>11, <1>12

\* A checkpoint that has landed leaves a head in the ring, and its images.
LEMMA CommittedKeeps ==
  ASSUME Inv, pc = "append", cur.done + 1 = Len(cur.ends), Committed, res' \in Results
  PROVE  MountOK' /\ OpOK'
<1>1. /\ HeadInRing(cur.head) /\ cur.kind \in {"checkpoint", "unmount"}
      /\ cur.ends \in Shapes \cup {UnmountShape} /\ Needed(cur) <= cur.head.free
  BY DEF Inv, OpOK, StageOK
<1>2. Needed(cur) \in Nat  BY <1>1, ShapeFacts DEF Needed
<1>3. CASE cur.kind = "unmount"
  <2>1. Forget  BY <1>3 DEF Committed
  <2>2. QED  BY <2>1, ForgetKeeps
<1>4. CASE cur.kind # "unmount"
  <2>1. /\ oldest' = IF oldest # None THEN oldest ELSE LsnOf(cur.head)
        /\ logged' = TRUE
        /\ nextHead' = [cycle |-> cur.head.cycle, block |-> cur.head.block + Needed(cur),
                        free |-> cur.head.free - Needed(cur)]
        /\ UNCHANGED <<mnt, failed>>
        /\ \/ pc' = "bound" /\ UNCHANGED <<cur, overlay>>
           \/ pc' = "idle" /\ cur' = NoOp /\ overlay' = Over(overlay, Images(count + 1))
    BY <1>4, Zenon DEF Committed
  <2>2. oldest' \in Lsn \cup {None}
    <3>1. LsnOf(cur.head) \in Lsn  BY <1>1 DEF HeadInRing, HeadPos, LsnOf, Lsn
    <3>2. QED  BY <2>1, <3>1 DEF Inv, MountOK
  <2>3. HeadInRing(nextHead')
    BY <1>1, <1>2, <2>1 DEF HeadInRing, HeadPos
  <2>4. overlay \in [Blocks -> Nat] /\ Images(count + 1) \in [Blocks -> Nat]
    BY DEF Inv, MountOK, HistOK, Images
  <2>5. overlay' \in [Blocks -> Nat]  BY <2>1, <2>4, OverType, SMTT(30)
  <2>6. MountOK'
    <3>1. HeadOK'  BY <2>3 DEF HeadOK
    <3>2. logged' \in BOOLEAN /\ failed' \in BOOLEAN  BY <2>1, Zenon DEF Inv, MountOK
    <3>3. QED  BY <2>1, <2>2, <2>5, <3>1, <3>2 DEF Inv, MountOK
  <2>7. cur' \in Operation /\ pc' \in {"idle", "bound"}
    BY <2>1, NoOpType DEF Inv, OpOK
  <2>8. OpOK'  BY <2>7 DEF OpOK, StageOK
  <2>9. QED  BY <2>6, <2>8
<1>5. QED  BY <1>3, <1>4

LEMMA HappenedKeeps ==
  ASSUME Inv, Happened
  PROVE  count' \in Nat /\ view' \in [Blocks -> Nat]
<1>1. CASE cur.kind = "checkpoint"  BY <1>1 DEF Happened, Inv, HistOK
<1>2. CASE cur.kind # "checkpoint"  BY <1>2 DEF Happened, Inv, HistOK
<1>3. QED  BY <1>1, <1>2

-----------------------------------------------------------------------------
(* Every step keeps the invariant *)

LEMMA InvStep == Inv /\ [Next]_vars => Inv'
<1> SUFFICES ASSUME Inv, [Next]_vars PROVE Inv'
  OBVIOUS
<1>0. DeviceOK /\ MountOK /\ OpOK /\ HistOK  BY DEF Inv
<1>a. ASSUME UNCHANGED device PROVE DeviceOK'
  BY <1>0, <1>a DEF device, DeviceOK, RingOK
<1>b. ASSUME UNCHANGED hist PROVE HistOK'
  BY <1>0, <1>b DEF hist, HistOK
<1>c. ASSUME UNCHANGED mount PROVE MountOK'
  BY <1>0, <1>c DEF mount, MountOK, HeadOK
<1>d. NoImages \in [Blocks -> Nat] /\ Over(home, overlay) \in [Blocks -> Nat]
  BY <1>0, OverType DEF NoImages, DeviceOK, MountOK
<1>1. CASE MountRw
  <2>1. /\ mnt' \in {"off", "ro", "rw"} /\ res' \in Results
        /\ UNCHANGED <<device, overlay, oldest, nextHead, logged, failed, pc, cur, hist>>
    BY <1>0, <1>1 DEF MountRw, MountOK, Results
  <2>2. MountOK' /\ OpOK'
    BY <1>0, <2>1 DEF MountOK, HeadOK, OpOK, StageOK, Needed
  <2>3. QED  BY <1>a, <1>b, <2>1, <2>2 DEF Inv
<1>2. CASE MountRo
  <2>1. /\ mnt' \in {"off", "ro", "rw"} /\ res' \in Results
        /\ overlay' = overlay \/ (ring # {} /\ overlay' = Replayed(Newest))
        /\ UNCHANGED <<device, oldest, nextHead, logged, failed, pc, cur, hist>>
    BY <1>0, <1>2 DEF MountRo, MountOK, Results, LogStates
  <2>2. overlay' \in [Blocks -> Nat]
    BY <1>0, <2>1, ReplayedType DEF MountOK, DeviceOK
  <2>3. MountOK' /\ OpOK'
    BY <1>0, <2>1, <2>2 DEF MountOK, HeadOK, OpOK, StageOK, Needed
  <2>4. QED  BY <1>a, <1>b, <2>1, <2>3 DEF Inv
<1>3. CASE CloseRo \/ Crash
  <2>1. Forget /\ res' \in Results /\ UNCHANGED <<device, hist>>
    BY <1>3 DEF CloseRo, Crash, Results
  <2>2. QED  BY <1>a, <1>b, <2>1, ForgetKeeps DEF Inv
<1>4. CASE Sync
  <2>1. CASE PushFails  BY <2>1, PushFailsKeeps
  <2>2. CASE /\ Pushed /\ overlay' = NoImages /\ res' = "ok"
             /\ UNCHANGED <<ring, sbCount, mnt, nextHead, logged, failed, pc, cur, count, view>>
    <3>1. DeviceOK'  BY <1>0, <1>d, <2>2 DEF Pushed, DeviceOK, RingOK
    <3>2. MountOK'  BY <1>0, <1>d, <2>2 DEF Pushed, MountOK, HeadOK
    <3>3. OpOK'  BY <1>0, <2>2 DEF OpOK, StageOK, Needed, Results
    <3>4. HistOK'  BY <1>0, <2>2 DEF Pushed, HistOK
    <3>5. QED  BY <3>1, <3>2, <3>3, <3>4 DEF Inv
  <2>3. QED  BY <1>4, <2>1, <2>2 DEF Sync
<1>5. CASE Commit
  <2>1. CASE /\ ~ScanRefused
             /\ \E w \in SUBSET Blocks \ {{}}, ends \in Shapes : Place("checkpoint", w, ends)
             /\ UNCHANGED <<device, mount, res, hist>>
    <3>1. PICK w \in SUBSET Blocks, ends \in Shapes : Place("checkpoint", w, ends)
      BY <2>1
    <3>2. res' \in Results  BY <1>0, <2>1 DEF OpOK
    <3>3. OpOK'  BY <2>1, <3>1, <3>2, PlaceKeeps
    <3>4. QED  BY <1>a, <1>b, <1>c, <2>1, <3>3 DEF Inv
  <2>2. CASE res' = "refused" /\ UNCHANGED <<device, mount, pc, cur, hist>>
    <3>1. OpOK'  BY <1>0, <2>2 DEF OpOK, StageOK, Needed, Results
    <3>2. QED  BY <1>a, <1>b, <1>c, <2>2, <3>1 DEF Inv
  <2>3. QED  BY <1>5, <2>1, <2>2 DEF Commit
<1>6. CASE WrapPush
  <2>1. CASE PushFails  BY <2>1, PushFailsKeeps
  <2>2. CASE /\ Pushed /\ overlay' = NoImages /\ pc' = "pad"
             /\ UNCHANGED <<ring, sbCount, mnt, nextHead, logged, failed, cur, res, count, view>>
    <3>1. DeviceOK'  BY <1>0, <1>d, <2>2 DEF Pushed, DeviceOK, RingOK
    <3>2. MountOK'  BY <1>0, <1>d, <2>2 DEF Pushed, MountOK, HeadOK
    <3>3. OpOK'  BY <1>0, <1>6, <2>2 DEF WrapPush, OpOK, StageOK, Needed
    <3>4. HistOK'  BY <1>0, <2>2 DEF Pushed, HistOK
    <3>5. QED  BY <3>1, <3>2, <3>3, <3>4 DEF Inv
  <2>3. QED  BY <1>6, <2>1, <2>2 DEF WrapPush
<1>7. CASE WrapPad
  <2>0. pc = "pad" /\ UNCHANGED <<home, sbCount, hist>>  BY <1>7 DEF WrapPad
  <2>1. "refused" \in Results /\ "io" \in Results /\ "panic" \in Results
        /\ TRUE \in BOOLEAN /\ failed \in BOOLEAN
    BY <1>0 DEF Results, MountOK
  <2>2. RingOK'
    <3>1. UNCHANGED ring \/ ring' = Landed(PadRecord) \/ ring' \in Torn(PadRecord)
      BY <1>7 DEF WrapPad
    <3>2. CASE UNCHANGED ring  BY <1>0, <3>2 DEF DeviceOK, RingOK
    <3>3. CASE ring' = Landed(PadRecord) \/ ring' \in Torn(PadRecord)
      BY <1>0, <2>0, <3>3, PadRecordFits, LandedKeeps DEF DeviceOK
    <3>4. QED  BY <3>1, <3>2, <3>3
  <2>3. MountOK' /\ OpOK'
    <3>1. \/ BeginAgain \/ Returns("refused", TRUE) \/ Returns("panic", failed)
          \/ Returns("io", TRUE)
      BY <1>7 DEF WrapPad
    <3>2. QED  BY <1>0, <2>0, <2>1, <3>1, BeginAgainKeeps, ReturnsKeeps
  <2>4. DeviceOK'  BY <1>0, <2>0, <2>2 DEF DeviceOK
  <2>5. QED  BY <1>b, <2>0, <2>3, <2>4 DEF Inv
<1>8. CASE AppendRecord
  <2>0. pc = "append" /\ UNCHANGED <<home, sbCount, exposed>>
    BY <1>8 DEF AppendRecord
  <2>1. DeviceOK'
    <3>1. ring' = Landed(NextRecord) \/ ring' \in Torn(NextRecord)
      BY <1>8 DEF AppendRecord
    <3>2. RingOK'  BY <1>0, <2>0, <3>1, NextRecordFits, LandedKeeps DEF DeviceOK
    <3>3. QED  BY <1>0, <2>0, <3>2 DEF DeviceOK
  <2>2. HistOK'
    <3>1. Happened \/ UNCHANGED <<count, view>>
      BY <1>8, Zenon DEF AppendRecord
    <3>2. count' \in Nat /\ view' \in [Blocks -> Nat]
      BY <1>0, <3>1, HappenedKeeps DEF HistOK
    <3>3. QED  BY <1>0, <2>0, <3>2 DEF HistOK
  <2>3. MountOK' /\ OpOK'
    <3>1. CASE NextRecord.last /\ Committed /\ res' = "ok"
      BY <2>0, <3>1, NextRecordFits, CommittedKeeps DEF Results
    <3>2. CASE /\ ~NextRecord.last
               /\ cur' = [cur EXCEPT !.done = @ + 1] /\ UNCHANGED <<mount, pc, res, count, view>>
      <4>1. MountOK'  BY <1>c, <3>2
      <4>2. cur.done + 1 # Len(cur.ends)  BY <2>0, <3>2, NextRecordFits
      <4>3. cur \in Operation  BY <1>0 DEF OpOK
      <4>4. cur' \in Operation  BY <3>2, <4>3 DEF Operation
      <4>5. /\ cur'.head = cur.head /\ cur'.kind = cur.kind /\ cur'.ends = cur.ends
            /\ cur'.done = cur.done + 1 /\ cur.done \in Nat
        BY <3>2, <4>3 DEF Operation
      <4>6. cur.ends \in Shapes \cup {UnmountShape} /\ cur.done < Len(cur.ends)
        BY <1>0, <2>0 DEF OpOK, StageOK
      <4>7. cur'.done < Len(cur'.ends)  BY <4>2, <4>5, <4>6, ShapeFacts
      <4>8. Needed(cur') = Needed(cur)  BY <4>5 DEF Needed
      <4>9. StageOK'  BY <1>0, <2>0, <3>2, <4>5, <4>7, <4>8 DEF OpOK, StageOK
      <4>10. OpOK'  BY <1>0, <3>2, <4>4, <4>9 DEF OpOK
      <4>11. QED  BY <4>1, <4>10
    <3>3. CASE Returns("io", TRUE)
      <4>1. "io" \in Results /\ TRUE \in BOOLEAN  BY DEF Results
      <4>2. QED  BY <1>0, <3>3, <4>1, ReturnsKeeps
    <3>4. QED  BY <1>8, <3>1, <3>2, <3>3, Zenon DEF AppendRecord
  <2>4. QED  BY <2>1, <2>2, <2>3 DEF Inv
<1>9. CASE BoundPush
  <2>1. CASE PushFails  BY <2>1, PushFailsKeeps
  <2>2. CASE /\ home' = Over(home, overlay) /\ oldest' = None
             /\ exposed' = TRUE /\ overlay' = Images(count)
             /\ pc' = "idle" /\ cur' = NoOp
             /\ UNCHANGED <<ring, sbCount, mnt, nextHead, logged, failed, res, count, view>>
    <3>0. Images(count) \in [Blocks -> Nat]  BY <1>0 DEF Images, HistOK
    <3>1. DeviceOK'  BY <1>0, <1>d, <2>2 DEF DeviceOK, RingOK
    <3>2. MountOK'  BY <1>0, <2>2, <3>0 DEF MountOK, HeadOK
    <3>3. OpOK'  BY <1>0, <2>2, NoOpType DEF OpOK, StageOK
    <3>4. HistOK'  BY <1>0, <2>2 DEF HistOK
    <3>5. QED  BY <3>1, <3>2, <3>3, <3>4 DEF Inv
  <2>3. QED  BY <1>9, <2>1, <2>2 DEF BoundPush
<1>10. CASE UnmountPush
  <2>1. CASE /\ Pushed /\ overlay' = NoImages
             /\ pc' = "counters" /\ cur' = [NoOp EXCEPT !.kind = "unmount"]
             /\ UNCHANGED <<ring, sbCount, mnt, nextHead, logged, failed, res, count, view>>
    <3>1. DeviceOK'  BY <1>0, <1>d, <2>1 DEF Pushed, DeviceOK, RingOK
    <3>2. MountOK'  BY <1>0, <1>d, <2>1 DEF Pushed, MountOK, HeadOK
    <3>3. cur' \in Operation  BY <2>1, NoOpType DEF Operation
    <3>4. OpOK'  BY <1>0, <2>1, <3>3 DEF OpOK, StageOK
    <3>5. HistOK'  BY <1>0, <2>1 DEF Pushed, HistOK
    <3>6. QED  BY <3>1, <3>2, <3>4, <3>5 DEF Inv
  <2>2. CASE /\ \E some \in SUBSET Held :
                  home' = [b \in Blocks |-> IF b \in some THEN overlay[b] ELSE home[b]]
             /\ res' = "io" /\ Forget
             /\ UNCHANGED <<ring, sbCount, hist>>
    <3>1. DeviceOK'  BY <1>0, <2>2 DEF DeviceOK, MountOK, RingOK
    <3>2. MountOK' /\ OpOK'  BY <2>2, ForgetKeeps DEF Results
    <3>3. QED  BY <1>b, <2>2, <3>1, <3>2 DEF Inv
  <2>3. QED  BY <1>10, <2>1, <2>2 DEF UnmountPush
<1>11. CASE UnmountCounters
  <2>1. DeviceOK'
    BY <1>0, <1>d, <1>11 DEF UnmountCounters, DeviceOK, RingOK
  <2>2. HistOK'  BY <1>b, <1>11 DEF UnmountCounters
  <2>3. MountOK' /\ OpOK'
    <3>0. "refused" \in Results /\ "io" \in Results /\ TRUE \in BOOLEAN /\ FALSE \in BOOLEAN
      BY DEF Results
    <3>1. CASE Returns("refused", FALSE) \/ Returns("io", TRUE)
      BY <1>0, <3>0, <3>1, ReturnsKeeps
    <3>2. CASE ~ScanRefused /\ Place("unmount", {}, UnmountShape) /\ UNCHANGED <<mount, res>>
      <4>1. res' \in Results  BY <1>0, <3>2 DEF OpOK
      <4>2. OpOK'  BY <3>2, <4>1, PlaceKeeps
      <4>3. QED  BY <1>c, <3>2, <4>2
    <3>3. QED  BY <1>11, <3>1, <3>2, Zenon DEF UnmountCounters
  <2>4. QED  BY <2>1, <2>2, <2>3 DEF Inv
<1>12. ASSUME NEW b \in Blocks, WriteInPlace(b) PROVE Inv'
  <2>1. CASE /\ home' = [home EXCEPT ![b] = count + 1]
             /\ view' = [view EXCEPT ![b] = count + 1]
             /\ count' = count + 1 /\ res' \in {"ok", "io"}
             /\ UNCHANGED <<ring, sbCount, mount, pc, cur, exposed>>
    <3>1. DeviceOK'  BY <1>0, <2>1 DEF DeviceOK, HistOK, RingOK
    <3>2. HistOK'  BY <1>0, <2>1 DEF HistOK
    <3>3. OpOK'  BY <1>0, <2>1 DEF OpOK, StageOK, Needed, Results
    <3>4. QED  BY <1>c, <2>1, <3>1, <3>2, <3>3 DEF Inv
  <2>2. CASE /\ res' = IF logged THEN "refused" ELSE "io"
             /\ UNCHANGED <<device, mount, pc, cur, hist>>
    <3>1. OpOK'  BY <1>0, <2>2 DEF OpOK, StageOK, Needed, Results
    <3>2. QED  BY <1>a, <1>b, <1>c, <2>2, <3>1 DEF Inv
  <2>3. QED  BY <1>12, <2>1, <2>2 DEF WriteInPlace
<1>13. CASE UNCHANGED vars
  <2>1. UNCHANGED device /\ UNCHANGED mount /\ UNCHANGED hist /\ UNCHANGED <<pc, cur, res>>
    BY <1>13 DEF vars
  <2>2. OpOK'  BY <1>0, <2>1 DEF OpOK, StageOK, Needed
  <2>3. QED  BY <1>a, <1>b, <1>c, <2>1, <2>2 DEF Inv
<1>14. QED
  BY <1>1, <1>2, <1>3, <1>4, <1>5, <1>6, <1>7, <1>8, <1>9, <1>10, <1>11, <1>12, <1>13
  DEF Next, InPlace

\* Every variable keeps its type: in particular no head, record or free
\* count ever goes negative or past the end of the ring.
THEOREM TypeCorrect == Spec => []TypeOK
BY InvInit, InvStep, InvGivesTypes, PTL DEF Spec

-----------------------------------------------------------------------------
(* The gap at the end of the ring *)

\* commit_record does not look at the gap again once it has wrapped, so a
\* checkpoint that nearly fills the ring leaves one no pad can fill.  No
\* other shape does.
ShapesLeaveRoom ==
  \A s \in Shapes : s[Len(s)] + PadBlocks <= LogBlocks \/ s[Len(s)] >= LogBlocks

\* What appending will leave before the end of the ring.
GapInv ==
  pc = "append" /\ cur.kind = "checkpoint" =>
    Needed(cur) = cur.head.free \/ cur.head.free - Needed(cur) >= PadBlocks

LEMMA GapInit == Init => GapInv /\ GapCanBePadded
BY DEF Init, GapInv, GapCanBePadded

\* The place commit_record chooses leaves no gap, or one a pad can fill.
LEMMA PlaceLeavesRoom ==
  ASSUME Inv, Inv', NEW kind, NEW writes, NEW ends,
         \/ kind = "checkpoint" /\ ends \in Shapes
         \/ kind = "unmount" /\ ends = UnmountShape,
         Place(kind, writes, ends)
  PROVE  GapInv'
<1> DEFINE head == CurrentHead
           need == ends[Len(ends)]
<1>1. /\ pc' = IF WrapsFirst(need, head.free) THEN "wrap" ELSE "append"
      /\ cur'.ends = ends /\ cur'.head = head
  BY DEF Place
<1>2. SUFFICES ASSUME pc' = "append"
      PROVE  need = head.free \/ head.free - need >= PadBlocks
  BY <1>1 DEF GapInv, Needed
<1>3. need \in Nat  BY ShapeFacts
<1>4. head \in HeadPos
  BY <1>1, <1>2 DEF Inv, OpOK, StageOK, HeadInRing
<1>5. ~WrapsFirst(need, head.free) /\ head.free \in Nat  BY <1>1, <1>2, <1>4 DEF HeadPos
<1> HIDE DEF head, need
<1>6. QED  BY <1>3, <1>5 DEF WrapsFirst

LEMMA GapStep ==
  ASSUME ShapesLeaveRoom, Inv, Inv', GapInv, GapCanBePadded, [Next]_vars
  PROVE  GapInv' /\ GapCanBePadded'
<1>a. ASSUME Forget PROVE GapInv' /\ GapCanBePadded'
  BY <1>a DEF Forget, GapInv, GapCanBePadded
<1>b. ASSUME pc' # "append", nextHead' = nextHead PROVE GapInv' /\ GapCanBePadded'
  BY <1>b DEF GapInv, GapCanBePadded
<1>c. ASSUME pc' = pc, cur' = cur, nextHead' = nextHead PROVE GapInv' /\ GapCanBePadded'
  BY <1>c DEF GapInv, GapCanBePadded, Needed
<1>d. ASSUME NEW why, NEW stop, Returns(why, stop) PROVE GapInv' /\ GapCanBePadded'
  <2>1. CASE cur.kind = "unmount"
    <3>1. Forget  BY <1>d, <2>1 DEF Returns
    <3>2. QED  BY <1>a, <3>1
  <2>2. CASE cur.kind # "unmount"
    <3>1. pc' = "idle" /\ nextHead' = nextHead  BY <1>d, <2>2, Zenon DEF Returns
    <3>2. QED  BY <1>b, <3>1
  <2>3. QED  BY <2>1, <2>2
<1>e. ASSUME PushFails PROVE GapInv' /\ GapCanBePadded'
  BY <1>d, <1>e DEF PushFails
<1>1. CASE MountRw \/ MountRo
  BY <1>1, <1>c DEF MountRw, MountRo
<1>2. CASE CloseRo \/ Crash
  BY <1>2, <1>a DEF CloseRo, Crash
<1>3. CASE Sync
  BY <1>3, <1>c, <1>e DEF Sync
<1>4. CASE Commit
  <2>1. CASE /\ \E w \in SUBSET Blocks \ {{}}, ends \in Shapes : Place("checkpoint", w, ends)
             /\ UNCHANGED mount
    <3>1. PICK w \in SUBSET Blocks, ends \in Shapes : Place("checkpoint", w, ends)
      BY <2>1
    <3>2. GapInv'  BY <3>1, PlaceLeavesRoom
    <3>3. QED  BY <2>1, <3>2 DEF mount, GapCanBePadded
  <2>2. CASE UNCHANGED <<mount, pc, cur>>
    BY <1>c, <2>2 DEF mount
  <2>3. QED  BY <1>4, <2>1, <2>2 DEF Commit
<1>5. CASE WrapPush
  BY <1>5, <1>b, <1>e DEF WrapPush
<1>6. CASE WrapPad
  <2>1. ASSUME BeginAgain PROVE GapInv' /\ GapCanBePadded'
    <3>1. CASE Returns("refused", failed)  BY <1>d, <3>1
    <3>2. CASE ~Returns("refused", failed)
      <4> DEFINE total == cur.head.block + cur.head.free
                 new   == [cycle |-> cur.head.cycle + 1, block |-> 0, free |-> total]
      <4>1. /\ cur' = [cur EXCEPT !.head = new,
                                  !.tail = [cycle |-> cur.head.cycle + 1, block |-> 0]]
            /\ ~(Needed(cur) > total) /\ UNCHANGED mount
        BY <2>1, <3>2, Zenon DEF BeginAgain
      <4>2. cur \in Operation /\ pc = "pad"  BY <1>6 DEF Inv, OpOK, WrapPad
      <4>3. cur'.head = new /\ cur'.ends = cur.ends /\ cur'.kind = cur.kind
        BY <4>1, <4>2 DEF Operation
      <4>4. total = LogBlocks  BY <4>2 DEF Inv, OpOK, StageOK, HeadInRing
      <4>5. cur.kind = "checkpoint" => cur.ends \in Shapes
        BY <4>2 DEF Inv, OpOK, StageOK
      <4>6. cur.kind = "checkpoint" =>
              /\ Needed(cur) \in Nat /\ Needed(cur) <= LogBlocks
              /\ Needed(cur) + PadBlocks <= LogBlocks \/ Needed(cur) >= LogBlocks
        BY <4>1, <4>4, <4>5, ShapeFacts DEF ShapesLeaveRoom, Needed
      <4>7. Needed(cur') = Needed(cur) /\ cur'.head.free = LogBlocks
        BY <4>3, <4>4 DEF Needed
      <4>8. GapInv'  BY <4>3, <4>6, <4>7 DEF GapInv
      <4>9. QED  BY <4>1, <4>8 DEF mount, GapCanBePadded
    <3>3. QED  BY <3>1, <3>2
  <2>2. \/ BeginAgain \/ Returns("refused", TRUE) \/ Returns("panic", failed)
        \/ Returns("io", TRUE)
    BY <1>6 DEF WrapPad
  <2>3. QED  BY <1>d, <2>1, <2>2
<1>7. CASE AppendRecord
  <2>1. CASE NextRecord.last /\ Committed
    <3>1. CASE cur.kind = "unmount"
      <4>1. Forget  BY <2>1, <3>1 DEF Committed
      <4>2. QED  BY <1>a, <4>1
    <3>2. CASE cur.kind # "unmount"
      <4>1. /\ nextHead' = [cycle |-> cur.head.cycle, block |-> cur.head.block + Needed(cur),
                            free |-> cur.head.free - Needed(cur)]
            /\ pc' \in {"idle", "bound"}
        BY <2>1, <3>2 DEF Committed
      <4>2. pc = "append"  BY <1>7 DEF AppendRecord
      <4>3. cur.kind = "checkpoint" /\ cur.ends \in Shapes /\ cur.head.free \in Nat
        BY <3>2, <4>2 DEF Inv, OpOK, StageOK, HeadInRing, HeadPos
      <4>4. Needed(cur) \in Nat  BY <4>3, ShapeFacts DEF Needed
      <4>5. Needed(cur) = cur.head.free \/ cur.head.free - Needed(cur) >= PadBlocks
        BY <4>2, <4>3 DEF GapInv
      <4>6. nextHead'.free = 0 \/ nextHead'.free >= PadBlocks
        BY <4>1, <4>3, <4>4, <4>5
      <4>7. QED  BY <4>1, <4>6 DEF GapInv, GapCanBePadded
    <3>3. QED  BY <3>1, <3>2
  <2>2. CASE cur' = [cur EXCEPT !.done = @ + 1] /\ UNCHANGED <<mount, pc, res, count, view>>
    <3>1. cur \in Operation  BY DEF Inv, OpOK
    <3>2. cur'.head = cur.head /\ cur'.kind = cur.kind /\ cur'.ends = cur.ends
      BY <2>2, <3>1 DEF Operation
    <3>3. Needed(cur') = Needed(cur)  BY <3>2 DEF Needed
    <3>4. QED  BY <2>2, <3>2, <3>3 DEF mount, GapInv, GapCanBePadded
  <2>3. CASE Returns("io", TRUE)  BY <1>d, <2>3
  <2>4. QED  BY <1>7, <2>1, <2>2, <2>3, Zenon DEF AppendRecord
<1>8. CASE BoundPush
  BY <1>8, <1>b, <1>e DEF BoundPush
<1>9. CASE UnmountPush
  BY <1>9, <1>a, <1>b DEF UnmountPush
<1>10. CASE UnmountCounters
  <2>1. CASE Place("unmount", {}, UnmountShape) /\ UNCHANGED <<mount, res>>
    <3>1. GapInv'  BY <2>1, PlaceLeavesRoom
    <3>2. QED  BY <2>1, <3>1 DEF mount, GapCanBePadded
  <2>2. CASE Returns("refused", FALSE) \/ Returns("io", TRUE)  BY <1>d, <2>2
  <2>3. QED  BY <1>10, <2>1, <2>2, Zenon DEF UnmountCounters
<1>11. CASE InPlace
  BY <1>11, <1>c DEF InPlace, WriteInPlace, mount
<1>12. CASE UNCHANGED vars
  BY <1>12, <1>c DEF vars, mount
<1>13. QED
  BY <1>1, <1>2, <1>3, <1>4, <1>5, <1>6, <1>7, <1>8, <1>9, <1>10, <1>11, <1>12 DEF Next

\* log_write::wraps_first, for every ring and every sequence of checkpoints:
\* no commit leaves a gap before the end of the ring that append_pad would
\* refuse, as long as no checkpoint nearly fills the ring.
THEOREM GapsCanBePadded == ASSUME ShapesLeaveRoom PROVE Spec => []GapCanBePadded
<1>1. Init => Inv /\ GapInv /\ GapCanBePadded  BY InvInit, GapInit
<1>2. Inv /\ GapInv /\ GapCanBePadded /\ [Next]_vars
        => Inv' /\ GapInv' /\ GapCanBePadded'
  BY InvStep, GapStep
<1>3. QED  BY <1>1, <1>2, PTL DEF Spec

-----------------------------------------------------------------------------
(* What keeps the log sound.  The operators say of any set of records R, any *)
(* home blocks h, any view v, superblock counters sb, exposure e and count k *)
(* what the state of the journal is required to be, so that the same facts   *)
(* serve the state before a step and the one after it.                       *)

IsNewest(R, n) == n \in R /\ \A s \in R : AtOrBefore(s, n)

\* Records that fit the ring and lie over no other.
Placed(r) == /\ r \in Record /\ r.cycle <= MaxCycle
           /\ r.len > 0 /\ r.block + r.len <= LogBlocks

Tidy(R) == /\ \A r \in R : Placed(r)
           /\ \A r, s \in R : Overlaps(r, s) => r = s

\* Recovery's operators over any set of records.
Walk(R, n) == {r \in R : Between(n.tail.block, n.block, r.block)}

Follows(W, n) ==
  /\ n.whole
  /\ \E r \in W : r.block = n.tail.block
  /\ \A r \in W : r.whole /\ (r = n \/ \E s \in W : s.block = After(r))

Applies(W) ==
  {r \in W : /\ r.kind = "checkpoint" /\ r.last
             /\ \E s \in W : s.kind = "checkpoint" /\ s.ck = r.ck /\ s.first}

Writers(W, b) == {r \in Applies(W) : b \in r.writes}

Replays(W, from) ==
  [b \in Blocks |-> IF Writers(W, b) = {} THEN 0 ELSE MetLast(from, Writers(W, b)).ck]

\* Where the images i say something they say v, and elsewhere home does.
Carries(i, h, v, e) ==
  \A b \in Blocks : /\ i[b] # 0 => i[b] = v[b]
                    /\ i[b] = 0 => e \/ h[b] = v[b]

\* What a reader makes of a log with newest record n is v: a clean log has
\* everything home; a walk that succeeds replays to v; and a whole record no
\* walk reaches lies on a volume that needs no replay.
SoundAt(R, n, h, v, sb, e) ==
  IF n.kind = "unmount" THEN h = v /\ sb = v[AgBlock] /\ ~e
  ELSE /\ Follows(Walk(R, n), n) => Carries(Replays(Walk(R, n), n.tail.block), h, v, e)
       /\ n.whole /\ ~Follows(Walk(R, n), n) => h = v

Sound(R, h, v, sb, e) ==
  \/ R = {} /\ h = v /\ ~e
  \/ \E n \in R : IsNewest(R, n) /\ SoundAt(R, n, h, v, sb, e)

\* The newest record can be reached without passing the end of the ring, and
\* its walk meets no checkpoint from the future; while one is half written
\* (d) it may meet the first records of number k + 1.
Chain(R, n, k, d) ==
  n.kind # "unmount" =>
    /\ Follows(Walk(R, n), n) /\ n.tail.block <= n.block
    /\ \A s \in Walk(R, n) : s.kind = "checkpoint" =>
         s.ck <= k \/ (d /\ s.ck = k + 1 /\ ~s.last)

\* Record n ends where cycle c, block p begins.
Ends(n, c, p) ==
  \/ n.cycle = c /\ n.block + n.len = p
  \/ n.cycle < c /\ p = 0 /\ n.block + n.len = LogBlocks

\* The records but the one at cycle c, block p.
Kept(R, c, p) == {s \in R : ~(s.cycle = c /\ s.block = p)}

\* The pad of a wrap that was refused, which is all that may be there.
PadAt(s, p) == /\ s.kind = "pad" /\ s.whole /\ s.tail.block = p
               /\ s.block = p /\ s.block + s.len = LogBlocks

\* A record may be written at cycle c, block p: it continues the log, and at
\* the beginning of the ring, where it may spoil the record the tail names,
\* everything is home.
Ready(R, c, p, h, v, sb, e, k, d) ==
  /\ \/ Kept(R, c, p) = {} /\ p = 0
     \/ \E n \in Kept(R, c, p) :
          /\ IsNewest(Kept(R, c, p), n) /\ Ends(n, c, p)
          /\ SoundAt(Kept(R, c, p), n, h, v, sb, e) /\ Chain(Kept(R, c, p), n, k, d)
  /\ \A s \in R \ Kept(R, c, p) : PadAt(s, p) /\ p # 0 /\ h = v /\ ~e
  /\ p = 0 => h = v /\ ~e

\* A log that this mount has not written to, or only padded.
Plain(R, h, v, sb, e) ==
  /\ h = v /\ ~e
  /\ \/ R = {}
     \/ \E n \in R : /\ IsNewest(R, n)
                     /\ \/ n.kind = "unmount" /\ sb = v[AgBlock]
                        \/ PadAt(n, n.block)

\* The newest record is a checkpoint's that walks from block t.
Tailed(R, t) ==
  \E n \in R : IsNewest(R, n) /\ n.kind = "checkpoint" /\ n.tail.block = t

StartsIn(W, k) == \E f \in W : f.kind = "checkpoint" /\ f.first /\ f.ck = k

\* The walk meets the first record of checkpoint k.
Begun(R, k) ==
  \E n \in R : IsNewest(R, n) /\ StartsIn(Walk(R, n), k)

\* The walk carries an image of every block in w.
Covered(R, w) ==
  \E n \in R : IsNewest(R, n) /\ n.kind = "checkpoint" /\
    \A b \in w : Replays(Walk(R, n), n.tail.block)[b] # 0

\* The same of the state.
ReadyAt(c, p, d) == Ready(ring, c, p, home, view, sbCount, exposed, count, d)
PlainNow == Plain(ring, home, view, sbCount, exposed)
SoundNow == Sound(ring, home, view, sbCount, exposed)

\* Where the next record of the running operation goes.
Position == cur.head.block + StartOf(cur, cur.done + 1)

\* Nothing is on its way to the ring.
AtRest ==
  /\ nextHead = None => PlainNow
  /\ nextHead # None => nextHead.block # 0 /\ ReadyAt(nextHead.cycle, nextHead.block, FALSE)
  /\ oldest # None => Tailed(ring, oldest.block)

\* An operation that has to begin the ring again has not yet done so.
OnTheWay ==
  /\ nextHead = None => PlainNow
  /\ nextHead # None => cur.head = nextHead /\ nextHead.block # 0
  /\ ReadyAt(cur.head.cycle, cur.head.block, FALSE)

\* An operation is writing its records: they name the tail of the oldest
\* checkpoint still held, or their own first.
Appending ==
  /\ ReadyAt(cur.head.cycle, Position, cur.done > 0)
  /\ cur.tail = IF oldest # None THEN oldest ELSE LsnOf(cur.head)
  /\ oldest # None => Position # 0 /\ Tailed(ring, oldest.block)
  /\ cur.done > 0 /\ cur.kind = "checkpoint" =>
       Position # 0 /\ Tailed(ring, cur.tail.block) /\ Begun(ring, count + 1)

NothingHeld == oldest = None /\ ~exposed

\* A commit that pushes a full overlay before it holds its own images has
\* them in the log.
BoundOK ==
  /\ nextHead # None /\ oldest # None
  /\ Carries(Images(count), Over(home, overlay), view, FALSE)
  /\ Covered(ring, cur.writes)

\* A mount that may write, by the device write it is about to make.
Running ==
  /\ pc # "bound" => Carries(overlay, home, view, FALSE)
  /\ NothingHeld => overlay = NoImages
  /\ nextHead = None => NothingHeld
  /\ logged <=> nextHead # None
  /\ pc \in {"idle", "counters", "bound"} => AtRest
  /\ pc = "bound" => BoundOK
  /\ pc \in {"wrap", "pad"} => OnTheWay
  /\ pc = "append" => Appending
  /\ pc \in {"counters", "pad"} => NothingHeld
  /\ pc = "counters" => cur.kind = "unmount"
  /\ pc \in {"wrap", "append"} /\ cur.kind = "unmount" => NothingHeld
  /\ pc \in {"wrap", "pad", "append"} /\ cur.kind = "unmount" => sbCount = view[AgBlock]

\* What the other mounts hold.
MountSays ==
  /\ pc # "idle" => mnt = "rw" /\ ~failed
  /\ mnt = "off" => overlay = NoImages
  /\ mnt # "rw" => oldest = None /\ nextHead = None /\ ~logged /\ ~failed
  /\ mnt = "ro" /\ ~exposed => Carries(overlay, home, view, FALSE)

\* The inductive invariant: the log is sound in every state, and under a
\* mount that may write the next write keeps it so.
Safe ==
  /\ Tidy(ring)
  /\ SoundNow
  /\ MountSays
  /\ mnt = "rw" /\ ~failed => Running

\* A record write that lands, and what one that is cut short leaves.
Bare(R, r)  == {s \in R : ~Overlaps(s, r)}
Lay(R, r)   == Bare(R, r) \cup {r}
Cut(r)      == [r EXCEPT !.whole = FALSE]
Spoil(R, r) == Bare(R, r) \cup {Cut(s) : s \in {t \in R : Overlaps(t, r)}}

LEMMA PlacedFields ==
  ASSUME NEW r, Placed(r)
  PROVE  /\ r.cycle \in Nat /\ r.block \in Nat /\ r.len \in Nat /\ r.len > 0
         /\ r.block + r.len <= LogBlocks
         /\ r.tail.block \in Nat /\ r.ck \in Nat /\ r.writes \in SUBSET Blocks
         /\ r.whole \in BOOLEAN /\ r.first \in BOOLEAN /\ r.last \in BOOLEAN
BY DEF Placed, Record, Lsn

LEMMA CutFields ==
  ASSUME NEW r, Placed(r)
  PROVE  /\ Placed(Cut(r)) /\ ~Cut(r).whole
         /\ Cut(r).cycle = r.cycle /\ Cut(r).block = r.block /\ Cut(r).len = r.len
         /\ Cut(r).tail = r.tail /\ Cut(r).kind = r.kind
<1>1. r \in Record  BY DEF Placed
<1>2. Cut(r) \in Record  BY <1>1 DEF Cut, Record
<1>3. /\ Cut(r).cycle = r.cycle /\ Cut(r).block = r.block /\ Cut(r).len = r.len
      /\ Cut(r).tail = r.tail /\ Cut(r).kind = r.kind
  BY <1>1 DEF Cut, Record
<1>4. ~Cut(r).whole  BY <1>1 DEF Cut, Record
<1>5. QED  BY <1>2, <1>3, <1>4 DEF Placed

LEMMA NewestUnique ==
  ASSUME NEW R, Tidy(R), NEW n, NEW m, IsNewest(R, n), IsNewest(R, m)
  PROVE  n = m
<1>1. n \in R /\ m \in R /\ AtOrBefore(n, m) /\ AtOrBefore(m, n)  BY DEF IsNewest
<1>2. Placed(n) /\ Placed(m)  BY <1>1 DEF Tidy
<1>3. n.block = m.block  BY <1>1, <1>2, PlacedFields DEF AtOrBefore
<1>4. Overlaps(n, m)  BY <1>2, <1>3, PlacedFields DEF Overlaps
<1>5. QED  BY <1>1, <1>4 DEF Tidy

\* A tidy set of records stays tidy under a write, however it ends.
LEMMA BareTidy ==
  ASSUME NEW R, Tidy(R), NEW r
  PROVE  Tidy(Bare(R, r))
BY DEF Tidy, Bare

LEMMA LayTidy ==
  ASSUME NEW R, Tidy(R), NEW r, Placed(r)
  PROVE  Tidy(Lay(R, r))
<1>1. \A s \in Lay(R, r) : Placed(s)  BY DEF Tidy, Bare, Lay
<1>2. ASSUME NEW s \in Lay(R, r), NEW t \in Lay(R, r), Overlaps(s, t) PROVE s = t
  <2>1. Overlaps(t, s)  BY <1>2 DEF Overlaps
  <2>2. QED  BY <1>2, <2>1 DEF Tidy, Bare, Lay
<1>3. QED  BY <1>1, <1>2 DEF Tidy

LEMMA CutLayTidy ==
  ASSUME NEW R, Tidy(R), NEW r, Placed(r)
  PROVE  Tidy(Bare(R, r) \cup {Cut(r)})
<1>1. Placed(Cut(r)) /\ Cut(r).block = r.block /\ Cut(r).len = r.len  BY CutFields
<1>2. \A s \in Bare(R, r) : s \in R /\ ~Overlaps(s, Cut(r))
  BY <1>1 DEF Bare, Overlaps
<1> DEFINE L == Bare(R, r) \cup {Cut(r)}
<1>3. \A s \in L : Placed(s)  BY <1>1, <1>2 DEF Tidy
<1>4. ASSUME NEW s \in L, NEW t \in L, Overlaps(s, t) PROVE s = t
  <2>1. Overlaps(t, s)  BY <1>4 DEF Overlaps
  <2>2. QED  BY <1>2, <1>4, <2>1 DEF Tidy
<1>5. QED  BY <1>3, <1>4 DEF Tidy

LEMMA SpoilTidy ==
  ASSUME NEW R, Tidy(R), NEW r
  PROVE  Tidy(Spoil(R, r))
<1>1. ASSUME NEW s \in Spoil(R, r)
      PROVE  \E o \in R : /\ s.block = o.block /\ s.len = o.len /\ Placed(s)
                          /\ s = IF Overlaps(o, r) THEN Cut(o) ELSE o
  <2>1. CASE s \in Bare(R, r)  BY <2>1 DEF Bare, Tidy
  <2>2. CASE s \notin Bare(R, r)
    <3>1. PICK o \in R : Overlaps(o, r) /\ s = Cut(o)  BY <1>1, <2>2 DEF Spoil
    <3>2. Placed(o)  BY DEF Tidy
    <3>3. QED  BY <3>1, <3>2, CutFields
  <2>3. QED  BY <2>1, <2>2
<1>2. \A s \in Spoil(R, r) : Placed(s)  BY <1>1
<1>3. ASSUME NEW s \in Spoil(R, r), NEW t \in Spoil(R, r), Overlaps(s, t) PROVE s = t
  <2>1. PICK o \in R : /\ s.block = o.block /\ s.len = o.len
                       /\ s = IF Overlaps(o, r) THEN Cut(o) ELSE o
    BY <1>1
  <2>2. PICK q \in R : /\ t.block = q.block /\ t.len = q.len
                       /\ t = IF Overlaps(q, r) THEN Cut(q) ELSE q
    BY <1>1
  <2>3. Overlaps(o, q)  BY <1>3, <2>1, <2>2 DEF Overlaps
  <2>4. o = q  BY <2>3 DEF Tidy
  <2>5. QED  BY <2>1, <2>2, <2>4
<1>4. QED  BY <1>2, <1>3 DEF Tidy

\* What is before the place the next record goes to.
LEMMA BelowHead ==
  ASSUME NEW K, Tidy(K), NEW n, IsNewest(K, n), NEW c \in Nat, NEW p \in Nat,
         Ends(n, c, p), NEW s \in K
  PROVE  s.cycle < c \/ (s.cycle = c /\ s.block < p)
<1>1. n \in K /\ AtOrBefore(s, n)  BY DEF IsNewest
<1>2. Placed(n) /\ Placed(s)  BY <1>1 DEF Tidy
<1>3. QED  BY <1>1, <1>2, PlacedFields DEF AtOrBefore, Ends

LEMMA LayNewest ==
  ASSUME NEW K, NEW r, Placed(r),
         \A s \in K : s.cycle < r.cycle \/ (s.cycle = r.cycle /\ s.block < r.block),
         Tidy(K)
  PROVE  IsNewest(Lay(K, r), r) /\ IsNewest(Bare(K, r) \cup {Cut(r)}, Cut(r))
<1>1. \A s \in K : AtOrBefore(s, r)
  <2>1. \A s \in K : Placed(s)  BY DEF Tidy
  <2>2. QED  BY <2>1, PlacedFields DEF AtOrBefore
<1>2. AtOrBefore(r, r)  BY PlacedFields DEF AtOrBefore
<1>3. IsNewest(Lay(K, r), r)  BY <1>1, <1>2 DEF IsNewest, Lay, Bare
<1>4. Cut(r).cycle = r.cycle /\ Cut(r).block = r.block  BY CutFields
<1>5. \A s \in K : AtOrBefore(s, Cut(r))  BY <1>1, <1>4 DEF AtOrBefore
<1>6. AtOrBefore(Cut(r), Cut(r))  BY <1>2, <1>4 DEF AtOrBefore
<1>7. QED  BY <1>3, <1>5, <1>6 DEF IsNewest, Bare

-----------------------------------------------------------------------------
(* What a walk meets *)

\* A record that names itself as the tail is all its walk meets.
LEMMA OwnWalk ==
  ASSUME NEW R, Tidy(R), NEW r \in R, r.tail.block = r.block
  PROVE  Walk(R, r) = {r}
<1>0. Placed(r)  BY DEF Tidy
<1>1. ASSUME NEW s \in R PROVE Between(r.tail.block, r.block, s.block) <=> s = r
  <2>1. Placed(s)  BY DEF Tidy
  <2>2. Between(r.tail.block, r.block, s.block) <=> s.block = r.block
    BY <1>0, <2>1, PlacedFields DEF Between
  <2>3. s.block = r.block => Overlaps(s, r)
    BY <1>0, <2>1, PlacedFields DEF Overlaps
  <2>4. QED  BY <2>2, <2>3 DEF Tidy
<1>2. QED  BY <1>1 DEF Walk

LEMMA OwnFollows ==
  ASSUME NEW r, r.whole, r.tail.block = r.block
  PROVE  Follows({r}, r)
BY DEF Follows

\* The last record in front of the place p a record r is written to, and
\* what its walk met, are clear of r.
LEMMA WalkIsClear ==
  ASSUME NEW K, Tidy(K), NEW n \in K, n.tail.block <= n.block,
         NEW r, Placed(r), r.block = n.block + n.len, NEW s \in Walk(K, n)
  PROVE  ~Overlaps(s, r) /\ s.block <= n.block
<1>1. s \in K /\ Between(n.tail.block, n.block, s.block)  BY DEF Walk
<1>2. Placed(n) /\ Placed(s)  BY <1>1 DEF Tidy
<1>3. s.block <= n.block  BY <1>1, <1>2, PlacedFields DEF Between
<1>4. s = n \/ ~Overlaps(s, n)  BY <1>1 DEF Tidy
<1>5. CASE s = n
  BY <1>2, <1>3, <1>5, PlacedFields DEF Overlaps
<1>6. CASE ~Overlaps(s, n)
  <2>1. s.block + s.len <= n.block
    BY <1>2, <1>3, <1>6, PlacedFields DEF Overlaps
  <2>2. QED  BY <1>2, <1>3, <2>1, PlacedFields DEF Overlaps
<1>7. QED  BY <1>4, <1>5, <1>6

\* So it stays the newest, and its walk stays what it was, when the write
\* at p takes away or spoils what it lies over.
LEMMA WalkStays ==
  ASSUME NEW K, Tidy(K), NEW n \in K, IsNewest(K, n),
         NEW r, Placed(r), r.block = n.block + n.len
  PROVE  /\ ~Overlaps(n, r)
         /\ IsNewest(Bare(K, r), n) /\ IsNewest(Spoil(K, r), n)
         /\ n.tail.block <= n.block =>
              Walk(Bare(K, r), n) = Walk(K, n) /\ Walk(Spoil(K, r), n) = Walk(K, n)
<1>0. Placed(n)  BY DEF Tidy
<1>1. ~Overlaps(n, r)  BY <1>0, PlacedFields DEF Overlaps
<1>2. n \in Bare(K, r)  BY <1>1 DEF Bare
<1>3. \A s \in Bare(K, r) : s \in K  BY DEF Bare
<1>4. IsNewest(Bare(K, r), n)  BY <1>2, <1>3 DEF IsNewest
<1>5. ASSUME NEW s \in K PROVE AtOrBefore(Cut(s), n)
  <2>1. Placed(s)  BY DEF Tidy
  <2>2. Cut(s).block = s.block /\ Cut(s).cycle = s.cycle  BY <2>1, CutFields
  <2>3. AtOrBefore(s, n)  BY DEF IsNewest
  <2>4. QED  BY <2>2, <2>3 DEF AtOrBefore
<1>6. IsNewest(Spoil(K, r), n)
  <2>1. n \in Spoil(K, r)  BY <1>2 DEF Spoil
  <2>2. ASSUME NEW s \in Spoil(K, r) PROVE AtOrBefore(s, n)
    <3>1. s \in Bare(K, r) \/ \E t \in K : s = Cut(t)  BY DEF Spoil
    <3>2. QED  BY <1>4, <1>5, <3>1 DEF IsNewest
  <2>3. QED  BY <2>1, <2>2 DEF IsNewest
<1>7. ASSUME n.tail.block <= n.block
      PROVE  Walk(Bare(K, r), n) = Walk(K, n) /\ Walk(Spoil(K, r), n) = Walk(K, n)
  <2>1. \A s \in Walk(K, n) : s \in Bare(K, r)
    <3>1. \A s \in Walk(K, n) : s \in K  BY DEF Walk
    <3>2. QED  BY <1>7, <3>1, WalkIsClear DEF Bare
  <2>2. Walk(Bare(K, r), n) = Walk(K, n)  BY <1>3, <2>1 DEF Walk
  <2>3. ASSUME NEW s \in Walk(Spoil(K, r), n) PROVE s \in Walk(K, n)
    <3>1. CASE s \in Bare(K, r)  BY <1>3, <2>3, <3>1 DEF Walk
    <3>2. CASE s \notin Bare(K, r)
      <4>1. PICK t \in K : Overlaps(t, r) /\ s = Cut(t)
        BY <2>3, <3>2 DEF Walk, Spoil
      <4>2. Placed(t)  BY DEF Tidy
      <4>3. s.block = t.block  BY <4>1, <4>2, CutFields
      <4>4. t \in Walk(K, n)  BY <2>3, <4>3 DEF Walk
      <4>5. QED  BY <1>7, <4>1, <4>4, WalkIsClear
    <3>3. QED  BY <3>1, <3>2
  <2>4. \A s \in Walk(K, n) : s \in Walk(Spoil(K, r), n)
    BY <2>1 DEF Walk, Spoil
  <2>5. QED  BY <2>2, <2>3, <2>4
<1>8. QED  BY <1>1, <1>4, <1>6, <1>7

\* A record with the tail of the one before it is met after all that one's
\* walk met.
LEMMA GrownWalk ==
  ASSUME NEW K, Tidy(K), NEW n \in K, n.tail.block <= n.block,
         NEW r, Placed(r), r.block = n.block + n.len, r.tail.block = n.tail.block
  PROVE  Walk(Lay(K, r), r) = Walk(K, n) \cup {r}
<1>0. Placed(n)  BY DEF Tidy
<1>1. ASSUME NEW s \in Walk(Lay(K, r), r) PROVE s \in Walk(K, n) \cup {r}
  <2>0. s \in Lay(K, r) /\ Between(r.tail.block, r.block, s.block)  BY DEF Walk
  <2>1. SUFFICES ASSUME s \in K, ~Overlaps(s, r) PROVE s \in Walk(K, n)
    BY <2>0 DEF Lay, Bare
  <2>2. Placed(s)  BY <2>1 DEF Tidy
  <2>3. s.block >= n.tail.block /\ s.block <= r.block
    BY <1>0, <2>0, <2>2, PlacedFields DEF Between
  <2>4. s.block # r.block  BY <2>1, <2>2, PlacedFields DEF Overlaps
  <2>5. s = n \/ ~Overlaps(s, n)  BY <2>1 DEF Tidy
  <2>6. s.block <= n.block
    BY <1>0, <2>2, <2>3, <2>4, <2>5, PlacedFields DEF Overlaps
  <2>7. QED  BY <1>0, <2>1, <2>2, <2>3, <2>6, PlacedFields DEF Walk, Between
<1>2. ASSUME NEW s \in Walk(K, n) PROVE s \in Walk(Lay(K, r), r)
  <2>1. ~Overlaps(s, r) /\ s.block <= n.block  BY WalkIsClear
  <2>2. s \in K /\ Between(n.tail.block, n.block, s.block)  BY DEF Walk
  <2>3. Placed(s)  BY <2>2 DEF Tidy
  <2>4. Between(r.tail.block, r.block, s.block)
    BY <1>0, <2>1, <2>2, <2>3, PlacedFields DEF Between
  <2>5. QED  BY <2>1, <2>2, <2>4 DEF Walk, Lay, Bare
<1>3. r \in Walk(Lay(K, r), r)
  <2>1. Between(r.tail.block, r.block, r.block)
    BY <1>0, PlacedFields DEF Between
  <2>2. QED  BY <2>1 DEF Walk, Lay
<1>4. QED  BY <1>1, <1>2, <1>3

LEMMA GrownFollows ==
  ASSUME NEW W, NEW n \in W, Follows(W, n), NEW r, r.whole, Placed(n), Placed(r),
         r.block = n.block + n.len, r.tail.block = n.tail.block
  PROVE  Follows(W \cup {r}, r)
<1>1. After(n) = r.block  BY PlacedFields DEF After
<1>2. \A s \in W : s.whole /\ (s = n \/ \E t \in W : t.block = After(s))
  BY DEF Follows
<1>3. QED  BY <1>1, <1>2 DEF Follows

LEMMA NewestWalksItself ==
  ASSUME NEW R, NEW n \in R, Placed(n)
  PROVE  n \in Walk(R, n)
BY PlacedFields DEF Walk, Between

-----------------------------------------------------------------------------
(* What a replay leaves *)

LEMMA ReplaysAt ==
  ASSUME NEW W, NEW from, NEW b \in Blocks
  PROVE  Replays(W, from)[b] = IF Writers(W, b) = {} THEN 0
                               ELSE MetLast(from, Writers(W, b)).ck
BY DEF Replays

\* A record met after all the others is met last.
LEMMA LastIsMetLast ==
  ASSUME NEW S, NEW r \in S, NEW from \in Nat, Placed(r), from <= r.block,
         \A s \in S : Placed(s) /\ from <= s.block /\ (s = r \/ s.block < r.block)
  PROVE  MetLast(from, S) = r
<1>1. \A s \in S : WalkPos(from, s.block) = s.block - from /\ s.block \in Nat
  BY PlacedFields DEF WalkPos
<1>2. \A s \in S : s = r \/ s.block < r.block  OBVIOUS
<1> DEFINE P(q) == \A s \in S : WalkPos(from, s.block) <= WalkPos(from, q.block)
<1>3. P(r)  BY <1>1, <1>2
<1>4. ASSUME NEW q \in S, P(q) PROVE q = r
  <2>1. WalkPos(from, r.block) <= WalkPos(from, q.block)  BY <1>4
  <2>2. r.block <= q.block  BY <1>1, <2>1
  <2>3. QED  BY <1>1, <1>2, <2>2
<1>5. MetLast(from, S) = CHOOSE q \in S : P(q)  BY DEF MetLast
<1> HIDE DEF P
<1>6. (CHOOSE q \in S : P(q)) \in S /\ P(CHOOSE q \in S : P(q))  BY <1>3
<1>7. QED  BY <1>4, <1>5, <1>6

LEMMA OwnReplays ==
  ASSUME NEW r, Placed(r), NEW b \in Blocks
  PROVE  Replays({r}, r.block)[b] =
           IF r.kind = "checkpoint" /\ r.last /\ r.first /\ b \in r.writes THEN r.ck ELSE 0
<1>1. CASE r.kind = "checkpoint" /\ r.last /\ r.first /\ b \in r.writes
  <2>1. Writers({r}, b) = {r}  BY <1>1 DEF Writers, Applies
  <2>2. MetLast(r.block, {r}) = r
    <3>1. r.block \in Nat /\ r.block <= r.block  BY PlacedFields
    <3>2. QED  BY <3>1, LastIsMetLast, ZenonT(60)
  <2>3. Replays({r}, r.block)[b] = MetLast(r.block, {r}).ck
    <3>1. Writers({r}, b) # {}  BY <2>1
    <3>2. Replays({r}, r.block)[b] = MetLast(r.block, Writers({r}, b)).ck
      BY <3>1 DEF Replays
    <3>3. QED  BY <2>1, <3>2
  <2>4. QED  BY <1>1, <2>2, <2>3, Zenon
<1>2. CASE ~(r.kind = "checkpoint" /\ r.last /\ r.first /\ b \in r.writes)
  <2>1. Writers({r}, b) = {}  BY <1>2 DEF Writers, Applies
  <2>2. QED  BY <1>2, <2>1, ReplaysAt
<1>3. QED  BY <1>1, <1>2

\* No record in W is the last of checkpoint k + 1.
Numbered(W, k) ==
  \A s \in W : s.kind = "checkpoint" => s.ck <= k \/ (s.ck = k + 1 /\ ~s.last)

\* Record r is met after every record in W.
MetAfter(r, W, from) ==
  /\ from \in Nat /\ from <= r.block
  /\ \A s \in W : Placed(s) /\ from <= s.block /\ s.block < r.block

\* The records of W that are applied stay the ones that are.
LEMMA GrownApplies ==
  ASSUME NEW W, NEW r, NEW k \in Nat, Numbered(W, k), r.ck = k + 1,
         \A s \in W : Placed(s)
  PROVE  \A s \in W : s \in Applies(W \cup {r}) <=> s \in Applies(W)
<1>0. ASSUME NEW s \in W, s.kind = "checkpoint", s.last PROVE s.ck # r.ck
  BY <1>0, PlacedFields DEF Numbered
<1>1. ASSUME NEW s \in W, s \in Applies(W \cup {r}) PROVE s \in Applies(W)
  <2>1. s.kind = "checkpoint" /\ s.last  BY <1>1 DEF Applies
  <2>2. PICK f \in W \cup {r} : f.kind = "checkpoint" /\ f.ck = s.ck /\ f.first
    BY <1>1 DEF Applies
  <2>3. f # r  BY <1>0, <2>1, <2>2
  <2>4. QED  BY <2>1, <2>2, <2>3 DEF Applies
<1>2. ASSUME NEW s \in W, s \in Applies(W) PROVE s \in Applies(W \cup {r})
  BY <1>2 DEF Applies
<1>3. QED  BY <1>1, <1>2

LEMMA GrownReplaysMid ==
  ASSUME NEW W, NEW r, NEW k \in Nat, Numbered(W, k), r.ck = k + 1, ~r.last,
         NEW from, MetAfter(r, W, from), NEW b \in Blocks
  PROVE  Replays(W \cup {r}, from)[b] = Replays(W, from)[b]
<1>1. \A s \in W : s \in Applies(W \cup {r}) <=> s \in Applies(W)
  BY GrownApplies DEF MetAfter
<1>2. r \notin Applies(W \cup {r}) /\ r \notin Applies(W)  BY DEF Applies
<1>3. Applies(W) \subseteq W /\ Applies(W \cup {r}) \subseteq W \cup {r}  BY DEF Applies
<1>4. Applies(W \cup {r}) = Applies(W)  BY <1>1, <1>2, <1>3
<1>5. Writers(W \cup {r}, b) = Writers(W, b)  BY <1>4 DEF Writers
<1>6. QED  BY <1>5, ReplaysAt

LEMMA GrownReplaysLast ==
  ASSUME NEW W, NEW r, Placed(r), NEW k \in Nat, Numbered(W, k), r.ck = k + 1,
         r.kind = "checkpoint", r.last, r.first \/ StartsIn(W, k + 1),
         NEW from, MetAfter(r, W, from), NEW b \in Blocks
  PROVE  /\ b \in r.writes => Replays(W \cup {r}, from)[b] = k + 1
         /\ b \notin r.writes => Replays(W \cup {r}, from)[b] = Replays(W, from)[b]
<1>1. \A s \in W : s \in Applies(W \cup {r}) <=> s \in Applies(W)
  BY GrownApplies DEF MetAfter
<1>2. r \in Applies(W \cup {r})  BY DEF Applies, StartsIn
<1>3. Applies(W) \subseteq W /\ Applies(W \cup {r}) \subseteq W \cup {r}  BY DEF Applies
<1>4. Applies(W \cup {r}) = Applies(W) \cup {r}  BY <1>1, <1>2, <1>3
<1>5. ASSUME b \in r.writes PROVE Replays(W \cup {r}, from)[b] = k + 1
  <2> DEFINE S == Writers(W \cup {r}, b)
  <2>1. S \subseteq W \cup {r} /\ r \in S  BY <1>3, <1>4, <1>5 DEF Writers
  <2>2. \A s \in S : Placed(s) /\ from <= s.block /\ (s = r \/ s.block < r.block)
    BY <2>1 DEF MetAfter
  <2> HIDE DEF S
  <2>3. MetLast(from, S) = r  BY <2>1, <2>2, LastIsMetLast DEF MetAfter
  <2>4. Replays(W \cup {r}, from)[b] = IF S = {} THEN 0 ELSE MetLast(from, S).ck
    BY ReplaysAt DEF S
  <2>5. QED  BY <2>1, <2>3, <2>4
<1>6. ASSUME b \notin r.writes
      PROVE  Replays(W \cup {r}, from)[b] = Replays(W, from)[b]
  <2>1. Writers(W \cup {r}, b) = Writers(W, b)  BY <1>4, <1>6 DEF Writers
  <2>2. QED  BY <2>1, ReplaysAt
<1>7. QED  BY <1>5, <1>6

-----------------------------------------------------------------------------
(* A log that can be followed, and one that a write was cut short in *)

\* A reader of the log finds it clean or can follow it.
Heals(R) ==
  \/ R = {}
  \/ \E n \in R : IsNewest(R, n) /\ (n.kind = "unmount" \/ Follows(Walk(R, n), n))

\* A pad that names itself as the tail carries nothing.
LEMMA PadSound ==
  ASSUME NEW R, Tidy(R), NEW s \in R, PadAt(s, s.block),
         NEW h, NEW v, NEW sb, NEW e, h = v, NEW k, NEW d
  PROVE  /\ SoundAt(R, s, h, v, sb, e) /\ Follows(Walk(R, s), s) /\ Chain(R, s, k, d)
<1>0. Placed(s) /\ s.kind = "pad" /\ s.whole /\ s.tail.block = s.block
  BY DEF Tidy, PadAt
<1>1. Walk(R, s) = {s}  BY <1>0, OwnWalk
<1>2. Follows({s}, s)  BY <1>0, OwnFollows
<1>3. \A b \in Blocks : Replays({s}, s.block)[b] = 0  BY <1>0, OwnReplays
<1>4. Carries(Replays({s}, s.block), h, v, e)  BY <1>3 DEF Carries
<1>5. SoundAt(R, s, h, v, sb, e)
  <2>1. Carries(Replays(Walk(R, s), s.tail.block), h, v, e)  BY <1>0, <1>1, <1>4
  <2>2. QED  BY <1>0, <2>1 DEF SoundAt
<1>6. Chain(R, s, k, d)
  <2>1. s.tail.block <= s.block  BY <1>0, PlacedFields
  <2>2. \A t \in Walk(R, s) : t.kind # "checkpoint"  BY <1>0, <1>1
  <2>3. QED  BY <1>1, <1>2, <2>1, <2>2 DEF Chain
<1>7. QED  BY <1>1, <1>2, <1>5, <1>6

LEMMA PlainSound ==
  ASSUME NEW R, Tidy(R), NEW h, NEW v, NEW sb, NEW e, Plain(R, h, v, sb, e)
  PROVE  Sound(R, h, v, sb, e) /\ Heals(R)
<1>1. h = v /\ ~e  BY DEF Plain
<1>2. CASE R = {}  BY <1>1, <1>2 DEF Sound, Heals
<1>3. CASE R # {}
  <2>1. PICK n \in R : /\ IsNewest(R, n)
                       /\ (n.kind = "unmount" /\ sb = v[AgBlock]) \/ PadAt(n, n.block)
    BY <1>3 DEF Plain
  <2>2. CASE n.kind = "unmount" /\ sb = v[AgBlock]
    <3>1. SoundAt(R, n, h, v, sb, e)  BY <1>1, <2>2 DEF SoundAt
    <3>2. QED  BY <2>1, <2>2, <3>1 DEF Sound, Heals
  <2>3. CASE PadAt(n, n.block)
    <3>1. SoundAt(R, n, h, v, sb, e) /\ Follows(Walk(R, n), n)  BY <1>1, <2>3, PadSound
    <3>2. QED  BY <2>1, <3>1 DEF Sound, Heals
  <2>4. QED  BY <2>1, <2>2, <2>3
<1>4. QED  BY <1>2, <1>3

\* What is at the place the next record goes to is nothing, or one pad left
\* by a wrap that was refused.
LEMMA KeptSplit ==
  ASSUME NEW R, Tidy(R), NEW c \in Nat, NEW p \in Nat,
         NEW h, NEW v, NEW sb, NEW e, NEW k, NEW d, Ready(R, c, p, h, v, sb, e, k, d)
  PROVE  /\ Tidy(Kept(R, c, p))
         /\ \A s \in Kept(R, c, p) : s.cycle < c \/ (s.cycle = c /\ s.block < p)
         /\ \/ Kept(R, c, p) = R
            \/ \E s \in R : /\ IsNewest(R, s) /\ PadAt(s, s.block) /\ s.block = p
                            /\ p # 0 /\ h = v /\ ~e /\ Kept(R, c, p) = R \ {s}
<1> DEFINE K == Kept(R, c, p)
<1>1. K \subseteq R  BY DEF Kept
<1>2. Tidy(K)  BY <1>1 DEF Tidy
<1>3. \A s \in K : s.cycle < c \/ (s.cycle = c /\ s.block < p)
  <2>1. CASE K = {}  BY <2>1
  <2>2. CASE K # {}
    <3>1. PICK n \in K : IsNewest(K, n) /\ Ends(n, c, p)  BY <2>2 DEF Ready
    <3> HIDE DEF K
    <3>2. QED  BY <1>2, <3>1, BelowHead
  <2>3. QED  BY <2>1, <2>2
<1>4. CASE K = R  BY <1>2, <1>3, <1>4
<1>5. CASE K # R
  <2>1. PICK s \in R : s \notin K  BY <1>1, <1>5
  <2>2. PadAt(s, p) /\ p # 0 /\ h = v /\ ~e /\ s.cycle = c /\ s.block = p
    BY <2>1 DEF Ready, Kept
  <2>3. Placed(s)  BY DEF Tidy
  <2>4. ASSUME NEW t \in R, t \notin K PROVE t = s
    <3>1. t.block = p /\ Placed(t)  BY <2>4 DEF Kept, Tidy
    <3>2. Overlaps(t, s)  BY <2>2, <2>3, <3>1, PlacedFields DEF Overlaps
    <3>3. QED  BY <3>2 DEF Tidy
  <2>5. K = R \ {s}  BY <1>1, <2>1, <2>4
  <2>6. ASSUME NEW t \in R PROVE AtOrBefore(t, s)
    <3>1. Placed(t)  BY DEF Tidy
    <3>2. t = s \/ t.cycle < c \/ (t.cycle = c /\ t.block < p)  BY <1>3, <2>5
    <3>3. QED  BY <2>2, <2>3, <3>1, <3>2, PlacedFields DEF AtOrBefore
  <2>7. IsNewest(R, s)  BY <2>6 DEF IsNewest
  <2>8. QED  BY <1>2, <1>3, <2>2, <2>5, <2>7
<1>6. QED  BY <1>4, <1>5

LEMMA ReadySound ==
  ASSUME NEW R, Tidy(R), NEW c \in Nat, NEW p \in Nat,
         NEW h, NEW v, NEW sb, NEW e, NEW k, NEW d, Ready(R, c, p, h, v, sb, e, k, d)
  PROVE  Sound(R, h, v, sb, e) /\ Heals(R)
<1> DEFINE K == Kept(R, c, p)
<1>1. CASE K = R
  <2>1. CASE R = {}
    <3>1. h = v /\ ~e  BY <1>1, <2>1 DEF Ready
    <3>2. QED  BY <2>1, <3>1 DEF Sound, Heals
  <2>2. CASE R # {}
    <3>1. PICK n \in R : IsNewest(R, n) /\ SoundAt(R, n, h, v, sb, e) /\ Chain(R, n, k, d)
      BY <1>1, <2>2 DEF Ready
    <3>2. n.kind = "unmount" \/ Follows(Walk(R, n), n)  BY <3>1 DEF Chain
    <3>3. QED  BY <3>1, <3>2 DEF Sound, Heals
  <2>3. QED  BY <2>1, <2>2
<1>2. CASE \E s \in R : IsNewest(R, s) /\ PadAt(s, s.block) /\ h = v
  <2>1. PICK s \in R : IsNewest(R, s) /\ PadAt(s, s.block) /\ h = v  BY <1>2
  <2>2. SoundAt(R, s, h, v, sb, e) /\ Follows(Walk(R, s), s)  BY <2>1, PadSound
  <2>3. QED  BY <2>1, <2>2 DEF Sound, Heals
<1>3. QED  BY <1>1, <1>2, KeptSplit

\* The same walk carries the same.
LEMMA SameWalk ==
  ASSUME NEW K, NEW L, NEW n, NEW h, NEW v, NEW sb, NEW e, SoundAt(K, n, h, v, sb, e),
         n.kind # "unmount" => Walk(L, n) = Walk(K, n)
  PROVE  SoundAt(L, n, h, v, sb, e)
BY DEF SoundAt

\* With everything home, all that matters is a walk that succeeds.
LEMMA SameWalkAtHome ==
  ASSUME NEW K, NEW L, NEW n, NEW h, NEW v, NEW sb, NEW e, SoundAt(K, n, h, v, sb, e),
         h = v, Follows(Walk(L, n), n) => Walk(L, n) = Walk(K, n)
  PROVE  SoundAt(L, n, h, v, sb, e)
BY DEF SoundAt

LEMMA SpoilNewest ==
  ASSUME NEW R, Tidy(R), NEW r, NEW n, IsNewest(R, n)
  PROVE  IsNewest(Spoil(R, r), IF Overlaps(n, r) THEN Cut(n) ELSE n)
<1>0. n \in R /\ Placed(n)  BY DEF IsNewest, Tidy
<1> DEFINE m == IF Overlaps(n, r) THEN Cut(n) ELSE n
<1>1. m \in Spoil(R, r)  BY <1>0 DEF Spoil, Bare
<1>2. m.cycle = n.cycle /\ m.block = n.block  BY <1>0, CutFields
<1>3. ASSUME NEW s \in Spoil(R, r) PROVE AtOrBefore(s, m)
  <2>1. PICK t \in R : s = t \/ s = Cut(t)  BY DEF Spoil, Bare
  <2>2. Placed(t) /\ AtOrBefore(t, n)  BY DEF Tidy, IsNewest
  <2>3. s.cycle = t.cycle /\ s.block = t.block  BY <2>1, <2>2, CutFields
  <2> HIDE DEF m
  <2>4. QED  BY <1>2, <2>2, <2>3 DEF AtOrBefore
<1> HIDE DEF m
<1>4. IsNewest(Spoil(R, r), m)  BY <1>1, <1>3 DEF IsNewest
<1>5. QED  BY <1>4 DEF m

LEMMA KeptWhole ==
  ASSUME NEW R, Tidy(R), NEW c \in Nat, NEW p \in Nat,
         NEW h, NEW v, NEW sb, NEW e, NEW k, NEW d, Ready(R, c, p, h, v, sb, e, k, d),
         NEW n, IsNewest(R, n), n.kind # "pad"
  PROVE  /\ Kept(R, c, p) = R
         /\ Ends(n, c, p) /\ SoundAt(R, n, h, v, sb, e) /\ Chain(R, n, k, d)
<1>1. ASSUME NEW s \in R, IsNewest(R, s), PadAt(s, s.block) PROVE FALSE
  <2>1. s = n  BY <1>1, NewestUnique
  <2>2. QED  BY <1>1, <2>1 DEF PadAt
<1>2. Kept(R, c, p) = R  BY <1>1, KeptSplit
<1>3. n \in R  BY DEF IsNewest
<1>4. PICK m \in R : /\ IsNewest(R, m) /\ Ends(m, c, p)
                     /\ SoundAt(R, m, h, v, sb, e) /\ Chain(R, m, k, d)
  BY <1>2, <1>3 DEF Ready
<1>5. m = n  BY <1>4, NewestUnique
<1>6. QED  BY <1>2, <1>4, <1>5

\* A write takes away a pad that is where it goes.
LEMMA BareOfKept ==
  ASSUME NEW R, Tidy(R), NEW c, NEW r, Placed(r)
  PROVE  Bare(R, r) = Bare(Kept(R, c, r.block), r)
<1>1. ASSUME NEW s \in R, s.block = r.block PROVE Overlaps(s, r)
  <2>1. Placed(s)  BY DEF Tidy
  <2>2. QED  BY <1>1, <2>1, PlacedFields DEF Overlaps
<1>2. QED  BY <1>1 DEF Bare, Kept

\* A write at p that is cut short leaves a log that is still sound.
LEMMA BareSound ==
  ASSUME NEW R, Tidy(R), NEW c \in Nat, NEW p \in Nat,
         NEW h, NEW v, NEW sb, NEW e, NEW k, NEW d, Ready(R, c, p, h, v, sb, e, k, d),
         NEW r, Placed(r), r.cycle = c, r.block = p
  PROVE  Sound(Bare(R, r), h, v, sb, e)
<1> DEFINE K == Kept(R, c, p)
<1>1. Tidy(K)  BY KeptSplit
<1>2. Bare(R, r) = Bare(K, r)  BY BareOfKept
<1>3. p = 0 => h = v /\ ~e  BY DEF Ready
<1>4. CASE K = {} /\ p = 0
  <2>1. Bare(K, r) = {}  BY <1>4 DEF Bare
  <2>2. QED  BY <1>2, <1>3, <1>4, <2>1 DEF Sound
<1>5. CASE \E n \in K : /\ IsNewest(K, n) /\ Ends(n, c, p)
                        /\ SoundAt(K, n, h, v, sb, e) /\ Chain(K, n, k, d)
  <2>1. PICK n \in K : /\ IsNewest(K, n) /\ Ends(n, c, p)
                       /\ SoundAt(K, n, h, v, sb, e) /\ Chain(K, n, k, d)
    BY <1>5
  <2>2. Placed(n)  BY <1>1 DEF Tidy
  <2> HIDE DEF K
  <2>3. CASE p # 0
    <3>1. r.block = n.block + n.len  BY <2>1, <2>3 DEF Ends
    <3>2. IsNewest(Bare(K, r), n)  BY <1>1, <2>1, <3>1, WalkStays
    <3>3. n.kind # "unmount" => Walk(Bare(K, r), n) = Walk(K, n)
      <4>1. n.kind # "unmount" => n.tail.block <= n.block  BY <2>1 DEF Chain
      <4>2. QED  BY <1>1, <2>1, <3>1, <4>1, WalkStays
    <3>4. SoundAt(Bare(K, r), n, h, v, sb, e)  BY <2>1, <3>3, SameWalk
    <3>5. n \in Bare(K, r)  BY <3>2 DEF IsNewest
    <3>6. QED  BY <1>2, <3>2, <3>4, <3>5 DEF Sound
  <2>4. CASE p = 0
    <3>0. h = v /\ ~e  BY <1>3, <2>4
    <3>1. n.block + n.len = LogBlocks  BY <2>1, <2>2, <2>4, PlacedFields DEF Ends
    <3>2. CASE Overlaps(n, r)
      <4>1. ASSUME NEW s \in K PROVE Overlaps(s, r)
        <5>1. Placed(s)  BY <1>1 DEF Tidy
        <5>2. s = n \/ ~Overlaps(s, n)  BY <1>1 DEF Tidy
        <5>3. s = n \/ s.block + s.len <= n.block
          BY <2>2, <3>1, <5>1, <5>2, PlacedFields DEF Overlaps
        <5>4. QED  BY <2>2, <2>4, <3>2, <5>1, <5>3, PlacedFields DEF Overlaps
      <4>2. Bare(K, r) = {}  BY <4>1 DEF Bare
      <4>3. QED  BY <1>2, <3>0, <4>2 DEF Sound
    <3>3. CASE ~Overlaps(n, r)
      <4>1. n \in Bare(K, r)  BY <3>3 DEF Bare
      <4>2. IsNewest(Bare(K, r), n)  BY <2>1, <4>1 DEF IsNewest, Bare
      <4>3. ASSUME n.kind # "unmount", Follows(Walk(Bare(K, r), n), n)
            PROVE  Walk(Bare(K, r), n) = Walk(K, n)
        <5>1. n.tail.block <= n.block  BY <2>1, <4>3 DEF Chain
        <5>2. PICK f \in Bare(K, r) : f.block = n.tail.block
          BY <4>3 DEF Follows, Walk
        <5>3. Placed(f) /\ ~Overlaps(f, r)  BY <1>1, <5>2 DEF Tidy, Bare
        <5>4. n.tail.block >= r.len
          BY <2>4, <5>2, <5>3, PlacedFields DEF Overlaps
        <5>5. ASSUME NEW s \in Walk(K, n) PROVE s \in Bare(K, r)
          <6>1. s \in K /\ Between(n.tail.block, n.block, s.block)  BY DEF Walk
          <6>2. Placed(s)  BY <1>1, <6>1 DEF Tidy
          <6>3. s.block >= n.tail.block
            BY <2>2, <5>1, <6>1, <6>2, PlacedFields DEF Between
          <6>4. ~Overlaps(s, r)
            BY <2>2, <2>4, <5>4, <6>2, <6>3, PlacedFields DEF Overlaps
          <6>5. QED  BY <6>1, <6>4 DEF Bare
        <5>6. QED  BY <5>5 DEF Walk, Bare
      <4>4. SoundAt(Bare(K, r), n, h, v, sb, e)
        <5>1. CASE n.kind = "unmount"  BY <2>1, <5>1, SameWalk
        <5>2. CASE n.kind # "unmount"  BY <2>1, <3>0, <4>3, <5>2, SameWalkAtHome
        <5>3. QED  BY <5>1, <5>2
      <4>5. QED  BY <1>2, <4>1, <4>2, <4>4 DEF Sound
    <3>4. QED  BY <3>2, <3>3
  <2>5. QED  BY <2>3, <2>4
<1>6. QED  BY <1>4, <1>5 DEF Ready

LEMMA SpoilSound ==
  ASSUME NEW R, Tidy(R), NEW c \in Nat, NEW p \in Nat,
         NEW h, NEW v, NEW sb, NEW e, NEW k, NEW d, Ready(R, c, p, h, v, sb, e, k, d),
         NEW r, Placed(r), r.cycle = c, r.block = p
  PROVE  Sound(Spoil(R, r), h, v, sb, e)
<1> DEFINE K == Kept(R, c, p)
<1>0. ASSUME NEW n, IsNewest(R, n), Overlaps(n, r), n.kind # "unmount"
      PROVE  Sound(Spoil(R, r), h, v, sb, e)
  <2>1. IsNewest(Spoil(R, r), Cut(n))  BY <1>0, SpoilNewest
  <2>2. Placed(n)  BY <1>0 DEF IsNewest, Tidy
  <2>3. ~Cut(n).whole /\ Cut(n).kind # "unmount"  BY <1>0, <2>2, CutFields
  <2>4. SoundAt(Spoil(R, r), Cut(n), h, v, sb, e)  BY <2>3 DEF SoundAt, Follows
  <2>5. QED  BY <2>1, <2>4 DEF Sound, IsNewest
<1>1. CASE \E s \in R : IsNewest(R, s) /\ PadAt(s, s.block) /\ s.block = p
  <2>1. PICK s \in R : IsNewest(R, s) /\ PadAt(s, s.block) /\ s.block = p  BY <1>1
  <2>2. Placed(s) /\ s.kind # "unmount"  BY <2>1 DEF Tidy, PadAt
  <2>3. Overlaps(s, r)  BY <2>1, <2>2, PlacedFields DEF Overlaps
  <2>4. QED  BY <1>0, <2>1, <2>2, <2>3
<1>2. CASE K = R
  <2>0. p = 0 => h = v /\ ~e  BY DEF Ready
  <2>1. CASE K = {} /\ p = 0
    <3>1. Spoil(R, r) = {}  BY <1>2, <2>1 DEF Spoil, Bare
    <3>2. QED  BY <2>0, <2>1, <3>1 DEF Sound
  <2>2. CASE \E n \in R : /\ IsNewest(R, n) /\ Ends(n, c, p)
                          /\ SoundAt(R, n, h, v, sb, e) /\ Chain(R, n, k, d)
    <3>1. PICK n \in R : /\ IsNewest(R, n) /\ Ends(n, c, p)
                         /\ SoundAt(R, n, h, v, sb, e) /\ Chain(R, n, k, d)
      BY <2>2
    <3>2. Placed(n)  BY DEF Tidy
    <3>3. CASE p # 0
      <4>1. r.block = n.block + n.len  BY <3>1, <3>3 DEF Ends
      <4>2. IsNewest(Spoil(R, r), n)  BY <3>1, <4>1, WalkStays
      <4>3. n.kind # "unmount" => Walk(Spoil(R, r), n) = Walk(R, n)
        <5>1. n.kind # "unmount" => n.tail.block <= n.block  BY <3>1 DEF Chain
        <5>2. QED  BY <3>1, <4>1, <5>1, WalkStays
      <4>4. SoundAt(Spoil(R, r), n, h, v, sb, e)  BY <3>1, <4>3, SameWalk
      <4>5. QED  BY <4>2, <4>4 DEF Sound, IsNewest
    <3>4. CASE p = 0
      <4>0. h = v /\ ~e  BY <2>0, <3>4
      <4>1. CASE Overlaps(n, r)
        <5>1. CASE n.kind # "unmount"  BY <1>0, <3>1, <4>1, <5>1
        <5>2. CASE n.kind = "unmount"
          <6>1. IsNewest(Spoil(R, r), Cut(n))  BY <3>1, <4>1, SpoilNewest
          <6>2. Cut(n).kind = "unmount"  BY <3>2, <5>2, CutFields
          <6>3. SoundAt(Spoil(R, r), Cut(n), h, v, sb, e)
            BY <3>1, <5>2, <6>2 DEF SoundAt
          <6>4. QED  BY <6>1, <6>3 DEF Sound, IsNewest
        <5>3. QED  BY <5>1, <5>2
      <4>2. CASE ~Overlaps(n, r)
        <5>1. IsNewest(Spoil(R, r), n)  BY <3>1, <4>2, SpoilNewest
        <5>2. ASSUME Follows(Walk(Spoil(R, r), n), n)
              PROVE  Walk(Spoil(R, r), n) = Walk(R, n)
          <6>1. \A s \in Walk(Spoil(R, r), n) : s.whole  BY <5>2 DEF Follows
          <6>2. ASSUME NEW s \in Walk(Spoil(R, r), n) PROVE s \in Walk(R, n)
            <7>1. s \in Bare(R, r) \/ \E t \in R : s = Cut(t)  BY DEF Walk, Spoil
            <7>2. ASSUME NEW t \in R, s = Cut(t) PROVE FALSE
              <8>1. Placed(t)  BY DEF Tidy
              <8>2. QED  BY <6>1, <7>2, <8>1, CutFields
            <7>3. s \in Bare(R, r)  BY <7>1, <7>2
            <7>4. QED  BY <7>3 DEF Walk, Bare
          <6>3. ASSUME NEW s \in Walk(R, n) PROVE s \in Walk(Spoil(R, r), n)
            <7>1. CASE Overlaps(s, r)
              <8>1. s \in R /\ Placed(s)  BY DEF Walk, Tidy
              <8>2. Cut(s) \in Spoil(R, r)  BY <7>1, <8>1 DEF Spoil
              <8>3. Cut(s).block = s.block /\ ~Cut(s).whole  BY <8>1, CutFields
              <8>4. Cut(s) \in Walk(Spoil(R, r), n)  BY <8>2, <8>3 DEF Walk
              <8>5. QED  BY <6>1, <8>3, <8>4
            <7>2. CASE ~Overlaps(s, r)  BY <7>2 DEF Walk, Spoil, Bare
            <7>3. QED  BY <7>1, <7>2
          <6>4. QED  BY <6>2, <6>3
        <5>3. SoundAt(Spoil(R, r), n, h, v, sb, e)
          BY <3>1, <4>0, <5>2, SameWalkAtHome
        <5>4. QED  BY <5>1, <5>3 DEF Sound, IsNewest
      <4>3. QED  BY <4>1, <4>2
    <3>5. QED  BY <3>3, <3>4
  <2>3. QED  BY <1>2, <2>1, <2>2 DEF Ready
<1>3. QED  BY <1>1, <1>2, KeptSplit

\* The newest of a log a record was written to whole, or without its body.
LEMMA LayIsNewest ==
  ASSUME NEW R, Tidy(R), NEW c \in Nat, NEW p \in Nat,
         NEW h, NEW v, NEW sb, NEW e, NEW k, NEW d, Ready(R, c, p, h, v, sb, e, k, d),
         NEW r, Placed(r), r.cycle = c, r.block = p
  PROVE  /\ IsNewest(Lay(R, r), r) /\ IsNewest(Bare(R, r) \cup {Cut(r)}, Cut(r))
         /\ Lay(R, r) = Lay(Kept(R, c, p), r)
         /\ Bare(R, r) = Bare(Kept(R, c, p), r)
<1> DEFINE K == Kept(R, c, p)
<1>1. Tidy(K) /\ \A s \in K : s.cycle < c \/ (s.cycle = c /\ s.block < p)
  BY KeptSplit
<1>2. Bare(R, r) = Bare(K, r)  BY BareOfKept
<1> HIDE DEF K
<1>3. IsNewest(Lay(K, r), r) /\ IsNewest(Bare(K, r) \cup {Cut(r)}, Cut(r))
  BY <1>1, LayNewest
<1>4. QED  BY <1>2, <1>3 DEF Lay, K

LEMMA CutSound ==
  ASSUME NEW R, Tidy(R), NEW c \in Nat, NEW p \in Nat,
         NEW h, NEW v, NEW sb, NEW e, NEW k, NEW d, Ready(R, c, p, h, v, sb, e, k, d),
         NEW r, Placed(r), r.cycle = c, r.block = p,
         r.kind = "unmount" => h = v /\ sb = v[AgBlock] /\ ~e
  PROVE  Sound(Bare(R, r) \cup {Cut(r)}, h, v, sb, e)
<1>1. IsNewest(Bare(R, r) \cup {Cut(r)}, Cut(r))  BY LayIsNewest
<1>2. ~Cut(r).whole /\ Cut(r).kind = r.kind  BY CutFields
<1>3. SoundAt(Bare(R, r) \cup {Cut(r)}, Cut(r), h, v, sb, e)
  BY <1>2 DEF SoundAt, Follows
<1>4. QED  BY <1>1, <1>3 DEF Sound, IsNewest

-----------------------------------------------------------------------------
(* A record that lands whole *)

\* What a checkpoint's record makes of the blocks and of the count: its
\* last record changes both, any other leaves them.
Counts(r, v, w, k, j, d) ==
  \/ r.last /\ w = [b \in Blocks |-> IF b \in r.writes THEN k + 1 ELSE v[b]] /\ j = k + 1 /\ d = FALSE
  \/ ~r.last /\ w = v /\ j = k /\ d = TRUE

LEMMA LayReady ==
  ASSUME NEW R, Tidy(R), NEW r, Placed(r), IsNewest(Lay(R, r), r),
         NEW h, NEW v, NEW sb, NEW e, NEW k, NEW d,
         SoundAt(Lay(R, r), r, h, v, sb, e), Chain(Lay(R, r), r, k, d)
  PROVE  Ready(Lay(R, r), r.cycle, r.block + r.len, h, v, sb, e, k, d)
<1> DEFINE L == Lay(R, r)
           q == r.block + r.len
<1>1. Tidy(L)  BY LayTidy
<1>2. \A s \in L : ~(s.cycle = r.cycle /\ s.block = q)
  <2>1. \A s \in L : AtOrBefore(s, r) /\ Placed(s)  BY <1>1 DEF IsNewest, Tidy
  <2>2. QED  BY <2>1, PlacedFields DEF AtOrBefore
<1>3. Kept(L, r.cycle, q) = L  BY <1>2 DEF Kept
<1>4. Ends(r, r.cycle, q) /\ q # 0  BY PlacedFields DEF Ends
<1>5. r \in L  BY DEF IsNewest
<1> HIDE DEF L, q
<1>6. Ready(L, r.cycle, q, h, v, sb, e, k, d)
  BY <1>3, <1>4, <1>5 DEF Ready, L
<1>7. QED  BY <1>6 DEF L, q

\* The first record of a checkpoint with nothing outstanding before it.
LEMMA LayOwn ==
  ASSUME NEW R, Tidy(R), NEW r, Placed(r), IsNewest(Lay(R, r), r),
         r.kind = "checkpoint", r.whole, r.first, r.tail.block = r.block,
         NEW h, NEW v, NEW sb, NEW e \in BOOLEAN, e \/ h = v,
         NEW k \in Nat, r.ck = k + 1,
         NEW w, NEW j, NEW d, Counts(r, v, w, k, j, d)
  PROVE  /\ SoundAt(Lay(R, r), r, h, w, sb, e) /\ Chain(Lay(R, r), r, j, d)
         /\ Begun(Lay(R, r), k + 1)
         /\ r.last => Covered(Lay(R, r), r.writes)
<1> DEFINE L == Lay(R, r)
<1>1. Tidy(L) /\ r \in L  BY LayTidy DEF Lay
<1>2. Walk(L, r) = {r}  BY <1>1, OwnWalk
<1>3. Follows({r}, r)  BY OwnFollows
<1>4. ASSUME NEW b \in Blocks
      PROVE  Replays({r}, r.block)[b] = IF r.last /\ b \in r.writes THEN k + 1 ELSE 0
  <2>1. CASE r.last /\ b \in r.writes  BY <2>1, OwnReplays
  <2>2. CASE ~(r.last /\ b \in r.writes)  BY <2>2, OwnReplays
  <2>3. QED  BY <2>1, <2>2
<1>5. Carries(Replays({r}, r.block), h, w, e)
  <2>1. SUFFICES ASSUME NEW b \in Blocks
        PROVE  /\ Replays({r}, r.block)[b] # 0 => Replays({r}, r.block)[b] = w[b]
               /\ Replays({r}, r.block)[b] = 0 => e \/ h[b] = w[b]
    BY DEF Carries
  <2>2. CASE r.last
    <3>1. w[b] = IF b \in r.writes THEN k + 1 ELSE v[b]  BY <2>2 DEF Counts
    <3>2. k + 1 # 0  OBVIOUS
    <3>3. QED  BY <1>4, <2>2, <3>1, <3>2
  <2>3. CASE ~r.last
    <3>1. w = v  BY <2>3 DEF Counts
    <3>2. QED  BY <1>4, <2>3, <3>1
  <2>4. QED  BY <2>2, <2>3
<1> HIDE DEF L
<1>6. SoundAt(L, r, h, w, sb, e)
  <2>1. Carries(Replays(Walk(L, r), r.tail.block), h, w, e)  BY <1>2, <1>5
  <2>2. Follows(Walk(L, r), r)  BY <1>2, <1>3
  <2>3. QED  BY <2>1, <2>2 DEF SoundAt
<1>7. Chain(L, r, j, d)
  <2>1. r.tail.block <= r.block  BY PlacedFields
  <2>2. r.ck <= j \/ (d /\ r.ck = j + 1 /\ ~r.last)  BY DEF Counts
  <2>3. QED  BY <1>2, <1>3, <2>1, <2>2 DEF Chain
<1>8. Begun(L, k + 1)  BY <1>1, <1>2 DEF Begun, StartsIn, L
<1>9. ASSUME r.last PROVE Covered(L, r.writes)
  <2>1. \A b \in r.writes : b \in Blocks  BY PlacedFields
  <2>2. Replays(Walk(L, r), r.tail.block) = Replays({r}, r.block)  BY <1>2
  <2>3. k + 1 # 0  OBVIOUS
  <2>4. \A b \in r.writes : Replays({r}, r.block)[b] # 0
    BY <1>4, <1>9, <2>1, <2>3
  <2>5. QED  BY <1>1, <2>2, <2>4 DEF Covered, L
<1>10. QED  BY <1>6, <1>7, <1>8, <1>9 DEF L

\* Any other, which continues the walk of the one before it.
LEMMA LayGrown ==
  ASSUME NEW R, Tidy(R), NEW n \in R, IsNewest(R, n), n.kind = "checkpoint",
         NEW h, NEW v, NEW sb, NEW e \in BOOLEAN, NEW k \in Nat, NEW D,
         SoundAt(R, n, h, v, sb, e), Chain(R, n, k, D),
         NEW r, Placed(r), IsNewest(Lay(R, r), r), r.block = n.block + n.len,
         r.kind = "checkpoint", r.whole, r.ck = k + 1, r.tail.block = n.tail.block,
         r.last => r.first \/ StartsIn(Walk(R, n), k + 1),
         NEW w, NEW j, NEW d, Counts(r, v, w, k, j, d)
  PROVE  /\ SoundAt(Lay(R, r), r, h, w, sb, e) /\ Chain(Lay(R, r), r, j, d)
         /\ r.first \/ StartsIn(Walk(R, n), k + 1) => Begun(Lay(R, r), k + 1)
         /\ r.last => Covered(Lay(R, r), r.writes)
<1> DEFINE L == Lay(R, r)
           W == Walk(R, n)
           from == n.tail.block
<1>0. /\ Follows(W, n) /\ n.tail.block <= n.block /\ Numbered(W, k)
      /\ \A s \in W : s.kind = "checkpoint" => s.ck <= k \/ (s.ck = k + 1 /\ ~s.last)
  BY DEF Chain, Numbered
<1>1. Placed(n) /\ n \in W  BY NewestWalksItself DEF Tidy
<1>2. Walk(L, r) = W \cup {r}  BY <1>0, GrownWalk
<1>3. Follows(W \cup {r}, r)
  <2> HIDE DEF W
  <2>1. QED  BY <1>0, <1>1, GrownFollows
<1>4. Carries(Replays(W, from), h, v, e)  BY <1>0 DEF SoundAt
<1>5. from \in Nat /\ from <= r.block  BY <1>0, <1>1, PlacedFields
<1>6. ASSUME NEW s \in W PROVE Placed(s) /\ from <= s.block /\ s.block < r.block
  <2>1. s \in R /\ Between(from, n.block, s.block)  BY DEF Walk
  <2>2. Placed(s)  BY <2>1 DEF Tidy
  <2>3. QED  BY <1>0, <1>1, <2>1, <2>2, PlacedFields DEF Between
<1>61. r.last => r.first \/ StartsIn(W, k + 1)
  OBVIOUS
<1> HIDE DEF W, L, from
<1>7. ASSUME NEW b \in Blocks
      PROVE  /\ ~r.last => Replays(W \cup {r}, from)[b] = Replays(W, from)[b]
             /\ r.last /\ b \in r.writes => Replays(W \cup {r}, from)[b] = k + 1
             /\ r.last /\ b \notin r.writes =>
                  Replays(W \cup {r}, from)[b] = Replays(W, from)[b]
  <2>1. Numbered(W, k) /\ MetAfter(r, W, from)  BY <1>0, <1>5, <1>6 DEF MetAfter
  <2>2. CASE ~r.last  BY <2>1, <2>2, GrownReplaysMid
  <2>3. CASE r.last  BY <1>61, <2>1, <2>3, GrownReplaysLast
  <2>4. QED  BY <2>2, <2>3
<1>8. Carries(Replays(W \cup {r}, from), h, w, e)
  <2>1. SUFFICES ASSUME NEW b \in Blocks
        PROVE  /\ Replays(W \cup {r}, from)[b] # 0 => Replays(W \cup {r}, from)[b] = w[b]
               /\ Replays(W \cup {r}, from)[b] = 0 => e \/ h[b] = w[b]
    BY DEF Carries
  <2>2. /\ Replays(W, from)[b] # 0 => Replays(W, from)[b] = v[b]
        /\ Replays(W, from)[b] = 0 => e \/ h[b] = v[b]
    BY <1>4 DEF Carries
  <2>3. CASE r.last
    <3>1. w[b] = IF b \in r.writes THEN k + 1 ELSE v[b]  BY <2>3 DEF Counts
    <3>2. k + 1 # 0  OBVIOUS
    <3>3. QED  BY <1>7, <2>2, <2>3, <3>1, <3>2
  <2>4. CASE ~r.last
    <3>1. w = v  BY <2>4 DEF Counts
    <3>2. QED  BY <1>7, <2>2, <2>4, <3>1
  <2>5. QED  BY <2>3, <2>4
<1>9. r.tail.block = from  BY DEF from
<1>10. SoundAt(L, r, h, w, sb, e)
  <2>1. Carries(Replays(Walk(L, r), r.tail.block), h, w, e)  BY <1>2, <1>8, <1>9
  <2>2. Follows(Walk(L, r), r)  BY <1>2, <1>3
  <2>3. QED  BY <2>1, <2>2 DEF SoundAt
<1>11. Chain(L, r, j, d)
  <2>1. r.tail.block <= r.block  BY <1>5, <1>9
  <2>2. r.ck <= j \/ (d /\ r.ck = j + 1 /\ ~r.last)  BY DEF Counts
  <2>3. ASSUME NEW s \in W, s.kind = "checkpoint"
        PROVE  s.ck <= j \/ (d /\ s.ck = j + 1 /\ ~s.last)
    <3>1. s.ck <= k \/ (s.ck = k + 1 /\ ~s.last)  BY <1>0, <2>3
    <3>2. s.ck \in Nat  BY <1>6, PlacedFields
    <3>3. CASE r.last  BY <3>1, <3>2, <3>3 DEF Counts
    <3>4. CASE ~r.last  BY <3>1, <3>2, <3>4 DEF Counts
    <3>5. QED  BY <3>3, <3>4
  <2>4. Follows(Walk(L, r), r)  BY <1>2, <1>3
  <2>5. QED  BY <1>2, <2>1, <2>2, <2>3, <2>4 DEF Chain
<1>12. ASSUME r.first \/ StartsIn(W, k + 1)
       PROVE  Begun(L, k + 1)
  <2>1. StartsIn(Walk(L, r), k + 1)  BY <1>2, <1>12 DEF StartsIn
  <2>2. r \in L  BY DEF IsNewest, L
  <2>3. QED  BY <2>1, <2>2 DEF Begun, L
<1>13. ASSUME r.last PROVE Covered(L, r.writes)
  <2>1. \A b \in r.writes : b \in Blocks  BY PlacedFields
  <2>2. Replays(Walk(L, r), r.tail.block) = Replays(W \cup {r}, from)  BY <1>2, <1>9
  <2>3. k + 1 # 0  OBVIOUS
  <2>4. \A b \in r.writes : Replays(W \cup {r}, from)[b] # 0
    BY <1>7, <1>13, <2>1, <2>3
  <2>5. r \in L  BY DEF IsNewest, L
  <2>6. QED  BY <2>2, <2>4, <2>5 DEF Covered, L
<1>14. QED  BY <1>10, <1>11, <1>12, <1>13 DEF L, W

LEMMA LayUnmount ==
  ASSUME NEW L, NEW r, r.kind = "unmount",
         NEW h, NEW v, NEW sb, NEW e, h = v, sb = v[AgBlock], ~e, NEW k, NEW d
  PROVE  SoundAt(L, r, h, v, sb, e) /\ Chain(L, r, k, d)
BY DEF SoundAt, Chain

-----------------------------------------------------------------------------
(* Where the next record goes *)

\* With nothing logged, what the scan of the ring answers.
LEMMA PlainReady ==
  ASSUME NEW R, Tidy(R), NEW h, NEW v, NEW sb, NEW e, Plain(R, h, v, sb, e),
         NEW c \in Nat, NEW p \in Nat, NEW k, NEW d,
         R = {} => p = 0, \A n \in R : IsNewest(R, n) => Ends(n, c, p)
  PROVE  Ready(R, c, p, h, v, sb, e, k, d)
<1>0. h = v /\ ~e  BY DEF Plain
<1>1. CASE R = {}
  <2>1. Kept(R, c, p) = {} /\ p = 0  BY <1>1 DEF Kept
  <2>2. QED  BY <1>0, <1>1, <2>1 DEF Ready
<1>2. CASE R # {}
  <2>1. PICK n \in R : /\ IsNewest(R, n)
                       /\ (n.kind = "unmount" /\ sb = v[AgBlock]) \/ PadAt(n, n.block)
    BY <1>2 DEF Plain
  <2>2. Ends(n, c, p)  BY <2>1
  <2>3. \A s \in R : s.cycle < c \/ (s.cycle = c /\ s.block < p)  BY <2>1, <2>2, BelowHead
  <2>4. \A s \in R : Placed(s)  BY DEF Tidy
  <2>5. \A s \in R : ~(s.cycle = c /\ s.block = p)  BY <2>3, <2>4, PlacedFields
  <2>6. Kept(R, c, p) = R  BY <2>5 DEF Kept
  <2>7. SoundAt(R, n, h, v, sb, e) /\ Chain(R, n, k, d)
    <3>1. CASE n.kind = "unmount" /\ sb = v[AgBlock]
      BY <1>0, <3>1, LayUnmount
    <3>2. CASE PadAt(n, n.block)  BY <1>0, <3>2, PadSound
    <3>3. QED  BY <2>1, <3>1, <3>2
  <2>8. QED  BY <1>0, <2>1, <2>2, <2>6, <2>7 DEF Ready
<1>3. QED  BY <1>1, <1>2

\* After a wrap, block 0 of the next cycle.
LEMMA BeginReady ==
  ASSUME NEW R, Tidy(R), NEW c \in Nat, NEW n \in R, IsNewest(R, n),
         n.cycle = c, n.block + n.len = LogBlocks,
         NEW h, NEW v, NEW sb, NEW e, h = v, ~e, NEW k, NEW d,
         SoundAt(R, n, h, v, sb, e), Chain(R, n, k, d)
  PROVE  Ready(R, c + 1, 0, h, v, sb, e, k, d)
<1>1. \A s \in R : s.cycle <= c
  <2>1. \A s \in R : AtOrBefore(s, n) /\ Placed(s)  BY DEF IsNewest, Tidy
  <2>2. QED  BY <2>1, PlacedFields DEF AtOrBefore
<1>2. \A s \in R : ~(s.cycle = c + 1 /\ s.block = 0)  BY <1>1
<1>3. Kept(R, c + 1, 0) = R  BY <1>2 DEF Kept
<1>4. Ends(n, c + 1, 0)  BY DEF Ends
<1>5. QED  BY <1>3, <1>4 DEF Ready

\* With no blocks left before the end of the ring the last record ends there.
LEMMA FullReady ==
  ASSUME NEW R, Tidy(R), NEW c \in Nat,
         NEW h, NEW v, NEW sb, NEW e, h = v, ~e, NEW k, NEW d,
         Ready(R, c, LogBlocks, h, v, sb, e, k, d)
  PROVE  Ready(R, c + 1, 0, h, v, sb, e, k, d)
<1>0. LogBlocks \in Nat /\ LogBlocks # 0  OBVIOUS
<1>1. Kept(R, c, LogBlocks) = R
  <2>1. ASSUME NEW s \in R PROVE s.block < LogBlocks
    <3>1. Placed(s)  BY DEF Tidy
    <3>2. QED  BY <3>1, PlacedFields
  <2>2. ASSUME NEW s \in R PROVE s.block # LogBlocks
    <3>1. Placed(s)  BY DEF Tidy
    <3>2. QED  BY <2>1, <3>1, PlacedFields
  <2>3. QED  BY <2>2 DEF Kept
<1>2. PICK n \in R : /\ IsNewest(R, n) /\ Ends(n, c, LogBlocks)
                     /\ SoundAt(R, n, h, v, sb, e) /\ Chain(R, n, k, d)
  BY <1>0, <1>1 DEF Ready
<1>3. n.cycle = c /\ n.block + n.len = LogBlocks  BY <1>0, <1>2 DEF Ends
<1>4. QED  BY <1>2, <1>3, BeginReady

\* A pad whose wrap was refused leaves the place in front of it.
LEMMA PadLeftReady ==
  ASSUME NEW R, Tidy(R), NEW c \in Nat, NEW p \in Nat, p # 0,
         NEW h, NEW v, NEW sb, NEW e, h = v, ~e, NEW k, NEW d,
         Ready(R, c, p, h, v, sb, e, k, d),
         NEW r, Placed(r), r.cycle = c, r.block = p, PadAt(r, p)
  PROVE  Ready(Lay(R, r), c, p, h, v, sb, e, k, d)
<1> DEFINE K == Kept(R, c, p)
           L == Lay(R, r)
<1>1. Tidy(K)  BY KeptSplit
<1>20. Bare(R, r) = Bare(K, r)  BY BareOfKept
<1>2. L = Bare(K, r) \cup {r}  BY <1>20 DEF Lay
<1>3. Kept(L, c, p) = Bare(K, r) /\ \A s \in L \ Kept(L, c, p) : s = r
  <2>1. \A s \in Bare(K, r) : ~(s.cycle = c /\ s.block = p)  BY DEF Bare, Kept
  <2> HIDE DEF K, L
  <2>2. QED  BY <1>2, <2>1 DEF Kept
<1>4. PICK n \in K : /\ IsNewest(K, n) /\ Ends(n, c, p)
                     /\ SoundAt(K, n, h, v, sb, e) /\ Chain(K, n, k, d)
  BY DEF Ready
<1>5. r.block = n.block + n.len  BY <1>4 DEF Ends
<1> HIDE DEF K, L
<1>6. IsNewest(Bare(K, r), n)  BY <1>1, <1>4, <1>5, WalkStays
<1>7. n.kind # "unmount" => Walk(Bare(K, r), n) = Walk(K, n)
  <2>1. n.kind # "unmount" => n.tail.block <= n.block  BY <1>4 DEF Chain
  <2>2. QED  BY <1>1, <1>4, <1>5, <2>1, WalkStays
<1>8. SoundAt(Bare(K, r), n, h, v, sb, e)  BY <1>4, <1>7, SameWalk
<1>9. Chain(Bare(K, r), n, k, d)  BY <1>4, <1>7 DEF Chain
<1>10. n \in Bare(K, r)  BY <1>6 DEF IsNewest
<1>11. Ready(L, c, p, h, v, sb, e, k, d)
  BY <1>3, <1>4, <1>6, <1>8, <1>9, <1>10 DEF Ready
<1>12. QED  BY <1>11 DEF L

\* What the push leaves at home does not change what the log says, nor do
\* the counters put into the superblock after it.
LEMMA PushedAt ==
  ASSUME NEW R, NEW n, NEW h, NEW v, NEW sb, NEW e, SoundAt(R, n, h, v, sb, e),
         NEW x, x = sb \/ x = v[AgBlock]
  PROVE  SoundAt(R, n, v, v, x, FALSE)
BY DEF SoundAt, Carries

LEMMA PushedReady ==
  ASSUME NEW R, NEW c, NEW p, NEW h, NEW v, NEW sb, NEW e, NEW k, NEW d,
         Ready(R, c, p, h, v, sb, e, k, d), NEW x, x = sb \/ x = v[AgBlock]
  PROVE  Ready(R, c, p, v, v, x, FALSE, k, d)
<1> DEFINE K == Kept(R, c, p)
<1>1. \/ K = {} /\ p = 0
      \/ \E n \in K : /\ IsNewest(K, n) /\ Ends(n, c, p)
                      /\ SoundAt(K, n, v, v, x, FALSE) /\ Chain(K, n, k, d)
  BY PushedAt DEF Ready
<1>2. \A s \in R \ K : PadAt(s, p) /\ p # 0  BY DEF Ready
<1>3. QED  BY <1>1, <1>2 DEF Ready

LEMMA PushedSound ==
  ASSUME NEW R, NEW h, NEW v, NEW sb, NEW e, Sound(R, h, v, sb, e),
         NEW x, x = sb \/ x = v[AgBlock]
  PROVE  Sound(R, v, v, x, FALSE)
BY PushedAt DEF Sound

LEMMA PushedPlain ==
  ASSUME NEW R, NEW h, NEW v, NEW sb, NEW e, Plain(R, h, v, sb, e),
         NEW x, x = sb \/ x = v[AgBlock]
  PROVE  Plain(R, v, v, x, FALSE)
BY DEF Plain

\* A push that stopped part way: every block is as it was or as it should be.
LEMMA PartSound ==
  ASSUME NEW R, NEW h \in [Blocks -> Nat], NEW v \in [Blocks -> Nat], NEW sb, NEW e,
         Sound(R, h, v, sb, e),
         NEW g \in [Blocks -> Nat], \A b \in Blocks : g[b] = h[b] \/ g[b] = v[b]
  PROVE  Sound(R, g, v, sb, e)
<1>1. h = v => g = v
  <2>1. SUFFICES ASSUME h = v PROVE \A b \in Blocks : g[b] = v[b]  OBVIOUS
  <2>2. QED  BY <2>1
<1>2. \A i : Carries(i, h, v, e) => Carries(i, g, v, e)  BY DEF Carries
<1>3. ASSUME NEW n, SoundAt(R, n, h, v, sb, e) PROVE SoundAt(R, n, g, v, sb, e)
  BY <1>1, <1>2, <1>3 DEF SoundAt
<1>4. QED  BY <1>1, <1>3 DEF Sound

\* The same when the operation's own images are not held yet: the newest
\* checkpoint in the log has them.
LEMMA PartBoundSound ==
  ASSUME NEW R, Tidy(R), NEW h, NEW v, NEW sb, NEW e,
         Sound(R, h, v, sb, e), Heals(R), NEW w, Covered(R, w),
         NEW g, \A b \in Blocks \ w : g[b] = h[b] \/ g[b] = v[b]
  PROVE  Sound(R, g, v, sb, e)
<1>1. PICK n \in R : /\ IsNewest(R, n) /\ n.kind = "checkpoint"
                     /\ \A b \in w : Replays(Walk(R, n), n.tail.block)[b] # 0
  BY DEF Covered
<1>2. SoundAt(R, n, h, v, sb, e)  BY <1>1, NewestUnique DEF Sound
<1>3. Follows(Walk(R, n), n)  BY <1>1, NewestUnique DEF Heals
<1>4. Carries(Replays(Walk(R, n), n.tail.block), h, v, e)
  BY <1>1, <1>2, <1>3 DEF SoundAt
<1>5. Carries(Replays(Walk(R, n), n.tail.block), g, v, e)
  BY <1>1, <1>4 DEF Carries
<1>6. SoundAt(R, n, g, v, sb, e)  BY <1>1, <1>3, <1>5 DEF SoundAt
<1>7. QED  BY <1>1, <1>6 DEF Sound

-----------------------------------------------------------------------------
(* The ring of a state *)

LEMMA LandedIsLay == \A r : Landed(r) = Lay(ring, r)
BY DEF Landed, Lay, Bare

LEMMA TornIs ==
  ASSUME NEW r, NEW t \in Torn(r)
  PROVE  \/ t = Lay(ring, r) \/ t = ring \/ t = Bare(ring, r) \cup {Cut(r)}
         \/ t = Bare(ring, r) \/ t = Spoil(ring, r)
<1> DEFINE under == {s \in ring : Overlaps(s, r)}
           spoiled == {[s EXCEPT !.whole = FALSE] : s \in under}
<1>1. ring \ under = Bare(ring, r)  BY DEF Bare
<1>2. \/ t = Landed(r) \/ t = ring
      \/ t = (ring \ under) \cup {[r EXCEPT !.whole = FALSE]}
      \/ t = (ring \ under) \cup {} \/ t = (ring \ under) \cup spoiled
  BY DEF Torn
<1>3. spoiled = {Cut(s) : s \in under}  BY DEF Cut
<1>4. (ring \ under) \cup spoiled = Spoil(ring, r)  BY <1>1, <1>3 DEF Spoil
<1>5. (ring \ under) \cup {} = Bare(ring, r)  BY <1>1
<1>6. (ring \ under) \cup {[r EXCEPT !.whole = FALSE]} = Bare(ring, r) \cup {Cut(r)}
  BY <1>1 DEF Cut
<1> HIDE DEF under, spoiled
<1>7. QED  BY <1>2, <1>4, <1>5, <1>6, LandedIsLay

LEMMA NewestIs ==
  ASSUME Tidy(ring), NEW n, IsNewest(ring, n)
  PROVE  Newest = n /\ ring # {}
<1>1. \E m \in ring : \A s \in ring : AtOrBefore(s, m)  BY DEF IsNewest
<1>2. IsNewest(ring, Newest)  BY <1>1 DEF Newest, IsNewest
<1>3. QED  BY <1>1, <1>2, NewestUnique

LEMMA NewestIsNewest ==
  ASSUME Tidy(ring), ring # {}
  PROVE  IsNewest(ring, Newest)
<1>1. RingOK  BY DEF Tidy, Placed, RingOK
<1>2. QED  BY <1>1, NewestInRing DEF IsNewest

LEMMA ReachesIsFollows == \A n : WalkReaches(n) <=> Follows(Walk(ring, n), n)
BY DEF WalkReaches, Walked, Follows, Walk

LEMMA ReplayedIsReplays == \A n : Replayed(n) = Replays(Walk(ring, n), n.tail.block)
<1>1. \A n : Applied(n) = Applies(Walk(ring, n))  BY DEF Applied, Applies, Walked, Walk
<1>2. \A n : Replayed(n) =
        [b \in Blocks |-> IF {r \in Applied(n) : b \in r.writes} = {} THEN 0
                          ELSE MetLast(n.tail.block, {r \in Applied(n) : b \in r.writes}).ck]
  BY DEF Replayed
<1>3. QED  BY <1>1, <1>2 DEF Replays, Writers

LEMMA HealsRecovers ==
  ASSUME Tidy(ring), Heals(ring)
  PROVE  Recoverable
<1>1. CASE ring = {}  BY <1>1 DEF Recoverable, NeedsReplay
<1>2. CASE ring # {}
  <2>1. PICK n \in ring : IsNewest(ring, n) /\ (n.kind = "unmount" \/ Follows(Walk(ring, n), n))
    BY <1>2 DEF Heals
  <2>2. Newest = n  BY <2>1, NewestIs
  <2>3. QED  BY <2>1, <2>2, ReachesIsFollows DEF Recoverable, NeedsReplay
<1>3. QED  BY <1>1, <1>2

LEMMA CarriesReads ==
  ASSUME NEW h \in [Blocks -> Nat], NEW i \in [Blocks -> Nat], NEW v \in [Blocks -> Nat],
         Carries(i, h, v, FALSE)
  PROVE  Over(h, i) = v
<1>1. \A b \in Blocks : Over(h, i)[b] = v[b]  BY DEF Over, Carries
<1>2. Over(h, i) \in [Blocks -> Nat]  BY OverType
<1>3. QED  BY <1>1, <1>2

\* What a sound log says of the volume.
LEMMA SoundSays ==
  ASSUME Tidy(ring), SoundNow, home \in [Blocks -> Nat], view \in [Blocks -> Nat]
  PROVE  CrashSafeUnlessExposed /\ TornWrapLosesNothing /\ CleanMeansSettled
<1>1. CASE ring = {}
  <2>1. home = view  BY <1>1 DEF SoundNow, Sound
  <2>2. QED
    BY <1>1, <2>1 DEF CrashSafeUnlessExposed, CrashSafe, Recovered, NeedsReplay,
                      TornWrapLosesNothing, CleanMeansSettled, LogStates
<1>2. CASE ring # {}
  <2>1. PICK n \in ring : IsNewest(ring, n) /\ SoundAt(ring, n, home, view, sbCount, exposed)
    BY <1>2 DEF SoundNow, Sound
  <2>2. Newest = n  BY <2>1, NewestIs
  <2>3. CASE n.kind = "unmount"
    <3>1. home = view /\ sbCount = view[AgBlock]  BY <2>1, <2>3 DEF SoundAt
    <3>2. ~NeedsReplay  BY <2>2, <2>3 DEF NeedsReplay
    <3>3. QED  BY <3>1, <3>2 DEF CrashSafeUnlessExposed, CrashSafe, Recovered,
                                 TornWrapLosesNothing, CleanMeansSettled
  <2>4. CASE n.kind # "unmount"
    <3>1. LogStates = {"NeedsReplay"}  BY <1>2, <2>2, <2>4 DEF LogStates
    <3>2. CleanMeansSettled  BY <3>1 DEF CleanMeansSettled
    <3>3. Recoverable <=> Follows(Walk(ring, n), n)
      BY <1>2, <2>2, <2>4, ReachesIsFollows DEF Recoverable, NeedsReplay
    <3>4. TornWrapLosesNothing
      BY <2>1, <2>2, <2>4, <3>3 DEF TornWrapLosesNothing, SoundAt
    <3>5. ASSUME ~exposed, Recoverable PROVE Recovered = view
      <4> DEFINE i == Replays(Walk(ring, n), n.tail.block)
      <4>1. Recovered = Over(home, i)
        BY <1>2, <2>2, <2>4, ReplayedIsReplays DEF Recovered, NeedsReplay
      <4>2. Carries(i, home, view, exposed)  BY <2>1, <2>4, <3>3, <3>5 DEF SoundAt
      <4>3. i \in [Blocks -> Nat]
        <5>1. RingOK  BY DEF Tidy, Placed, RingOK
        <5>2. QED  BY <1>2, <2>2, <5>1, ReplayedType, ReplayedIsReplays
      <4> HIDE DEF i
      <4>4. Carries(i, home, view, FALSE)  BY <3>5, <4>2 DEF Carries
      <4>5. QED  BY <4>1, <4>3, <4>4, CarriesReads
    <3>6. QED  BY <3>2, <3>4, <3>5 DEF CrashSafeUnlessExposed, CrashSafe
  <2>5. QED  BY <2>3, <2>4
<1>3. QED  BY <1>1, <1>2

-----------------------------------------------------------------------------
(* The parts of an action, again *)

LEMMA NothingRead ==
  ASSUME NEW h, NEW v, h = v
  PROVE  Carries(NoImages, h, v, FALSE)
BY DEF NoImages, Carries

LEMMA ReadNothing ==
  ASSUME NEW h \in [Blocks -> Nat], NEW v \in [Blocks -> Nat], Carries(NoImages, h, v, FALSE)
  PROVE  h = v
<1>1. \A b \in Blocks : h[b] = v[b]  BY DEF Carries, NoImages
<1>2. QED  BY <1>1

LEMMA SafeForgotten ==
  ASSUME Forget, Tidy(ring)', SoundNow'
  PROVE  Safe'
<1>1. /\ mnt' = "off" /\ overlay' = NoImages /\ oldest' = None /\ nextHead' = None
      /\ pc' = "idle"
  BY DEF Forget
<1>2. ~logged' /\ ~failed'  BY DEF Forget
<1>3. MountSays'  BY <1>1, <1>2 DEF MountSays, NoImages
<1>4. QED  BY <1>1, <1>3 DEF Safe

LEMMA SafeStopped ==
  ASSUME mnt = "rw", NEW why, Returns(why, TRUE), Tidy(ring)', SoundNow'
  PROVE  Safe'
<1>1. CASE cur.kind = "unmount"
  <2>1. Forget  BY <1>1 DEF Returns
  <2>2. QED  BY <2>1, SafeForgotten
<1>2. CASE cur.kind # "unmount"
  <2>1. failed' /\ pc' = "idle" /\ mnt' = "rw"  BY <1>2, Zenon DEF Returns
  <2>2. MountSays'  BY <2>1 DEF MountSays
  <2>3. QED  BY <2>1, <2>2 DEF Safe
<1>3. QED  BY <1>1, <1>2

\* A running mount, and what it says of its log.
LEMMA RunningNow ==
  ASSUME Inv, Safe, Writable
  PROVE  Running /\ mnt = "rw" /\ ~failed
BY DEF Safe, Writable

LEMMA StageIsWritable ==
  ASSUME Safe, pc # "idle"
  PROVE  Writable
BY DEF Safe, MountSays, Writable

LEMMA HeldNothingIsHome ==
  ASSUME Inv, Running, pc # "bound", NothingHeld
  PROVE  overlay = NoImages /\ home = view
<1>1. overlay = NoImages /\ Carries(overlay, home, view, FALSE)  BY DEF Running
<1>2. home \in [Blocks -> Nat] /\ view \in [Blocks -> Nat]  BY DEF Inv, DeviceOK, HistOK
<1>3. QED  BY <1>1, <1>2, ReadNothing

LEMMA PushedIsView ==
  ASSUME Inv, Running, pc # "bound"
  PROVE  Over(home, overlay) = view
<1>1. Carries(overlay, home, view, FALSE)  BY DEF Running
<1>2. QED  BY <1>1, CarriesReads DEF Inv, DeviceOK, HistOK, MountOK

LEMMA AtRestHeals ==
  ASSUME Inv, Safe, AtRest
  PROVE  Heals(ring)
<1>1. CASE nextHead = None
  BY <1>1, PlainSound DEF AtRest, PlainNow, Safe
<1>2. CASE nextHead # None
  <2>1. nextHead.cycle \in Nat /\ nextHead.block \in Nat
    BY <1>2 DEF Inv, MountOK, HeadOK, HeadInRing, HeadPos
  <2>2. QED  BY <1>2, <2>1, ReadySound DEF AtRest, ReadyAt, Safe
<1>3. QED  BY <1>1, <1>2

\* However far a push gets, the log stays sound.
LEMMA PartPushSound ==
  ASSUME Inv, Safe, Writable, pc \in {"idle", "wrap", "bound"}, NEW some \in SUBSET Held,
         home' = [b \in Blocks |-> IF b \in some THEN overlay[b] ELSE home[b]],
         UNCHANGED <<ring, sbCount, hist>>
  PROVE  Tidy(ring)' /\ SoundNow'
<1>0. Tidy(ring) /\ SoundNow /\ Running  BY RunningNow DEF Safe
<1>1. home \in [Blocks -> Nat] /\ overlay \in [Blocks -> Nat] /\ view \in [Blocks -> Nat]
  BY DEF Inv, DeviceOK, MountOK, HistOK
<1>2. home' \in [Blocks -> Nat]  BY <1>1
<1>3. \A b \in Blocks : home'[b] = home[b] \/ (overlay[b] # 0 /\ home'[b] = overlay[b])
  BY DEF Held
<1>4. UNCHANGED <<ring, sbCount, view, exposed>>  BY DEF hist
<1>5. CASE pc # "bound"
  <2>1. Carries(overlay, home, view, FALSE)  BY <1>0, <1>5 DEF Running
  <2>2. \A b \in Blocks : home'[b] = home[b] \/ home'[b] = view[b]
    BY <1>3, <2>1 DEF Carries
  <2>3. Sound(ring, home', view, sbCount, exposed)
    BY <1>0, <1>1, <1>2, <2>2, PartSound DEF SoundNow
  <2>4. QED  BY <1>0, <1>4, <2>3 DEF SoundNow
<1>6. CASE pc = "bound"
  <2>1. BoundOK /\ AtRest  BY <1>0, <1>6 DEF Running
  <2>2. Heals(ring)  BY <2>1, AtRestHeals
  <2>3. ASSUME NEW b \in Blocks \ cur.writes PROVE home'[b] = home[b] \/ home'[b] = view[b]
    <3>1. Images(count)[b] = 0  BY DEF Images
    <3>2. Over(home, overlay)[b] = view[b]  BY <2>1, <3>1 DEF BoundOK, Carries
    <3>3. overlay[b] # 0 => overlay[b] = view[b]  BY <3>2 DEF Over
    <3>4. QED  BY <1>3, <3>3
  <2>4. Sound(ring, home, view, sbCount, exposed) /\ Covered(ring, cur.writes)
    BY <1>0, <2>1 DEF SoundNow, BoundOK
  <2>5. Sound(ring, home', view, sbCount, exposed)
    BY <1>0, <2>2, <2>3, <2>4, PartBoundSound
  <2>6. QED  BY <1>0, <1>4, <2>5 DEF SoundNow
<1>7. QED  BY <1>5, <1>6

LEMMA PushFailsSafe ==
  ASSUME Inv, Safe, Writable, pc \in {"idle", "wrap", "bound"}, PushFails
  PROVE  Safe'
<1>1. PICK some \in SUBSET Held :
        home' = [b \in Blocks |-> IF b \in some THEN overlay[b] ELSE home[b]]
  BY DEF PushFails
<1>2. UNCHANGED <<ring, sbCount, hist>> /\ Returns("io", TRUE)  BY DEF PushFails
<1>3. Tidy(ring)' /\ SoundNow'  BY <1>1, <1>2, PartPushSound
<1>4. QED  BY <1>2, <1>3, SafeStopped DEF Writable

\* A write cut short where the next record goes.
LEMMA TornSound ==
  ASSUME Inv, Tidy(ring), NEW c \in Nat, NEW p \in Nat, NEW d, ReadyAt(c, p, d),
         NEW r, Placed(r), r.cycle = c, r.block = p,
         r.kind = "unmount" => home = view /\ sbCount = view[AgBlock] /\ ~exposed,
         NEW t \in Torn(r)
  PROVE  Tidy(t) /\ (t # Lay(ring, r) => Sound(t, home, view, sbCount, exposed))
<1>0. Ready(ring, c, p, home, view, sbCount, exposed, count, d)  BY DEF ReadyAt
<1>1. \/ t = Lay(ring, r) \/ t = ring \/ t = Bare(ring, r) \cup {Cut(r)}
      \/ t = Bare(ring, r) \/ t = Spoil(ring, r)
  BY TornIs
<1>2. Tidy(t)  BY <1>1, LayTidy, CutLayTidy, BareTidy, SpoilTidy
<1>3. Sound(ring, home, view, sbCount, exposed)  BY <1>0, ReadySound
<1>4. Sound(Bare(ring, r), home, view, sbCount, exposed)  BY <1>0, BareSound
<1>5. Sound(Spoil(ring, r), home, view, sbCount, exposed)  BY <1>0, SpoilSound
<1>6. Sound(Bare(ring, r) \cup {Cut(r)}, home, view, sbCount, exposed)  BY <1>0, CutSound
<1>7. QED  BY <1>1, <1>2, <1>3, <1>4, <1>5, <1>6

-----------------------------------------------------------------------------
(* The step *)

LEMMA SafeInit == Init => Safe
<1> SUFFICES ASSUME Init PROVE Safe  OBVIOUS
<1>1. CleanLog(ring)  BY DEF Init
<1>2. Tidy(ring)  BY <1>1 DEF CleanLog, Tidy, Placed
<1>3. home = view /\ ~exposed /\ sbCount = view[AgBlock]  BY DEF Init
<1>4. SoundNow
  <2>1. CASE ring = {}  BY <1>3, <2>1 DEF SoundNow, Sound
  <2>2. CASE ring # {}
    <3>1. PICK n \in ring : n.kind = "unmount" /\ \A s \in ring : AtOrBefore(s, n)
      BY <1>1, <2>2 DEF CleanLog
    <3>2. SoundAt(ring, n, home, view, sbCount, exposed)  BY <1>3, <3>1 DEF SoundAt
    <3>3. QED  BY <3>1, <3>2 DEF SoundNow, Sound, IsNewest
  <2>3. QED  BY <2>1, <2>2
<1>5. mnt = "off" /\ overlay = NoImages /\ oldest = None /\ nextHead = None /\ pc = "idle"
  BY DEF Init
<1>6. ~logged /\ ~failed  BY DEF Init
<1>7. MountSays  BY <1>5, <1>6 DEF MountSays
<1>8. QED  BY <1>2, <1>4, <1>5, <1>7 DEF Safe

\* Steps that leave the device and the history alone.
LEMMA DeviceAlone ==
  ASSUME Safe, UNCHANGED <<device, hist>>
  PROVE  Tidy(ring)' /\ SoundNow'
<1>1. UNCHANGED <<ring, home, sbCount, view, exposed>>  BY DEF device, hist
<1>2. QED  BY <1>1 DEF Safe, SoundNow

LEMMA MountRwSafe ==
  ASSUME Inv, Safe, MountRw
  PROVE  Safe'
<1>1. mnt = "off" /\ UNCHANGED <<device, overlay, oldest, nextHead, logged, failed, pc, cur, hist>>
  BY DEF MountRw
<1>2. UNCHANGED <<ring, home, sbCount, view, count, exposed>>  BY <1>1 DEF device, hist
<1>3. Tidy(ring)' /\ SoundNow'  BY <1>1, DeviceAlone
<1>4. overlay = NoImages /\ oldest = None /\ nextHead = None /\ ~logged /\ ~failed /\ pc = "idle"
  BY <1>1 DEF Safe, MountSays
<1>5. CASE mnt' = "off"
  <2>1. MountSays'  BY <1>1, <1>4, <1>5 DEF MountSays, NoImages
  <2>2. QED  BY <1>3, <1>5, <2>1 DEF Safe
<1>6. CASE mnt' = "rw" /\ \E s \in LogStates : s # "NeedsReplay"
  <2>1. PlainNow
    <3>1. CASE ring = {}
      BY <3>1 DEF Safe, SoundNow, Sound, PlainNow, Plain
    <3>2. CASE ring # {}
      <4>1. Newest.kind = "unmount"  BY <1>6, <3>2 DEF LogStates
      <4>2. PICK n \in ring : IsNewest(ring, n) /\ SoundAt(ring, n, home, view, sbCount, exposed)
        BY <3>2 DEF Safe, SoundNow, Sound
      <4>3. n.kind = "unmount"  BY <4>1, <4>2, NewestIs DEF Safe
      <4>4. home = view /\ sbCount = view[AgBlock] /\ ~exposed  BY <4>2, <4>3 DEF SoundAt
      <4>5. QED  BY <4>2, <4>3, <4>4 DEF PlainNow, Plain
    <3>3. QED  BY <3>1, <3>2
  <2>2. home = view /\ ~exposed  BY <2>1 DEF PlainNow, Plain
  <2>3. PlainNow'  BY <1>2, <2>1 DEF PlainNow
  <2>4. Carries(overlay, home, view, FALSE)'
    <3>1. Carries(NoImages, home, view, FALSE)  BY <2>2, NothingRead
    <3>2. Carries(overlay, home, view, FALSE)  BY <1>4, <3>1
    <3>3. QED  BY <1>1, <1>2, <3>2 DEF Carries
  <2>5. pc' = "idle" /\ nextHead' = None /\ oldest' = None /\ ~logged' /\ ~failed' /\ ~exposed'
        /\ overlay' = NoImages'
    BY <1>1, <1>2, <1>4, <2>2 DEF NoImages
  <2>6. AtRest'  BY <2>3, <2>5 DEF AtRest
  <2>7. Running'  BY <2>4, <2>5, <2>6 DEF Running, NothingHeld
  <2>8. MountSays'  BY <1>6, <2>5 DEF MountSays
  <2>9. QED  BY <1>3, <2>7, <2>8 DEF Safe
<1>7. QED  BY <1>1, <1>5, <1>6 DEF MountRw

LEMMA MountRoSafe ==
  ASSUME Inv, Safe, MountRo
  PROVE  Safe'
<1>1. mnt = "off" /\ UNCHANGED <<device, oldest, nextHead, logged, failed, pc, cur, hist>>
  BY DEF MountRo
<1>2. UNCHANGED <<ring, home, sbCount, view, count, exposed>>  BY <1>1 DEF device, hist
<1>3. Tidy(ring)' /\ SoundNow'  BY <1>1, DeviceAlone
<1>4. overlay = NoImages /\ oldest = None /\ nextHead = None /\ ~logged /\ ~failed /\ pc = "idle"
  BY <1>1 DEF Safe, MountSays
<1>5. oldest' = None /\ nextHead' = None /\ ~logged' /\ ~failed' /\ pc' = "idle"
  BY <1>1, <1>4
<1>6. CASE mnt' = "off" /\ overlay' = overlay
  <2>1. MountSays'  BY <1>4, <1>5, <1>6 DEF MountSays, NoImages
  <2>2. QED  BY <1>3, <1>6, <2>1 DEF Safe
<1>7. ASSUME mnt' = "ro", ~exposed => Carries(overlay', home, view, FALSE)
      PROVE  Safe'
  <2>1. ~exposed' => Carries(overlay', home', view', FALSE)  BY <1>2, <1>7
  <2>2. MountSays'  BY <1>5, <1>7, <2>1 DEF MountSays
  <2>3. QED  BY <1>3, <1>7, <2>2 DEF Safe
<1>8. CASE mnt' = "ro" /\ overlay' = overlay /\ \E s \in LogStates : s # "NeedsReplay"
  <2>1. home = view
    <3>1. CASE ring = {}  BY <3>1 DEF Safe, SoundNow, Sound
    <3>2. CASE ring # {}
      <4>1. Newest.kind = "unmount"  BY <1>8, <3>2 DEF LogStates
      <4>2. PICK n \in ring : IsNewest(ring, n) /\ SoundAt(ring, n, home, view, sbCount, exposed)
        BY <3>2 DEF Safe, SoundNow, Sound
      <4>3. n.kind = "unmount"  BY <4>1, <4>2, NewestIs DEF Safe
      <4>4. QED  BY <4>2, <4>3 DEF SoundAt
    <3>3. QED  BY <3>1, <3>2
  <2>2. Carries(NoImages, home, view, FALSE)  BY <2>1, NothingRead
  <2>3. QED  BY <1>4, <1>7, <1>8, <2>2
<1>9. CASE /\ mnt' = "ro" /\ overlay' = Replayed(Newest)
           /\ "NeedsReplay" \in LogStates /\ WalkReaches(Newest)
  <2>1. ring # {}  BY <1>9 DEF LogStates
  <2>2. Newest.whole  BY <1>9 DEF WalkReaches
  <2>3. Newest.kind # "unmount"  BY <1>9, <2>1, <2>2 DEF LogStates
  <2>4. PICK n \in ring : IsNewest(ring, n) /\ SoundAt(ring, n, home, view, sbCount, exposed)
    BY <2>1 DEF Safe, SoundNow, Sound
  <2>5. Newest = n  BY <2>4, NewestIs DEF Safe
  <2>6. Carries(Replays(Walk(ring, n), n.tail.block), home, view, exposed)
    BY <1>9, <2>3, <2>4, <2>5, ReachesIsFollows DEF SoundAt
  <2>7. overlay' = Replays(Walk(ring, n), n.tail.block)
    BY <1>9, <2>5, ReplayedIsReplays
  <2>8. ~exposed => Carries(overlay', home, view, FALSE)  BY <2>6, <2>7 DEF Carries
  <2>9. QED  BY <1>7, <1>9, <2>8
<1>10. QED  BY <1>1, <1>6, <1>8, <1>9 DEF MountRo

LEMMA CloseSafe ==
  ASSUME Inv, Safe, CloseRo \/ Crash
  PROVE  Safe'
<1>1. Forget /\ UNCHANGED <<device, hist>>  BY DEF CloseRo, Crash
<1>2. QED  BY <1>1, DeviceAlone, SafeForgotten

\* What a push that finished leaves to say of a running mount.
LEMMA PushedFacts ==
  ASSUME Inv, Safe, Writable, pc # "bound", Pushed, overlay' = NoImages,
         UNCHANGED <<ring, sbCount, mnt, nextHead, logged, failed, count, view>>
  PROVE  /\ Tidy(ring)' /\ SoundNow'
         /\ home' = view' /\ ~exposed' /\ NothingHeld' /\ overlay' = NoImages'
         /\ Carries(overlay, home, view, FALSE)'
         /\ Running /\ mnt' = "rw" /\ ~failed'
         /\ (logged <=> nextHead # None)'
         /\ PlainNow => PlainNow'
         /\ \A c, p, d : ReadyAt(c, p, d) => Ready(ring', c, p, home', view', sbCount', exposed', count', d)
<1>0. Running /\ mnt = "rw" /\ ~failed  BY RunningNow
<1>1. Over(home, overlay) = view  BY <1>0, PushedIsView
<1>2. home' = view /\ oldest' = None /\ exposed' = FALSE  BY <1>1 DEF Pushed
<1>3. Tidy(ring)'  BY DEF Safe
<1>4. Sound(ring, view, view, sbCount, FALSE)  BY PushedSound DEF Safe, SoundNow
<1>5. SoundNow'  BY <1>2, <1>4 DEF SoundNow
<1>6. Carries(NoImages, view, view, FALSE)  BY NothingRead
<1>7. Carries(overlay, home, view, FALSE)'  BY <1>2, <1>6
<1>8. (logged <=> nextHead # None)'  BY <1>0 DEF Running
<1>9. ASSUME PlainNow PROVE PlainNow'
  <2>1. Plain(ring, view, view, sbCount, FALSE)  BY <1>9, PushedPlain DEF PlainNow
  <2>2. QED  BY <1>2, <2>1 DEF PlainNow
<1>10. ASSUME NEW c, NEW p, NEW d, ReadyAt(c, p, d)
       PROVE  Ready(ring', c, p, home', view', sbCount', exposed', count', d)
  <2>1. Ready(ring, c, p, view, view, sbCount, FALSE, count, d)
    BY <1>10, PushedReady DEF ReadyAt
  <2>2. QED  BY <1>2, <2>1
<1>11. home' = view' /\ ~exposed' /\ NothingHeld' /\ overlay' = NoImages'
  BY <1>2 DEF NothingHeld, NoImages
<1>12. QED  BY <1>0, <1>3, <1>5, <1>7, <1>8, <1>9, <1>10, <1>11

LEMMA SafeAlone ==
  ASSUME Safe, UNCHANGED <<device, mount, pc, cur, hist>>
  PROVE  Safe'
<1>1. UNCHANGED <<ring, home, sbCount, view, count, exposed, mnt, overlay, oldest, nextHead,
                  logged, failed, pc, cur>>
  BY DEF device, mount, hist
<1>2. Tidy(ring)' /\ SoundNow'  BY DeviceAlone
<1>3. MountSays'  BY <1>1 DEF Safe, MountSays, NoImages
<1>4. AtRest => AtRest'  BY <1>1 DEF AtRest, PlainNow, ReadyAt
<1>5. OnTheWay => OnTheWay'  BY <1>1 DEF OnTheWay, PlainNow, ReadyAt
<1>6. Appending => Appending'  BY <1>1 DEF Appending, Position, ReadyAt, StartOf, LsnOf
<1>7. BoundOK => BoundOK'
  <2>1. Images(count)' = Images(count)  BY <1>1 DEF Images
  <2>2. Over(home, overlay)' = Over(home, overlay)  BY <1>1 DEF Over
  <2>3. QED  BY <1>1, <2>1, <2>2 DEF BoundOK
<1>8. Running => Running'  BY <1>1, <1>4, <1>5, <1>6, <1>7 DEF Running, NothingHeld, NoImages
<1>9. QED  BY <1>1, <1>2, <1>3, <1>8 DEF Safe

LEMMA PushedAtRest ==
  ASSUME Inv, Safe, Writable, pc = "idle", Pushed, overlay' = NoImages,
         UNCHANGED <<ring, sbCount, mnt, nextHead, logged, failed, count, view>>,
         pc' = "idle" \/ (pc' = "counters" /\ cur'.kind = "unmount")
  PROVE  Safe'
<1>1. /\ Tidy(ring)' /\ SoundNow'
      /\ home' = view' /\ ~exposed' /\ NothingHeld' /\ overlay' = NoImages'
      /\ Carries(overlay, home, view, FALSE)'
      /\ Running /\ mnt' = "rw" /\ ~failed'
      /\ (logged <=> nextHead # None)'
      /\ PlainNow => PlainNow'
      /\ \A c, p, d : ReadyAt(c, p, d) => Ready(ring', c, p, home', view', sbCount', exposed', count', d)
  BY PushedFacts
<1>2. AtRest  BY <1>1 DEF Running
<1>3. AtRest'
  <2>1. nextHead' = None => PlainNow'  BY <1>1, <1>2 DEF AtRest
  <2>2. ASSUME nextHead' # None
        PROVE  nextHead'.block # 0 /\ ReadyAt(nextHead.cycle, nextHead.block, FALSE)'
    <3>1. nextHead' = nextHead /\ nextHead # None  BY <2>2
    <3>2. nextHead.block # 0 /\ ReadyAt(nextHead.cycle, nextHead.block, FALSE)
      BY <1>2, <3>1 DEF AtRest
    <3>3. QED  BY <1>1, <3>1, <3>2 DEF ReadyAt
  <2>3. oldest' = None  BY <1>1 DEF NothingHeld
  <2>4. QED  BY <2>1, <2>2, <2>3 DEF AtRest
<1>4. Running'
  <2>1. pc' \notin {"bound", "wrap", "pad", "append"}  OBVIOUS
  <2>2. pc' = "counters" => cur'.kind = "unmount"  OBVIOUS
  <2>3. QED  BY <1>1, <1>3, <2>1, <2>2 DEF Running
<1>5. MountSays'  BY <1>1 DEF MountSays
<1>6. QED  BY <1>1, <1>4, <1>5 DEF Safe

LEMMA SyncSafe ==
  ASSUME Inv, Safe, Sync
  PROVE  Safe'
<1>0. Writable /\ pc = "idle"  BY DEF Sync
<1>1. CASE PushFails  BY <1>0, <1>1, PushFailsSafe
<1>2. CASE /\ Pushed /\ overlay' = NoImages
           /\ UNCHANGED <<ring, sbCount, mnt, nextHead, logged, failed, pc, cur, count, view>>
  BY <1>0, <1>2, PushedAtRest
<1>3. QED  BY <1>1, <1>2 DEF Sync

LEMMA UnmountPushSafe ==
  ASSUME Inv, Safe, UnmountPush
  PROVE  Safe'
<1>0. Writable /\ pc = "idle"  BY DEF UnmountPush
<1>1. CASE /\ Pushed /\ overlay' = NoImages
           /\ pc' = "counters" /\ cur' = [NoOp EXCEPT !.kind = "unmount"]
           /\ UNCHANGED <<ring, sbCount, mnt, nextHead, logged, failed, res, count, view>>
  <2>1. cur'.kind = "unmount"  BY <1>1 DEF NoOp
  <2>2. QED  BY <1>0, <1>1, <2>1, PushedAtRest
<1>2. CASE /\ \E some \in SUBSET Held :
                home' = [b \in Blocks |-> IF b \in some THEN overlay[b] ELSE home[b]]
           /\ res' = "io" /\ Forget
           /\ UNCHANGED <<ring, sbCount, hist>>
  <2>1. Tidy(ring)' /\ SoundNow'  BY <1>0, <1>2, PartPushSound
  <2>2. QED  BY <1>2, <2>1, SafeForgotten
<1>3. QED  BY <1>1, <1>2 DEF UnmountPush

LEMMA WrapPushSafe ==
  ASSUME Inv, Safe, WrapPush
  PROVE  Safe'
<1>0. Writable /\ pc = "wrap"  BY StageIsWritable DEF WrapPush
<1>1. CASE PushFails  BY <1>0, <1>1, PushFailsSafe
<1>2. CASE /\ Pushed /\ overlay' = NoImages /\ pc' = "pad"
           /\ UNCHANGED <<ring, sbCount, mnt, nextHead, logged, failed, cur, res, count, view>>
  <2>1. /\ Tidy(ring)' /\ SoundNow'
        /\ home' = view' /\ ~exposed' /\ NothingHeld' /\ overlay' = NoImages'
        /\ Carries(overlay, home, view, FALSE)'
        /\ Running /\ mnt' = "rw" /\ ~failed'
        /\ (logged <=> nextHead # None)'
        /\ PlainNow => PlainNow'
        /\ \A c, p, d : ReadyAt(c, p, d) => Ready(ring', c, p, home', view', sbCount', exposed', count', d)
    BY <1>0, <1>2, PushedFacts
  <2>2. OnTheWay  BY <1>0, <2>1 DEF Running
  <2>3. OnTheWay'
    <3>1. nextHead' = None => PlainNow'  BY <1>2, <2>1, <2>2 DEF OnTheWay
    <3>2. nextHead' # None => cur'.head = nextHead' /\ nextHead'.block # 0
      BY <1>2, <2>2 DEF OnTheWay
    <3>3. ReadyAt(cur.head.cycle, cur.head.block, FALSE)'
      BY <1>2, <2>1, <2>2 DEF OnTheWay, ReadyAt
    <3>4. QED  BY <3>1, <3>2, <3>3 DEF OnTheWay
  <2>4. Running'
    <3>1. cur'.kind = "unmount" => sbCount' = view'[AgBlock]
      BY <1>0, <1>2, <2>1 DEF Running
    <3>2. QED  BY <1>2, <2>1, <2>3, <3>1 DEF Running
  <2>5. MountSays'  BY <2>1 DEF MountSays
  <2>6. QED  BY <2>1, <2>4, <2>5 DEF Safe
<1>3. QED  BY <1>1, <1>2 DEF WrapPush

LEMMA BoundPushSafe ==
  ASSUME Inv, Safe, BoundPush
  PROVE  Safe'
<1>0. Writable /\ pc = "bound"  BY StageIsWritable DEF BoundPush
<1>1. CASE PushFails  BY <1>0, <1>1, PushFailsSafe
<1>2. CASE /\ home' = Over(home, overlay) /\ oldest' = None
           /\ exposed' = TRUE /\ overlay' = Images(count)
           /\ pc' = "idle" /\ cur' = NoOp
           /\ UNCHANGED <<ring, sbCount, mnt, nextHead, logged, failed, res, count, view>>
  <2>0. Running /\ mnt = "rw" /\ ~failed /\ Tidy(ring)  BY <1>0, RunningNow DEF Safe
  <2>1. BoundOK /\ AtRest  BY <1>0, <2>0 DEF Running
  <2>2. nextHead # None /\ nextHead.block # 0 /\ ReadyAt(nextHead.cycle, nextHead.block, FALSE)
    BY <2>1 DEF BoundOK, AtRest
  <2>3. PICK n \in ring : IsNewest(ring, n) /\ n.kind = "checkpoint"
    BY <2>1 DEF BoundOK, Covered
  <2> DEFINE c == nextHead.cycle
             p == nextHead.block
  <2>4. c \in Nat /\ p \in Nat  BY <2>2 DEF Inv, MountOK, HeadOK, HeadInRing, HeadPos
  <2>5. Ready(ring, c, p, home, view, sbCount, exposed, count, FALSE)  BY <2>2 DEF ReadyAt
  <2>55. p # 0  BY <2>2
  <2> HIDE DEF c, p
  <2>6. /\ Kept(ring, c, p) = ring
        /\ Ends(n, c, p) /\ SoundAt(ring, n, home, view, sbCount, exposed)
        /\ Chain(ring, n, count, FALSE)
    BY <2>0, <2>3, <2>4, <2>5, KeptWhole
  <2>8. SoundAt(ring, n, home', view, sbCount, TRUE)
    <3>1. Follows(Walk(ring, n), n)  BY <2>3, <2>6 DEF Chain
    <3>2. Carries(Replays(Walk(ring, n), n.tail.block), home, view, exposed)
      BY <2>3, <2>6, <3>1 DEF SoundAt
    <3>3. Carries(Replays(Walk(ring, n), n.tail.block), home', view, TRUE)
      BY <3>2 DEF Carries
    <3>4. QED  BY <2>3, <3>1, <3>3 DEF SoundAt
  <2>9. Ready(ring, c, p, home', view, sbCount, TRUE, count, FALSE)
    BY <2>3, <2>55, <2>6, <2>8 DEF Ready
  <2>10. Sound(ring, home', view, sbCount, TRUE)  BY <2>3, <2>8 DEF Sound
  <2>11. Tidy(ring)' /\ SoundNow'  BY <1>2, <2>0, <2>10 DEF SoundNow
  <2>12. AtRest'
    <3>1. ReadyAt(nextHead.cycle, nextHead.block, FALSE)'  BY <1>2, <2>9 DEF ReadyAt, c, p
    <3>2. QED  BY <1>2, <2>2, <3>1 DEF AtRest
  <2>13. Carries(overlay, home, view, FALSE)'
    <3>1. Carries(Images(count), Over(home, overlay), view, FALSE)  BY <2>1 DEF BoundOK
    <3>2. QED  BY <1>2, <3>1
  <2>14. Running'
    <3>1. (logged <=> nextHead # None)'  BY <1>2, <2>0 DEF Running
    <3>2. nextHead' # None /\ pc' = "idle" /\ exposed'  BY <1>2, <2>2
    <3>3. QED  BY <2>12, <2>13, <3>1, <3>2 DEF Running, NothingHeld
  <2>15. MountSays'  BY <1>2, <2>0 DEF MountSays
  <2>16. QED  BY <2>11, <2>14, <2>15 DEF Safe
<1>3. QED  BY <1>1, <1>2 DEF BoundPush

LEMMA WriteInPlaceSafe ==
  ASSUME Inv, Safe, NEW b \in Blocks \ {AgBlock}, WriteInPlace(b)
  PROVE  Safe'
<1>0. Writable /\ pc = "idle"  BY DEF WriteInPlace
<1>1. CASE /\ ~logged
           /\ home' = [home EXCEPT ![b] = count + 1]
           /\ view' = [view EXCEPT ![b] = count + 1]
           /\ UNCHANGED <<ring, sbCount, mount, pc, cur, exposed>>
  <2>0. Running /\ mnt = "rw" /\ ~failed /\ Tidy(ring)  BY <1>0, RunningNow DEF Safe
  <2>1. nextHead = None /\ NothingHeld /\ AtRest  BY <1>0, <1>1, <2>0 DEF Running
  <2>2. overlay = NoImages /\ home = view  BY <1>0, <2>0, <2>1, HeldNothingIsHome
  <2>3. home' = view'  BY <1>1, <2>2
  <2>4. view'[AgBlock] = view[AgBlock]  BY <1>1 DEF Inv, HistOK
  <2>5. PlainNow  BY <2>1 DEF AtRest
  <2>6. UNCHANGED <<mnt, overlay, oldest, nextHead, logged, failed>>  BY <1>1 DEF mount
  <2>7. PlainNow'  BY <1>1, <2>3, <2>4, <2>5 DEF PlainNow, Plain
  <2>8. Tidy(ring)'  BY <1>1, <2>0
  <2>9. SoundNow'  BY <2>7, <2>8, PlainSound DEF PlainNow, SoundNow
  <2>10. Carries(overlay, home, view, FALSE)'
    <3>1. Carries(NoImages, home', view', FALSE)  BY <2>3, NothingRead
    <3>2. QED  BY <2>2, <2>6, <3>1
  <2>11. AtRest'  BY <2>1, <2>6, <2>7 DEF AtRest, NothingHeld
  <2>12. Running'
    <3>1. (logged <=> nextHead # None)'  BY <2>0, <2>6 DEF Running
    <3>2. pc' = "idle" /\ NothingHeld' /\ overlay' = NoImages'
      BY <1>0, <1>1, <2>1, <2>2, <2>6 DEF NothingHeld, NoImages
    <3>3. QED  BY <2>10, <2>11, <3>1, <3>2 DEF Running
  <2>13. MountSays'  BY <2>0, <2>6 DEF MountSays
  <2>14. QED  BY <2>8, <2>9, <2>12, <2>13 DEF Safe
<1>2. CASE UNCHANGED <<device, mount, pc, cur, hist>>
  <2>1. Tidy(ring)' /\ SoundNow'  BY <1>2, DeviceAlone
  <2>2. QED  BY <1>2, SafeAlone
<1>3. QED  BY <1>1, <1>2 DEF WriteInPlace

\* commit_record finds a place that is ready for a record.
LEMMA HeadIsReady ==
  ASSUME Inv, Tidy(ring), AtRest, ~ScanRefused
  PROVE  /\ HeadInRing(CurrentHead) /\ CurrentHead.cycle \in Nat /\ CurrentHead.block \in Nat
         /\ ReadyAt(CurrentHead.cycle, CurrentHead.block, FALSE)
<1>0. HeadInRing(CurrentHead)
  <2>1. CASE nextHead # None
    BY <2>1 DEF CurrentHead, Inv, MountOK, HeadOK
  <2>2. CASE nextHead = None
    BY <2>2, ScanHeadInRing DEF CurrentHead, ScanRefused, Inv, DeviceOK
  <2>3. QED  BY <2>1, <2>2
<1>1. CurrentHead.cycle \in Nat /\ CurrentHead.block \in Nat
  BY <1>0 DEF HeadInRing, HeadPos
<1>2. CASE nextHead # None
  <2>1. CurrentHead = nextHead  BY <1>2 DEF CurrentHead
  <2>2. QED  BY <1>0, <1>1, <1>2, <2>1 DEF AtRest
<1>3. CASE nextHead = None
  <2>1. CurrentHead = ScanHead /\ PlainNow  BY <1>3 DEF CurrentHead, AtRest
  <2>2. ring = {} => ScanHead.block = 0  BY DEF ScanHead
  <2>3. ASSUME NEW n \in ring, IsNewest(ring, n)
        PROVE  Ends(n, ScanHead.cycle, ScanHead.block)
    <3>1. Newest = n /\ ring # {}  BY <2>3, NewestIs
    <3>2. Placed(n)  BY DEF Tidy
    <3>3. CASE n.block + n.len = LogBlocks
      <4>1. ScanHead.cycle = n.cycle + 1 /\ ScanHead.block = 0
        BY <3>1, <3>3 DEF ScanHead
      <4>2. n.cycle < n.cycle + 1  BY <3>2, PlacedFields
      <4>3. QED  BY <3>3, <4>1, <4>2 DEF Ends
    <3>4. CASE n.block + n.len # LogBlocks
      <4>1. ScanHead.cycle = n.cycle /\ ScanHead.block = n.block + n.len
        BY <3>1, <3>4 DEF ScanHead
      <4>2. QED  BY <4>1 DEF Ends
    <3>5. QED  BY <3>3, <3>4
  <2>4. ReadyAt(ScanHead.cycle, ScanHead.block, FALSE)
    <3>1. ScanHead.cycle \in Nat /\ ScanHead.block \in Nat  BY <1>1, <2>1
    <3>2. Plain(ring, home, view, sbCount, exposed)  BY <2>1 DEF PlainNow
    <3>3. Ready(ring, ScanHead.cycle, ScanHead.block, home, view, sbCount, exposed, count, FALSE)
      BY <2>2, <2>3, <3>1, <3>2, PlainReady
    <3>4. QED  BY <3>3 DEF ReadyAt
  <2>5. QED  BY <1>0, <1>1, <2>1, <2>4
<1>4. QED  BY <1>2, <1>3

LEMMA PlaceSafe ==
  ASSUME Inv, Inv', Safe, Writable, ~ScanRefused, NEW kind, NEW writes, NEW ends,
         Place(kind, writes, ends), UNCHANGED <<home, ring, mount, hist>>,
         \/ kind = "checkpoint" /\ pc = "idle" /\ sbCount' = sbCount
         \/ kind = "unmount" /\ pc = "counters" /\ sbCount' = view[AgBlock]
  PROVE  Safe'
<1>0. Running /\ mnt = "rw" /\ ~failed /\ Tidy(ring) /\ SoundNow  BY RunningNow DEF Safe
<1>1. UNCHANGED <<home, ring, mnt, overlay, oldest, nextHead, logged, failed, count, view, exposed>>
  BY DEF mount, hist
<1>2. AtRest /\ pc # "bound"  BY <1>0 DEF Running
<1> DEFINE head == CurrentHead
<1>3. HeadInRing(head) /\ head.cycle \in Nat /\ head.block \in Nat
      /\ ReadyAt(head.cycle, head.block, FALSE)
  BY <1>0, <1>2, HeadIsReady
<1>4. kind = "unmount" => NothingHeld /\ home = view /\ exposed = FALSE
  <2>1. SUFFICES ASSUME pc = "counters" PROVE NothingHeld /\ home = view /\ exposed = FALSE
    OBVIOUS
  <2>2. NothingHeld  BY <1>0, <2>1 DEF Running
  <2>3. home = view  BY <1>0, <1>2, <2>2, HeldNothingIsHome
  <2>4. exposed = FALSE  BY <2>2 DEF NothingHeld, Inv, HistOK
  <2>5. QED  BY <2>2, <2>3, <2>4
<1>5. Ready(ring, head.cycle, head.block, home, view, sbCount', exposed, count, FALSE)
  <2>1. Ready(ring, head.cycle, head.block, home, view, sbCount, exposed, count, FALSE)
    BY <1>3 DEF ReadyAt
  <2>2. CASE sbCount' = sbCount  BY <2>1, <2>2
  <2>3. CASE kind = "unmount" /\ sbCount' = view[AgBlock]
    <3>1. Ready(ring, head.cycle, head.block, view, view, sbCount', FALSE, count, FALSE)
      BY <2>1, <2>3, PushedReady
    <3>2. QED  BY <1>4, <2>3, <3>1
  <2>4. QED  BY <2>2, <2>3
<1>6. PlainNow => PlainNow'
  <2>1. CASE sbCount' = sbCount  BY <1>1, <2>1 DEF PlainNow
  <2>2. CASE kind = "unmount" /\ sbCount' = view[AgBlock]
    BY <1>1, <2>2 DEF PlainNow, Plain
  <2>3. QED  BY <2>1, <2>2
<1>7. Tidy(ring)' /\ SoundNow'
  <2>1. CASE sbCount' = sbCount  BY <1>0, <1>1, <2>1 DEF SoundNow
  <2>2. CASE kind = "unmount" /\ sbCount' = view[AgBlock]
    <3>1. Sound(ring, view, view, sbCount', FALSE)
      BY <1>0, <2>2, PushedSound DEF SoundNow
    <3>2. QED  BY <1>0, <1>1, <1>4, <2>2, <3>1 DEF SoundNow
  <2>3. QED  BY <2>1, <2>2
<1>8. /\ pc' \in {"wrap", "append"}
      /\ cur'.kind = kind /\ cur'.head = head /\ cur'.done = 0
      /\ cur'.tail = IF oldest # None THEN oldest ELSE LsnOf(head)
  BY DEF Place
<1>9. nextHead # None => head = nextHead /\ nextHead.block # 0
  BY <1>2 DEF CurrentHead, AtRest
<1> HIDE DEF head
<1>10. Ready(ring', cur'.head.cycle, cur'.head.block, home', view', sbCount', exposed', count', FALSE)
  BY <1>1, <1>5, <1>8
<1>11. OnTheWay'
  <2>1. nextHead' = None => PlainNow'  BY <1>1, <1>2, <1>6 DEF AtRest
  <2>2. nextHead' # None => cur'.head = nextHead' /\ nextHead'.block # 0
    BY <1>1, <1>8, <1>9
  <2>3. QED  BY <1>10, <2>1, <2>2 DEF OnTheWay, ReadyAt
<1>12. Appending'
  <2>1. Position' = cur'.head.block
    BY <1>3, <1>8 DEF Position, StartOf
  <2>2. ~(cur'.done > 0) /\ (cur'.done > 0) = FALSE  BY <1>8
  <2>3. ReadyAt(cur.head.cycle, Position, cur.done > 0)'
    BY <1>10, <2>1, <2>2 DEF ReadyAt
  <2>4. oldest' # None => Position' # 0 /\ Tailed(ring, oldest.block)'
    <3>1. oldest # None => nextHead # None  BY <1>0 DEF Running, NothingHeld
    <3>2. oldest # None => Tailed(ring, oldest.block)  BY <1>2 DEF AtRest
    <3>3. QED  BY <1>1, <1>8, <1>9, <2>1, <3>1, <3>2
  <2>5. cur'.tail = IF oldest' # None THEN oldest' ELSE LsnOf(cur'.head)
    BY <1>1, <1>8
  <2>6. QED  BY <2>2, <2>3, <2>4, <2>5 DEF Appending
<1>13. Running'
  <2>1. Carries(overlay, home, view, FALSE)'  BY <1>0, <1>1, <1>2 DEF Running
  <2>2. /\ NothingHeld' => overlay' = NoImages'
        /\ nextHead' = None => NothingHeld'
        /\ (logged <=> nextHead # None)'
    BY <1>0, <1>1 DEF Running, NothingHeld, NoImages
  <2>3. cur'.kind = "unmount" => NothingHeld' /\ sbCount' = view'[AgBlock]
    BY <1>1, <1>4, <1>8 DEF NothingHeld
  <2>4. QED  BY <1>8, <1>11, <1>12, <2>1, <2>2, <2>3 DEF Running
<1>14. MountSays'  BY <1>0, <1>1 DEF MountSays
<1>15. QED  BY <1>7, <1>13, <1>14 DEF Safe

LEMMA CommitSafe ==
  ASSUME Inv, Inv', Safe, Commit
  PROVE  Safe'
<1>0. Writable /\ pc = "idle"  BY DEF Commit
<1>1. CASE /\ ~ScanRefused
           /\ \E w \in SUBSET Blocks \ {{}}, ends \in Shapes : Place("checkpoint", w, ends)
           /\ UNCHANGED <<device, mount, res, hist>>
  <2>1. PICK w \in SUBSET Blocks, ends \in Shapes : Place("checkpoint", w, ends)  BY <1>1
  <2>2. UNCHANGED <<home, ring, mount, hist>> /\ sbCount' = sbCount  BY <1>1 DEF device
  <2>3. QED  BY <1>0, <1>1, <2>1, <2>2, PlaceSafe
<1>2. CASE UNCHANGED <<device, mount, pc, cur, hist>>  BY <1>2, SafeAlone
<1>3. QED  BY <1>1, <1>2 DEF Commit

LEMMA UnmountCountersSafe ==
  ASSUME Inv, Inv', Safe, UnmountCounters
  PROVE  Safe'
<1>0. Writable /\ pc = "counters"  BY StageIsWritable DEF UnmountCounters
<1>1. Running /\ mnt = "rw" /\ Tidy(ring) /\ SoundNow  BY <1>0, RunningNow DEF Safe
<1>2. cur.kind = "unmount" /\ NothingHeld  BY <1>0, <1>1 DEF Running
<1>3. Over(home, overlay)[AgBlock] = view[AgBlock]  BY <1>0, <1>1, PushedIsView
<1>4. UNCHANGED <<home, ring, hist>>  BY DEF UnmountCounters
<1>5. sbCount' = sbCount \/ sbCount' = view[AgBlock]  BY <1>3 DEF UnmountCounters
<1>6. ASSUME NEW why, NEW stop, Returns(why, stop) PROVE Safe'
  <2>1. Forget  BY <1>2, <1>6 DEF Returns
  <2>2. home = view /\ exposed = FALSE
    BY <1>0, <1>1, <1>2, HeldNothingIsHome DEF NothingHeld, Inv, HistOK
  <2>3. Sound(ring, view, view, sbCount', FALSE)  BY <1>1, <1>5, PushedSound DEF SoundNow
  <2>4. UNCHANGED <<view, exposed>>  BY <1>4 DEF hist
  <2>5. Tidy(ring)' /\ SoundNow'  BY <1>1, <1>4, <2>2, <2>3, <2>4 DEF SoundNow
  <2>6. QED  BY <2>1, <2>5, SafeForgotten
<1>7. CASE /\ ~ScanRefused /\ Place("unmount", {}, UnmountShape) /\ UNCHANGED <<mount, res>>
           /\ sbCount' = Over(home, overlay)[AgBlock]
  BY <1>0, <1>3, <1>4, <1>7, PlaceSafe
<1>8. CASE Returns("refused", FALSE) \/ Returns("io", TRUE)
  BY <1>6, <1>8
<1>9. QED  BY <1>7, <1>8, Zenon DEF UnmountCounters

\* What is known of a mount about to pad the ring.
LEMMA PadFacts ==
  ASSUME Inv, Safe, pc = "pad"
  PROVE  /\ Running /\ mnt = "rw" /\ ~failed /\ Tidy(ring) /\ SoundNow
         /\ OnTheWay /\ NothingHeld /\ overlay = NoImages /\ home = view /\ exposed = FALSE
         /\ HeadInRing(cur.head) /\ cur.head.cycle \in Nat /\ cur.head.block \in Nat
         /\ cur.head.free \in Nat /\ cur.head.block + cur.head.free = LogBlocks
         /\ cur.done = 0 /\ cur \in Operation
<1>1. Writable  BY StageIsWritable
<1>2. Running /\ mnt = "rw" /\ ~failed /\ Tidy(ring) /\ SoundNow  BY <1>1, RunningNow DEF Safe
<1>3. OnTheWay /\ NothingHeld  BY <1>2 DEF Running
<1>4. overlay = NoImages /\ home = view  BY <1>2, <1>3, HeldNothingIsHome
<1>5. exposed = FALSE  BY <1>3 DEF NothingHeld, Inv, HistOK
<1>6. HeadInRing(cur.head) /\ cur.done = 0 /\ cur \in Operation  BY DEF Inv, OpOK, StageOK
<1>7. /\ cur.head.cycle \in Nat /\ cur.head.block \in Nat
      /\ cur.head.free \in Nat /\ cur.head.block + cur.head.free = LogBlocks
  BY <1>6 DEF HeadInRing, HeadPos
<1>8. QED  BY <1>2, <1>3, <1>4, <1>5, <1>6, <1>7

\* A wrap that is refused leaves the mount as it was between operations.
LEMMA RestsAgain ==
  ASSUME Inv, Safe, pc = "pad", UNCHANGED <<home, sbCount, hist>>,
         Tidy(ring'), Sound(ring', home, view, sbCount, exposed),
         nextHead = None => Plain(ring', home, view, sbCount, exposed),
         nextHead # None => Ready(ring', cur.head.cycle, cur.head.block,
                                  home, view, sbCount, exposed, count, FALSE),
         NEW why, Returns(why, failed)
  PROVE  Safe'
<1>0. /\ Running /\ mnt = "rw" /\ ~failed
      /\ OnTheWay /\ NothingHeld /\ overlay = NoImages /\ home = view /\ exposed = FALSE
  BY PadFacts
<1>1. UNCHANGED <<view, exposed, count>>  BY DEF hist
<1>2. Tidy(ring)' /\ SoundNow'  BY <1>1 DEF SoundNow
<1>3. CASE cur.kind = "unmount"
  <2>1. Forget  BY <1>3 DEF Returns
  <2>2. QED  BY <1>2, <2>1, SafeForgotten
<1>4. CASE cur.kind # "unmount"
  <2>1. failed' = failed /\ pc' = "idle" /\ UNCHANGED <<mnt, overlay, oldest, nextHead, logged>>
    BY <1>4, Zenon DEF Returns
  <2>2. Carries(overlay, home, view, FALSE)'
    <3>1. Carries(overlay, home, view, FALSE)  BY <1>0 DEF Running
    <3>2. QED  BY <1>1, <2>1, <3>1
  <2>3. AtRest'
    <3>1. nextHead' = None => PlainNow'  BY <1>1, <2>1 DEF PlainNow
    <3>2. ASSUME nextHead' # None
          PROVE  nextHead'.block # 0 /\ ReadyAt(nextHead.cycle, nextHead.block, FALSE)'
      <4>1. nextHead # None /\ cur.head = nextHead /\ nextHead.block # 0
        BY <1>0, <2>1, <3>2 DEF OnTheWay
      <4>2. Ready(ring', nextHead.cycle, nextHead.block, home, view, sbCount, exposed, count, FALSE)
        BY <4>1
      <4>3. QED  BY <1>1, <2>1, <4>1, <4>2 DEF ReadyAt
    <3>3. oldest' = None  BY <1>0, <2>1 DEF NothingHeld
    <3>4. QED  BY <3>1, <3>2, <3>3 DEF AtRest
  <2>4. Running'
    <3>1. NothingHeld' /\ overlay' = NoImages'  BY <1>0, <1>1, <2>1 DEF NothingHeld, NoImages
    <3>2. (logged <=> nextHead # None)'  BY <1>0, <2>1 DEF Running
    <3>3. QED  BY <2>1, <2>2, <2>3, <3>1, <3>2 DEF Running
  <2>5. MountSays'  BY <1>0, <2>1 DEF MountSays
  <2>6. QED  BY <1>2, <2>4, <2>5 DEF Safe
<1>5. QED  BY <1>3, <1>4

LEMMA BeginAgainSafe ==
  ASSUME Inv, Safe, pc = "pad", UNCHANGED <<home, sbCount, hist>>, Tidy(ring'),
         nextHead = None => Plain(ring', home, view, sbCount, exposed),
         nextHead # None => Ready(ring', cur.head.cycle, cur.head.block,
                                  home, view, sbCount, exposed, count, FALSE),
         Ready(ring', cur.head.cycle + 1, 0, home, view, sbCount, exposed, count, FALSE),
         BeginAgain
  PROVE  Safe'
<1>0. /\ Running /\ mnt = "rw" /\ ~failed
      /\ OnTheWay /\ NothingHeld /\ overlay = NoImages /\ home = view /\ exposed = FALSE
      /\ cur.head.cycle \in Nat /\ cur.done = 0 /\ cur \in Operation
  BY PadFacts
<1>1. Sound(ring', home, view, sbCount, exposed)
  <2>1. cur.head.cycle + 1 \in Nat /\ 0 \in Nat  BY <1>0
  <2>2. QED  BY <2>1, ReadySound
<1>2. CASE Returns("refused", failed)  BY <1>1, <1>2, RestsAgain
<1>3. CASE ~Returns("refused", failed)
  <2> DEFINE total == cur.head.block + cur.head.free
             new   == [cycle |-> cur.head.cycle + 1, block |-> 0, free |-> total]
             lsn   == [cycle |-> cur.head.cycle + 1, block |-> 0]
  <2>1. /\ cur' = [cur EXCEPT !.head = new, !.tail = lsn]
        /\ pc' = "append" /\ UNCHANGED <<mount, res>>
    BY <1>3, Zenon DEF BeginAgain
  <2>2. cur'.head = new /\ cur'.tail = lsn /\ cur'.kind = cur.kind /\ cur'.done = 0
    BY <1>0, <2>1 DEF Operation
  <2>3. UNCHANGED <<mnt, overlay, oldest, nextHead, logged, failed, view, exposed, count>>
    BY <2>1 DEF mount, hist
  <2>4. Tidy(ring)' /\ SoundNow'  BY <1>1, <2>3 DEF SoundNow
  <2>5. NothingHeld' /\ overlay' = NoImages'  BY <1>0, <2>3 DEF NothingHeld, NoImages
  <2>6. Appending'
    <3>1. Position' = 0 /\ cur'.head.cycle = cur.head.cycle + 1
      BY <2>2 DEF Position, StartOf
    <3>2. ~(cur'.done > 0) /\ (cur'.done > 0) = FALSE  BY <2>2
    <3>3. ReadyAt(cur.head.cycle, Position, cur.done > 0)'
      BY <2>3, <3>1, <3>2 DEF ReadyAt
    <3>4. cur'.tail = LsnOf(cur'.head)  BY <2>2 DEF LsnOf
    <3>5. oldest' = None  BY <2>5 DEF NothingHeld
    <3>6. QED  BY <3>2, <3>3, <3>4, <3>5 DEF Appending
  <2>7. Running'
    <3>1. Carries(overlay, home, view, FALSE)'
      <4>1. Carries(overlay, home, view, FALSE)  BY <1>0 DEF Running
      <4>2. QED  BY <2>3, <4>1
    <3>2. (logged <=> nextHead # None)'  BY <1>0, <2>3 DEF Running
    <3>3. cur'.kind = "unmount" => sbCount' = view'[AgBlock]
      BY <1>0, <2>2, <2>3 DEF Running
    <3>4. QED  BY <2>1, <2>5, <2>6, <3>1, <3>2, <3>3 DEF Running
  <2>8. MountSays'  BY <1>0, <2>3 DEF MountSays
  <2>9. QED  BY <2>4, <2>7, <2>8 DEF Safe
<1>4. QED  BY <1>2, <1>3

LEMMA WrapPadSafe ==
  ASSUME Inv, Safe, WrapPad
  PROVE  Safe'
<1>0. pc = "pad" /\ UNCHANGED <<home, sbCount, hist>>  BY DEF WrapPad
<1>1. /\ Running /\ mnt = "rw" /\ ~failed /\ Tidy(ring) /\ SoundNow
      /\ OnTheWay /\ NothingHeld /\ home = view /\ exposed = FALSE
      /\ HeadInRing(cur.head) /\ cur.head.cycle \in Nat /\ cur.head.block \in Nat
      /\ cur.head.free \in Nat /\ cur.head.block + cur.head.free = LogBlocks
  BY <1>0, PadFacts
<1> DEFINE c == cur.head.cycle
           p == cur.head.block
<1>2. /\ Ready(ring, c, p, home, view, sbCount, exposed, count, FALSE)
      /\ nextHead = None => Plain(ring, home, view, sbCount, exposed)
      /\ nextHead # None => p # 0
  BY <1>1 DEF OnTheWay, ReadyAt, PlainNow
<1>3. UNCHANGED <<view, exposed, count>>  BY <1>0 DEF hist
<1>4. Sound(ring, home, view, sbCount, exposed)  BY <1>1 DEF SoundNow
<1>5. ASSUME UNCHANGED ring, NEW why, Returns(why, TRUE) PROVE Safe'
  <2>1. Tidy(ring)' /\ SoundNow'  BY <1>0, <1>1, <1>3, <1>4, <1>5 DEF SoundNow
  <2>2. QED  BY <1>1, <1>5, <2>1, SafeStopped
<1>6. ASSUME UNCHANGED ring, NEW why, Returns(why, failed) PROVE Safe'
  BY <1>0, <1>1, <1>2, <1>4, <1>6, RestsAgain
<1>7. ASSUME UNCHANGED ring, cur.head.free = 0, BeginAgain PROVE Safe'
  <2>1. p = LogBlocks  BY <1>1, <1>7
  <2>2. Ready(ring, c, LogBlocks, home, view, sbCount, exposed, count, FALSE)  BY <1>2, <2>1
  <2>3. Ready(ring, c + 1, 0, home, view, sbCount, exposed, count, FALSE)
    BY <1>1, <2>2, FullReady
  <2>4. QED  BY <1>0, <1>1, <1>2, <1>7, <2>3, BeginAgainSafe
<1>8. ASSUME cur.head.free \in PadBlocks .. CycleData + 1
      PROVE  /\ Placed(PadRecord) /\ PadAt(PadRecord, p) /\ PadRecord.kind = "pad"
             /\ PadRecord.cycle = c /\ PadRecord.block = p
  <2>1. /\ PadRecord \in Record /\ PadRecord.cycle <= MaxCycle
        /\ PadRecord.block + PadRecord.len <= LogBlocks
    BY <1>0, PadRecordFits
  <2>2. /\ PadRecord.cycle = c /\ PadRecord.block = p /\ PadRecord.len = cur.head.free
        /\ PadRecord.kind = "pad" /\ PadRecord.tail.block = p
    BY DEF PadRecord, LsnOf
  <2>3. PadRecord.whole  BY DEF PadRecord
  <2>4. cur.head.free > 0  BY <1>1, <1>8
  <2>5. QED  BY <1>1, <2>1, <2>2, <2>3, <2>4 DEF Placed, PadAt
<1>9. ASSUME cur.head.free \in PadBlocks .. CycleData + 1,
             ring' = Landed(PadRecord), BeginAgain
      PROVE  Safe'
  <2> DEFINE r == PadRecord
  <2>1. Placed(r) /\ PadAt(r, p) /\ r.cycle = c /\ r.block = p  BY <1>8, <1>9
  <2>2. ring' = Lay(ring, r)  BY <1>9, LandedIsLay
  <2> HIDE DEF r
  <2>3. Tidy(ring')  BY <1>1, <2>1, <2>2, LayTidy
  <2>4. IsNewest(ring', r)  BY <1>1, <1>2, <2>1, <2>2, LayIsNewest
  <2>5. r \in ring' /\ PadAt(r, r.block) /\ r.block + r.len = LogBlocks
    BY <2>1, <2>4 DEF IsNewest, PadAt
  <2>6. SoundAt(ring', r, home, view, sbCount, exposed) /\ Chain(ring', r, count, FALSE)
    BY <1>1, <2>3, <2>5, PadSound
  <2>7. Ready(ring', c + 1, 0, home, view, sbCount, exposed, count, FALSE)
    BY <1>1, <2>1, <2>3, <2>4, <2>5, <2>6, BeginReady
  <2>8. Plain(ring', home, view, sbCount, exposed)
    BY <1>1, <2>4, <2>5 DEF Plain
  <2>9. ASSUME nextHead # None
        PROVE  Ready(ring', c, p, home, view, sbCount, exposed, count, FALSE)
    <3>1. p # 0 /\ ~exposed  BY <1>1, <1>2, <2>9
    <3>2. Ready(Lay(ring, r), c, p, home, view, sbCount, exposed, count, FALSE)
      BY <1>1, <1>2, <2>1, <3>1, PadLeftReady
    <3>3. QED  BY <2>2, <3>2
  <2>10. QED  BY <1>0, <1>9, <2>3, <2>7, <2>8, <2>9, BeginAgainSafe
<1>10. ASSUME cur.head.free \in PadBlocks .. CycleData + 1,
              ring' \in Torn(PadRecord), Returns("io", TRUE)
       PROVE  Safe'
  <2> DEFINE r == PadRecord
  <2>1. Placed(r) /\ PadAt(r, p) /\ r.cycle = c /\ r.block = p /\ r.kind = "pad"
    BY <1>8, <1>10
  <2>2. ReadyAt(c, p, FALSE)  BY <1>2 DEF ReadyAt
  <2>3. ring' \in Torn(r)  BY <1>10
  <2> HIDE DEF r
  <2>4. Tidy(ring') /\ (ring' # Lay(ring, r) => Sound(ring', home, view, sbCount, exposed))
    BY <1>1, <2>1, <2>2, <2>3, TornSound
  <2>5. ASSUME ring' = Lay(ring, r) PROVE Sound(ring', home, view, sbCount, exposed)
    <3>1. IsNewest(ring', r)  BY <1>1, <1>2, <2>1, <2>5, LayIsNewest
    <3>2. r \in ring' /\ PadAt(r, r.block)  BY <2>1, <3>1 DEF IsNewest
    <3>3. SoundAt(ring', r, home, view, sbCount, exposed)  BY <1>1, <2>4, <3>2, PadSound
    <3>4. QED  BY <3>1, <3>2, <3>3 DEF Sound
  <2>6. Tidy(ring)' /\ SoundNow'  BY <1>0, <1>3, <2>4, <2>5 DEF SoundNow
  <2>7. QED  BY <1>1, <1>10, <2>6, SafeStopped
<1>11. QED  BY <1>5, <1>6, <1>7, <1>9, <1>10 DEF WrapPad

\* The record append_at_with_tail writes, and where.
LEMMA NextRecordIs ==
  ASSUME Inv, pc = "append"
  PROVE  /\ Placed(NextRecord)
         /\ NextRecord.cycle = cur.head.cycle /\ NextRecord.block = Position
         /\ NextRecord.kind = cur.kind /\ NextRecord.tail = cur.tail
         /\ NextRecord.writes = cur.writes /\ NextRecord.whole
         /\ NextRecord.first <=> cur.done = 0
         /\ NextRecord.last <=> cur.done + 1 = Len(cur.ends)
         /\ cur.kind = "checkpoint" => NextRecord.ck = count + 1
         /\ NextRecord.block + NextRecord.len = cur.head.block + cur.ends[cur.done + 1]
         /\ cur.head.cycle \in Nat /\ Position \in Nat /\ cur.done \in Nat
         /\ cur.ends[cur.done + 1] \in Nat /\ cur.ends[cur.done + 1] > 0
<1> DEFINE i == cur.done + 1
           s == cur.ends
<1>1. /\ HeadInRing(cur.head) /\ s \in Shapes \cup {UnmountShape}
      /\ cur.kind \in {"checkpoint", "unmount"} /\ cur.done < Len(s)
  BY DEF Inv, OpOK, StageOK
<1>2. cur.done \in Nat /\ cur.head.cycle \in Nat /\ cur.head.block \in Nat
  BY <1>1 DEF Inv, OpOK, Operation, HeadInRing, HeadPos
<1>3. Len(s) \in Nat  BY <1>1, ShapeFacts
<1>4. i \in 1 .. Len(s)  BY <1>1, <1>2, <1>3
<1>5. s[i] \in Nat /\ s[i] > 0  BY <1>1, <1>3, <1>4, ShapeFacts
<1>6. StartOf(cur, i) \in Nat /\ StartOf(cur, i) < s[i]
  <2>1. CASE i = 1  BY <1>5, <2>1 DEF StartOf
  <2>2. CASE i # 1
    <3>1. i \in 2 .. Len(s) /\ i - 1 \in 1 .. Len(s)  BY <1>2, <1>3, <1>4, <2>2
    <3>2. s[i - 1] < s[i] /\ s[i - 1] \in Nat  BY <1>1, <3>1, ShapeFacts
    <3>3. StartOf(cur, i) = s[i - 1]  BY <2>2 DEF StartOf
    <3>4. QED  BY <3>2, <3>3
  <2>3. QED  BY <2>1, <2>2
<1>7. NextRecord =
        [cycle |-> cur.head.cycle, block |-> cur.head.block + StartOf(cur, i),
         len |-> s[i] - StartOf(cur, i), tail |-> cur.tail, kind |-> cur.kind,
         ck |-> (IF cur.kind = "checkpoint" THEN count + 1 ELSE 0),
         first |-> (i = 1), last |-> (i = Len(s)),
         writes |-> cur.writes, whole |-> TRUE]
  BY DEF NextRecord
<1>8. /\ NextRecord.cycle = cur.head.cycle /\ NextRecord.block = Position
      /\ NextRecord.len = s[i] - StartOf(cur, i)
      /\ NextRecord.kind = cur.kind /\ NextRecord.tail = cur.tail
      /\ NextRecord.writes = cur.writes
  BY <1>7 DEF Position
<1>9. NextRecord.whole  BY <1>7, Zenon
<1>10. NextRecord.first <=> i = 1  BY <1>7, Zenon
<1>11. NextRecord.last <=> i = Len(s)  BY <1>7, Zenon
<1>12. cur.kind = "checkpoint" => NextRecord.ck = count + 1  BY <1>7
<1>13. NextRecord.len > 0 /\ Position \in Nat
       /\ NextRecord.block + NextRecord.len = cur.head.block + s[i]
  BY <1>2, <1>5, <1>6, <1>8 DEF Position
<1>14. Placed(NextRecord)  BY <1>13, NextRecordFits DEF Placed
<1>15. i = 1 <=> cur.done = 0  BY <1>2
<1>16. QED  BY <1>2, <1>5, <1>8, <1>9, <1>10, <1>11, <1>12, <1>13, <1>14, <1>15

LEMMA AppendFacts ==
  ASSUME Inv, Safe, pc = "append"
  PROVE  /\ Running /\ mnt = "rw" /\ ~failed /\ Tidy(ring) /\ SoundNow /\ Appending
         /\ cur.kind \in {"checkpoint", "unmount"}
         /\ cur.kind = "unmount" => /\ NothingHeld /\ home = view /\ ~exposed
                                    /\ sbCount = view[AgBlock]
<1>1. Writable  BY StageIsWritable
<1>2. Running /\ mnt = "rw" /\ ~failed /\ Tidy(ring) /\ SoundNow  BY <1>1, RunningNow DEF Safe
<1>3. Appending  BY <1>2 DEF Running
<1>4. cur.kind \in {"checkpoint", "unmount"}  BY DEF Inv, OpOK, StageOK
<1>5. ASSUME cur.kind = "unmount"
      PROVE  NothingHeld /\ home = view /\ ~exposed /\ sbCount = view[AgBlock]
  <2>1. NothingHeld /\ sbCount = view[AgBlock]  BY <1>2, <1>5 DEF Running
  <2>2. home = view  BY <1>2, <2>1, HeldNothingIsHome
  <2>3. QED  BY <2>1, <2>2 DEF NothingHeld
<1>6. QED  BY <1>2, <1>3, <1>4, <1>5

\* A checkpoint's record that landed whole.
LEMMA AppendLands ==
  ASSUME Inv, Safe, pc = "append", cur.kind = "checkpoint",
         NEW w, NEW j, NEW d, Counts(NextRecord, view, w, count, j, d)
  PROVE  /\ SoundAt(Lay(ring, NextRecord), NextRecord, home, w, sbCount, exposed)
         /\ Chain(Lay(ring, NextRecord), NextRecord, j, d)
         /\ Begun(Lay(ring, NextRecord), count + 1)
         /\ NextRecord.last => Covered(Lay(ring, NextRecord), cur.writes)
<1> DEFINE r == NextRecord
           c == cur.head.cycle
           p == Position
<1>1. /\ Placed(r) /\ r.cycle = c /\ r.block = p /\ r.kind = "checkpoint"
      /\ r.tail = cur.tail /\ r.writes = cur.writes /\ r.whole /\ r.ck = count + 1
      /\ r.first <=> cur.done = 0
      /\ c \in Nat /\ p \in Nat /\ cur.done \in Nat
  BY NextRecordIs
<1>2. Running /\ Tidy(ring) /\ Appending  BY AppendFacts
<1>3. Ready(ring, c, p, home, view, sbCount, exposed, count, cur.done > 0)
  BY <1>2 DEF Appending, ReadyAt
<1>4. count \in Nat /\ exposed \in BOOLEAN  BY DEF Inv, HistOK
<1>5. Counts(r, view, w, count, j, d)  OBVIOUS
<1>6. cur.done = 0 /\ oldest = None => r.tail.block = p
  BY <1>1, <1>2 DEF Appending, Position, StartOf, LsnOf, Inv, OpOK, Operation, HeadPos
<1>7. ASSUME ~(cur.done = 0 /\ oldest = None)
      PROVE  p # 0 /\ Tailed(ring, r.tail.block) /\ (cur.done # 0 => Begun(ring, count + 1))
  <2>1. CASE cur.done = 0
    <3>1. oldest # None /\ cur.tail = oldest  BY <1>2, <1>7, <2>1 DEF Appending
    <3>2. QED  BY <1>1, <1>2, <2>1, <3>1 DEF Appending
  <2>2. CASE cur.done # 0
    <3>1. cur.done > 0  BY <1>1, <2>2
    <3>2. QED  BY <1>1, <1>2, <3>1 DEF Appending
  <2>3. QED  BY <2>1, <2>2
<1>75. cur.done = 0 /\ oldest = None => exposed \/ home = view
  <2>1. SUFFICES ASSUME oldest = None, ~exposed PROVE home = view  OBVIOUS
  <2>2. QED  BY <1>2, <2>1, HeldNothingIsHome DEF NothingHeld
<1> HIDE DEF r, c, p
<1>8. IsNewest(Lay(ring, r), r)  BY <1>1, <1>2, <1>3, LayIsNewest
<1>9. CASE cur.done = 0 /\ oldest = None
  BY <1>1, <1>2, <1>4, <1>5, <1>6, <1>75, <1>8, <1>9, LayOwn DEF r
<1>10. CASE ~(cur.done = 0 /\ oldest = None)
  <2>1. PICK n \in ring : IsNewest(ring, n) /\ n.kind = "checkpoint"
                          /\ n.tail.block = r.tail.block
    BY <1>7, <1>10 DEF Tailed
  <2>2. /\ Ends(n, c, p) /\ SoundAt(ring, n, home, view, sbCount, exposed)
        /\ Chain(ring, n, count, cur.done > 0)
    BY <1>1, <1>2, <1>3, <2>1, KeptWhole
  <2>3. r.block = n.block + n.len  BY <1>1, <1>7, <1>10, <2>2 DEF Ends
  <2>4. r.first \/ StartsIn(Walk(ring, n), count + 1)
    <3>1. CASE cur.done = 0  BY <1>1, <3>1
    <3>2. CASE cur.done # 0
      BY <1>2, <1>7, <1>10, <2>1, <3>2, NewestUnique DEF Begun
    <3>3. QED  BY <3>1, <3>2
  <2>5. QED
    BY <1>1, <1>2, <1>4, <1>5, <1>8, <2>1, <2>2, <2>3, <2>4, LayGrown DEF r
<1>11. QED  BY <1>9, <1>10

\* A record that is not the operation's last has landed.
LEMMA AppendMidSafe ==
  ASSUME Inv, Safe, pc = "append", ring' = Landed(NextRecord), ~NextRecord.last,
         cur' = [cur EXCEPT !.done = @ + 1], UNCHANGED <<mount, pc, count, view>>,
         UNCHANGED <<home, sbCount, exposed>>
  PROVE  Safe'
<1> DEFINE r == NextRecord
<1>1. /\ Placed(r) /\ r.cycle = cur.head.cycle /\ r.block = Position /\ r.kind = cur.kind
      /\ r.tail = cur.tail /\ cur.done \in Nat
      /\ r.block + r.len = cur.head.block + cur.ends[cur.done + 1]
      /\ cur.head.cycle \in Nat /\ Position \in Nat
  BY NextRecordIs
<1>2. /\ Running /\ mnt = "rw" /\ ~failed /\ Tidy(ring) /\ Appending
      /\ cur.kind \in {"checkpoint", "unmount"}
      /\ cur.kind = "unmount" => /\ NothingHeld /\ home = view /\ ~exposed
                                 /\ sbCount = view[AgBlock]
  BY AppendFacts
<1>3. cur \in Operation  BY DEF Inv, OpOK
<1>4. /\ cur'.head = cur.head /\ cur'.kind = cur.kind /\ cur'.ends = cur.ends
      /\ cur'.tail = cur.tail /\ cur'.done = cur.done + 1
  BY <1>3 DEF Operation
<1>5. Position' = r.block + r.len
  <2>1. cur'.done + 1 # 1 /\ cur'.done + 1 - 1 = cur.done + 1  BY <1>1, <1>4
  <2>2. QED  BY <1>1, <1>4, <2>1 DEF Position, StartOf
<1>6. ring' = Lay(ring, r)  BY LandedIsLay
<1>7. Ready(ring, cur.head.cycle, Position, home, view, sbCount, exposed, count, cur.done > 0)
  BY <1>2 DEF Appending, ReadyAt
<1>8. cur.kind = "checkpoint" =>
        /\ SoundAt(Lay(ring, r), r, home, view, sbCount, exposed)
        /\ Chain(Lay(ring, r), r, count, TRUE)
        /\ Begun(Lay(ring, r), count + 1)
  <2>1. Counts(r, view, view, count, count, TRUE)  BY DEF Counts
  <2>2. QED  BY <2>1, AppendLands
<1>9. UNCHANGED <<mnt, overlay, oldest, nextHead, logged, failed>>  BY DEF mount
<1> HIDE DEF r
<1>10. IsNewest(ring', r) /\ Tidy(ring')
  <2>1. IsNewest(Lay(ring, r), r)  BY <1>1, <1>2, <1>7, LayIsNewest
  <2>2. Tidy(Lay(ring, r))  BY <1>1, <1>2, LayTidy
  <2>3. QED  BY <1>6, <2>1, <2>2
<1>11. SoundAt(ring', r, home, view, sbCount, exposed) /\ Chain(ring', r, count, TRUE)
  <2>1. CASE cur.kind = "checkpoint"  BY <1>6, <1>8, <2>1
  <2>2. CASE cur.kind = "unmount"  BY <1>1, <1>2, <2>2, LayUnmount
  <2>3. QED  BY <1>2, <2>1, <2>2
<1>12. Ready(ring', r.cycle, r.block + r.len, home, view, sbCount, exposed, count, TRUE)
  <2>1. /\ IsNewest(Lay(ring, r), r) /\ Tidy(Lay(ring, r))
        /\ SoundAt(Lay(ring, r), r, home, view, sbCount, exposed)
        /\ Chain(Lay(ring, r), r, count, TRUE)
    BY <1>6, <1>10, <1>11
  <2>2. Ready(Lay(ring, r), r.cycle, r.block + r.len, home, view, sbCount, exposed, count, TRUE)
    BY <1>1, <1>2, <2>1, LayReady
  <2>3. QED  BY <1>6, <2>2
<1>13. Tidy(ring)' /\ SoundNow'
  BY <1>10, <1>11 DEF SoundNow, Sound, IsNewest
<1>14. Appending'
  <2>1. (cur'.done > 0) = TRUE /\ Position' # 0
    BY <1>1, <1>4, <1>5, PlacedFields
  <2>2. ReadyAt(cur.head.cycle, Position, cur.done > 0)'
    BY <1>1, <1>4, <1>5, <1>12, <2>1 DEF ReadyAt
  <2>3. cur'.tail = IF oldest' # None THEN oldest' ELSE LsnOf(cur'.head)
    BY <1>2, <1>4, <1>9 DEF Appending
  <2>4. cur.kind = "checkpoint" => Tailed(ring', cur.tail.block) /\ Begun(ring', count + 1)
    BY <1>1, <1>6, <1>8, <1>10 DEF Tailed, IsNewest
  <2>5. oldest' # None => Tailed(ring', oldest'.block)
    <3>1. SUFFICES ASSUME oldest # None PROVE Tailed(ring', oldest.block)  BY <1>9
    <3>2. cur.kind = "checkpoint" /\ cur.tail = oldest
      BY <1>2, <3>1 DEF NothingHeld, Appending
    <3>3. QED  BY <2>4, <3>2
  <2>6. QED  BY <1>4, <2>1, <2>2, <2>3, <2>4, <2>5 DEF Appending
<1>15. Running'
  <2>1. Carries(overlay, home, view, FALSE)'
    <3>1. Carries(overlay, home, view, FALSE)  BY <1>2 DEF Running
    <3>2. QED  BY <1>9, <3>1
  <2>2. /\ NothingHeld' => overlay' = NoImages'
        /\ nextHead' = None => NothingHeld'
        /\ (logged <=> nextHead # None)'
    BY <1>2, <1>9 DEF Running, NothingHeld, NoImages
  <2>3. cur'.kind = "unmount" => NothingHeld' /\ sbCount' = view'[AgBlock]
    BY <1>2, <1>4, <1>9 DEF NothingHeld
  <2>4. QED  BY <1>14, <2>1, <2>2, <2>3 DEF Running
<1>16. MountSays'  BY <1>2, <1>9 DEF MountSays
<1>17. QED  BY <1>13, <1>15, <1>16 DEF Safe

\* What a checkpoint that has happened makes of the history.
LEMMA HappenedCounts ==
  ASSUME Inv, pc = "append", cur.kind = "checkpoint", NextRecord.last, Happened
  PROVE  /\ Counts(NextRecord, view, view', count, count', FALSE)
         /\ count' = count + 1
         /\ \A b \in Blocks : view'[b] = IF b \in cur.writes THEN count + 1 ELSE view[b]
<1>1. NextRecord.writes = cur.writes  BY NextRecordIs
<1>2. /\ count' = count + 1
      /\ view' = [b \in Blocks |-> IF b \in cur.writes THEN count + 1 ELSE view[b]]
  BY DEF Happened
<1>3. QED  BY <1>1, <1>2 DEF Counts

\* The last record of a checkpoint has landed.
LEMMA AppendLastSafe ==
  ASSUME Inv, Inv', Safe, pc = "append", ring' = Landed(NextRecord), NextRecord.last,
         cur.kind = "checkpoint", Happened, Committed, UNCHANGED <<home, sbCount, exposed>>
  PROVE  Safe'
<1> DEFINE r == NextRecord
<1>1. /\ Placed(r) /\ r.cycle = cur.head.cycle /\ r.block = Position /\ r.kind = cur.kind
      /\ r.tail = cur.tail
      /\ r.block + r.len = cur.head.block + cur.ends[cur.done + 1]
      /\ cur.head.cycle \in Nat /\ Position \in Nat
      /\ cur.done + 1 = Len(cur.ends)
  BY NextRecordIs
<1>2. Running /\ mnt = "rw" /\ ~failed /\ Tidy(ring) /\ Appending  BY AppendFacts
<1>3. /\ Counts(r, view, view', count, count', FALSE) /\ count' = count + 1
      /\ \A b \in Blocks : view'[b] = IF b \in cur.writes THEN count + 1 ELSE view[b]
  BY HappenedCounts
<1>4. /\ SoundAt(Lay(ring, r), r, home, view', sbCount, exposed)
      /\ Chain(Lay(ring, r), r, count', FALSE)
      /\ Covered(Lay(ring, r), cur.writes)
  BY <1>3, AppendLands
<1>5. /\ oldest' = (IF oldest # None THEN oldest ELSE LsnOf(cur.head))
      /\ logged' = TRUE
      /\ nextHead' = [cycle |-> cur.head.cycle, block |-> cur.head.block + Needed(cur),
                      free |-> cur.head.free - Needed(cur)]
      /\ UNCHANGED <<mnt, failed>>
      /\ \/ pc' = "bound" /\ UNCHANGED <<cur, overlay>>
         \/ pc' = "idle" /\ cur' = NoOp /\ overlay' = Over(overlay, Images(count + 1))
  BY Zenon DEF Committed
<1>6. ring' = Lay(ring, r)  BY LandedIsLay
<1>7. Ready(ring, cur.head.cycle, Position, home, view, sbCount, exposed, count, cur.done > 0)
  BY <1>2 DEF Appending, ReadyAt
<1>8. nextHead'.cycle = r.cycle /\ nextHead'.block = r.block + r.len
  BY <1>1, <1>5 DEF Needed
<1>9. nextHead' # None /\ nextHead'.block # 0
  <2>1. nextHead' \in HeadPos
    <3>1. HeadInRing(cur.head) /\ Needed(cur) <= cur.head.free
          /\ cur.ends \in Shapes \cup {UnmountShape}
      BY DEF Inv, OpOK, StageOK
    <3>2. Needed(cur) \in Nat  BY <3>1, ShapeFacts DEF Needed
    <3>3. QED  BY <1>5, <3>1, <3>2 DEF HeadInRing, HeadPos
  <2>2. nextHead' # None  BY <2>1
  <2>3. QED  BY <1>1, <1>8, <2>2, PlacedFields
<1>10. oldest' = cur.tail /\ oldest' # None
  <2>1. oldest' = cur.tail  BY <1>2, <1>5 DEF Appending
  <2>2. cur.tail \in Lsn  BY DEF Inv, OpOK, Operation
  <2>3. QED  BY <2>1, <2>2
<1> HIDE DEF r
<1>11. IsNewest(ring', r) /\ Tidy(ring') /\ r \in ring'
  <2>1. IsNewest(Lay(ring, r), r)  BY <1>1, <1>2, <1>7, LayIsNewest
  <2>2. Tidy(Lay(ring, r))  BY <1>1, <1>2, LayTidy
  <2>3. QED  BY <1>6, <2>1, <2>2 DEF IsNewest
<1>12. Ready(ring', r.cycle, r.block + r.len, home, view', sbCount, exposed, count', FALSE)
  <2>1. IsNewest(Lay(ring, r), r) /\ Tidy(Lay(ring, r))  BY <1>6, <1>11
  <2>2. \A v, k :
          /\ SoundAt(Lay(ring, r), r, home, v, sbCount, exposed)
          /\ Chain(Lay(ring, r), r, k, FALSE)
          => Ready(Lay(ring, r), r.cycle, r.block + r.len, home, v, sbCount, exposed, k, FALSE)
    BY <1>1, <1>2, <2>1, LayReady
  <2>3. QED  BY <1>4, <1>6, <2>2
<1>13. Tidy(ring)' /\ SoundNow'
  BY <1>4, <1>6, <1>11 DEF SoundNow, Sound
<1>14. AtRest'
  <2>1. ReadyAt(nextHead.cycle, nextHead.block, FALSE)'  BY <1>8, <1>12 DEF ReadyAt
  <2>2. Tailed(ring', oldest'.block)  BY <1>1, <1>10, <1>11 DEF Tailed
  <2>3. QED  BY <1>9, <2>1, <2>2 DEF AtRest
<1>15. Carries(overlay, home, view, FALSE)  BY <1>2 DEF Running
<1>16. CASE pc' = "idle" /\ overlay' = Over(overlay, Images(count + 1))
  <2>1. ASSUME NEW b \in Blocks
        PROVE  overlay'[b] = IF b \in cur.writes THEN count + 1 ELSE overlay[b]
    <3>1. count + 1 # 0  BY DEF Inv, HistOK
    <3>2. QED  BY <1>16, <3>1 DEF Over, Images
  <2>2. Carries(overlay', home, view', FALSE)
    <3>1. SUFFICES ASSUME NEW b \in Blocks
                  PROVE  /\ overlay'[b] # 0 => overlay'[b] = view'[b]
                         /\ overlay'[b] = 0 => home[b] = view'[b]
      BY DEF Carries
    <3>2. count + 1 # 0  BY DEF Inv, HistOK
    <3>3. /\ overlay[b] # 0 => overlay[b] = view[b]
          /\ overlay[b] = 0 => home[b] = view[b]
      BY <1>15, <3>1 DEF Carries
    <3>4. CASE b \in cur.writes  BY <1>3, <2>1, <3>1, <3>2, <3>4
    <3>5. CASE b \notin cur.writes  BY <1>3, <2>1, <3>1, <3>3, <3>5
    <3>6. QED  BY <3>4, <3>5
  <2>3. Running'
    BY <1>5, <1>9, <1>10, <1>14, <1>16, <2>2 DEF Running, NothingHeld
  <2>4. MountSays'  BY <1>2, <1>5, <1>16 DEF MountSays
  <2>5. QED  BY <1>13, <2>3, <2>4 DEF Safe
<1>17. CASE pc' = "bound" /\ UNCHANGED <<cur, overlay>>
  <2>1. Over(home, overlay) = view  BY <1>2, PushedIsView
  <2>2. \A b \in Blocks : Images(count)'[b] = IF b \in cur.writes THEN count + 1 ELSE 0
    BY <1>3, <1>17 DEF Images
  <2>3. Over(home, overlay)' = view  BY <1>17, <2>1 DEF Over
  <2>4. Carries(Images(count)', view, view', FALSE)
    <3>1. SUFFICES ASSUME NEW b \in Blocks
                  PROVE  /\ Images(count)'[b] # 0 => Images(count)'[b] = view'[b]
                         /\ Images(count)'[b] = 0 => view[b] = view'[b]
      BY DEF Carries
    <3>2. count + 1 # 0  BY DEF Inv, HistOK
    <3>3. CASE b \in cur.writes  BY <1>3, <2>2, <3>1, <3>2, <3>3
    <3>4. CASE b \notin cur.writes  BY <1>3, <2>2, <3>1, <3>4
    <3>5. QED  BY <3>3, <3>4
  <2>5. BoundOK'
    <3>1. Carries(Images(count), Over(home, overlay), view, FALSE)'  BY <2>3, <2>4
    <3>2. Covered(ring, cur.writes)'  BY <1>4, <1>6, <1>17
    <3>3. QED  BY <1>9, <1>10, <3>1, <3>2 DEF BoundOK
  <2>6. Running'
    BY <1>5, <1>9, <1>10, <1>14, <1>17, <2>5 DEF Running, NothingHeld
  <2>7. MountSays'  BY <1>2, <1>5 DEF MountSays
  <2>8. QED  BY <1>13, <2>6, <2>7 DEF Safe
<1>18. QED  BY <1>5, <1>16, <1>17

\* A record write that failed or was cut short, wherever it stopped.
LEMMA AppendTornSafe ==
  ASSUME Inv, Safe, pc = "append", ring' \in Torn(NextRecord),
         IF ring' = Landed(NextRecord) /\ NextRecord.last
           THEN Happened ELSE UNCHANGED <<count, view>>,
         Returns("io", TRUE), UNCHANGED <<home, sbCount, exposed>>
  PROVE  /\ Safe'
         /\ count' # count => Heals(ring')
<1> DEFINE r == NextRecord
<1>1. /\ Placed(r) /\ r.cycle = cur.head.cycle /\ r.block = Position /\ r.kind = cur.kind
      /\ cur.head.cycle \in Nat /\ Position \in Nat
  BY NextRecordIs
<1>2. /\ Running /\ mnt = "rw" /\ ~failed /\ Tidy(ring) /\ Appending
      /\ cur.kind \in {"checkpoint", "unmount"}
      /\ cur.kind = "unmount" => /\ NothingHeld /\ home = view /\ ~exposed
                                 /\ sbCount = view[AgBlock]
  BY AppendFacts
<1>3. ReadyAt(cur.head.cycle, Position, cur.done > 0)  BY <1>2 DEF Appending
<1>4. /\ Tidy(ring')
      /\ ring' # Lay(ring, r) => Sound(ring', home, view, sbCount, exposed)
  BY <1>1, <1>2, <1>3, TornSound
<1>5. Lay(ring, r) = Landed(r)  BY LandedIsLay
<1>6. ASSUME ring' # Lay(ring, r) PROVE SoundNow' /\ count' = count
  <2>1. UNCHANGED <<count, view>>  BY <1>5, <1>6, Zenon
  <2>2. QED  BY <1>4, <1>6, <2>1 DEF SoundNow
<1>7. ASSUME ring' = Lay(ring, r) PROVE SoundNow' /\ (count' # count => Heals(ring'))
  <2>1. IsNewest(ring', r)
    BY <1>1, <1>2, <1>3, <1>7, LayIsNewest DEF ReadyAt
  <2>2. r \in ring'  BY <2>1 DEF IsNewest
  <2>3. CASE cur.kind = "unmount"
    <3>1. UNCHANGED <<count, view>>
      <4>1. Happened \/ UNCHANGED <<count, view>>  OBVIOUS
      <4>2. QED  BY <2>3, <4>1 DEF Happened
    <3>2. SoundAt(ring', r, home, view, sbCount, exposed)
      BY <1>1, <1>2, <2>3, LayUnmount
    <3>3. QED  BY <2>1, <2>2, <3>1, <3>2 DEF SoundNow, Sound
  <2>4. CASE cur.kind = "checkpoint"
    <3>1. CASE r.last
      <4>1. Happened  BY <1>5, <1>7, <3>1, Zenon
      <4>2. Counts(r, view, view', count, count', FALSE)  BY <2>4, <3>1, <4>1, HappenedCounts
      <4>3. /\ SoundAt(ring', r, home, view', sbCount, exposed)
            /\ Chain(ring', r, count', FALSE)
        BY <1>7, <2>4, <4>2, AppendLands
      <4>4. Follows(Walk(ring', r), r)  BY <1>1, <2>4, <4>3 DEF Chain
      <4>5. QED  BY <2>1, <2>2, <4>3, <4>4 DEF SoundNow, Sound, Heals
    <3>2. CASE ~r.last
      <4>1. UNCHANGED <<count, view>>  BY <3>2, Zenon
      <4>2. Counts(r, view, view, count, count, TRUE)  BY <3>2 DEF Counts
      <4>3. SoundAt(ring', r, home, view, sbCount, exposed)
        BY <1>7, <2>4, <4>2, AppendLands
      <4>4. QED  BY <2>1, <2>2, <4>1, <4>3 DEF SoundNow, Sound
    <3>3. QED  BY <3>1, <3>2
  <2>5. QED  BY <1>2, <2>3, <2>4
<1>8. Tidy(ring)' /\ SoundNow'  BY <1>4, <1>6, <1>7
<1>9. Safe'  BY <1>2, <1>8, SafeStopped
<1>10. QED  BY <1>6, <1>7, <1>9

LEMMA AppendSafe ==
  ASSUME Inv, Inv', Safe, AppendRecord
  PROVE  Safe'
<1>0. pc = "append" /\ UNCHANGED <<home, sbCount, exposed>>  BY DEF AppendRecord
<1>1. CASE /\ ring' = Landed(NextRecord) /\ ~NextRecord.last
           /\ cur' = [cur EXCEPT !.done = @ + 1] /\ UNCHANGED <<mount, pc, res, count, view>>
  BY <1>0, <1>1, AppendMidSafe
<1>2. CASE ring' = Landed(NextRecord) /\ NextRecord.last /\ Happened /\ Committed
  <2>1. CASE cur.kind = "checkpoint"  BY <1>0, <1>2, <2>1, AppendLastSafe
  <2>2. CASE cur.kind = "unmount"
    <3>1. Forget /\ UNCHANGED <<count, view>>  BY <1>2, <2>2 DEF Committed, Happened
    <3> DEFINE r == NextRecord
    <3>2. /\ Placed(r) /\ r.cycle = cur.head.cycle /\ r.block = Position /\ r.kind = cur.kind
          /\ cur.head.cycle \in Nat /\ Position \in Nat
      BY <1>0, NextRecordIs
    <3>3. /\ Tidy(ring) /\ Appending
          /\ home = view /\ ~exposed /\ sbCount = view[AgBlock]
      BY <1>0, <2>2, AppendFacts
    <3>4. ring' = Lay(ring, r)  BY <1>2, LandedIsLay
    <3> HIDE DEF r
    <3>5. IsNewest(ring', r) /\ Tidy(ring')
      BY <3>2, <3>3, <3>4, LayIsNewest, LayTidy DEF Appending, ReadyAt
    <3>6. SoundAt(ring', r, home, view, sbCount, exposed)
      BY <2>2, <3>2, <3>3, LayUnmount
    <3>7. Tidy(ring)' /\ SoundNow'
      BY <1>0, <3>1, <3>5, <3>6 DEF SoundNow, Sound, IsNewest
    <3>8. QED  BY <3>1, <3>7, SafeForgotten
  <2>3. QED  BY <1>0, <2>1, <2>2, AppendFacts
<1>3. CASE /\ ring' \in Torn(NextRecord)
           /\ IF ring' = Landed(NextRecord) /\ NextRecord.last
                THEN Happened ELSE UNCHANGED <<count, view>>
           /\ Returns("io", TRUE)
  BY <1>0, <1>3, AppendTornSafe
<1>4. QED  BY <1>1, <1>2, <1>3, Zenon DEF AppendRecord

-----------------------------------------------------------------------------
(* Every step keeps the log sound *)

LEMMA SafeStep ==
  ASSUME Inv, Inv', Safe, [Next]_vars
  PROVE  Safe'
<1>1. CASE MountRw  BY <1>1, MountRwSafe
<1>2. CASE MountRo  BY <1>2, MountRoSafe
<1>3. CASE CloseRo \/ Crash  BY <1>3, CloseSafe
<1>4. CASE Sync  BY <1>4, SyncSafe
<1>5. CASE Commit  BY <1>5, CommitSafe
<1>6. CASE WrapPush  BY <1>6, WrapPushSafe
<1>7. CASE WrapPad  BY <1>7, WrapPadSafe
<1>8. CASE AppendRecord  BY <1>8, AppendSafe
<1>9. CASE BoundPush  BY <1>9, BoundPushSafe
<1>10. CASE UnmountPush  BY <1>10, UnmountPushSafe
<1>11. CASE UnmountCounters  BY <1>11, UnmountCountersSafe
<1>12. CASE InPlace
  <2>1. PICK b \in Blocks \ {AgBlock} : WriteInPlace(b)  BY <1>12 DEF InPlace
  <2>2. QED  BY <2>1, WriteInPlaceSafe
<1>13. CASE UNCHANGED vars
  <2>1. UNCHANGED <<device, mount, pc, cur, hist>>  BY <1>13 DEF vars
  <2>2. QED  BY <2>1, SafeAlone
<1>14. QED
  BY <1>1, <1>2, <1>3, <1>4, <1>5, <1>6, <1>7, <1>8, <1>9, <1>10, <1>11, <1>12, <1>13
  DEF Next

\* Every behaviour keeps the log sound, whatever the next device write of the
\* operation is and however it fails: what the properties below follow from.
THEOREM JournalIsSafe == Spec => [](Inv /\ Safe)
<1>1. Init => Inv /\ Safe  BY InvInit, SafeInit
<1>2. Inv /\ Safe /\ [Next]_vars => Inv' /\ Safe'
  <2> SUFFICES ASSUME Inv, Safe, [Next]_vars PROVE Inv' /\ Safe'  OBVIOUS
  <2>1. Inv'  BY InvStep
  <2>2. QED  BY <2>1, SafeStep
<1>3. QED  BY <1>1, <1>2, PTL DEF Spec

\* While a mount is writing, whatever it is about to write next, the newest
\* record in the ring can be walked to.
LEMMA WritableHeals ==
  ASSUME Inv, Safe, Writable
  PROVE  Heals(ring)
<1>1. Running /\ Tidy(ring)  BY RunningNow DEF Safe
<1>2. CASE pc \in {"idle", "counters", "bound"}
  BY <1>1, <1>2, AtRestHeals DEF Running
<1>3. CASE pc \in {"wrap", "pad"}
  <2>1. cur.head.cycle \in Nat /\ cur.head.block \in Nat
    BY <1>3 DEF Inv, OpOK, StageOK, HeadInRing, HeadPos
  <2>2. ReadyAt(cur.head.cycle, cur.head.block, FALSE)  BY <1>1, <1>3 DEF Running, OnTheWay
  <2>3. QED  BY <1>1, <2>1, <2>2, ReadySound DEF ReadyAt
<1>4. CASE pc = "append"
  <2>1. cur.head.cycle \in Nat /\ Position \in Nat  BY <1>4, NextRecordIs
  <2>2. ReadyAt(cur.head.cycle, Position, cur.done > 0)  BY <1>1, <1>4 DEF Running, Appending
  <2>3. QED  BY <1>1, <2>1, <2>2, ReadySound DEF ReadyAt
<1>5. QED  BY <1>2, <1>3, <1>4 DEF Inv, OpOK

LEMMA SafeReads ==
  ASSUME Inv, Safe
  PROVE  ReadsCommitted
<1>1. CASE mnt = "rw" /\ pc = "idle" /\ ~failed
  <2>1. Running /\ pc # "bound"  BY <1>1 DEF Safe
  <2>2. Over(home, overlay) = view  BY <2>1, PushedIsView
  <2>3. QED  BY <2>2 DEF ReadsCommitted
<1>2. CASE mnt = "ro" /\ ~exposed
  <2>1. Carries(overlay, home, view, FALSE)  BY <1>2 DEF Safe, MountSays
  <2>2. Over(home, overlay) = view
    BY <2>1, CarriesReads DEF Inv, DeviceOK, MountOK, HistOK
  <2>3. QED  BY <2>2 DEF ReadsCommitted
<1>3. QED  BY <1>1, <1>2 DEF ReadsCommitted

LEMMA SafeSays ==
  ASSUME Inv, Safe
  PROVE  CrashSafeUnlessExposed /\ TornWrapLosesNothing /\ CleanMeansSettled
BY SoundSays DEF Inv, DeviceOK, HistOK, Safe

\* README.md "a crash at any checkpoint replays to a prefix of them", for
\* every ring, every set of checkpoint shapes and every sequence of crashes
\* and failed writes: what log_recover::replay makes of the device is every
\* checkpoint that reached the log whole, in order, and nothing else, except
\* between a commit_record that pushed a full overlay and the next push.
THEOREM ReplaysToAPrefix == Spec => []CrashSafeUnlessExposed
<1>1. Inv /\ Safe => CrashSafeUnlessExposed  BY SafeSays
<1>2. QED  BY <1>1, JournalIsSafe, PTL

\* No wrap, pad or record of a mount whose device has not failed overwrites
\* a record that log_recover::walk still needs.
THEOREM LogCanBeFollowed == Spec => []AlwaysRecoverable
<1>1. Inv /\ Safe => AlwaysRecoverable
  <2> SUFFICES ASSUME Inv, Safe, mnt = "rw" /\ ~failed PROVE Recoverable
    BY DEF AlwaysRecoverable
  <2>1. Heals(ring)  BY WritableHeals DEF Writable
  <2>2. QED  BY <2>1, HealsRecovers DEF Safe
<1>2. QED  BY <1>1, JournalIsSafe, PTL

\* A log whose newest record is whole and that walk nevertheless refuses
\* holds nothing the metadata blocks lack: a write cut short where the ring
\* begins again loses no checkpoint.
THEOREM TornWrapIsHarmless == Spec => []TornWrapLosesNothing
<1>1. Inv /\ Safe => TornWrapLosesNothing  BY SafeSays
<1>2. QED  BY <1>1, JournalIsSafe, PTL

\* Filesystem::unmount's order: a log that says it was cleanly unmounted is
\* on a volume with every change home and the counters in the superblock.
THEOREM CleanLogIsSettled == Spec => []CleanMeansSettled
<1>1. Inv /\ Safe => CleanMeansSettled  BY SafeSays
<1>2. QED  BY <1>1, JournalIsSafe, PTL

\* Between operations a writable mount reads what all the checkpoints left,
\* and a read-only mount that replayed a log reads the same.
THEOREM MountsReadCommitted == Spec => []ReadsCommitted
<1>1. Inv /\ Safe => ReadsCommitted  BY SafeReads
<1>2. QED  BY <1>1, JournalIsSafe, PTL

-----------------------------------------------------------------------------
(* The journal implements an atomic store *)

\* The device and the history change only under a mount that may write, and
\* the history by one checkpoint or in-place write at a time, after which the
\* log can be followed.
LEMMA OnlyWritersWrite ==
  ASSUME Safe, ~Writable, [Next]_vars
  PROVE  UNCHANGED <<home, ring, sbCount, count, view>>
<1>1. pc = "idle"  BY StageIsWritable
<1>2. ~(Sync \/ Commit \/ WrapPush \/ WrapPad \/ AppendRecord \/ BoundPush
        \/ UnmountPush \/ UnmountCounters \/ InPlace)
  BY <1>1 DEF Sync, Commit, WrapPush, WrapPad, AppendRecord, BoundPush, UnmountPush,
              UnmountCounters, InPlace, WriteInPlace
<1>3. CASE MountRw  BY <1>3 DEF MountRw, device, hist
<1>4. CASE MountRo  BY <1>4 DEF MountRo, device, hist
<1>5. CASE CloseRo \/ Crash  BY <1>5 DEF CloseRo, Crash, device, hist
<1>6. CASE UNCHANGED vars  BY <1>6 DEF vars, device, hist
<1>7. QED  BY <1>2, <1>3, <1>4, <1>5, <1>6 DEF Next

OneMore ==
  /\ count' = count + 1
  /\ \A b \in Blocks : view'[b] = view[b] \/ view'[b] = count + 1

LEMMA HappenedIsOneMore ==
  ASSUME Inv, Happened
  PROVE  UNCHANGED <<count, view>> \/ OneMore
BY DEF Happened, OneMore

LEMMA AppendCounts ==
  ASSUME Inv, Inv', Safe, AppendRecord
  PROVE  UNCHANGED <<count, view>> \/ (OneMore /\ (Writable' \/ Heals(ring')))
<1>0. pc = "append" /\ UNCHANGED <<home, sbCount, exposed>>  BY DEF AppendRecord
<1>1. Writable /\ mnt = "rw" /\ ~failed  BY <1>0, StageIsWritable DEF Writable
<1>2. CASE UNCHANGED <<mount, pc, res, count, view>>  BY <1>2
<1>3. CASE Happened /\ Committed
  <2>1. CASE cur.kind = "unmount"  BY <1>3, <2>1 DEF Happened
  <2>2. CASE cur.kind # "unmount"
    <3>1. UNCHANGED <<mnt, failed>>  BY <1>3, <2>2 DEF Committed
    <3>2. Writable'  BY <1>1, <3>1 DEF Writable
    <3>3. QED  BY <1>3, <3>2, HappenedIsOneMore
  <2>3. QED  BY <2>1, <2>2
<1>4. CASE /\ ring' \in Torn(NextRecord)
           /\ IF ring' = Landed(NextRecord) /\ NextRecord.last
                THEN Happened ELSE UNCHANGED <<count, view>>
           /\ Returns("io", TRUE)
  <2>1. count' # count => Heals(ring')  BY <1>0, <1>4, AppendTornSafe
  <2>2. UNCHANGED <<count, view>> \/ OneMore
    <3>1. Happened \/ UNCHANGED <<count, view>>  BY <1>4
    <3>2. QED  BY <3>1, HappenedIsOneMore
  <2>3. OneMore => count' # count  BY DEF OneMore, Inv, HistOK
  <2>4. QED  BY <2>1, <2>2, <2>3
<1>5. QED  BY <1>2, <1>3, <1>4, Zenon DEF AppendRecord

LEMMA StepCounts ==
  ASSUME Inv, Inv', Safe, [Next]_vars
  PROVE  UNCHANGED <<count, view>> \/ (OneMore /\ (Writable' \/ Heals(ring')))
<1>a. PushFails => UNCHANGED <<count, view>>  BY DEF PushFails, hist
<1>1. CASE AppendRecord  BY <1>1, AppendCounts
<1>2. CASE InPlace
  <2>1. PICK b \in Blocks \ {AgBlock} : WriteInPlace(b)  BY <1>2 DEF InPlace
  <2>2. CASE UNCHANGED hist  BY <2>2 DEF hist
  <2>3. CASE ~UNCHANGED hist
    <3>1. /\ view' = [view EXCEPT ![b] = count + 1] /\ count' = count + 1
          /\ UNCHANGED <<ring, sbCount, mount, pc, cur, exposed>>
          /\ Writable
      BY <2>1, <2>3 DEF WriteInPlace
    <3>2. Writable'  BY <3>1 DEF Writable, mount
    <3>3. OneMore  BY <3>1 DEF OneMore, Inv, HistOK
    <3>4. QED  BY <3>2, <3>3
  <2>4. QED  BY <2>2, <2>3
<1>3. CASE Sync  BY <1>a, <1>3 DEF Sync
<1>4. CASE Commit  BY <1>4 DEF Commit, hist
<1>5. CASE WrapPush  BY <1>a, <1>5 DEF WrapPush
<1>6. CASE WrapPad  BY <1>6 DEF WrapPad, hist
<1>7. CASE BoundPush  BY <1>a, <1>7 DEF BoundPush
<1>8. CASE UnmountPush  BY <1>8 DEF UnmountPush, hist
<1>9. CASE UnmountCounters  BY <1>9 DEF UnmountCounters, hist
<1>10. CASE MountRw \/ MountRo \/ CloseRo \/ Crash
  BY <1>10 DEF MountRw, MountRo, CloseRo, Crash, hist
<1>11. CASE UNCHANGED vars  BY <1>11 DEF vars, hist
<1>12. QED
  BY <1>1, <1>2, <1>3, <1>4, <1>5, <1>6, <1>7, <1>8, <1>9, <1>10, <1>11 DEF Next

ViewBounded == \A b \in Blocks : view[b] <= count

LEMMA BoundedStep ==
  ASSUME Inv, Inv', Safe, ViewBounded, [Next]_vars
  PROVE  ViewBounded'
<1>1. /\ count \in Nat /\ \A b \in Blocks : view[b] \in Nat
      /\ count' \in Nat /\ \A b \in Blocks : view'[b] \in Nat
  BY DEF Inv, HistOK
<1>2. CASE UNCHANGED <<count, view>>  BY <1>2 DEF ViewBounded
<1>3. CASE OneMore  BY <1>1, <1>3 DEF OneMore, ViewBounded
<1>4. QED  BY <1>2, <1>3, StepCounts

\* Nothing was ever pushed ahead of the images of its own commit.
NeverAhead == ~exposed /\ pc # "bound"

LEMMA AheadStep ==
  ASSUME Safe, NeverAhead, [Next]_vars
  PROVE  ~exposed'
<1>a. PushFails => UNCHANGED exposed  BY DEF PushFails, hist
<1>1. CASE Sync  BY <1>1, <1>a DEF Sync, Pushed, NeverAhead
<1>2. CASE WrapPush  BY <1>2, <1>a DEF WrapPush, Pushed, NeverAhead
<1>3. CASE UnmountPush  BY <1>3 DEF UnmountPush, Pushed, NeverAhead, hist
<1>4. CASE Commit \/ WrapPad \/ UnmountCounters
  BY <1>4 DEF Commit, WrapPad, UnmountCounters, NeverAhead, hist
<1>5. CASE AppendRecord  BY <1>5 DEF AppendRecord, NeverAhead
<1>6. CASE InPlace  BY <1>6 DEF InPlace, WriteInPlace, NeverAhead, hist
<1>7. CASE MountRw \/ MountRo \/ CloseRo \/ Crash
  BY <1>7 DEF MountRw, MountRo, CloseRo, Crash, NeverAhead, hist
<1>8. CASE UNCHANGED vars  BY <1>8 DEF vars, hist, NeverAhead
<1>9. CASE BoundPush  BY <1>9 DEF BoundPush, NeverAhead
<1>10. QED  BY <1>1, <1>2, <1>3, <1>4, <1>5, <1>6, <1>7, <1>8, <1>9 DEF Next

\* The volume, to whoever mounts it next, is everything that happened, unless
\* its log cannot be followed.
VolumeSays == Volume = IF Recoverable THEN view ELSE None

LEMMA VolumeIs == Inv /\ Safe /\ ~exposed => VolumeSays
<1> SUFFICES ASSUME Inv, Safe, ~exposed PROVE VolumeSays  OBVIOUS
<1>1. Recoverable => Recovered = view
  BY SafeSays DEF CrashSafeUnlessExposed, CrashSafe
<1>2. Volume = IF Recoverable THEN Recovered ELSE None
  BY DEF Volume, Recoverable, Recovered
<1>3. QED  BY <1>1, <1>2 DEF VolumeSays

LEMMA WritableRecovers == Inv /\ Safe /\ Writable => Recoverable
BY WritableHeals, HealsRecovers DEF Safe

LEMMA HealsMeansRecoverable == Safe /\ Heals(ring) => Recoverable
BY HealsRecovers DEF Safe

StoreStep == [Store!Next]_<<Volume, count>>

LEMMA StepOfStore ==
  ASSUME Inv, Inv', Safe, Safe', ViewBounded, ViewBounded', ~exposed, ~exposed', [Next]_vars,
         (Inv /\ Safe /\ ~exposed => VolumeSays)',
         (Inv /\ Safe /\ Writable => Recoverable)',
         (Safe /\ Heals(ring) => Recoverable)'
  PROVE  StoreStep
<1>1. Volume = IF Recoverable THEN view ELSE None  BY VolumeIs DEF VolumeSays
<1>2. Volume' = IF Recoverable' THEN view' ELSE None  BY DEF VolumeSays
<1>3. CASE ~Writable
  <2>1. UNCHANGED <<home, ring, sbCount, count, view>>  BY <1>3, OnlyWritersWrite
  <2>2. Volume' = Volume
    BY <2>1 DEF Volume, NeedsReplay, Newest, WalkReaches, Walked, Replayed, Applied, Over
  <2>3. QED  BY <2>1, <2>2 DEF StoreStep
<1>4. CASE Writable
  <2>1. Volume = view  BY <1>1, <1>4, WritableRecovers
  <2>2. CASE UNCHANGED <<count, view>>
    <3>1. Volume' = Volume \/ Volume' = None  BY <1>2, <2>1, <2>2
    <3>2. QED  BY <2>2, <3>1 DEF StoreStep, Store!Next, Store!Tear
  <2>3. CASE OneMore /\ (Writable' \/ Heals(ring'))
    <3>1. Recoverable'  BY <2>3
    <3>2. Volume' = view'  BY <1>2, <3>1
    <3>3. Volume # None
      <4>1. view \in [Blocks -> Nat]  BY DEF Inv, HistOK
      <4>2. QED  BY <2>1, <4>1
    <3>4. view' \in [Blocks -> 0 .. count + 1]
      <4>1. view' \in [Blocks -> Nat] /\ count \in Nat  BY DEF Inv, HistOK
      <4>2. \A b \in Blocks : view'[b] <= count + 1  BY <2>3 DEF ViewBounded, OneMore
      <4>3. QED  BY <4>1, <4>2
    <3>5. Store!Checkpoint
      BY <2>1, <2>3, <3>2, <3>3, <3>4 DEF Store!Checkpoint, OneMore
    <3>6. QED  BY <3>5 DEF StoreStep, Store!Next
  <2>4. QED  BY <2>2, <2>3, StepCounts
<1>5. QED  BY <1>3, <1>4

LEMMA InitOfStore == Init => Store!Init
<1> SUFFICES ASSUME Init PROVE Store!Init  OBVIOUS
<1>1. CleanLog(ring) /\ Safe  BY SafeInit DEF Init
<1>2. ~NeedsReplay
  <2>1. CASE ring = {}  BY <2>1 DEF NeedsReplay
  <2>2. CASE ring # {}
    <3>1. PICK n \in ring : n.kind = "unmount" /\ \A s \in ring : AtOrBefore(s, n)
      BY <1>1, <2>2 DEF CleanLog
    <3>2. Newest = n  BY <1>1, <3>1, NewestIs DEF IsNewest, Safe
    <3>3. QED  BY <3>1, <3>2 DEF NeedsReplay
  <2>3. QED  BY <2>1, <2>2
<1>3. Volume = home  BY <1>2 DEF Volume
<1>4. QED  BY <1>3 DEF Init, Store!Init

StoreInv == Inv /\ Safe /\ ViewBounded

LEMMA StoreInvInit == Init => StoreInv /\ ~exposed
<1> SUFFICES ASSUME Init PROVE StoreInv /\ ~exposed  OBVIOUS
<1>1. ViewBounded  BY DEF Init, ViewBounded
<1>2. QED  BY <1>1, InvInit, SafeInit DEF Init, StoreInv

LEMMA StoreInvStep == StoreInv /\ NeverAhead /\ [Next]_vars => StoreInv' /\ ~exposed'
<1> SUFFICES ASSUME Inv, Safe, ViewBounded, NeverAhead, [Next]_vars
             PROVE  StoreInv' /\ ~exposed'
  BY DEF StoreInv
<1>1. Inv'  BY InvStep
<1>2. Safe'  BY <1>1, SafeStep
<1>3. ViewBounded'  BY <1>1, BoundedStep
<1>4. QED  BY <1>1, <1>2, <1>3, AheadStep DEF StoreInv

\* Every behaviour in which no commit met a full overlay is one of the atomic
\* store: each device write is one whole checkpoint, or nothing, or a cut
\* short write after which the log cannot be followed.
THEOREM JournalIsAnAtomicStore == Spec /\ [](pc # "bound") => ImplementsStore
<1>1. Init => StoreInv /\ ~exposed /\ Store!Init  BY StoreInvInit, InitOfStore
<1>2. StoreInv /\ ~exposed /\ pc # "bound" /\ [Next]_vars => StoreInv' /\ ~exposed'
  BY StoreInvStep DEF NeverAhead
<1>3. (Inv /\ Safe /\ ~exposed => VolumeSays)'  BY VolumeIs, PTL
<1>4. (Inv /\ Safe /\ Writable => Recoverable)'  BY WritableRecovers, PTL
<1>5. (Safe /\ Heals(ring) => Recoverable)'  BY HealsMeansRecoverable, PTL
<1>6. StoreInv /\ StoreInv' /\ ~exposed /\ ~exposed' /\ [Next]_vars
        => [Store!Next]_<<Volume, count>>
  BY <1>3, <1>4, <1>5, StepOfStore DEF StoreInv, StoreStep
<1>7. QED  BY <1>1, <1>2, <1>6, PTL DEF Spec, ImplementsStore, Store!Spec
=============================================================================
