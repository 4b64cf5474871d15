---------------------------- MODULE SpaceRecords ----------------------------
(***************************************************************************)
(* The records of a group's reverse map (rmap.rs) and of its               *)
(* reference-count tree (refcount.rs): lists, which an edit splits, trims  *)
(* and joins.  An edit that cannot be made leaves `ok' false and the list  *)
(* as it was.  Copy-on-write staging records, which nothing here makes and *)
(* a free under one is refused for, are left out.                          *)
(***************************************************************************)
EXTENDS Integers, Sequences, SequencesExt

Edit(ok, recs) == [ok |-> ok, recs |-> recs]
RecEnd(r)      == r.start + r.len
Overlap(r, start, end) == r.start < end /\ start < RecEnd(r)
FirstSuch(recs, P(_)) ==
  LET at == {k \in DOMAIN recs : P(recs[k])} IN IF at = {} THEN 0 ELSE CHOOSE k \in at : \A j \in at : k <= j

Just(recs, k) == IF k \in DOMAIN recs THEN <<recs[k]>> ELSE <<>>

-----------------------------------------------------------------------------
(* The reverse map *)

\* A file's data, unwritten data, or a block of its extent map ("map"), whose
\* offset is zero; an owner below zero is a structure of the group.
Rmap(start, len, owner, off, flag) ==
  [start |-> start, len |-> len, owner |-> owner, off |-> off, flag |-> flag]

ReservedOwner(r) == r.owner < 0
MapBlockRec(r)   == r.flag = "map"

\* continues_into
Continues(r, s) ==
  /\ r.owner = s.owner /\ r.flag = s.flag /\ RecEnd(r) = s.start
  /\ ReservedOwner(r) \/ r.off + r.len = s.off

\* key_order: start, owner, then the offset with the map-block flag on top.
KeyLess(r, s) ==
  \/ r.start < s.start
  \/ r.start = s.start /\ r.owner < s.owner
  \/ /\ r.start = s.start /\ r.owner = s.owner
     /\ (MapBlockRec(s) /\ ~MapBlockRec(r)) \/ (MapBlockRec(r) = MapBlockRec(s) /\ r.off < s.off)

\* insert: in start order, joined to the record before and the one after it.
\* Only the record before is asked whether it overlaps.
InsertRec(recs, r) ==
  LET next   == FirstSuch(recs, LAMBDA x : x.start > r.start)
      at     == IF next = 0 THEN Len(recs) + 1 ELSE next
      before == SelectSeq(Just(recs, at - 1), LAMBDA x : Continues(x, r))
      after  == SelectSeq(Just(recs, at), LAMBDA x : Continues(r, x))
      joined == FoldLeft(LAMBDA x, y : [x EXCEPT !.len = @ + y.len], Head(before \o <<r>>), Tail(before \o <<r>> \o after))
  IN  IF at > 1 /\ RecEnd(recs[at - 1]) > r.start THEN Edit(FALSE, recs)
      ELSE Edit(TRUE, SubSeq(recs, 1, at - 1 - Len(before)) \o <<joined>> \o SubSeq(recs, at + Len(after), Len(recs)))

\* insert_shared: data may overlap data, but for one owner's at one offset.
InsertShared(recs, r) ==
  LET meta(x)   == ReservedOwner(x) \/ MapBlockRec(x)
      clash     == FirstSuch(recs, LAMBDA x :
                     /\ Overlap(x, r.start, RecEnd(r))
                     /\ \/ meta(x) \/ meta(r)
                        \/ x.owner = r.owner /\ x.flag = r.flag /\ x.off - x.start = r.off - r.start)
      b         == FirstSuch(recs, LAMBDA x : Continues(x, r))
      grown     == IF b = 0 THEN r ELSE [recs[b] EXCEPT !.len = @ + r.len]
      rest      == IF b = 0 THEN recs ELSE RemoveAt(recs, b)
      a         == FirstSuch(rest, LAMBDA x : Continues(grown, x))
      whole     == IF a = 0 THEN grown ELSE [grown EXCEPT !.len = @ + rest[a].len]
      others    == IF a = 0 THEN rest ELSE RemoveAt(rest, a)
      below     == Len(SelectSeq(others, LAMBDA x : KeyLess(x, whole)))
  IN  IF clash # 0 THEN Edit(FALSE, recs) ELSE Edit(TRUE, InsertAt(others, below + 1, whole))

\* Mutant: the piece after the hole keeps the offset of the whole.
MutAfterHole(whole, end) == [whole EXCEPT !.start = end, !.len = RecEnd(whole) - end]

\* The piece after a hole starts further into the file.
AfterHole(whole, end) ==
  [whole EXCEPT !.start = end, !.len = RecEnd(whole) - end,
                !.off = IF ReservedOwner(whole) \/ MapBlockRec(whole) THEN @ ELSE @ + (end - whole.start)]

\* remove: from the record that holds the range and lines up with it, or
\* else from any that holds it, leaving what lies before and after.
RemoveRec(recs, r) ==
  LET holds(x)  == x.owner = r.owner /\ x.flag = r.flag /\ x.start <= r.start /\ RecEnd(r) <= RecEnd(x)
      aligned(x) == ReservedOwner(x) \/ MapBlockRec(x) \/ x.off + (r.start - x.start) = r.off
      exact == FirstSuch(recs, LAMBDA x : holds(x) /\ aligned(x))
      at    == IF exact # 0 THEN exact ELSE FirstSuch(recs, LAMBDA x : holds(x))
      whole == recs[at]
      left  == IF whole.start < r.start THEN <<[whole EXCEPT !.len = r.start - whole.start]>> ELSE <<>>
      right == IF RecEnd(r) < RecEnd(whole) THEN <<AfterHole(whole, RecEnd(r))>> ELSE <<>>
  IN  IF at = 0 THEN Edit(FALSE, recs)
      ELSE Edit(TRUE, SortSeq(SubSeq(recs, 1, at - 1) \o left \o right \o SubSeq(recs, at + 1, Len(recs)), KeyLess))

-----------------------------------------------------------------------------
(* The reference-count tree *)

Refcount(start, len, count) == [start |-> start, len |-> len, count |-> count]

\* check_order: none empty, each shared, none into the next.
RefsInOrder(refs) ==
  /\ \A k \in DOMAIN refs : refs[k].len > 0 /\ refs[k].count >= 2
  /\ \A k \in 1 .. Len(refs) - 1 : RecEnd(refs[k]) <= refs[k + 1].start

\* merge_adjacent
Merged(refs) ==
  FoldLeft(LAMBDA q, r :
             IF q # <<>> /\ RecEnd(Last(q)) = r.start /\ Last(q).count = r.count
             THEN Append(Front(q), [Last(q) EXCEPT !.len = @ + r.len]) ELSE Append(q, r),
           <<>>, refs)

\* What a record becomes when one owner lets go of a range.
LetGo(r, start, end) ==
  LET lo == IF r.start > start THEN r.start ELSE start
      hi == IF RecEnd(r) < end THEN RecEnd(r) ELSE end
      piece(from, to, n) == IF from < to /\ n >= 2 THEN <<Refcount(from, to - from, n)>> ELSE <<>>
  IN  IF ~Overlap(r, start, end) THEN <<r>>
      ELSE piece(r.start, lo, r.count) \o piece(lo, hi, r.count - 1) \o piece(hi, RecEnd(r), r.count)

\* release: the records left, and the blocks nobody else holds.
Release(refs, start, len) ==
  LET end  == start + len
      held == {b \in start .. end - 1 : \E k \in DOMAIN refs : b \in refs[k].start .. RecEnd(refs[k]) - 1}
  IN  [ok |-> RefsInOrder(refs),
       refs |-> Merged(FoldLeft(LAMBDA q, r : q \o LetGo(r, start, end), <<>>, refs)),
       freeable |-> (start .. end - 1) \ held]
=============================================================================
