------------------------------ MODULE MCRepair ------------------------------
(***************************************************************************)
(* Two groups and seven inodes, no reverse map, no reflink, no quota and   *)
(* no realtime section (the last two refuse every plan), but the realtime  *)
(* inodes every volume has.  Group 0 holds the root in leaf form and a     *)
(* directory in its inode; group 1 a file, those two inodes and the log.   *)
(***************************************************************************)
EXTENDS Repair

MCGroups  == 0 .. 1
MCLength  == [g \in 0 .. 1 |-> 9]
MCInos    == 0 .. 6
MCGroupOf == [i \in 0 .. 6 |-> IF i <= 2 THEN 0 ELSE 1]
MCBlockOf == [i \in 0 .. 6 |-> 5]
MCLog     == [group |-> 1, start |-> 6, len |-> 1]
MCExposed == {"copy", "sb", "agf", "agi", "inobt", "finobt", "inode", "dir", "index"}

Ext(g, s, n)  == [group |-> g, start |-> s, len |-> n]
Name(n, i, t) == [name |-> n, ino |-> i, ftype |-> t]

Inode(mode, nlink, extents, nblocks) ==
  [state |-> "ok", mode |-> mode, nlink |-> nlink, owner |-> 0, extents |-> extents,
   forkstate |-> "ok", nblocks |-> nblocks, rt |-> FALSE, attrs |-> {}, attrstate |-> "ok", tree |-> {},
   local |-> FALSE, ents |-> {}, up |-> 0]

MCInode(i) ==
  CASE i = 0 -> Inode("dir", 3, <<Ext(0, 6, 2)>>, 2)
    [] i = 1 -> [Inode("dir", 2, <<>>, 0) EXCEPT !.local = TRUE, !.ents = {Name(1, 3, "file")}]
    [] i \in {4, 5} -> Inode("file", 1, <<>>, 0)
    [] i = 3 -> Inode("file", 2, <<Ext(1, 7, 1)>>, 1)
    [] OTHER -> Inode("free", 0, <<>>, 0)

Chunk(first, exists, free) ==
  [first |-> first, exists |-> exists, free |-> free, count |-> Cardinality(exists),
   freecount |-> Cardinality(free), ok |-> TRUE]

Tree1(b, rs) == [state |-> "ok", blocks |-> {b}, recs |-> rs]
MCChunks(g)  == IF g = 0 THEN <<Chunk(0, 0 .. 2, {2})>> ELSE <<Chunk(3, 3 .. 6, {6})>>

Sectors ==
  {Sb, Copy(1), Dir(0), Index(0)} \cup {Slot(i) : i \in MCInos}
    \cup UNION {{Agf(g), Agi(g), Agfl(g), Bno(g), Cnt(g), Inobt(g), Finobts(g)} : g \in MCGroups}

\* Both groups: 0 headers, 1 bno, 2 cnt, 3 inobt, 4 finobt, 5 chunk.
\* Group 0: 6 7 root, 8 free list.  Group 1: 6 log, 7 file 3, 8 free.
MCContent(s) ==
  LET g == s[2]
  IN  CASE s[1] = "sb" -> [icount |-> 7, ifree |-> 2, fdblocks |-> 2, dirty |-> FALSE, qflagsok |-> TRUE,
                           quota |-> [k \in {} |-> 0],
                           rt |-> [blocks |-> 0, extsize |-> 1, extents |-> 0, log |-> 0, bmblocks |-> 0,
                                   bmino |-> 4, sumino |-> 5, frextents |-> 0]]
        [] s[1] = "copy" -> "good"
        [] s[1] = "agf" -> [state |-> "ok", length |-> 9, freeblks |-> g, longest |-> g, btreeblks |-> 0, flcount |-> 1 - g]
        [] s[1] = "agi" -> [state |-> "ok", length |-> 9, count |-> 3 + g, freecount |-> 1, iblocks |-> 1, fblocks |-> 1]
        [] s[1] = "agfl" -> [state |-> "ok", list |-> IF g = 0 THEN {8} ELSE {}]
        [] s[1] = "bno" -> Tree1(1, IF g = 0 THEN <<>> ELSE <<[start |-> 8, len |-> 1]>>)
        [] s[1] = "cnt" -> Tree1(2, IF g = 0 THEN <<>> ELSE <<[start |-> 8, len |-> 1]>>)
        [] s[1] = "inobt" -> Tree1(3, MCChunks(g))
        [] s[1] = "finobt" -> Tree1(4, MCChunks(g))
        [] s[1] = "inode" -> MCInode(g)
        [] s[1] = "dir" -> [state |-> "ok", up |-> 0, ents |-> {Name(1, 1, "dir"), Name(2, 3, "file")}]
        [] s[1] = "index" -> [agrees |-> TRUE]

MCSound == {[s \in Sectors |-> MCContent(s)]}

\* Byte order on the device: headers, trees, chunks, directory blocks.
MCPlace ==
  LET group(s) == IF s[1] = "inode" THEN MCGroupOf[s[2]] ELSE IF s[1] \in {"dir", "index"} THEN 0 ELSE s[2]
      at(s) == CASE s[1] \in {"sb", "copy"} -> 0 [] s[1] = "agf" -> 1 [] s[1] = "agi" -> 2 [] s[1] = "agfl" -> 3
                 [] s[1] = "bno" -> 4 [] s[1] = "cnt" -> 5 [] s[1] = "inobt" -> 6 [] s[1] = "finobt" -> 7
                 [] s[1] = "inode" -> 10 + s[2] [] s[1] = "dir" -> 20 [] s[1] = "index" -> 21
  IN  [s \in Sectors |-> 100 * group(s) + at(s)]
=============================================================================
