------------------------------- MODULE MCCheck -------------------------------
(***************************************************************************)
(* Two groups of fourteen and twelve blocks, and ten inodes. Group 0 holds *)
(* the log, the root in block form, a directory in its inode and a file    *)
(* that shares a block; group 1 the file it shares with, a realtime file,  *)
(* the quota file and the realtime bitmap and summary.                     *)
(***************************************************************************)
EXTENDS Check

MCGroups  == 0 .. 1
MCLength  == [g \in 0 .. 1 |-> IF g = 0 THEN 14 ELSE 12]
MCInos    == 0 .. 10      \* 10 is in no chunk
MCGroupOf == [i \in 0 .. 10 |-> IF i <= 3 THEN 0 ELSE 1]
MCBlockOf == [i \in 0 .. 10 |-> IF i <= 3 THEN 8 ELSE IF i <= 7 THEN 7 ELSE IF i <= 9 THEN 8 ELSE 10]
MCLog     == [group |-> 0, start |-> 9, len |-> 1]
MCKinds   == {1}
MCRtSizes == {1, 2}
MCExposed == {"sb", "copy", "agf", "agi", "agfl", "bno", "cnt", "rmap", "refc", "inobt", "finobt",
              "inode", "dir", "rtbitmap", "rtsummary", "quota"}

Ext(g, s, n) == [group |-> g, start |-> s, len |-> n]
E(s, n)      == [start |-> s, len |-> n]
Name(n, i, t) == [name |-> n, ino |-> i, ftype |-> t]

Inode(mode, nlink, owner, extents, nblocks) ==
  [state |-> "ok", mode |-> mode, nlink |-> nlink, owner |-> owner, extents |-> extents,
   forkstate |-> "ok", nblocks |-> nblocks, rt |-> FALSE, attrs |-> {}, attrstate |-> "ok", tree |-> {},
   local |-> FALSE, ents |-> {}, up |-> 0]
NoInode == Inode("free", 0, 0, <<>>, 0)

MCInode(i) ==
  CASE i = 0 -> Inode("dir", 3, 0, <<Ext(0, 10, 1)>>, 1)
    [] i = 1 -> [Inode("dir", 2, 0, <<>>, 0) EXCEPT !.local = TRUE, !.ents = {Name(1, 4, "file"), Name(2, 2, "file")}]
    [] i = 2 -> [Inode("file", 2, 1, <<Ext(0, 11, 2)>>, 3) EXCEPT !.attrs = {13}]
    [] i = 4 -> Inode("file", 1, 1, <<Ext(0, 11, 1), Ext(1, 9, 1)>>, 2)
    [] i = 5 -> [Inode("file", 1, 0, <<Ext(0, 0, 2)>>, 3) EXCEPT !.rt = TRUE, !.tree = {11}]
    [] i = 6 -> Inode("file", 1, 0, <<>>, 0)
    [] i \in {8, 9} -> Inode("file", 1, 0, <<>>, 0)
    [] OTHER -> NoInode

Chunk(first, exists, free) ==
  [first |-> first, exists |-> exists, free |-> free, count |-> Cardinality(exists),
   freecount |-> Cardinality(free), ok |-> TRUE]

Records(rs) == [state |-> "ok", blocks |-> {}, recs |-> rs]
Tree1(bs, rs) == [state |-> "ok", blocks |-> bs, recs |-> rs]
R(s, n, o)  == [start |-> s, len |-> n, owner |-> o]

Chunks0 == <<Chunk(0, 0 .. 3, {3})>>
Chunks1 == <<Chunk(4, 4 .. 7, {7}), Chunk(8, 8 .. 9, {})>>

Sectors ==
  {Sb, Bitmap, Summary, Copy(1), Dir(0), QuotaOf(1)}
    \cup {Slot(i) : i \in MCInos}
    \cup UNION {{Agf(g), Agi(g), Agfl(g), Bno(g), Cnt(g), RmapOf(g), Refc(g), Inobt(g), Finobts(g)} : g \in MCGroups}

\* Group 0: 0 headers, 1 bno, 2 cnt, 3 rmap, 4 refcount, 5 inobt, 6 finobt,
\* 7 free list, 8 chunk, 9 log, 10 root, 11 12 file 2, 13 its attributes.
\* Group 1: 0 headers, 1 .. 6 trees, 7 8 chunks, 9 file 4, 10 free,
\* 11 the extent tree of the realtime file 5.
MCContent(s) ==
  LET g == s[2]
  IN  CASE s[1] = "sb" -> [icount |-> 10, ifree |-> 2, fdblocks |-> 2, dirty |-> FALSE, qflagsok |-> TRUE,
                           quota |-> [k \in MCKinds |-> [ino |-> 6, active |-> TRUE, checked |-> TRUE]],
                           rt |-> [blocks |-> 6, extsize |-> 2, extents |-> 3, log |-> 1, bmblocks |-> 2,
                                   bmino |-> 8, sumino |-> 9, frextents |-> 2]]
        [] s[1] = "copy" -> "good"
        [] s[1] = "agf" -> [state |-> "ok", length |-> MCLength[g], freeblks |-> g, longest |-> g,
                            btreeblks |-> 0, flcount |-> 1 - g]
        [] s[1] = "agi" -> [state |-> "ok", length |-> MCLength[g], count |-> IF g = 0 THEN 4 ELSE 6, freecount |-> 1,
                            iblocks |-> 1, fblocks |-> 1]
        [] s[1] = "agfl" -> [state |-> "ok", list |-> IF g = 0 THEN {7} ELSE {}]
        [] s[1] \in {"bno", "cnt"} -> Tree1({IF s[1] = "bno" THEN 1 ELSE 2}, IF g = 0 THEN <<>> ELSE <<E(10, 1)>>)
        [] s[1] = "rmap" ->
             Tree1({3}, IF g = 0
                        THEN <<R(0, 1, Owned("headers")), R(1, 3, Owned("ag")), R(4, 1, Owned("refcount tree")),
                               R(5, 2, Owned("inobt")), R(7, 1, Owned("ag")), R(8, 1, Owned("inodes")),
                               R(9, 1, Owned("log")), R(10, 1, <<"data", 0>>), R(11, 2, <<"data", 2>>),
                               R(11, 1, <<"data", 4>>), R(13, 1, <<"attr", 2>>)>>
                        ELSE <<R(0, 1, Owned("headers")), R(1, 3, Owned("ag")), R(4, 1, Owned("refcount tree")),
                               R(5, 2, Owned("inobt")), R(7, 2, Owned("inodes")), R(9, 1, <<"data", 4>>),
                               R(11, 1, <<"extents", 5>>)>>)
        [] s[1] = "refc" -> Tree1({4}, IF g = 0 THEN <<[start |-> 11, len |-> 1, count |-> 2, cow |-> FALSE]>> ELSE <<>>)
        [] s[1] = "inobt" -> Tree1({5}, IF g = 0 THEN Chunks0 ELSE Chunks1)
        [] s[1] = "finobt" -> Tree1({6}, IF g = 0 THEN Chunks0 ELSE <<Chunks1[1]>>)
        [] s[1] = "inode" -> MCInode(g)
        [] s[1] = "dir" -> [state |-> "ok", up |-> 0, ents |-> {Name(1, 1, "dir"), Name(2, 2, "file"), Name(3, 5, "file")}]
        [] s[1] = "rtbitmap" -> [state |-> "ok", free |-> {1, 2}]
        [] s[1] = "rtsummary" -> [state |-> "ok", counts |-> [p \in (0 .. 1) \X (0 .. 1) |-> IF p = <<1, 0>> THEN 1 ELSE 0]]
        [] s[1] = "quota" -> [state |-> "ok", recs |-> [id \in 0 .. 1 |->
                                IF id = 0 THEN [ok |-> TRUE, blocks |-> 2, inodes |-> 5, rt |-> 2]
                                ELSE [ok |-> TRUE, blocks |-> 5, inodes |-> 2, rt |-> 0]]]

MCSound == {[s \in Sectors |-> MCContent(s)]}
=============================================================================
