---------------------------- MODULE MCFileData ----------------------------
(* Volumes for TLC.  Free and unwritten blocks hold the bytes of a file that *)
(* is gone; a written block holds its file's bytes, and zeros past the end.  *)
EXTENDS FileData

Stale == 9

E(off, start, len) == Extent(off, start, len, FALSE)
U(off, start, len) == Extent(off, start, len, TRUE)

\* A volume from its files' sizes, extents and tree blocks.
Volume(size, exts, tree, sh) ==
  LET blocks == UNION {InGroup(g) : g \in Groups}
      held(f) == Mapped(exts[f]) + Cardinality(tree[f])
      user == [f \in Files |-> IF f = 1 THEN "u" ELSE "v"]
      byte(b, i) ==
        LET fs == {f \in Files : \E fb \in 0 .. size[f] : b \in WrittenAt(exts[f], fb)}
            f  == CHOOSE x \in fs : \A y \in fs : x <= y
            fb == CHOOSE x \in 0 .. size[f] : b \in WrittenAt(exts[f], x)
        IN  IF fs = {} THEN Stale ELSE IF fb * BlockSize + i < size[f] THEN f ELSE 0
      first == [b \in blocks |-> [i \in Bytes |-> byte(b, i)]]
      used == UNION {UNION {BlocksOf(e) : e \in Range(exts[f])} \cup tree[f] : f \in Files}
  IN
  [ file |-> [f \in Files |-> [size |-> size[f], exts |-> exts[f], tree |-> tree[f],
                               nblocks |-> held(f) + AttrBlocks[f],
                               reflink |-> \E e \in Range(exts[f]) : \E r \in Range(sh) : Overlap(r, e.start, e.start + e.len), owner |-> user[f]]],
    disk |-> first, free |-> blocks \ used, refs |-> sh,
    rmap |-> FoldSet(LAMBDA r, q : InsertShared(q, r).recs, <<>>,
                     UNION {{RmapOf(f, e) : e \in Range(exts[f])}
                              \cup {TreeRec(f, run[1], run[2]) : run \in RunsOf(tree[f])} : f \in Files}),
    dquot |-> [o \in Ids |-> [blocks |-> MapThenSumSet(LAMBDA f : held(f) + AttrBlocks[f], {f \in Files : user[f] = o}),
                              inodes |-> 1]],
    want |-> [f \in Files |-> [i \in Whole(size[f]) |->
                LET at == WrittenAt(exts[f], i \div BlockSize)
                IN  IF at = {} THEN {0} ELSE {first[CHOOSE b \in at : TRUE][i % BlockSize]}]] ]

None == [f \in Files |-> {}]

\* A hole and an unwritten extent, and an empty file; two files sharing a
\* block; a file that maps a block twice; a file whose map is a tree.
MCVolumes ==
  { Volume(<<7, 0>>, <<<<E(0, 1, 1), U(2, 2, 2)>>, <<>>>>, None, <<>>),
    Volume(<<4, 3>>, <<<<E(0, 1, 2)>>, <<E(0, 1, 1), E(1, 7, 1)>>>>, None, <<Refcount(1, 1, 2)>>),
    Volume(<<6, 5>>, <<<<E(0, 1, 3)>>, <<E(0, 1, 3)>>>>, None, <<Refcount(1, 3, 2)>>),
    Volume(<<4, 2>>, <<<<E(0, 1, 1), E(1, 1, 1)>>, <<E(0, 7, 1)>>>>, None, <<Refcount(1, 1, 2)>>),
    Volume(<<7, 3>>, <<<<E(0, 1, 1), E(2, 2, 1), E(3, 5, 1)>>, <<E(0, 7, 2)>>>>, <<{3, 4}, {}>>, <<>>) }

MCIds    == {"u", "v"}
MCNone   == [id \in MCIds |-> 0]
MCHard   == [id \in MCIds |-> IF id = "v" THEN 4 ELSE 0]
MCHome   == <<0, 1>>
MCAttrs  == <<0, 1>>
MCWrites == {<<0, 1>>, <<1, 4>>, <<5, 2>>}
MCRanges == {<<0, 0, 1>>, <<1, 0, 1>>, <<0, 1, 1>>, <<2, 0, 2>>}
=============================================================================
