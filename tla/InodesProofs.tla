---------------------------- MODULE InodesProofs ----------------------------
(***************************************************************************)
(* Proofs about one group's inodes (Inodes), for every size of group, of   *)
(* chunk and of tree, and any number of operations.                        *)
(*                                                                         *)
(* The inodes in use are the slots that no chunk has free (Used), which    *)
(* gives the counts; and as long as no record has logged the group's       *)
(* header twice, the free space, the directories, the two trees, the       *)
(* chunks and the files part the blocks among them (Whole).                *)
(***************************************************************************)
EXTENDS Inodes, AgSpaceProofs

-----------------------------------------------------------------------------
(* Allocators and the trees laid out through them *)

Allocs == [free : SUBSET Blocks, took : BOOLEAN, fail : BOOLEAN]

\* Free space F and the blocks S of a tree trade the blocks X.
Trades(F, S, G, T, X) ==
  \/ X \subseteq F /\ G = F \ X /\ T = S \cup X
  \/ X \subseteq S /\ G = F \cup X /\ T = S \ X

\* Blocks taken from free space.
LEMMA TakingFact ==
  ASSUME NEW g \in Allocs, NEW X
  PROVE  /\ Taking(g, X) \in Allocs
         /\ Taking(g, X).free = g.free \ X /\ Taking(g, X).took
<1> DEFINE h == [g EXCEPT !.free = @ \ X, !.took = TRUE]
<1>1. h \in Allocs  BY DEF Allocs
<1>2. h.free = g.free \ X  BY DEF Allocs
<1>3. h.took  BY DEF Allocs
<1>4. Taking(g, X) = h  BY DEF Taking
<1>5. QED  BY <1>1, <1>2, <1>3, <1>4

\* Blocks given back to it.
LEMMA GivingFact ==
  ASSUME NEW g \in Allocs, NEW X \in SUBSET Blocks
  PROVE  /\ Giving(g, X) \in Allocs
         /\ Giving(g, X).free = g.free \cup X
         /\ g.took => Giving(g, X).took
         /\ ~Giving(g, X).took => X = {}
<1>1. g = [free |-> g.free, took |-> g.took, fail |-> g.fail] /\ g.free \in SUBSET Blocks
  BY DEF Allocs
<1>2. CASE X = {}
  <2>1. Giving(g, X) = g  BY <1>2 DEF Giving
  <2>2. g.free \cup X = g.free  BY <1>2
  <2>3. QED  BY <1>2, <2>1, <2>2
<1>3. CASE X # {}
  <2> DEFINE w == g.fail \/ X \cap g.free # {}
  <2>1. Giving(g, X) = [free |-> g.free \cup X, took |-> TRUE, fail |-> w]
    BY <1>1, <1>3 DEF Giving
  <2>2. g.free \cup X \in SUBSET Blocks /\ w \in BOOLEAN  BY <1>1
  <2> HIDE DEF w
  <2>3. [free |-> g.free \cup X, took |-> TRUE, fail |-> w] \in Allocs  BY <2>2 DEF Allocs
  <2>4. QED  BY <2>1, <2>3
<1>4. QED  BY <1>2, <1>3

\* relay: a tree trades blocks with free space, and an allocator that says it
\* changed nothing did not.
LEMMA LaidFact ==
  ASSUME NEW g \in Allocs, NEW held \in Seq(Blocks), NEW n \in Nat
  PROVE  LET l == Laid(g, held, n)
         IN  /\ l.group \in Allocs /\ l.blocks \in Seq(Blocks)
             /\ \E X : Trades(g.free, Listing(held), l.group.free, Listing(l.blocks), X)
             /\ g.took => l.group.took
             /\ ~l.group.took => l.group.free = g.free /\ Listing(l.blocks) = Listing(held)
<1> DEFINE l    == Laid(g, held, n)
           want == Plan(LeafChunks, n).blocks
           lack == want - Len(held)
           got  == SubSeq(InOrder(g.free), 1, lack)
           keep == SubSeq(held, 1, want)
<1>1. want \in Nat \ {0}  BY InodesAssumption, LayoutType DEF Plans
<1>2. Len(held) \in Nat /\ \A i \in 1 .. Len(held) : held[i] \in Blocks  BY ElementOfSeq
<1>3. g.free \in SUBSET Blocks  BY DEF Allocs
<1>4. /\ Cardinality(g.free) \in Nat
      /\ \A i \in 1 .. Cardinality(g.free) : InOrder(g.free)[i] \in g.free
  <2>1. g.free \in SUBSET Nat /\ IsFiniteSet(g.free)  BY <1>3, BlocksFinite
  <2>2. QED  BY <2>1, InOrderFact
<1>5. CASE lack > Cardinality(g.free)
  <2>1. l = [group |-> [g EXCEPT !.fail = TRUE], blocks |-> held]  BY <1>5 DEF Laid
  <2> DEFINE h == [g EXCEPT !.fail = TRUE]
  <2>2. h \in Allocs /\ h.free = g.free /\ h.took = g.took  BY DEF Allocs
  <2> HIDE DEF h
  <2>3. l.group = h /\ l.blocks = held  BY <2>1 DEF h
  <2>4. Trades(g.free, Listing(held), h.free, Listing(held), {})  BY <2>2 DEF Trades
  <2>5. QED  BY <2>2, <2>3, <2>4
<1>6. CASE ~(lack > Cardinality(g.free)) /\ lack > 0
  <2>1. l = [group |-> Taking(g, Listing(got)), blocks |-> held \o got]  BY <1>6 DEF Laid
  <2>2. lack \in Nat /\ lack <= Cardinality(g.free)
    <3> HIDE DEF want
    <3>1. QED  BY <1>1, <1>2, <1>4, <1>6
  <2>3. \A i \in 1 .. lack : InOrder(g.free)[i] \in g.free
    <3> HIDE DEF lack
    <3>1. QED  BY <1>4, <2>2
  <2> HIDE DEF lack
  <2>4. got \in Seq(g.free) /\ Len(got) = lack  BY <2>2, <2>3, PrefixFact, ZenonT(60)
  <2> HIDE DEF got, l
  <2>5. got \in Seq(Blocks) /\ \A i \in 1 .. Len(got) : got[i] \in g.free
    BY <1>3, <2>4, ElementOfSeq
  <2>6. Listing(got) \subseteq g.free  BY <2>5 DEF Listing
  <2>7. held \o got \in Seq(Blocks) /\ Listing(held \o got) = Listing(held) \cup Listing(got)
    <3>1. held \o got \in Seq(Blocks)  BY <2>5
    <3>2. Len(held \o got) = Len(held) + Len(got)  BY <2>5
    <3>3. \A i \in 1 .. Len(held) + Len(got) :
            (held \o got)[i] = IF i <= Len(held) THEN held[i] ELSE got[i - Len(held)]
      BY <2>5
    <3>4. Len(got) \in Nat  BY <2>5
    <3> DEFINE p == Len(held)
               q == Len(got)
               s == held \o got
    <3> HIDE DEF p, q, s
    <3>5. /\ \A i \in 1 .. p : i \in 1 .. p + q /\ s[i] = held[i]
          /\ \A i \in 1 .. q : p + i \in 1 .. p + q /\ s[p + i] = got[i]
          /\ \A i \in 1 .. p + q : i \in 1 .. p \/ i - p \in 1 .. q
      <4>1. p \in Nat /\ q \in Nat  BY <1>2, <3>4 DEF p, q
      <4>2. \A i \in 1 .. p + q : s[i] = IF i <= p THEN held[i] ELSE got[i - p]
        BY <3>3 DEF p, q, s
      <4>3. \A i \in 1 .. q : p + i - p = i /\ ~(p + i <= p)  BY <4>1
      <4>4. QED  BY <4>1, <4>2, <4>3
    <3>6. \A i \in 1 .. p + q : (s[i] = held[i] /\ i \in 1 .. p) \/ (s[i] = got[i - p] /\ i - p \in 1 .. q)
      <4>1. \A i \in 1 .. p + q : s[i] = IF i <= p THEN held[i] ELSE got[i - p]
        BY <3>3 DEF p, q, s
      <4>2. p \in Nat /\ q \in Nat  BY <1>2, <3>4 DEF p, q
      <4>3. \A i \in 1 .. p + q : (i <= p => i \in 1 .. p) /\ (~(i <= p) => i - p \in 1 .. q)
        BY <4>2
      <4>4. QED  BY <4>1, <4>3
    <3>7. /\ Listing(s) = {s[i] : i \in 1 .. p + q}
          /\ Listing(held) = {held[i] : i \in 1 .. p} /\ Listing(got) = {got[i] : i \in 1 .. q}
      BY <3>2 DEF Listing, p, q, s
    <3>8. Listing(s) = Listing(held) \cup Listing(got)  BY <3>5, <3>6, <3>7
    <3>9. QED  BY <3>1, <3>8 DEF s
  <2>8. /\ Taking(g, Listing(got)) \in Allocs
        /\ Taking(g, Listing(got)).free = g.free \ Listing(got) /\ Taking(g, Listing(got)).took
    BY TakingFact
  <2>9. l.group = Taking(g, Listing(got)) /\ l.blocks = held \o got  BY <2>1
  <2>10. Trades(g.free, Listing(held), l.group.free, Listing(l.blocks), Listing(got))
    BY <2>6, <2>7, <2>8, <2>9 DEF Trades
  <2>11. QED  BY <2>7, <2>8, <2>9, <2>10 DEF l
<1>7. CASE ~(lack > Cardinality(g.free)) /\ ~(lack > 0)
  <2> DEFINE X == Listing(held) \ Listing(keep)
  <2>1. l = [group |-> Giving(g, X), blocks |-> keep]  BY <1>7 DEF Laid
  <2>2. want <= Len(held)
    <3> HIDE DEF want
    <3>1. QED  BY <1>1, <1>2, <1>7
  <2> HIDE DEF want, l, lack
  <2>3. \A i \in 1 .. want : held[i] \in Blocks  BY <1>1, <1>2, <2>2
  <2>4. /\ keep \in Seq(Blocks) /\ Len(keep) = want
        /\ \A i \in 1 .. want : keep[i] = held[i]
    BY <1>1, <2>3, PrefixFact
  <2> HIDE DEF keep
  <2>5. Listing(keep) \subseteq Listing(held)
    <3>1. \A i \in 1 .. want : i \in 1 .. Len(held)  BY <1>1, <1>2, <2>2
    <3>2. QED  BY <2>4, <3>1 DEF Listing
  <2>6. Listing(held) \subseteq Blocks  BY <1>2 DEF Listing
  <2>7. X \in SUBSET Blocks /\ X \subseteq Listing(held) /\ Listing(keep) = Listing(held) \ X
    BY <2>5, <2>6
  <2> HIDE DEF X
  <2>8. /\ Giving(g, X) \in Allocs /\ Giving(g, X).free = g.free \cup X
        /\ g.took => Giving(g, X).took
        /\ ~Giving(g, X).took => X = {}
    BY <2>7, GivingFact
  <2>9. l.group = Giving(g, X) /\ l.blocks = keep  BY <2>1
  <2>10. Trades(g.free, Listing(held), l.group.free, Listing(l.blocks), X)
    BY <2>7, <2>8, <2>9 DEF Trades
  <2>11. ~l.group.took => l.group.free = g.free /\ Listing(l.blocks) = Listing(held)
    BY <2>7, <2>8, <2>9
  <2>12. QED  BY <2>4, <2>8, <2>9, <2>10, <2>11 DEF l
<1>8. QED  BY <1>5, <1>6, <1>7

-----------------------------------------------------------------------------
(* Who has a block *)

InChunks(c) == {b \in Blocks : \E s \in DOMAIN c : b \in Run(s, ChunkBlocks)}
InFiles(f)  == {b \in Blocks : \E i \in DOMAIN f : b \in f[i]}

\* The free space F, the directories D, the trees I and N, the chunks C and
\* the files L part the blocks among them.
Apart(F, D, I, N, C, L) ==
  /\ \A b : b \in Blocks <=> b \in F \/ b \in D \/ b \in I \/ b \in N \/ b \in C \/ b \in L
  /\ \A b \in F : b \notin D /\ b \notin I /\ b \notin N /\ b \notin C /\ b \notin L
  /\ \A b \in D : b \notin I /\ b \notin N /\ b \notin C /\ b \notin L
  /\ \A b \in I : b \notin N /\ b \notin C /\ b \notin L
  /\ \A b \in N : b \notin C /\ b \notin L
  /\ \A b \in C : b \notin L

LoneChunks(c) ==
  \A s, t \in DOMAIN c : \A b \in Run(s, ChunkBlocks) : b \in Run(t, ChunkBlocks) => s = t
LoneFiles(f) == \A i, j \in DOMAIN f : \A b \in f[i] : b \in f[j] => i = j

\* Each may trade with free space.
LEMMA ApartTrades ==
  ASSUME NEW F, NEW D, NEW I, NEW N, NEW C, NEW L, NEW G, NEW T, NEW X,
         Apart(F, D, I, N, C, L)
  PROVE  /\ Trades(F, D, G, T, X) => Apart(G, T, I, N, C, L)
         /\ Trades(F, I, G, T, X) => Apart(G, D, T, N, C, L)
         /\ Trades(F, N, G, T, X) => Apart(G, D, I, T, C, L)
         /\ Trades(F, C, G, T, X) => Apart(G, D, I, N, T, L)
         /\ Trades(F, L, G, T, X) => Apart(G, D, I, N, C, T)
<1>1. Trades(F, D, G, T, X) => Apart(G, T, I, N, C, L)  BY DEF Apart, Trades
<1>2. Trades(F, I, G, T, X) => Apart(G, D, T, N, C, L)  BY DEF Apart, Trades
<1>3. Trades(F, N, G, T, X) => Apart(G, D, I, T, C, L)  BY DEF Apart, Trades
<1>4. Trades(F, C, G, T, X) => Apart(G, D, I, N, T, L)  BY DEF Apart, Trades
<1>5. Trades(F, L, G, T, X) => Apart(G, D, I, N, C, T)  BY DEF Apart, Trades
<1>6. QED  BY <1>1, <1>2, <1>3, <1>4, <1>5

\* Trees::into_items_in, on top of relay.
LEMMA TreesFact ==
  ASSUME NEW g \in Allocs, NEW c, IsFiniteSet(DOMAIN c),
         inobt \in Seq(Blocks), finobt \in Seq(Blocks)
  PROVE  LET t == TreesIn(g, c)
         IN  /\ t.group \in Allocs /\ t.inobt \in Seq(Blocks) /\ t.finobt \in Seq(Blocks)
             /\ \A D, C, L : Apart(g.free, D, Listing(inobt), Listing(finobt), C, L)
                             => Apart(t.group.free, D, Listing(t.inobt), Listing(t.finobt), C, L)
             /\ ~t.group.took => /\ t.group.free = g.free
                                 /\ Listing(t.inobt) = Listing(inobt)
                                 /\ Listing(t.finobt) = Listing(finobt)
<1> DEFINE n == Cardinality(DOMAIN c)
           m == Cardinality(WithFree(c))
           i == Laid(g, inobt, n)
           f == Laid(i.group, finobt, m)
           t == TreesIn(g, c)
<1>1. n \in Nat /\ m \in Nat
  <2>1. WithFree(c) \in SUBSET DOMAIN c  BY DEF WithFree
  <2>2. IsFiniteSet(WithFree(c))  BY <2>1, FS_Subset
  <2>3. QED  BY <2>2, FS_CardinalityType
<1>2. t = [group |-> f.group, inobt |-> i.blocks, finobt |-> f.blocks]  BY DEF TreesIn
<1>3. t.group = f.group /\ t.inobt = i.blocks /\ t.finobt = f.blocks  BY <1>2
<1> HIDE DEF n, m, t
<1>4. /\ i.group \in Allocs /\ i.blocks \in Seq(Blocks)
      /\ \E X : Trades(g.free, Listing(inobt), i.group.free, Listing(i.blocks), X)
      /\ ~i.group.took => i.group.free = g.free /\ Listing(i.blocks) = Listing(inobt)
  BY <1>1, LaidFact
<1> HIDE DEF i
<1>5. /\ f.group \in Allocs /\ f.blocks \in Seq(Blocks)
      /\ \E X : Trades(i.group.free, Listing(finobt), f.group.free, Listing(f.blocks), X)
      /\ i.group.took => f.group.took
      /\ ~f.group.took => f.group.free = i.group.free /\ Listing(f.blocks) = Listing(finobt)
  BY <1>1, <1>4, LaidFact
<1> HIDE DEF f
<1>6. ASSUME NEW D, NEW C, NEW L, Apart(g.free, D, Listing(inobt), Listing(finobt), C, L)
      PROVE  Apart(f.group.free, D, Listing(i.blocks), Listing(f.blocks), C, L)
  <2>1. PICK X : Trades(g.free, Listing(inobt), i.group.free, Listing(i.blocks), X)  BY <1>4
  <2>2. Apart(i.group.free, D, Listing(i.blocks), Listing(finobt), C, L)
    BY <2>1, <1>6, ApartTrades
  <2>3. PICK Y : Trades(i.group.free, Listing(finobt), f.group.free, Listing(f.blocks), Y)
    BY <1>5
  <2>4. QED  BY <2>2, <2>3, ApartTrades
<1>7. \A D, C, L : Apart(g.free, D, Listing(inobt), Listing(finobt), C, L)
                   => Apart(t.group.free, D, Listing(t.inobt), Listing(t.finobt), C, L)
  BY <1>3, <1>6
<1>8. ~t.group.took => /\ t.group.free = g.free
                       /\ Listing(t.inobt) = Listing(inobt) /\ Listing(t.finobt) = Listing(finobt)
  BY <1>3, <1>4, <1>5
<1>9. QED  BY <1>3, <1>4, <1>5, <1>7, <1>8 DEF t

-----------------------------------------------------------------------------
(* Inodes and their counts *)

\* The inodes no chunk has free.
Used(c) == {i \in [chunk : DOMAIN c, slot : Slots] : i.slot \notin c[i.chunk]}

\* What chunks are.
ChunksType(c) ==
  /\ DOMAIN c \in SUBSET Blocks
  /\ c \in [DOMAIN c -> SUBSET Slots]

\* Inodes in use and free ones are all there are.
LEMMA FreeCountFact ==
  ASSUME NEW c, ChunksType(c)
  PROVE  /\ Cardinality(DOMAIN c) \in Nat /\ Cardinality(Used(c)) \in Nat
         /\ FreeCount(c) = PerChunk * Cardinality(DOMAIN c) - Cardinality(Used(c))
<1> DEFINE P == (DOMAIN c) \X Slots
           A == {p \in P : p[2] \in c[p[1]]}
           B == {p \in P : p[2] \notin c[p[1]]}
           pair == [p \in B |-> [chunk |-> p[1], slot |-> p[2]]]
<1>1. IsFiniteSet(DOMAIN c) /\ Cardinality(DOMAIN c) \in Nat  BY BlocksFinite DEF ChunksType
<1>2. IsFiniteSet(Slots) /\ Cardinality(Slots) = PerChunk
  <2>1. PerChunk \in Nat \ {0}  BY InodesAssumption
  <2>2. 0 \in Int /\ PerChunk - 1 \in Int  BY <2>1
  <2>3. /\ IsFiniteSet(0 .. PerChunk - 1)
        /\ Cardinality(0 .. PerChunk - 1)
             = IF 0 > PerChunk - 1 THEN 0 ELSE (PerChunk - 1) - 0 + 1
    BY <2>2, FS_Interval
  <2>4. ~(0 > PerChunk - 1) /\ (PerChunk - 1) - 0 + 1 = PerChunk  BY <2>1
  <2>5. QED  BY <2>3, <2>4 DEF Slots
<1>3. IsFiniteSet(P) /\ Cardinality(P) = Cardinality(DOMAIN c) * PerChunk
  BY <1>1, <1>2, FS_Product
<1>4. A \in SUBSET P /\ B \in SUBSET P /\ A \cup B = P /\ A \cap B = {}  OBVIOUS
<1>5. FreeCount(c) = Cardinality(A)  BY DEF FreeCount
<1>6. \A p \in P : p = <<p[1], p[2]>> /\ p[1] \in DOMAIN c /\ p[2] \in Slots  OBVIOUS
<1>7. pair \in Bijection(B, Used(c))
  <2>1. \A p \in B : p = <<p[1], p[2]>> /\ p[1] \in DOMAIN c /\ p[2] \in Slots /\ p[2] \notin c[p[1]]
    BY <1>6
  <2>2. ASSUME NEW p \in B PROVE pair[p] \in Used(c)
    <3>1. pair[p] = [chunk |-> p[1], slot |-> p[2]]  OBVIOUS
    <3> HIDE DEF pair, B
    <3>2. QED  BY <2>1, <3>1 DEF Used
  <2>3. pair \in [B -> Used(c)]
    <3> HIDE DEF B
    <3>1. QED  BY <2>2
  <2>4. ASSUME NEW p \in B, NEW q \in B, pair[p] = pair[q] PROVE p = q
    <3>1. pair[p] = [chunk |-> p[1], slot |-> p[2]] /\ pair[q] = [chunk |-> q[1], slot |-> q[2]]
      OBVIOUS
    <3> HIDE DEF pair, B
    <3>2. /\ pair[p].chunk = p[1] /\ pair[p].slot = p[2]
          /\ pair[q].chunk = q[1] /\ pair[q].slot = q[2]
      BY <3>1
    <3>3. QED  BY <2>1, <2>4, <3>2
  <2>5. ASSUME NEW i \in Used(c) PROVE \E p \in B : pair[p] = i
    <3> DEFINE p == <<i.chunk, i.slot>>
    <3>1. /\ i.chunk \in DOMAIN c /\ i.slot \in Slots /\ i.slot \notin c[i.chunk]
          /\ i = [chunk |-> i.chunk, slot |-> i.slot]
      BY DEF Used
    <3>2. p \in B /\ p[1] = i.chunk /\ p[2] = i.slot  BY <3>1
    <3>3. pair[p] = [chunk |-> p[1], slot |-> p[2]]  BY <3>2
    <3>4. QED  BY <3>1, <3>2, <3>3
  <2> HIDE DEF pair, B
  <2>6. QED  BY <2>3, <2>4, <2>5 DEF Bijection, Injection, Surjection, IsInjective
<1> HIDE DEF A, B, P, pair
<1>8. IsFiniteSet(A) /\ IsFiniteSet(B)  BY <1>3, <1>4, FS_Subset
<1>9. Cardinality(A) \in Nat /\ Cardinality(B) \in Nat  BY <1>8, FS_CardinalityType
<1>10. Cardinality(P) = Cardinality(A) + Cardinality(B)
  <2>1. Cardinality(A \cup B) = Cardinality(A) + Cardinality(B) - Cardinality(A \cap B)
    BY <1>8, FS_Union
  <2>2. Cardinality({}) = 0  BY FS_EmptySet
  <2>3. Cardinality(P) = Cardinality(A) + Cardinality(B) - 0  BY <1>4, <2>1, <2>2
  <2>4. QED  BY <1>9, <2>3
<1>11. Cardinality(Used(c)) = Cardinality(B)
  <2>1. ExistsBijection(B, Used(c))  BY <1>7 DEF ExistsBijection
  <2>2. QED  BY <1>8, <2>1, FS_Bijection
<1>12. PerChunk \in Nat  BY InodesAssumption
<1>13. QED
  <2> DEFINE d == Cardinality(DOMAIN c)
             a == Cardinality(A)
             e == Cardinality(B)
  <2>1. d \in Nat /\ a \in Nat /\ e \in Nat /\ d * PerChunk = a + e
    BY <1>1, <1>3, <1>9, <1>10
  <2> HIDE DEF d, a, e
  <2>2. a = PerChunk * d - e  BY <2>1, <1>12
  <2>3. QED  BY <2>1, <2>2, <1>5, <1>11 DEF d, a, e

\* The lowest of some naturals is one of them.
LEMMA LowestFact ==
  ASSUME NEW S \in SUBSET Nat, S # {}
  PROVE  Lowest(S) \in S
<1>1. \E b \in S : \A c \in S : b <= c  BY LeastExists
<1>2. QED  BY <1>1 DEF Lowest

\* choose_free_inode finds a free inode.
LEMMA ChosenFact ==
  ASSUME NEW c, ChunksType(c), WithFree(c) # {}
  PROVE  /\ Chosen(c) = [chunk |-> Chosen(c).chunk, slot |-> Chosen(c).slot]
         /\ Chosen(c).chunk \in DOMAIN c /\ Chosen(c).slot \in c[Chosen(c).chunk]
<1> DEFINE s == Lowest(WithFree(c))
           x == Lowest(c[s])
<1>1. WithFree(c) \in SUBSET Nat  BY BlocksFinite DEF WithFree, ChunksType
<1>2. s \in WithFree(c)  BY <1>1, LowestFact
<1> HIDE DEF s
<1>3. s \in DOMAIN c /\ c[s] # {}  BY <1>2 DEF WithFree
<1>4. c[s] \in SUBSET Slots  BY <1>3 DEF ChunksType
<1>5. Slots \in SUBSET Nat  BY InodesAssumption DEF Slots
<1>6. c[s] \in SUBSET Nat  BY <1>4, <1>5
<1>7. x \in c[s]  BY <1>3, <1>6, LowestFact
<1>8. Chosen(c) = [chunk |-> s, slot |-> x]  BY DEF Chosen, s
<1> HIDE DEF x
<1>9. QED  BY <1>3, <1>7, <1>8

\* An inode taken from its chunk.
LEMMA UseInode ==
  ASSUME NEW c, ChunksType(c), NEW s \in DOMAIN c, NEW x \in c[s]
  PROVE  LET d == [c EXCEPT ![s] = @ \ {x}]
         IN  /\ ChunksType(d) /\ DOMAIN d = DOMAIN c
             /\ Used(d) = Used(c) \cup {[chunk |-> s, slot |-> x]}
             /\ [chunk |-> s, slot |-> x] \notin Used(c)
<1> DEFINE d == [c EXCEPT ![s] = @ \ {x}]
           i == [chunk |-> s, slot |-> x]
<1>1. c \in [DOMAIN c -> SUBSET Slots]  BY DEF ChunksType
<1>2. /\ DOMAIN d = DOMAIN c /\ d \in [DOMAIN c -> SUBSET Slots]
      /\ \A t \in DOMAIN c : d[t] = IF t = s THEN c[s] \ {x} ELSE c[t]
  BY <1>1
<1> HIDE DEF d
<1>3. ChunksType(d)  BY <1>2 DEF ChunksType
<1>4. i \in [chunk : DOMAIN c, slot : Slots] /\ i.chunk = s /\ i.slot = x
  BY <1>1
<1>5. ASSUME NEW j \in [chunk : DOMAIN c, slot : Slots]
      PROVE  j.slot \notin d[j.chunk] <=> j.slot \notin c[j.chunk] \/ j = i
  <2>1. j = [chunk |-> j.chunk, slot |-> j.slot] /\ j.chunk \in DOMAIN c  OBVIOUS
  <2>2. j = i <=> j.chunk = s /\ j.slot = x  BY <2>1, <1>4
  <2> HIDE DEF i
  <2>3. d[j.chunk] = IF j.chunk = s THEN c[s] \ {x} ELSE c[j.chunk]  BY <1>2, <2>1
  <2>4. QED  BY <2>2, <2>3
<1> HIDE DEF i
<1>6. Used(d) = {j \in [chunk : DOMAIN c, slot : Slots] : j.slot \notin d[j.chunk]}
  BY <1>2 DEF Used
<1>7. Used(d) = Used(c) \cup {i}  BY <1>4, <1>5, <1>6 DEF Used
<1>8. i \notin Used(c)  BY <1>4 DEF Used
<1>9. QED  BY <1>2, <1>3, <1>7, <1>8 DEF d, i

\* And one given back.
LEMMA FreeInode ==
  ASSUME NEW c, ChunksType(c), NEW i \in Used(c)
  PROVE  LET d == [c EXCEPT ![i.chunk] = @ \cup {i.slot}]
         IN  ChunksType(d) /\ DOMAIN d = DOMAIN c /\ Used(d) = Used(c) \ {i}
<1> DEFINE d == [c EXCEPT ![i.chunk] = @ \cup {i.slot}]
<1>1. c \in [DOMAIN c -> SUBSET Slots]  BY DEF ChunksType
<1>2. i \in [chunk : DOMAIN c, slot : Slots] /\ i.slot \notin c[i.chunk]  BY DEF Used
<1>3. /\ DOMAIN d = DOMAIN c /\ d \in [DOMAIN c -> SUBSET Slots]
      /\ \A t \in DOMAIN c : d[t] = IF t = i.chunk THEN c[t] \cup {i.slot} ELSE c[t]
  BY <1>1, <1>2
<1> HIDE DEF d
<1>4. ChunksType(d)  BY <1>3 DEF ChunksType
<1>5. ASSUME NEW j \in [chunk : DOMAIN c, slot : Slots]
      PROVE  j.slot \notin d[j.chunk] <=> j.slot \notin c[j.chunk] /\ j # i
  <2>1. j = [chunk |-> j.chunk, slot |-> j.slot] /\ j.chunk \in DOMAIN c  OBVIOUS
  <2>2. i = [chunk |-> i.chunk, slot |-> i.slot]  BY <1>2
  <2>3. j = i <=> j.chunk = i.chunk /\ j.slot = i.slot  BY <2>1, <2>2
  <2>4. d[j.chunk] = IF j.chunk = i.chunk THEN c[j.chunk] \cup {i.slot} ELSE c[j.chunk]
    BY <1>3, <2>1
  <2>5. QED  BY <2>3, <2>4, <1>2
<1>6. Used(d) = {j \in [chunk : DOMAIN c, slot : Slots] : j.slot \notin d[j.chunk]}
  BY <1>3 DEF Used
<1>7. Used(d) = Used(c) \ {i}  BY <1>5, <1>6 DEF Used
<1>8. QED  BY <1>3, <1>4, <1>7 DEF d

\* A new chunk has every inode free.
LEMMA NewChunk ==
  ASSUME NEW c, ChunksType(c), NEW s \in Blocks, s \notin DOMAIN c
  PROVE  LET d == With(c, s, Slots)
         IN  /\ ChunksType(d) /\ DOMAIN d = DOMAIN c \cup {s}
             /\ Used(d) = Used(c) /\ WithFree(d) # {}
<1> DEFINE d == With(c, s, Slots)
<1>1. c \in [DOMAIN c -> SUBSET Slots]  BY DEF ChunksType
<1>2. /\ DOMAIN d = DOMAIN c \cup {s}
      /\ \A t \in DOMAIN c \cup {s} : d[t] = IF t = s THEN Slots ELSE c[t]
      /\ d = [t \in DOMAIN c \cup {s} |-> IF t = s THEN Slots ELSE c[t]]
  BY DEF With
<1> HIDE DEF d
<1>3. ChunksType(d)
  <2>1. d \in [DOMAIN c \cup {s} -> SUBSET Slots]  BY <1>1, <1>2
  <2>2. QED  BY <1>2, <2>1 DEF ChunksType
<1>4. 0 \in Slots  BY InodesAssumption DEF Slots
<1>5. WithFree(d) # {}
  <2>1. s \in DOMAIN d /\ d[s] # {}  BY <1>2, <1>4
  <2>2. QED  BY <2>1 DEF WithFree
<1>6. \A j : j \in Used(d) => j \in Used(c)
  <2>1. SUFFICES ASSUME NEW j \in Used(d) PROVE j \in Used(c)  OBVIOUS
  <2>2. /\ j \in [chunk : DOMAIN d, slot : Slots] /\ j.slot \notin d[j.chunk]
        /\ j = [chunk |-> j.chunk, slot |-> j.slot] /\ j.chunk \in DOMAIN d /\ j.slot \in Slots
    BY DEF Used
  <2>3. j.chunk # s  BY <1>2, <2>2
  <2>4. j.chunk \in DOMAIN c /\ j.slot \notin c[j.chunk]  BY <1>2, <2>2, <2>3
  <2>5. QED  BY <2>2, <2>4 DEF Used
<1>7. \A j : j \in Used(c) => j \in Used(d)
  <2>1. SUFFICES ASSUME NEW j \in Used(c) PROVE j \in Used(d)  OBVIOUS
  <2>2. /\ j.slot \notin c[j.chunk]
        /\ j = [chunk |-> j.chunk, slot |-> j.slot] /\ j.chunk \in DOMAIN c /\ j.slot \in Slots
    BY DEF Used
  <2>3. j.chunk \in DOMAIN d /\ d[j.chunk] = c[j.chunk]  BY <1>2, <2>2
  <2>4. QED  BY <2>2, <2>3 DEF Used
<1>8. QED  BY <1>2, <1>3, <1>5, <1>6, <1>7 DEF d

\* The blocks of a new chunk.
LEMMA ChunkBlocksFact ==
  ASSUME NEW c, NEW s, Run(s, ChunkBlocks) \in SUBSET Blocks, NEW d,
         DOMAIN d = DOMAIN c \cup {s}
  PROVE  /\ InChunks(d) = InChunks(c) \cup Run(s, ChunkBlocks)
         /\ LoneChunks(c) /\ Run(s, ChunkBlocks) \cap InChunks(c) = {} => LoneChunks(d)
<1> DEFINE R == Run(s, ChunkBlocks)
<1>1. InChunks(d) = InChunks(c) \cup R  BY DEF InChunks
<1>2. ASSUME LoneChunks(c), R \cap InChunks(c) = {} PROVE LoneChunks(d)
  <2>1. SUFFICES ASSUME NEW t \in DOMAIN d, NEW u \in DOMAIN d, NEW b,
                        b \in Run(t, ChunkBlocks), b \in Run(u, ChunkBlocks)
                 PROVE  t = u
    BY DEF LoneChunks
  <2>2. b \in R => b \notin InChunks(c) /\ b \in Blocks  BY <1>2
  <2>3. b \in R => \A v \in DOMAIN c : b \notin Run(v, ChunkBlocks)  BY <2>2 DEF InChunks
  <2>4. QED  BY <1>2, <2>1, <2>3 DEF LoneChunks
<1>3. QED  BY <1>1, <1>2

\* Nothing but the chunks' places matters to their blocks.
LEMMA SameChunks ==
  ASSUME NEW c, NEW d, DOMAIN d = DOMAIN c
  PROVE  InChunks(d) = InChunks(c) /\ (LoneChunks(c) => LoneChunks(d))
BY DEF InChunks, LoneChunks

\* An inode with no blocks yet, one that gets some, and one that goes.
LEMMA FileBlocksFact ==
  ASSUME NEW f, NEW i, NEW X \in SUBSET Blocks, f = [j \in DOMAIN f |-> f[j]],
         \A j \in DOMAIN f : f[j] \in SUBSET Blocks
  PROVE  /\ i \notin DOMAIN f => /\ InFiles(With(f, i, {})) = InFiles(f)
                                 /\ LoneFiles(f) => LoneFiles(With(f, i, {}))
         /\ i \in DOMAIN f /\ f[i] = {} =>
              /\ InFiles([f EXCEPT ![i] = X]) = InFiles(f) \cup X
              /\ LoneFiles(f) /\ X \cap InFiles(f) = {} => LoneFiles([f EXCEPT ![i] = X])
         /\ i \in DOMAIN f /\ LoneFiles(f) =>
              /\ InFiles(Without(f, i)) = InFiles(f) \ f[i]
              /\ LoneFiles(Without(f, i))
<1>1. ASSUME i \notin DOMAIN f
      PROVE  /\ InFiles(With(f, i, {})) = InFiles(f)
             /\ LoneFiles(f) => LoneFiles(With(f, i, {}))
  <2> DEFINE h == With(f, i, {})
  <2>1. /\ DOMAIN h = DOMAIN f \cup {i} /\ h[i] = {}
        /\ \A j \in DOMAIN f : h[j] = f[j]
    BY <1>1 DEF With
  <2> HIDE DEF h
  <2>2. InFiles(h) = InFiles(f)  BY <2>1 DEF InFiles
  <2>3. LoneFiles(f) => LoneFiles(h)  BY <2>1 DEF LoneFiles
  <2>4. QED  BY <2>2, <2>3 DEF h
<1>2. ASSUME i \in DOMAIN f, f[i] = {}
      PROVE  /\ InFiles([f EXCEPT ![i] = X]) = InFiles(f) \cup X
             /\ LoneFiles(f) /\ X \cap InFiles(f) = {} => LoneFiles([f EXCEPT ![i] = X])
  <2> DEFINE h == [f EXCEPT ![i] = X]
  <2>1. /\ DOMAIN h = DOMAIN f /\ h[i] = X
        /\ \A j \in DOMAIN f : j # i => h[j] = f[j]
    BY <1>2
  <2> HIDE DEF h
  <2>2. InFiles(h) = InFiles(f) \cup X  BY <1>2, <2>1 DEF InFiles
  <2>3. ASSUME LoneFiles(f), X \cap InFiles(f) = {} PROVE LoneFiles(h)
    <3>1. SUFFICES ASSUME NEW j \in DOMAIN f, NEW k \in DOMAIN f, NEW b, b \in h[j], b \in h[k]
                   PROVE  j = k
      BY <2>1 DEF LoneFiles
    <3>2. b \in X => \A m \in DOMAIN f : b \notin f[m]  BY <2>3 DEF InFiles
    <3>3. QED  BY <2>1, <2>3, <3>1, <3>2 DEF LoneFiles
  <2>4. QED  BY <2>2, <2>3 DEF h
<1>3. ASSUME i \in DOMAIN f, LoneFiles(f)
      PROVE  InFiles(Without(f, i)) = InFiles(f) \ f[i] /\ LoneFiles(Without(f, i))
  <2> DEFINE h == Without(f, i)
  <2>1. /\ DOMAIN h = DOMAIN f \ {i}
        /\ \A j \in DOMAIN f \ {i} : h[j] = f[j]
    BY DEF Without
  <2> HIDE DEF h
  <2>2. InFiles(h) = InFiles(f) \ f[i]  BY <1>3, <2>1 DEF InFiles, LoneFiles
  <2>3. LoneFiles(h)  BY <1>3, <2>1 DEF LoneFiles
  <2>4. QED  BY <2>2, <2>3 DEF h
<1>4. QED  BY <1>1, <1>2, <1>3

-----------------------------------------------------------------------------
(* The inductive invariant *)

\* The inodes in use are the files there are.
Typed ==
  /\ space \in SUBSET Blocks /\ dirs \in SUBSET Blocks
  /\ inobt \in Seq(Blocks) /\ finobt \in Seq(Blocks)
  /\ ChunksType(chunks)
  /\ files \in [Used(chunks) -> SUBSET Blocks]
  /\ doubled \in BOOLEAN

Whole ==
  /\ Apart(space, dirs, Listing(inobt), Listing(finobt), InChunks(chunks), InFiles(files))
  /\ LoneChunks(chunks) /\ LoneFiles(files)

Inv == Typed /\ CountsAgree /\ (~doubled => Whole)

\* set_counts agrees with the chunks whenever the files do.
LEMMA CountedFact ==
  ASSUME Inv, NEW c, ChunksType(c), NEW n, chunks' = c, agi' = Counted(c, n),
         DOMAIN files' = Used(c)
  PROVE  CountsAgree'
<1> DEFINE k == Cardinality(DOMAIN chunks)
           m == Cardinality(DOMAIN c)
           u == Cardinality(Used(c))
<1>1. k \in Nat  BY FreeCountFact DEF Inv, Typed
<1>2. m \in Nat /\ u \in Nat /\ FreeCount(c) = PerChunk * m - u  BY FreeCountFact
<1>3. agi.count = PerChunk * k  BY DEF Inv, CountsAgree
<1>4. agi'.count = agi.count + PerChunk * (m - k) /\ agi'.freecount = FreeCount(c)
  BY DEF Counted
<1>5. Cardinality(DOMAIN chunks') = m /\ Cardinality(DOMAIN files') = u  OBVIOUS
<1> HIDE DEF k, m, u
<1>6. PerChunk * k + PerChunk * (m - k) = PerChunk * m
  BY <1>1, <1>2, InodesAssumption
<1>7. agi'.count = PerChunk * m /\ agi'.freecount = agi'.count - u
  BY <1>2, <1>3, <1>4, <1>6
<1>8. QED  BY <1>5, <1>7 DEF CountsAgree

LEMMA OpenedFact ==
  ASSUME Typed
  PROVE  Opened \in Allocs /\ Opened.free = space
BY DEF Typed, Opened, Allocs

\* What the operation's own allocator gives back and takes.
LEMMA ReleasedFact ==
  ASSUME Typed, NEW ino \in DOMAIN files, NEW gives \in SUBSET dirs, NEW takes \in BOOLEAN
  PROVE  LET own == Released(ino, gives, takes)
         IN  /\ own.group \in Allocs /\ own.dirs \in SUBSET Blocks
             /\ \A I, N, C, L :
                  Apart(space, dirs, I, N, C, L) /\ files[ino] \subseteq L
                    => Apart(own.group.free, own.dirs, I, N, C, L \ files[ino])
             /\ ~own.group.took => /\ own.group.free = space /\ own.dirs = dirs
                                   /\ files[ino] = {}
<1> DEFINE own  == Released(ino, gives, takes)
           g    == Giving(Opened, gives)
           took == IF takes /\ g.free # {} THEN Taking(g, {Lowest(g.free)}) ELSE g
           E    == (dirs \ gives) \cup (g.free \ took.free)
           B    == files[ino]
<1>1. own.group = Giving(took, B) /\ own.dirs = E  BY DEF Released
<1>2. gives \in SUBSET Blocks /\ B \in SUBSET Blocks /\ dirs \in SUBSET Blocks  BY DEF Typed
<1>3. Opened \in Allocs /\ Opened.free = space  BY OpenedFact
<1>4. /\ g \in Allocs /\ g.free = space \cup gives
      /\ ~g.took => gives = {}
  BY <1>2, <1>3, GivingFact
<1> HIDE DEF g
<1>5. /\ took \in Allocs /\ took.free \subseteq g.free
      /\ g.took => took.took
      /\ ~took.took => took.free = g.free
  <2>1. CASE takes /\ g.free # {}
    <3>1. took = Taking(g, {Lowest(g.free)})  BY <2>1
    <3> HIDE DEF took
    <3>2. /\ took \in Allocs /\ took.free = g.free \ {Lowest(g.free)} /\ took.took
      BY <1>4, <3>1, TakingFact
    <3>3. QED  BY <3>2
  <2>2. CASE ~(takes /\ g.free # {})
    <3>1. took = g  BY <2>2
    <3> HIDE DEF took
    <3>2. QED  BY <1>4, <3>1
  <2>3. QED  BY <2>1, <2>2
<1> HIDE DEF took
<1>6. /\ Giving(took, B) \in Allocs
      /\ Giving(took, B).free = took.free \cup B
      /\ took.took => Giving(took, B).took
      /\ ~Giving(took, B).took => B = {}
  BY <1>2, <1>5, GivingFact
<1>7. g.free \in SUBSET Blocks  BY <1>4 DEF Allocs
<1>8. E \in SUBSET Blocks  BY <1>2, <1>7
<1>9. ASSUME NEW I, NEW N, NEW C, NEW L, Apart(space, dirs, I, N, C, L), B \subseteq L
      PROVE  Apart(took.free \cup B, E, I, N, C, L \ B)
  <2>1. Trades(space, dirs, g.free, dirs \ gives, gives)  BY <1>4 DEF Trades
  <2>2. Apart(g.free, dirs \ gives, I, N, C, L)  BY <1>9, <2>1, ApartTrades
  <2>3. Trades(g.free, dirs \ gives, took.free, E, g.free \ took.free)  BY <1>5 DEF Trades
  <2> HIDE DEF E
  <2>4. Apart(took.free, E, I, N, C, L)  BY <2>2, <2>3, ApartTrades
  <2>5. Trades(took.free, L, took.free \cup B, L \ B, B)  BY <1>9 DEF Trades
  <2>6. QED  BY <2>4, <2>5, ApartTrades
<1>10. ~own.group.took => own.group.free = space /\ own.dirs = dirs /\ B = {}
  <2>1. SUFFICES ASSUME ~own.group.took
                 PROVE  own.group.free = space /\ own.dirs = dirs /\ B = {}
    OBVIOUS
  <2>2. B = {} /\ ~took.took  BY <1>1, <1>6, <2>1
  <2>3. took.free = g.free /\ ~g.took  BY <1>5, <2>2
  <2>4. gives = {} /\ g.free = space  BY <1>4, <2>3
  <2>5. own.group.free = space  BY <1>1, <1>6, <2>2, <2>3, <2>4
  <2>6. own.dirs = dirs  BY <1>1, <2>3, <2>4
  <2>7. QED  BY <2>2, <2>5, <2>6
<1> HIDE DEF own, E, B
<1>11. /\ own.group \in Allocs /\ own.dirs \in SUBSET Blocks
       /\ own.group.free = took.free \cup B
  BY <1>1, <1>6, <1>8
<1>12. \A I, N, C, L : Apart(space, dirs, I, N, C, L) /\ B \subseteq L
                       => Apart(own.group.free, own.dirs, I, N, C, L \ B)
  BY <1>1, <1>9, <1>11
<1>13. QED  BY <1>10, <1>11, <1>12 DEF own, B

-----------------------------------------------------------------------------
(* Steps *)

\* An inode freed by unlink or rename: the trees through one allocator, the
\* file's blocks and the directory's through another.
LEMMA FreeingKeeps ==
  ASSUME Inv, NEW ino \in DOMAIN files, NEW gives \in SUBSET dirs, NEW takes \in BOOLEAN,
         NEW later \in SUBSET Blocks,
         Freeing(ino, Released(ino, gives, takes), FreedInode(ino), later)
  PROVE  Inv'
<1> DEFINE own == Released(ino, gives, takes)
           a   == FreedInode(ino)
           c   == [chunks EXCEPT ![ino.chunk] = @ \cup {ino.slot}]
           t   == TreesIn(Opened, c)
           B   == files[ino]
<1>1. Typed /\ CountsAgree /\ (~doubled => Whole)  BY DEF Inv
<1>2. ChunksType(chunks) /\ files \in [Used(chunks) -> SUBSET Blocks] /\ doubled \in BOOLEAN
  BY <1>1 DEF Typed
<1>3. ino \in Used(chunks)  BY <1>2
<1>4. ChunksType(c) /\ DOMAIN c = DOMAIN chunks /\ Used(c) = Used(chunks) \ {ino}
  BY <1>2, <1>3, FreeInode
<1>5. a.chunks = c /\ a.trees = t  BY DEF FreedInode
<1>6. Opened \in Allocs /\ Opened.free = space  BY <1>1, OpenedFact
<1> HIDE DEF c
<1>7. IsFiniteSet(DOMAIN c)  BY <1>4, BlocksFinite DEF ChunksType
<1>8. /\ t.group \in Allocs /\ t.inobt \in Seq(Blocks) /\ t.finobt \in Seq(Blocks)
      /\ \A D, C, L : Apart(Opened.free, D, Listing(inobt), Listing(finobt), C, L)
                      => Apart(t.group.free, D, Listing(t.inobt), Listing(t.finobt), C, L)
      /\ ~t.group.took => /\ t.group.free = Opened.free
                          /\ Listing(t.inobt) = Listing(inobt)
                          /\ Listing(t.finobt) = Listing(finobt)
  BY <1>1, <1>6, <1>7, TreesFact DEF Typed
<1>9. /\ own.group \in Allocs /\ own.dirs \in SUBSET Blocks
      /\ \A I, N, C, L : Apart(space, dirs, I, N, C, L) /\ B \subseteq L
                         => Apart(own.group.free, own.dirs, I, N, C, L \ B)
      /\ ~own.group.took => own.group.free = space /\ own.dirs = dirs /\ B = {}
  BY <1>1, ReleasedFact
<1>10. /\ space' = CASE t.group.took /\ own.group.took -> later
                     [] t.group.took /\ ~own.group.took -> t.group.free
                     [] OTHER -> own.group.free
       /\ doubled' = (doubled \/ (t.group.took /\ own.group.took))
       /\ chunks' = c /\ inobt' = t.inobt /\ finobt' = t.finobt
       /\ agi' = Counted(c, agi.newino)
       /\ files' = Without(files, ino) /\ dirs' = own.dirs
  <2> HIDE DEF own, a, t
  <2>1. QED  BY <1>5 DEF Freeing, own, a
<1> HIDE DEF own, t, a, B
<1>11. t.group.free \in SUBSET Blocks /\ own.group.free \in SUBSET Blocks
  BY <1>8, <1>9 DEF Allocs
<1>12. space' \in SUBSET Blocks  BY <1>10, <1>11
<1>13. files' \in [Used(c) -> SUBSET Blocks] /\ DOMAIN files' = Used(c)
  <2>1. DOMAIN files = Used(chunks)  BY <1>2
  <2>2. files' = [y \in Used(c) |-> files[y]]  BY <1>4, <1>10, <2>1 DEF Without
  <2>3. \A y \in Used(c) : files[y] \in SUBSET Blocks  BY <1>2, <1>4
  <2>4. QED  BY <2>2, <2>3
<1>14. Typed'
  <2>1. doubled' \in BOOLEAN  BY <1>10
  <2>2. QED  BY <1>4, <1>8, <1>9, <1>10, <1>12, <1>13, <2>1 DEF Typed
<1>15. CountsAgree'  BY <1>4, <1>10, <1>13, CountedFact
<1>16. ASSUME ~doubled' PROVE Whole'
  <2>1. ~doubled /\ ~(t.group.took /\ own.group.took)  BY <1>10, <1>16
  <2>2. Whole  BY <1>1, <2>1
  <2> DEFINE I == Listing(inobt)
             N == Listing(finobt)
             C == InChunks(chunks)
             L == InFiles(files)
  <2>3. Apart(space, dirs, I, N, C, L) /\ LoneChunks(chunks) /\ LoneFiles(files)
    BY <2>2 DEF Whole
  <2>4. InChunks(c) = C /\ LoneChunks(c)  BY <1>4, <2>3, SameChunks
  <2>5. InFiles(Without(files, ino)) = L \ B /\ LoneFiles(Without(files, ino))
    <3>1. files = [j \in DOMAIN files |-> files[j]] /\ \A j \in DOMAIN files : files[j] \in SUBSET Blocks
      BY <1>2
    <3>2. {} \in SUBSET Blocks  OBVIOUS
    <3>3. QED  BY <2>3, <3>1, <3>2, FileBlocksFact DEF B
  <2>6. B \subseteq L
    <3>1. B \in SUBSET Blocks  BY <1>2 DEF B
    <3>2. QED  BY <3>1 DEF InFiles, B
  <2> HIDE DEF I, N, C, L
  <2>7. Apart(space', own.dirs, Listing(t.inobt), Listing(t.finobt), C, L \ B)
    <3>1. CASE t.group.took
      <4>1. space' = t.group.free /\ own.dirs = dirs /\ L \ B = L
        <5>1. ~own.group.took  BY <2>1, <3>1
        <5>2. space' = t.group.free  BY <1>10, <3>1, <5>1
        <5>3. own.dirs = dirs /\ B = {}  BY <1>9, <5>1
        <5>4. QED  BY <5>2, <5>3
      <4>2. Apart(t.group.free, dirs, Listing(t.inobt), Listing(t.finobt), C, L)
        BY <1>6, <1>8, <2>3 DEF I, N
      <4>3. QED  BY <4>1, <4>2
    <3>2. CASE ~t.group.took
      <4>1. space' = own.group.free  BY <1>10, <3>2
      <4>2. Listing(t.inobt) = I /\ Listing(t.finobt) = N  BY <1>8, <3>2 DEF I, N
      <4>3. Apart(own.group.free, own.dirs, I, N, C, L \ B)  BY <1>9, <2>3, <2>6
      <4>4. QED  BY <4>1, <4>2, <4>3
    <3>3. QED  BY <3>1, <3>2
  <2>8. Apart(space', dirs', Listing(inobt'), Listing(finobt'), InChunks(chunks'), InFiles(files'))
    BY <1>10, <2>4, <2>5, <2>7
  <2>9. LoneChunks(chunks') /\ LoneFiles(files')  BY <1>10, <2>4, <2>5
  <2>10. QED  BY <2>8, <2>9 DEF Whole
<1>17. QED  BY <1>14, <1>15, <1>16 DEF Inv

\* write_into_empty_file takes one run.
LEMMA FillKeeps ==
  ASSUME Inv, NEW ino \in DOMAIN files, NEW want \in Sizes, Fill(ino, want)
  PROVE  Inv'
<1> DEFINE X == Run(Lowest(Fits(space, want, 1)), want)
<1>1. Typed /\ CountsAgree /\ (~doubled => Whole)  BY DEF Inv
<1>2. /\ space \in SUBSET Blocks /\ files \in [Used(chunks) -> SUBSET Blocks]
      /\ doubled \in BOOLEAN
  BY <1>1 DEF Typed
<1>3. X \subseteq space
  <2>1. Fits(space, want, 1) # {}  BY DEF Fill
  <2>2. QED  BY <1>2, <2>1, FitsFact
<1>4. /\ files[ino] = {} /\ space' = space \ X
      /\ files' = [files EXCEPT ![ino] = X]
      /\ UNCHANGED <<chunks, inobt, finobt, agi, dirs, doubled>>
  BY DEF Fill
<1> HIDE DEF X
<1>5. X \in SUBSET Blocks  BY <1>2, <1>3
<1>6. files' \in [Used(chunks) -> SUBSET Blocks] /\ DOMAIN files' = DOMAIN files
  BY <1>2, <1>4, <1>5
<1>7. Typed'
  <2>1. space' \in SUBSET Blocks  BY <1>2, <1>4
  <2>2. QED  BY <1>1, <1>4, <1>6, <2>1 DEF Typed
<1>8. CountsAgree'  BY <1>1, <1>4, <1>6 DEF CountsAgree
<1>9. ASSUME ~doubled' PROVE Whole'
  <2> DEFINE I == Listing(inobt)
             N == Listing(finobt)
             C == InChunks(chunks)
             L == InFiles(files)
  <2>1. Apart(space, dirs, I, N, C, L) /\ LoneChunks(chunks) /\ LoneFiles(files)
    <3>1. ~doubled  BY <1>4, <1>9
    <3>2. QED  BY <1>1, <3>1 DEF Whole
  <2>2. X \cap L = {}
    <3> HIDE DEF I, N, C, L
    <3>1. QED  BY <1>3, <2>1 DEF Apart
  <2>3. InFiles(files') = L \cup X /\ LoneFiles(files')
    <3>1. files = [j \in DOMAIN files |-> files[j]] /\ \A j \in DOMAIN files : files[j] \in SUBSET Blocks
      BY <1>2
    <3>2. /\ InFiles([files EXCEPT ![ino] = X]) = L \cup X
          /\ LoneFiles([files EXCEPT ![ino] = X])
      <4>1. ino \in DOMAIN files /\ files[ino] = {}  BY <1>4
      <4>2. /\ InFiles([files EXCEPT ![ino] = X]) = InFiles(files) \cup X
            /\ LoneFiles(files) /\ X \cap InFiles(files) = {}
                 => LoneFiles([files EXCEPT ![ino] = X])
        BY <1>5, <3>1, <4>1, FileBlocksFact
      <4>3. QED  BY <2>1, <2>2, <4>2
    <3>3. QED  BY <1>4, <3>2
  <2> HIDE DEF I, N, C, L
  <2>4. Trades(space, L, space \ X, L \cup X, X)  BY <1>3 DEF Trades
  <2>5. Apart(space \ X, dirs, I, N, C, L \cup X)  BY <2>1, <2>4, ApartTrades
  <2>6. Apart(space', dirs', Listing(inobt'), Listing(finobt'), InChunks(chunks'), InFiles(files'))
    BY <1>4, <2>3, <2>5 DEF I, N, C
  <2>7. LoneChunks(chunks')  BY <1>4, <2>1
  <2>8. QED  BY <2>3, <2>6, <2>7 DEF Whole
<1>10. QED  BY <1>7, <1>8, <1>9 DEF Inv

\* create: the inode, of a new chunk or an old one, the trees and the
\* directory's block all come from one allocator.
LEMMA CreateKeeps ==
  ASSUME Inv, NEW dir \in BOOLEAN, Create(dir)
  PROVE  Inv'
<1> DEFINE made   == WithFree(chunks) = {}
           starts == Fits(space, ChunkBlocks, Align)
           s      == Lowest(starts)
           g      == IF made THEN Taking(Opened, Run(s, ChunkBlocks)) ELSE Opened
           c      == IF made THEN WithChunk(s) ELSE chunks
           ino    == Chosen(c)
           after  == [c EXCEPT ![ino.chunk] = @ \ {ino.slot}]
           t      == TreesIn(g, after)
           block  == IF dir THEN {Lowest(t.group.free)} ELSE {}
           I == Listing(inobt)
           N == Listing(finobt)
           L == InFiles(files)
<1>1. Typed /\ CountsAgree /\ (~doubled => Whole)  BY DEF Inv
<1>2. /\ space \in SUBSET Blocks /\ dirs \in SUBSET Blocks /\ ChunksType(chunks)
      /\ files \in [Used(chunks) -> SUBSET Blocks] /\ doubled \in BOOLEAN
  BY <1>1 DEF Typed
<1>3. made => starts # {} /\ s \notin DOMAIN chunks  BY DEF Create
<1>4. dir => t.group.free # {}  BY DEF Create, CreateTrees
<1>5. /\ space' = t.group.free \ block /\ chunks' = after
      /\ inobt' = t.inobt /\ finobt' = t.finobt
      /\ files' = With(files, ino, {}) /\ dirs' = dirs \cup block
      /\ doubled' = doubled
  BY DEF Create, CreateTrees
<1>6. agi' = Counted(after, IF made THEN s ELSE agi.newino)  BY DEF Create, CreateTrees
<1>7. Opened \in Allocs /\ Opened.free = space  BY <1>1, OpenedFact
<1> HIDE DEF t, block, L, I, N
<1>8. ~doubled => /\ Apart(space, dirs, I, N, InChunks(chunks), L)
                  /\ LoneChunks(chunks) /\ LoneFiles(files)
  BY <1>1 DEF Whole, I, N, L
<1>9. /\ g \in Allocs /\ ChunksType(c) /\ WithFree(c) # {} /\ Used(c) = Used(chunks)
      /\ ~doubled => Apart(g.free, dirs, I, N, InChunks(c), L) /\ LoneChunks(c)
  <2>1. CASE made
    <3> DEFINE R == Run(s, ChunkBlocks)
    <3>1. starts # {} /\ s \notin DOMAIN chunks  BY <1>3, <2>1
    <3>2. R \subseteq space  BY <1>2, <3>1, FitsFact
    <3>3. s \in Blocks
      <4>1. starts \in SUBSET space  BY DEF Fits
      <4> HIDE DEF starts
      <4>2. starts \in SUBSET Nat  BY <1>2, <4>1, BlocksFinite
      <4>3. s \in starts  BY <3>1, <4>2, LowestFact
      <4>4. QED  BY <1>2, <4>1, <4>3
    <3>4. g = Taking(Opened, R) /\ c = With(chunks, s, Slots)  BY <2>1 DEF WithChunk
    <3> HIDE DEF made, s, g, c, starts
    <3>5. g \in Allocs /\ g.free = space \ R  BY <1>7, <3>4, TakingFact
    <3>6. /\ ChunksType(c) /\ DOMAIN c = DOMAIN chunks \cup {s}
          /\ Used(c) = Used(chunks) /\ WithFree(c) # {}
      BY <1>2, <3>1, <3>3, <3>4, NewChunk
    <3>7. ASSUME ~doubled
          PROVE  Apart(g.free, dirs, I, N, InChunks(c), L) /\ LoneChunks(c)
      <4>1. Apart(space, dirs, I, N, InChunks(chunks), L) /\ LoneChunks(chunks)  BY <1>8, <3>7
      <4>2. R \cap InChunks(chunks) = {}
        <5> DEFINE C == InChunks(chunks)
        <5> HIDE DEF C, R
        <5>1. R \cap C = {}  BY <3>2, <4>1 DEF Apart, C
        <5>2. QED  BY <5>1 DEF C
      <4>3. R \in SUBSET Blocks  BY <1>2, <3>2
      <4>4. InChunks(c) = InChunks(chunks) \cup R /\ LoneChunks(c)
        BY <3>6, <4>1, <4>2, <4>3, ChunkBlocksFact
      <4>5. Trades(space, InChunks(chunks), space \ R, InChunks(chunks) \cup R, R)
        BY <3>2 DEF Trades
      <4>6. Apart(space \ R, dirs, I, N, InChunks(chunks) \cup R, L)
        BY <4>1, <4>5, ApartTrades
      <4>7. QED  BY <3>5, <4>4, <4>6
    <3>8. QED  BY <3>5, <3>6, <3>7
  <2>2. CASE ~made
    <3>1. g = Opened /\ c = chunks  BY <2>2
    <3>2. WithFree(chunks) # {}  BY <2>2
    <3> HIDE DEF made, g, c
    <3>3. QED  BY <1>2, <1>7, <1>8, <3>1, <3>2
  <2>3. QED  BY <2>1, <2>2
<1> HIDE DEF g, c
<1>10. /\ ino = [chunk |-> ino.chunk, slot |-> ino.slot]
       /\ ino.chunk \in DOMAIN c /\ ino.slot \in c[ino.chunk]
  BY <1>9, ChosenFact
<1> HIDE DEF ino
<1>11. /\ ChunksType(after) /\ DOMAIN after = DOMAIN c
       /\ Used(after) = Used(chunks) \cup {ino} /\ ino \notin Used(chunks)
  <2> DEFINE j == [chunk |-> ino.chunk, slot |-> ino.slot]
  <2>1. /\ ChunksType(after) /\ DOMAIN after = DOMAIN c
        /\ Used(after) = Used(c) \cup {j} /\ j \notin Used(c)
    BY <1>9, <1>10, UseInode
  <2>2. j = ino  BY <1>10
  <2> HIDE DEF j
  <2>3. QED  BY <1>9, <2>1, <2>2
<1> HIDE DEF after
<1>12. IsFiniteSet(DOMAIN after)  BY <1>11, BlocksFinite DEF ChunksType
<1>13. /\ t.group \in Allocs /\ t.inobt \in Seq(Blocks) /\ t.finobt \in Seq(Blocks)
       /\ \A D, C, M : Apart(g.free, D, Listing(inobt), Listing(finobt), C, M)
                       => Apart(t.group.free, D, Listing(t.inobt), Listing(t.finobt), C, M)
  BY <1>1, <1>9, <1>12, TreesFact DEF Typed, t
<1>14. t.group.free \in SUBSET Blocks  BY <1>13 DEF Allocs
<1>15. block \subseteq t.group.free
  <2>1. CASE dir
    <3>1. t.group.free \in SUBSET Nat  BY <1>14, BlocksFinite
    <3>2. Lowest(t.group.free) \in t.group.free  BY <1>4, <2>1, <3>1, LowestFact
    <3>3. QED  BY <2>1, <3>2 DEF block
  <2>2. CASE ~dir  BY <2>2 DEF block
  <2>3. QED  BY <2>1, <2>2
<1>16. files' \in [Used(after) -> SUBSET Blocks] /\ DOMAIN files' = Used(after)
  <2>1. DOMAIN files = Used(chunks)  BY <1>2
  <2>2. files' = [y \in Used(after) |-> IF y = ino THEN {} ELSE files[y]]
    BY <1>5, <1>11, <2>1 DEF With
  <2>3. \A y \in Used(after) : (IF y = ino THEN {} ELSE files[y]) \in SUBSET Blocks
    BY <1>2, <1>11
  <2>4. QED  BY <2>2, <2>3
<1>17. Typed'
  <2>1. space' \in SUBSET Blocks /\ dirs' \in SUBSET Blocks  BY <1>2, <1>5, <1>14, <1>15
  <2>2. QED  BY <1>2, <1>5, <1>11, <1>13, <1>16, <2>1 DEF Typed
<1>18. CountsAgree'  BY <1>5, <1>6, <1>11, <1>16, CountedFact
<1>19. ASSUME ~doubled' PROVE Whole'
  <2>1. ~doubled  BY <1>5, <1>19
  <2>2. InChunks(after) = InChunks(c) /\ LoneChunks(after)  BY <1>9, <1>11, <2>1, SameChunks
  <2>3. InFiles(files') = L /\ LoneFiles(files')
    <3>1. files = [j \in DOMAIN files |-> files[j]] /\ \A j \in DOMAIN files : files[j] \in SUBSET Blocks
      BY <1>2
    <3>2. ino \notin DOMAIN files /\ {} \in SUBSET Blocks  BY <1>2, <1>11
    <3>3. /\ InFiles(With(files, ino, {})) = InFiles(files)
          /\ LoneFiles(files) => LoneFiles(With(files, ino, {}))
      BY <3>1, <3>2, FileBlocksFact
    <3>4. QED  BY <1>5, <1>8, <2>1, <3>3 DEF L
  <2>4. Apart(g.free, dirs, I, N, InChunks(after), L)  BY <1>9, <2>1, <2>2
  <2>5. Apart(t.group.free, dirs, Listing(t.inobt), Listing(t.finobt), InChunks(after), L)
    BY <1>13, <2>4 DEF I, N
  <2>6. Trades(t.group.free, dirs, t.group.free \ block, dirs \cup block, block)
    BY <1>15 DEF Trades
  <2>7. Apart(t.group.free \ block, dirs \cup block, Listing(t.inobt), Listing(t.finobt),
              InChunks(after), L)
    BY <2>5, <2>6, ApartTrades
  <2>8. Apart(space', dirs', Listing(inobt'), Listing(finobt'), InChunks(chunks'), InFiles(files'))
    BY <1>5, <2>3, <2>7
  <2>9. LoneChunks(chunks')  BY <1>5, <2>2
  <2>10. QED  BY <2>3, <2>8, <2>9 DEF Whole
<1>20. QED  BY <1>17, <1>18, <1>19 DEF Inv

\* Every operation.
LEMMA NextKeeps ==
  ASSUME Inv, [Next]_vars
  PROVE  Inv'
<1>1. CASE \E dir \in BOOLEAN : Create(dir)  BY <1>1, CreateKeeps
<1>2. CASE \E ino \in DOMAIN files : \E want \in Sizes : Fill(ino, want)  BY <1>2, FillKeeps
<1>3. ASSUME NEW ino \in DOMAIN files, NEW gives \in AtMostOne(dirs), NEW takes \in BOOLEAN
      PROVE  /\ gives \in SUBSET dirs
             /\ Released(ino, gives, takes).group.free \in SUBSET Blocks
             /\ FreedInode(ino).trees.group.free \in SUBSET Blocks
  <2>1. Typed  BY DEF Inv
  <2>2. gives \in SUBSET dirs  BY DEF AtMostOne
  <2>3. Released(ino, gives, takes).group \in Allocs  BY <2>1, <2>2, ReleasedFact
  <2> DEFINE c == [chunks EXCEPT ![ino.chunk] = @ \cup {ino.slot}]
  <2>4. FreedInode(ino).trees = TreesIn(Opened, c)  BY DEF FreedInode
  <2>5. IsFiniteSet(DOMAIN c)
    <3>1. DOMAIN c = DOMAIN chunks  OBVIOUS
    <3> HIDE DEF c
    <3>2. QED  BY <2>1, <3>1, BlocksFinite DEF Typed, ChunksType
  <2> HIDE DEF c
  <2>6. Opened \in Allocs  BY <2>1, OpenedFact
  <2>7. TreesIn(Opened, c).group \in Allocs  BY <2>1, <2>5, <2>6, TreesFact DEF Typed
  <2>8. QED  BY <2>2, <2>3, <2>4, <2>7 DEF Allocs
<1>4. CASE \E ino \in DOMAIN files : \E gives \in AtMostOne(dirs) : Unlink(ino, gives)
  <2>1. PICK ino \in DOMAIN files, gives \in AtMostOne(dirs) : Unlink(ino, gives)  BY <1>4
  <2> DEFINE later == Released(ino, gives, FALSE).group.free
  <2>2. Freeing(ino, Released(ino, gives, FALSE), FreedInode(ino), later)  BY <2>1 DEF Unlink
  <2>3. FALSE \in BOOLEAN  OBVIOUS
  <2>4. gives \in SUBSET dirs /\ later \in SUBSET Blocks  BY <1>3, <2>3
  <2> HIDE DEF later
  <2>5. QED  BY <2>2, <2>3, <2>4, FreeingKeeps
<1>5. CASE \E ino \in DOMAIN files : \E gives \in AtMostOne(dirs) : \E takes \in BOOLEAN :
             RenameOver(ino, gives, takes)
  <2>1. PICK ino \in DOMAIN files, gives \in AtMostOne(dirs), takes \in BOOLEAN :
               RenameOver(ino, gives, takes)
    BY <1>5
  <2> DEFINE later == FreedInode(ino).trees.group.free
  <2>2. Freeing(ino, Released(ino, gives, takes), FreedInode(ino), later)
    BY <2>1 DEF RenameOver
  <2>3. gives \in SUBSET dirs /\ later \in SUBSET Blocks  BY <1>3
  <2> HIDE DEF later
  <2>4. QED  BY <2>2, <2>3, FreeingKeeps
<1>6. CASE UNCHANGED vars
  BY <1>6 DEF vars, Inv, Typed, CountsAgree, Whole
<1>7. QED  BY <1>1, <1>2, <1>4, <1>5, <1>6 DEF Next

-----------------------------------------------------------------------------
(* The group as mkfs leaves it *)

LEMMA InitHolds == Init => Inv
<1>1. SUFFICES ASSUME Init PROVE Inv  OBVIOUS
<1> DEFINE R == Run(Align, ChunkBlocks)
           B == Blocks \ R
           held(n) == SubSeq(InOrder(B), 1, 2 + n)
<1>2. PICK loose \in LooseTree :
        /\ chunks = [s \in {Align} |-> Slots \ {0}]
        /\ inobt  = SubSeq(held(loose), 1, 1 + loose)
        /\ finobt = <<held(loose)[2 + loose]>>
        /\ space  = Blocks \ (R \cup Listing(held(loose)))
        /\ agi = [count |-> PerChunk, freecount |-> PerChunk - 1, newino |-> Align]
        /\ files = [i \in {Root} |-> {}]
        /\ dirs = {}
        /\ doubled = FALSE
  BY <1>1 DEF Init
<1> DEFINE n == 2 + loose
           h == held(loose)
<1>3. /\ loose \in Nat /\ ChunkBlocks + 2 + loose <= LastBlock
      /\ Align \in Nat \ {0} /\ ChunkBlocks \in Nat \ {0} /\ PerChunk \in Nat \ {0}
      /\ Align + ChunkBlocks - 1 <= LastBlock /\ LastBlock \in Nat
  BY InodesAssumption, AgSpaceAssumption
<1>4. R \in SUBSET Blocks /\ Align \in Blocks  BY <1>3 DEF Run, Blocks
<1>5. Cardinality(B) = LastBlock - ChunkBlocks
  <2>1. Align \in Int /\ Align + ChunkBlocks - 1 \in Int /\ ~(Align > Align + ChunkBlocks - 1)
        /\ (Align + ChunkBlocks - 1) - Align + 1 = ChunkBlocks
    BY <1>3
  <2>2. IsFiniteSet(R) /\ Cardinality(R) = ChunkBlocks
    <3>1. IsFiniteSet(R) /\ Cardinality(R) = IF Align > Align + ChunkBlocks - 1 THEN 0
                                             ELSE (Align + ChunkBlocks - 1) - Align + 1
      BY <2>1, FS_Interval DEF Run
    <3>2. QED  BY <2>1, <3>1
  <2>3. Cardinality(Blocks) = LastBlock
    <3>1. Cardinality(1 .. LastBlock) = IF 1 > LastBlock THEN 0 ELSE LastBlock - 1 + 1
      BY <1>3, FS_Interval
    <3>2. QED  BY <1>3, <3>1 DEF Blocks
  <2>4. B \cup R = Blocks /\ B \cap R = {} /\ B \in SUBSET Blocks  BY <1>4
  <2> HIDE DEF R, B
  <2>5. IsFiniteSet(B) /\ Cardinality(B) \in Nat  BY <2>4, BlocksFinite
  <2>6. Cardinality(B \cup R) = Cardinality(B) + Cardinality(R) - Cardinality(B \cap R)
    BY <2>2, <2>5, FS_Union
  <2>7. Cardinality({}) = 0  BY FS_EmptySet
  <2>8. LastBlock = Cardinality(B) + ChunkBlocks - 0  BY <2>2, <2>3, <2>4, <2>6, <2>7
  <2> DEFINE k == Cardinality(B)
  <2> HIDE DEF k
  <2>9. LastBlock = k + ChunkBlocks - 0 /\ k \in Nat  BY <2>5, <2>8 DEF k
  <2>10. k = LastBlock - ChunkBlocks  BY <1>3, <2>9
  <2>11. QED  BY <2>10 DEF k
<1> HIDE DEF R
<1>6. B \in SUBSET Blocks  OBVIOUS
<1> HIDE DEF B
<1>7. /\ \A i \in 1 .. n : InOrder(B)[i] \in B
      /\ \A i, j \in 1 .. n : InOrder(B)[i] = InOrder(B)[j] => i = j
  <2> DEFINE k == Cardinality(B)
  <2>1. B \in SUBSET Nat /\ IsFiniteSet(B)  BY <1>6, BlocksFinite
  <2>2. /\ \A i \in 1 .. k : InOrder(B)[i] \in B
        /\ \A i, j \in 1 .. k : InOrder(B)[i] = InOrder(B)[j] => i = j
    BY <2>1, InOrderFact
  <2>3. k = LastBlock - ChunkBlocks  BY <1>5
  <2> HIDE DEF k
  <2>4. \A i \in 1 .. n : i \in 1 .. k  BY <1>3, <2>3
  <2>5. QED  BY <2>2, <2>4
<1>8. /\ \A i \in 1 .. n : h[i] \in B
      /\ \A i, j \in 1 .. n : h[i] = h[j] => i = j
      /\ h \in Seq(B) /\ Len(h) = n
  <2>1. n \in Nat  BY <1>3
  <2> HIDE DEF n
  <2>2. /\ SubSeq(InOrder(B), 1, n) \in Seq(B) /\ Len(SubSeq(InOrder(B), 1, n)) = n
        /\ \A i \in 1 .. n : SubSeq(InOrder(B), 1, n)[i] = InOrder(B)[i]
    BY <1>7, <2>1, PrefixFact
  <2>3. h = SubSeq(InOrder(B), 1, n)  BY DEF n
  <2> HIDE DEF h
  <2>4. QED  BY <1>7, <2>2, <2>3
<1> HIDE DEF h
<1>9. /\ n \in Nat /\ 1 + loose \in Nat /\ n \in 1 .. n
      /\ \A i \in 1 .. 1 + loose : i \in 1 .. n /\ i # n
      /\ \A i \in 1 .. n : i \in 1 .. 1 + loose \/ i = n
  BY <1>3
<1>10. /\ inobt \in Seq(Blocks) /\ Len(inobt) = 1 + loose
       /\ \A i \in 1 .. 1 + loose : inobt[i] = h[i]
  <2>1. \A i \in 1 .. 1 + loose : h[i] \in Blocks  BY <1>6, <1>8, <1>9
  <2>2. inobt = SubSeq(h, 1, 1 + loose)  BY <1>2 DEF h
  <2>3. QED  BY <1>9, <2>1, <2>2, PrefixFact
<1>11. finobt \in Seq(Blocks) /\ Listing(finobt) = {h[n]}
  <2>1. finobt = <<h[n]>>  BY <1>2 DEF h
  <2>2. h[n] \in Blocks  BY <1>6, <1>8, <1>9
  <2> DEFINE x == h[n]
  <2> HIDE DEF x, n
  <2>3. finobt = <<x>> /\ x \in Blocks  BY <2>1, <2>2 DEF x
  <2>4. finobt \in Seq(Blocks) /\ Len(finobt) = 1 /\ finobt[1] = x  BY <2>3
  <2>5. 1 .. 1 = {1}  OBVIOUS
  <2>6. Listing(finobt) = {x}  BY <2>4, <2>5 DEF Listing
  <2>7. QED  BY <2>4, <2>6 DEF x
<1>12. Listing(inobt) = {h[i] : i \in 1 .. 1 + loose}  BY <1>10 DEF Listing
<1>13. Listing(h) = {h[i] : i \in 1 .. n}  BY <1>8 DEF Listing
<1>14. space = Blocks \ (R \cup Listing(h))  BY <1>2 DEF h
<1> HIDE DEF n
<1>15. /\ Listing(h) = Listing(inobt) \cup Listing(finobt)
       /\ Listing(inobt) \cap Listing(finobt) = {}
       /\ Listing(h) \subseteq B
  BY <1>8, <1>9, <1>11, <1>12, <1>13
<1>16. 0 \in Slots  BY <1>3 DEF Slots
<1>17. ChunksType(chunks) /\ DOMAIN chunks = {Align} /\ chunks[Align] = Slots \ {0}
  BY <1>2, <1>4 DEF ChunksType
<1>18. Root = [chunk |-> Align, slot |-> 0]  BY DEF Root
<1>19. Used(chunks) = {Root}
  <2>1. Root \in Used(chunks)  BY <1>16, <1>17, <1>18 DEF Used
  <2>2. ASSUME NEW i \in Used(chunks) PROVE i = Root
    <3>1. /\ i = [chunk |-> i.chunk, slot |-> i.slot]
          /\ i.chunk \in DOMAIN chunks /\ i.slot \in Slots /\ i.slot \notin chunks[i.chunk]
      BY DEF Used
    <3>2. i.chunk = Align  BY <1>17, <3>1
    <3>3. i.slot = 0  BY <1>17, <3>1, <3>2
    <3>4. QED  BY <1>18, <3>1, <3>2, <3>3
  <2>3. QED  BY <2>1, <2>2
<1>20. DOMAIN files = {Root} /\ files[Root] = {} /\ files \in [{Root} -> SUBSET Blocks]
  BY <1>2
<1>21. Typed
  <2>1. space \in SUBSET Blocks /\ dirs \in SUBSET Blocks  BY <1>2, <1>14
  <2>2. doubled \in BOOLEAN  BY <1>2
  <2>3. QED  BY <1>10, <1>11, <1>17, <1>19, <1>20, <2>1, <2>2 DEF Typed
<1>22. CountsAgree
  <2>1. Cardinality(DOMAIN chunks) = 1 /\ Cardinality(DOMAIN files) = 1
    BY <1>17, <1>20, FS_Singleton
  <2>2. agi.count = PerChunk /\ agi.freecount = PerChunk - 1  BY <1>2
  <2>3. PerChunk * 1 = PerChunk  BY <1>3
  <2>4. QED  BY <2>1, <2>2, <2>3 DEF CountsAgree
<1>23. Whole
  <2>1. InChunks(chunks) = R  BY <1>4, <1>17 DEF InChunks, R
  <2>2. InFiles(files) = {}  BY <1>20 DEF InFiles
  <2>3. LoneChunks(chunks) /\ LoneFiles(files)  BY <1>17, <1>20 DEF LoneChunks, LoneFiles
  <2> DEFINE I == Listing(inobt)
             N == Listing(finobt)
             H == Listing(h)
  <2>4. space = Blocks \ (R \cup H) /\ H = I \cup N /\ I \cap N = {} /\ H \subseteq B
    BY <1>14, <1>15
  <2>5. H \cap R = {} /\ H \subseteq Blocks  BY <2>4 DEF B
  <2> HIDE DEF I, N, H
  <2>6. dirs = {}  BY <1>2
  <2>7. Apart(space, dirs, I, N, R, {})  BY <1>4, <2>4, <2>5, <2>6 DEF Apart
  <2>8. QED  BY <2>1, <2>2, <2>3, <2>7 DEF Whole, I, N
<1>24. QED  BY <1>21, <1>22, <1>23 DEF Inv

-----------------------------------------------------------------------------
(* The properties *)

\* The invariant gives a block one use.
LEMMA NamedOnce ==
  ASSUME Inv, ~doubled, NEW b \in Blocks
  PROVE  Naming(b) = 1
<1> DEFINE I == Listing(inobt)
           N == Listing(finobt)
           C == InChunks(chunks)
           L == InFiles(files)
           P == {S \in {"free", "dirs", "inobt", "finobt"} :
                   b \in CASE S = "free"  -> space
                            [] S = "dirs"  -> dirs
                            [] S = "inobt" -> Listing(inobt)
                            [] S = "finobt" -> Listing(finobt)}
           Q == {s \in DOMAIN chunks : b \in Run(s, ChunkBlocks)}
           W == {i \in DOMAIN files : b \in files[i]}
<1>1. Apart(space, dirs, I, N, C, L) /\ LoneChunks(chunks) /\ LoneFiles(files)
  BY DEF Inv, Whole
<1>2. Naming(b) = Cardinality(P) + Cardinality(Q) + Cardinality(W)  BY DEF Naming
<1>3. /\ b \in C => \E s : Q = {s}
      /\ b \notin C => Q = {}
  BY <1>1 DEF InChunks, LoneChunks
<1>4. /\ b \in L => \E i : W = {i}
      /\ b \notin L => W = {}
  BY <1>1 DEF InFiles, LoneFiles
<1>5. \A S : S \in P <=> \/ S = "free" /\ b \in space
                         \/ S = "dirs" /\ b \in dirs
                         \/ S = "inobt" /\ b \in I
                         \/ S = "finobt" /\ b \in N
  OBVIOUS
<1>6. Cardinality({}) = 0 /\ \A x : Cardinality({x}) = 1  BY FS_EmptySet, FS_Singleton
<1> HIDE DEF I, N, C, L, P, Q, W
<1>7. CASE b \in C
  <2>1. P = {} /\ W = {} /\ \E s : Q = {s}  BY <1>1, <1>3, <1>4, <1>5, <1>7 DEF Apart
  <2>2. Cardinality(P) = 0 /\ Cardinality(Q) = 1 /\ Cardinality(W) = 0  BY <1>6, <2>1
  <2>3. QED  BY <1>2, <2>2
<1>8. CASE b \in L
  <2>1. P = {} /\ Q = {} /\ \E i : W = {i}  BY <1>1, <1>3, <1>4, <1>5, <1>8 DEF Apart
  <2>2. Cardinality(P) = 0 /\ Cardinality(Q) = 0 /\ Cardinality(W) = 1  BY <1>6, <2>1
  <2>3. QED  BY <1>2, <2>2
<1>9. CASE b \notin C /\ b \notin L
  <2>1. Q = {} /\ W = {}  BY <1>3, <1>4, <1>9
  <2>2. /\ b \in space \/ b \in dirs \/ b \in I \/ b \in N
        /\ b \in space => b \notin dirs /\ b \notin I /\ b \notin N
        /\ b \in dirs => b \notin I /\ b \notin N
        /\ b \in I => b \notin N
    BY <1>1, <1>9 DEF Apart
  <2>3. \E S : P = {S}
    <3>1. CASE b \in space
      <4>1. P = {"free"}  BY <1>5, <2>2, <3>1
      <4>2. QED  BY <4>1
    <3>2. CASE b \in dirs
      <4>1. P = {"dirs"}  BY <1>5, <2>2, <3>2
      <4>2. QED  BY <4>1
    <3>3. CASE b \in I
      <4>1. P = {"inobt"}  BY <1>5, <2>2, <3>3
      <4>2. QED  BY <4>1
    <3>4. CASE b \in N
      <4>1. P = {"finobt"}  BY <1>5, <2>2, <3>4
      <4>2. QED  BY <4>1
    <3>5. QED  BY <2>2, <3>1, <3>2, <3>3, <3>4
  <2>4. Cardinality(P) = 1 /\ Cardinality(Q) = 0 /\ Cardinality(W) = 0  BY <1>6, <2>1, <2>3
  <2>5. QED  BY <1>2, <2>4
<1>10. QED  BY <1>7, <1>8, <1>9

\* The inductive invariant, of every behaviour.
LEMMA Always == Spec => []Inv
<1>1. Init => Inv  BY InitHolds
<1>2. Inv /\ [Next]_vars => Inv'  BY NextKeeps
<1>3. QED  BY <1>1, <1>2, PTL DEF Spec

\* As long as no record has logged the group's header from two copies, every
\* block has one use and none is lost, whatever the group's size, the shape of
\* its inode trees and the operations there have been.
THEOREM OneUseUnlessDoubledTheorem == Spec => []OneUseUnlessDoubled
<1>1. Inv => OneUseUnlessDoubled  BY NamedOnce DEF OneUseUnlessDoubled
<1>2. QED  BY <1>1, Always, PTL

\* The inode header counts the inodes there are and the free ones among them,
\* even after a record that logged the header of the group twice.
THEOREM CountsAgreeTheorem == Spec => []CountsAgree
<1>1. Inv => CountsAgree  BY DEF Inv
<1>2. QED  BY <1>1, Always, PTL
=============================================================================
