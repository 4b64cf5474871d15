--------------------------- MODULE AgSpaceProofs ---------------------------
(***************************************************************************)
(* Facts about runs of blocks and the size of trees (AgSpace), for the     *)
(* proofs about the modules built on it.                                   *)
(***************************************************************************)
EXTENDS AgSpace, OrderFacts, FiniteSetTheorems, SequenceTheorems

-----------------------------------------------------------------------------
(* Blocks *)

\* Blocks are finitely many naturals.
LEMMA BlocksFinite ==
  /\ Blocks \subseteq Nat /\ IsFiniteSet(Blocks)
  /\ \A S \in SUBSET Blocks : IsFiniteSet(S) /\ Cardinality(S) \in Nat
<1>1. LastBlock \in Nat  BY AgSpaceAssumption
<1>2. IsFiniteSet(1 .. LastBlock)  BY <1>1, FS_Interval
<1>3. Blocks \subseteq Nat /\ IsFiniteSet(Blocks)  BY <1>1, <1>2 DEF Blocks
<1>4. QED  BY <1>3, FS_Subset, FS_CardinalityType

\* InOrder lists them, each once.
LEMMA InOrderFact ==
  ASSUME NEW S \in SUBSET Nat, IsFiniteSet(S)
  PROVE  /\ Cardinality(S) \in Nat
         /\ \A i \in 1 .. Cardinality(S) : InOrder(S)[i] \in S
         /\ \A i, j \in 1 .. Cardinality(S) : InOrder(S)[i] = InOrder(S)[j] => i = j
<1> DEFINE N == Cardinality(S)
           below(b) == {c \in S : c < b}
           rank(b) == Cardinality(below(b))
           f == [b \in S |-> rank(b) + 1]
<1>1. N \in Nat  BY FS_CardinalityType
<1>2. ASSUME NEW b \in S
      PROVE  IsFiniteSet(below(b)) /\ rank(b) \in Nat /\ rank(b) < N
  <2>1. below(b) \in SUBSET S /\ b \notin below(b)  OBVIOUS
  <2> HIDE DEF below
  <2>2. IsFiniteSet(below(b)) /\ rank(b) \in Nat  BY <2>1, FS_Subset, FS_CardinalityType
  <2>3. rank(b) <= N  BY <2>1, FS_Subset
  <2>4. N # rank(b)  BY <2>1, FS_Subset
  <2> HIDE DEF rank, N
  <2>5. QED  BY <2>2, <2>3, <2>4, <1>1
<1>3. ASSUME NEW b \in S, NEW c \in S, b < c
      PROVE  rank(b) < rank(c)
  <2>1. below(b) \in SUBSET below(c) /\ b \in below(c) /\ b \notin below(b)
    <3>1. b \in Nat /\ c \in Nat /\ \A d \in S : d \in Nat  OBVIOUS
    <3>2. \A d \in S : d < b => d < c  BY <3>1, <1>3
    <3>3. ~(b < b)  BY <3>1
    <3>4. QED  BY <3>2, <3>3, <1>3
  <2>2. IsFiniteSet(below(c)) /\ rank(c) \in Nat /\ rank(b) \in Nat  BY <1>2
  <2> HIDE DEF below
  <2>3. rank(b) <= rank(c)  BY <2>1, <2>2, FS_Subset
  <2>4. rank(c) # rank(b)  BY <2>1, <2>2, FS_Subset
  <2> HIDE DEF rank
  <2>5. QED  BY <2>2, <2>3, <2>4
<1>a. \A b \in S : rank(b) \in Nat /\ rank(b) < N  BY <1>2
<1> HIDE DEF rank, below
<1>4. f \in Injection(S, 1 .. N)
  <2>1. \A b \in S : rank(b) + 1 \in 1 .. N
    <3> HIDE DEF N
    <3>1. QED  BY <1>1, <1>a
  <2>2. \A b \in S : \A c \in S : f[b] = f[c] => b = c
    <3>1. SUFFICES ASSUME NEW b \in S, NEW c \in S, rank(b) + 1 = rank(c) + 1, b # c PROVE FALSE
      OBVIOUS
    <3>2. rank(b) \in Nat /\ rank(c) \in Nat /\ b \in Nat /\ c \in Nat  BY <1>2
    <3>3. b < c \/ c < b  BY <3>1, <3>2
    <3>4. QED  BY <3>1, <3>2, <3>3, <1>3
  <2>3. QED  BY <2>1, <2>2 DEF Injection, IsInjective
<1>5. f \in Surjection(S, 1 .. N)
  <2>1. IsFiniteSet(1 .. N) /\ Cardinality(1 .. N) = N
    <3>1. Cardinality(1 .. N) = IF 1 > N THEN 0 ELSE N - 1 + 1  BY <1>1, FS_Interval
    <3>2. IsFiniteSet(1 .. N)  BY <1>1, FS_Interval
    <3> HIDE DEF N
    <3>3. QED  BY <3>1, <3>2, <1>1
  <2> HIDE DEF f
  <2>2. QED  BY <2>1, <1>4, FS_Injection
<1>6. ASSUME NEW i \in 1 .. N
      PROVE  InOrder(S)[i] \in S /\ rank(InOrder(S)[i]) = i - 1
  <2>1. PICK b \in S : f[b] = i  BY <1>5 DEF Surjection
  <2>2. rank(b) = i - 1
    <3>1. rank(b) \in Nat /\ f[b] = rank(b) + 1 /\ i \in Nat  BY <1>1, <1>a
    <3>2. QED  BY <2>1, <3>1
  <2>3. InOrder(S)[i] = CHOOSE c \in S : rank(c) = i - 1  BY DEF InOrder, rank, below
  <2>4. QED  BY <2>2, <2>3
<1>7. ASSUME NEW i \in 1 .. N, NEW j \in 1 .. N, InOrder(S)[i] = InOrder(S)[j]
      PROVE  i = j
  <2>1. i - 1 = j - 1  BY <1>6, <1>7
  <2>2. QED  BY <2>1, <1>1
<1>8. QED  BY <1>1, <1>6, <1>7

\* The beginning of a sequence.
LEMMA PrefixFact ==
  ASSUME NEW S, NEW s, NEW n \in Nat, \A i \in 1 .. n : s[i] \in S
  PROVE  /\ SubSeq(s, 1, n) \in Seq(S) /\ Len(SubSeq(s, 1, n)) = n
         /\ \A i \in 1 .. n : SubSeq(s, 1, n)[i] = s[i]
<1>1. 1 \in Int /\ n \in Int  OBVIOUS
<1>2. /\ SubSeq(s, 1, n) \in Seq(S)
      /\ Len(SubSeq(s, 1, n)) = IF 1 <= n THEN n - 1 + 1 ELSE 0
      /\ \A i \in 1 .. n - 1 + 1 : SubSeq(s, 1, n)[i] = s[1 + i - 1]
  BY <1>1, SubSeqProperties
<1>3. n - 1 + 1 = n /\ (n # 0 => 1 <= n) /\ \A i \in 1 .. n : 1 + i - 1 = i  OBVIOUS
<1>4. QED  BY <1>2, <1>3

\* A run that fits is free.
LEMMA FitsFact ==
  ASSUME NEW S \in SUBSET Blocks, NEW want, NEW align, Fits(S, want, align) # {}
  PROVE  Run(Lowest(Fits(S, want, align)), want) \subseteq S
<1> DEFINE T == Fits(S, want, align)
<1>1. T \in SUBSET Nat /\ \A b \in T : Run(b, want) \subseteq S  BY BlocksFinite DEF Fits
<1>2. T # {}  OBVIOUS
<1> HIDE DEF T
<1>3. \E b \in T : \A c \in T : b <= c  BY <1>1, <1>2, LeastExists
<1>4. Lowest(T) \in T  BY <1>3 DEF Lowest
<1>5. QED  BY <1>1, <1>4 DEF T

\* Longest is the length of a free run.
LEMMA LongestFact ==
  ASSUME NEW S \in SUBSET Blocks, S # {}
  PROVE  Longest(S) \in Nat \ {0} /\ \E b \in S : Run(b, Longest(S)) \subseteq S
<1> DEFINE L == {len \in 1 .. LastBlock : \E b \in S : Run(b, len) \subseteq S}
<1>1. LastBlock \in Nat  BY AgSpaceAssumption
<1>2. PICK b \in S : TRUE  OBVIOUS
<1>3. b \in 1 .. LastBlock  BY DEF Blocks
<1>4. 1 \in 1 .. LastBlock  BY <1>1, <1>3
<1>5. Run(b, 1) \subseteq S
  <2>1. b + 1 - 1 = b  BY <1>3
  <2>2. Run(b, 1) = {b}  BY <1>3, <2>1 DEF Run
  <2>3. QED  BY <2>2
<1>6. L \in SUBSET Nat /\ L # {} /\ \A k \in L : k <= LastBlock /\ k # 0
  BY <1>1, <1>4, <1>5
<1>7. \A k \in L : \E c \in S : Run(c, k) \subseteq S  OBVIOUS
<1>8. Longest(S) = Highest(L)  BY DEF Longest
<1> HIDE DEF L
<1>9. \E k \in L : \A j \in L : j <= k  BY <1>1, <1>6, GreatestExists
<1>10. Highest(L) \in L  BY <1>9 DEF Highest
<1>11. QED  BY <1>6, <1>7, <1>8, <1>10

-----------------------------------------------------------------------------
(* Trees *)

\* As many leaves as it takes: at least one, and fewer than there are records.
LEMMA CeilDivFact ==
  ASSUME NEW n \in Nat \ {0}, NEW b \in Nat \ {0}
  PROVE  /\ CeilDiv(n, b) \in Nat \ {0}
         /\ n > 1 /\ b > 1 => CeilDiv(n, b) < n
<1> DEFINE q == (n + b - 1) \div b
           r == (n + b - 1) % b
<1>1. q \in Int /\ r \in 0 .. b - 1 /\ n + b - 1 = b * q + r
  OBVIOUS
<1>2. CeilDiv(n, b) = q  BY DEF CeilDiv
<1> HIDE DEF q, r
<1>3. q > 0
  <2>1. SUFFICES ASSUME q <= 0 PROVE FALSE  BY <1>1
  <2>2. b * q <= 0  BY <1>1, <2>1
  <2>3. QED  BY <1>1, <2>2
<1>4. ASSUME n > 1, b > 1, q >= n PROVE FALSE
  <2>1. b * q >= b * n  BY <1>1, <1>4
  <2>2. b * n = n + (b - 1) * n  OBVIOUS
  <2>3. (b - 1) * n >= (b - 1) * 2  BY <1>4
  <2>4. QED  BY <1>1, <1>4, <2>1, <2>2, <2>3
<1>5. QED  BY <1>1, <1>2, <1>3, <1>4

\* What a tree of so many leaves takes.
Plans == [blocks : Nat \ {0}, levels : Nat \ {0}]

\* The recursion of Over up to n.
OverTo(n, F) ==
  /\ F \in [1 .. n -> Plans]
  /\ \A k \in 1 .. n : F[k] = IF k = 1 THEN [blocks |-> 1, levels |-> 1]
                              ELSE [blocks |-> k + F[CeilDiv(k, NodeEntries)].blocks,
                                    levels |-> 1 + F[CeilDiv(k, NodeEntries)].levels]

\* It gives one value.
LEMMA OverAgrees ==
  ASSUME NEW m \in Nat, NEW n \in Nat, NEW F, NEW G, OverTo(m, F), OverTo(n, G),
         NEW k \in 1 .. m, k <= n
  PROVE  F[k] = G[k]
<1> DEFINE Bad == {j \in 1 .. m : j <= n /\ F[j] # G[j]}
<1>1. SUFFICES ASSUME Bad # {} PROVE FALSE  OBVIOUS
<1>2. PICK j \in Bad : \A i \in Bad : j <= i
  <2>1. Bad \in SUBSET Nat  OBVIOUS
  <2> HIDE DEF Bad
  <2>2. QED  BY <1>1, <2>1, LeastExists
<1>3. j \in 1 .. m /\ j \in 1 .. n /\ F[j] # G[j]  OBVIOUS
<1>4. j # 1  BY <1>3 DEF OverTo
<1> DEFINE i == CeilDiv(j, NodeEntries)
<1>5. i \in 1 .. m /\ i \in 1 .. n /\ i < j
  <2>1. j \in Nat \ {0} /\ j > 1 /\ NodeEntries \in Nat \ {0} /\ NodeEntries > 1
    BY <1>3, <1>4, AgSpaceAssumption
  <2>2. i \in Nat \ {0} /\ i < j  BY <2>1, CeilDivFact
  <2> HIDE DEF i
  <2>3. QED  BY <2>2, <1>3
<1> HIDE DEF i
<1>6. F[i] = G[i]  BY <1>2, <1>5
<1>7. QED  BY <1>3, <1>4, <1>6 DEF OverTo, i

\* It gives a value.
LEMMA OverExists ==
  ASSUME NEW n \in Nat
  PROVE  \E F : OverTo(n, F)
<1> DEFINE Bad == {k \in Nat : ~\E F : OverTo(k, F)}
<1>1. SUFFICES ASSUME Bad # {} PROVE FALSE  OBVIOUS
<1>2. PICK k \in Bad : \A i \in Bad : k <= i  BY <1>1, LeastExists
<1>3. k # 0
  <2>1. OverTo(0, [i \in 1 .. 0 |-> 0])  BY DEF OverTo
  <2>2. QED  BY <1>2, <2>1
<1>4. k - 1 \in Nat /\ ~(k <= k - 1)  BY <1>3
<1>5. PICK F : OverTo(k - 1, F)  BY <1>2, <1>4
<1> DEFINE c == CeilDiv(k, NodeEntries)
           v == IF k = 1 THEN [blocks |-> 1, levels |-> 1]
                ELSE [blocks |-> k + F[c].blocks, levels |-> 1 + F[c].levels]
           G == [i \in 1 .. k |-> IF i = k THEN v ELSE F[i]]
<1>6. NodeEntries \in Nat \ {0} /\ NodeEntries > 1  BY AgSpaceAssumption
<1>7. k # 1 => c \in 1 .. k - 1
  <2>1. k \in Nat \ {0}  BY <1>3
  <2>2. c \in Nat \ {0} /\ (k > 1 => c < k)  BY <2>1, <1>6, CeilDivFact
  <2> HIDE DEF c
  <2>3. QED  BY <2>1, <2>2
<1>8. v \in Plans
  <2>1. k # 1 => F[c] \in Plans  BY <1>5, <1>7 DEF OverTo
  <2> HIDE DEF c
  <2>2. QED  BY <2>1, <1>3 DEF Plans
<1> HIDE DEF v
<1>9. G \in [1 .. k -> Plans]  BY <1>5, <1>8, <1>4 DEF OverTo
<1>10. \A i \in 1 .. k : G[i] = IF i = k THEN v ELSE F[i]  OBVIOUS
<1> HIDE DEF G
<1>11. ASSUME NEW i \in 1 .. k
       PROVE  G[i] = IF i = 1 THEN [blocks |-> 1, levels |-> 1]
                     ELSE [blocks |-> i + G[CeilDiv(i, NodeEntries)].blocks,
                           levels |-> 1 + G[CeilDiv(i, NodeEntries)].levels]
  <2> DEFINE d == CeilDiv(i, NodeEntries)
  <2>1. i # 1 => d \in 1 .. i - 1
    <3>1. i \in Nat \ {0}  OBVIOUS
    <3>2. d \in Nat \ {0} /\ (i > 1 => d < i)  BY <3>1, <1>6, CeilDivFact
    <3> HIDE DEF d
    <3>3. QED  BY <3>1, <3>2
  <2>2. i # 1 => G[d] = F[d]
    <3> HIDE DEF d
    <3>1. QED  BY <2>1, <1>10
  <2>3. CASE i = k
    <3>1. G[i] = v  BY <1>10, <2>3
    <3>2. i # 1 => d = c  BY <2>3
    <3> HIDE DEF c, d
    <3>3. QED  BY <3>1, <3>2, <2>2, <2>3 DEF v, d
  <2>4. CASE i # k
    <3>1. G[i] = F[i] /\ i \in 1 .. k - 1  BY <1>10, <2>4
    <3>2. F[i] = IF i = 1 THEN [blocks |-> 1, levels |-> 1]
                 ELSE [blocks |-> i + F[d].blocks, levels |-> 1 + F[d].levels]
      BY <3>1, <1>5 DEF OverTo
    <3> HIDE DEF d
    <3>3. QED  BY <3>1, <3>2, <2>2 DEF d
  <2>5. QED  BY <2>3, <2>4
<1>12. OverTo(k, G)  BY <1>9, <1>11 DEF OverTo
<1>13. QED  BY <1>2, <1>12

\* ag_btree::plan: a tree has at least a root, whatever it holds.
LEMMA OverType ==
  ASSUME NEW n \in Nat \ {0}
  PROVE  Over[n] \in Plans
<1> DEFINE Pick(k) == CHOOSE F : OverTo(k, F)
           G == [k \in Nat \ {0} |-> Pick(k)[k]]
<1>1. \A k \in Nat : OverTo(k, Pick(k))  BY OverExists
<1> HIDE DEF Pick
<1>2. \A k \in Nat \ {0} : G[k] \in Plans
  <2>1. ASSUME NEW k \in Nat \ {0} PROVE G[k] \in Plans
    <3>1. OverTo(k, Pick(k)) /\ k \in 1 .. k  BY <1>1
    <3>2. QED  BY <3>1 DEF OverTo
  <2>2. QED  BY <2>1
<1>3. ASSUME NEW k \in Nat \ {0}
      PROVE  G[k] = IF k = 1 THEN [blocks |-> 1, levels |-> 1]
                    ELSE [blocks |-> k + G[CeilDiv(k, NodeEntries)].blocks,
                          levels |-> 1 + G[CeilDiv(k, NodeEntries)].levels]
  <2> DEFINE d == CeilDiv(k, NodeEntries)
             F == Pick(k)
  <2>1. NodeEntries \in Nat \ {0} /\ NodeEntries > 1  BY AgSpaceAssumption
  <2>2. d \in Nat \ {0} /\ (k > 1 => d < k)  BY <2>1, CeilDivFact
  <2>3. OverTo(k, F) /\ k \in 1 .. k  BY <1>1
  <2>4. G[k] = F[k]  OBVIOUS
  <2> HIDE DEF d, F
  <2>5. F[k] = IF k = 1 THEN [blocks |-> 1, levels |-> 1]
               ELSE [blocks |-> k + F[d].blocks, levels |-> 1 + F[d].levels]
    BY <2>3 DEF OverTo, d
  <2>6. k > 1 => G[d] = F[d]
    <3>1. SUFFICES ASSUME k > 1 PROVE G[d] = F[d]  OBVIOUS
    <3>2. OverTo(d, Pick(d)) /\ d \in 1 .. d /\ d <= k  BY <1>1, <2>2, <3>1
    <3>3. Pick(d)[d] = F[d]  BY <3>2, <2>2, <2>3, OverAgrees
    <3>4. QED  BY <3>3, <2>2
  <2> HIDE DEF G
  <2>7. QED  BY <2>4, <2>5, <2>6 DEF d
<1> DEFINE H(f) == [k \in Nat \ {0} |-> IF k = 1 THEN [blocks |-> 1, levels |-> 1]
                                     ELSE LET above == f[CeilDiv(k, NodeEntries)]
                                          IN  [blocks |-> k + above.blocks,
                                               levels |-> 1 + above.levels]]
<1>4. G = H(G)  BY <1>3
<1>5. Over = CHOOSE f : f = H(f)  BY DEF Over
<1> HIDE DEF H, G
<1>6. Over = H(Over)  BY <1>4, <1>5
<1> USE DEF H
<1>7. \A k \in Nat \ {0} : Over[k] = IF k = 1 THEN [blocks |-> 1, levels |-> 1]
                    ELSE [blocks |-> k + Over[CeilDiv(k, NodeEntries)].blocks,
                          levels |-> 1 + Over[CeilDiv(k, NodeEntries)].levels]
  BY <1>6
<1> DEFINE Bad == {k \in Nat \ {0} : Over[k] \notin Plans}
<1>8. SUFFICES ASSUME Bad # {} PROVE FALSE  OBVIOUS
<1>9. PICK k \in Bad : \A i \in Bad : k <= i
  <2>1. Bad \in SUBSET Nat  OBVIOUS
  <2> HIDE DEF Bad
  <2>2. QED  BY <1>8, <2>1, LeastExists
<1>10. k \in Nat \ {0} /\ Over[k] \notin Plans  OBVIOUS
<1>11. k # 1
  <2>1. [blocks |-> 1, levels |-> 1] \in Plans  BY DEF Plans
  <2>2. QED  BY <2>1, <1>7, <1>10
<1> DEFINE d == CeilDiv(k, NodeEntries)
<1>12. d \in Nat \ {0} /\ d < k  BY <1>10, <1>11, AgSpaceAssumption, CeilDivFact
<1>13. Over[k] = [blocks |-> k + Over[d].blocks, levels |-> 1 + Over[d].levels]
  BY <1>7, <1>10, <1>11
<1> HIDE DEF d
<1>14. Over[d] \in Plans  BY <1>9, <1>12
<1>15. QED  BY <1>10, <1>13, <1>14 DEF Plans

\* How much every layout of a group comes to.
LEMMA LayoutType ==
  ASSUME NEW p \in Nat \ {0}, NEW n \in Nat
  PROVE  Plan(p, n) \in Plans
<1>1. Leaves(p, n) \in Nat \ {0}
  <2>1. n # 0 => CeilDiv(n, p) \in Nat \ {0}  BY CeilDivFact
  <2>2. QED  BY <2>1 DEF Leaves
<1>2. QED  BY <1>1, OverType DEF Plan
=============================================================================
