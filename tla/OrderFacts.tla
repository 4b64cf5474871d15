----------------------------- MODULE OrderFacts -----------------------------
(* Extreme elements of sets of numbers, repeated steps and sums, for the   *)
(* proof modules.                                                          *)
EXTENDS Integers, Functions, FiniteSetTheorems, WellFoundedInduction, TLAPS

\* A non-empty set of naturals has a least element.
LEMMA LeastExists ==
  ASSUME NEW T \in SUBSET Nat, T # {}
  PROVE  \E i \in T : \A j \in T : i <= j
<1>1. PICK i \in T : \A j \in T : ~ (<<j, i>> \in OpToRel(<, Nat))
  BY NatLessThanWellFounded, WFMin
<1>2. \A j \in T : ~(j < i)  BY <1>1 DEF OpToRel
<1>3. QED  BY <1>2

\* A non-empty set of naturals with an upper bound has a greatest element.
LEMMA GreatestExists ==
  ASSUME NEW n \in Nat, NEW T \in SUBSET Nat, T # {}, \A i \in T : i <= n
  PROVE  \E i \in T : \A j \in T : j <= i
<1> DEFINE U == {k \in Nat : \E i \in T : k = n - i}
<1>1. U \in SUBSET Nat /\ U # {}
  <2>1. PICK i \in T : TRUE  OBVIOUS
  <2>2. n - i \in U  OBVIOUS
  <2>3. QED  BY <2>2
<1>2. PICK k \in U : \A l \in U : k <= l  BY <1>1, LeastExists
<1>3. PICK i \in T : k = n - i  OBVIOUS
<1>4. ASSUME NEW j \in T PROVE j <= i
  <2>1. n - j \in U  OBVIOUS
  <2>2. k <= n - j  BY <1>2, <2>1
  <2>3. QED  BY <1>3, <2>2
<1>5. QED  BY <1>4

\* A step on a set, taken again and again from one of its elements, is a
\* function of how often it was taken.
LEMMA IterationExists ==
  ASSUME NEW A, NEW a \in A, NEW step \in [A -> A]
  PROVE  \E f \in [Nat -> A] : f[0] = a /\ \A k \in Nat : f[k + 1] = step[f[k]]
<1> DEFINE Path(n, g) == g \in [0 .. n -> A] /\ g[0] = a
                           /\ \A k \in 0 .. n : k < n => g[k + 1] = step[g[k]]
           Bad == {n \in Nat : ~\E g : Path(n, g)}
<1>1. Bad = {}
  <2>1. SUFFICES ASSUME Bad # {} PROVE FALSE  OBVIOUS
  <2>2. PICK n \in Bad : \A m \in Bad : n <= m  BY <2>1, LeastExists
  <2>3. n # 0
    <3>1. Path(0, [k \in 0 .. 0 |-> a])  OBVIOUS
    <3>2. QED  BY <3>1, <2>2
  <2>4. n - 1 \in Nat /\ n - 1 \notin Bad
    <3> HIDE DEF Path
    <3>1. n \in Nat  OBVIOUS
    <3>2. n - 1 \in Nat /\ ~(n <= n - 1)  BY <3>1, <2>3
    <3>3. QED  BY <2>2, <3>2
  <2>5. PICK g : Path(n - 1, g)  BY <2>4
  <2>6. Path(n, [k \in 0 .. n |-> IF k = n THEN step[g[n - 1]] ELSE g[k]])
    <3> DEFINE h == [k \in 0 .. n |-> IF k = n THEN step[g[n - 1]] ELSE g[k]]
    <3>1. g[n - 1] \in A  BY <2>4, <2>5
    <3>2. h \in [0 .. n -> A]  BY <3>1, <2>4, <2>5
    <3>3. h[0] = a  BY <2>3, <2>4, <2>5
    <3>4. ASSUME NEW k \in 0 .. n, k < n PROVE h[k + 1] = step[h[k]]
      <4>1. CASE k = n - 1  BY <4>1, <2>4
      <4>2. CASE k # n - 1
        <5>1. k \in 0 .. n - 1 /\ k + 1 \in 0 .. n - 1 /\ k < n - 1  BY <3>4, <4>2, <2>4
        <5>2. QED  BY <5>1, <2>5, <2>4
      <4>3. QED  BY <4>1, <4>2
    <3>5. QED  BY <3>2, <3>3, <3>4
  <2>7. QED  BY <2>6, <2>2
<1>2. ASSUME NEW m \in Nat, NEW n \in Nat, m <= n, NEW g, NEW h, Path(m, g), Path(n, h)
      PROVE  g[m] = h[m]
  <2> DEFINE D == {k \in 0 .. m : g[k] # h[k]}
  <2>1. D = {}
    <3>1. SUFFICES ASSUME D # {} PROVE FALSE  OBVIOUS
    <3>2. D \in SUBSET Nat  OBVIOUS
    <3>3. PICK k \in D : \A l \in D : k <= l  BY <3>1, <3>2, LeastExists
    <3>4. k # 0  BY <3>3, <1>2
    <3>5. k - 1 \in 0 .. m /\ k - 1 \in 0 .. n /\ k - 1 < m /\ k - 1 < n /\ k - 1 \notin D
      BY <3>3, <3>4, <1>2
    <3>6. g[k - 1] = h[k - 1]  BY <3>5
    <3>7. g[(k - 1) + 1] = step[g[k - 1]] /\ h[(k - 1) + 1] = step[h[k - 1]]  BY <3>5, <1>2
    <3>8. (k - 1) + 1 = k  BY <3>3
    <3>9. QED  BY <3>3, <3>6, <3>7, <3>8
  <2>2. m \in 0 .. m  BY <1>2
  <2>3. QED  BY <2>1, <2>2
<1> DEFINE P == [n \in Nat |-> CHOOSE g : Path(n, g)]
           f == [n \in Nat |-> P[n][n]]
<1>3. \A n \in Nat : Path(n, P[n])  BY <1>1
<1> HIDE DEF P
<1>4. f \in [Nat -> A]
  <2>1. \A n \in Nat : P[n][n] \in A  BY <1>3
  <2>2. QED  BY <2>1
<1>5. f[0] = a  BY <1>3
<1>6. ASSUME NEW k \in Nat PROVE f[k + 1] = step[f[k]]
  <2>1. k + 1 \in Nat /\ k \in 0 .. k + 1 /\ k < k + 1  OBVIOUS
  <2>2. P[k + 1][k + 1] = step[P[k + 1][k]]  BY <1>3, <2>1
  <2>3. P[k][k] = P[k + 1][k]
    <3>1. Path(k, P[k]) /\ Path(k + 1, P[k + 1])  BY <1>3, <2>1
    <3> HIDE DEF Path
    <3>2. QED  BY <1>2, <2>1, <3>1
  <2>4. QED  BY <2>1, <2>2, <2>3
<1>7. QED  BY <1>4, <1>5, <1>6

-----------------------------------------------------------------------------
(* Sums of finite functions of integers (SumFunction of the community      *)
(* modules): the order its CHOOSE takes the domain in does not matter.     *)

Picked(s) == CHOOSE x \in s : TRUE

\* F holds the sums of g over all the subsets of S.
Sums(g, S, F) ==
  /\ F \in [SUBSET S -> Int]
  /\ F[{}] = 0
  /\ \A s \in SUBSET S : s # {} => F[s] = g[Picked(s)] + F[s \ {Picked(s)}]

\* The same up to a size.
SumsTo(g, S, n, F) ==
  LET few == {s \in SUBSET S : Cardinality(s) <= n}
  IN  /\ F \in [few -> Int]
      /\ F[{}] = 0
      /\ \A s \in few : s # {} => F[s] = g[Picked(s)] + F[s \ {Picked(s)}]

\* Taking the chosen member away makes the set smaller by one.
LEMMA PickedFact ==
  ASSUME NEW S, IsFiniteSet(S), NEW s \in SUBSET S, s # {}
  PROVE  /\ Picked(s) \in s
         /\ s \ {Picked(s)} \in SUBSET S
         /\ IsFiniteSet(s)
         /\ Cardinality(s) \in Nat
         /\ Cardinality(s \ {Picked(s)}) = Cardinality(s) - 1
<1>1. Picked(s) \in s  BY DEF Picked
<1>2. IsFiniteSet(s)  BY FS_Subset
<1>3. Cardinality(s) \in Nat  BY <1>2, FS_CardinalityType
<1>4. Cardinality(s \ {Picked(s)}) = Cardinality(s) - 1  BY <1>1, <1>2, FS_RemoveElement
<1>5. QED  BY <1>1, <1>2, <1>3, <1>4

\* The sums exist.
LEMMA SumsExist ==
  ASSUME NEW S, IsFiniteSet(S), NEW g \in [S -> Int]
  PROVE  \E F : Sums(g, S, F)
<1> DEFINE Bad == {n \in Nat : ~\E F : SumsTo(g, S, n, F)}
           few(n) == {s \in SUBSET S : Cardinality(s) <= n}
<1>1. Bad = {}
  <2>1. SUFFICES ASSUME Bad # {} PROVE FALSE  OBVIOUS
  <2>2. PICK n \in Bad : \A m \in Bad : n <= m  BY <2>1, LeastExists
  <2>3. n \in Nat  OBVIOUS
  <2>4. n # 0
    <3>1. \A s \in few(0) : s = {}
      <4>1. SUFFICES ASSUME NEW s \in few(0), s # {} PROVE FALSE  OBVIOUS
      <4>2. IsFiniteSet(s) /\ Cardinality(s) \in Nat  BY <4>1, PickedFact
      <4>3. Cardinality(s) = 0  BY <4>2
      <4>4. QED  BY <4>1, <4>2, <4>3, FS_EmptySet
    <3>2. {} \in few(0)  BY FS_EmptySet
    <3>3. SumsTo(g, S, 0, [s \in few(0) |-> 0])  BY <3>1, <3>2 DEF SumsTo
    <3>4. QED  BY <3>3, <2>2
  <2>5. n - 1 \in Nat /\ ~(n <= n - 1)  BY <2>3, <2>4
  <2>6. PICK F : SumsTo(g, S, n - 1, F)  BY <2>2, <2>5
  <2> DEFINE G == [s \in few(n) |-> IF Cardinality(s) <= n - 1 THEN F[s]
                                    ELSE g[Picked(s)] + F[s \ {Picked(s)}]]
  <2>7. SumsTo(g, S, n, G)
    <3>1. ASSUME NEW s \in few(n), s # {}
          PROVE  /\ g[Picked(s)] \in Int
                 /\ s \ {Picked(s)} \in few(n - 1)
                 /\ s \ {Picked(s)} \in few(n)
                 /\ Cardinality(s \ {Picked(s)}) <= n - 1
      <4>1. s \in SUBSET S /\ Cardinality(s) <= n  OBVIOUS
      <4>2. /\ Picked(s) \in s /\ s \ {Picked(s)} \in SUBSET S
            /\ Cardinality(s) \in Nat
            /\ Cardinality(s \ {Picked(s)}) = Cardinality(s) - 1
        BY <3>1, <4>1, PickedFact
      <4>3. Cardinality(s \ {Picked(s)}) <= n - 1  BY <4>1, <4>2, <2>3
      <4>4. Cardinality(s \ {Picked(s)}) <= n  BY <4>3, <4>2, <2>3
      <4>5. QED  BY <4>1, <4>2, <4>3, <4>4
    <3>2. {} \in few(n - 1) /\ {} \in few(n) /\ Cardinality({}) <= n - 1  BY FS_EmptySet, <2>5, <2>3
    <3>3. F \in [few(n - 1) -> Int] /\ F[{}] = 0
          /\ \A s \in few(n - 1) : s # {} => F[s] = g[Picked(s)] + F[s \ {Picked(s)}]
      BY <2>6 DEF SumsTo
    <3>4. G \in [few(n) -> Int]
      <4>1. ASSUME NEW s \in few(n)
            PROVE  (IF Cardinality(s) <= n - 1 THEN F[s]
                    ELSE g[Picked(s)] + F[s \ {Picked(s)}]) \in Int
        <5>1. CASE Cardinality(s) <= n - 1  BY <5>1, <3>3
        <5>2. CASE ~(Cardinality(s) <= n - 1)
          <6>1. s # {}  BY <5>2, <3>2
          <6>2. QED  BY <6>1, <5>2, <3>1, <3>3
        <5>3. QED  BY <5>1, <5>2
      <4>2. QED  BY <4>1
    <3>5. G[{}] = 0  BY <3>2, <3>3
    <3>6. ASSUME NEW s \in few(n), s # {}
          PROVE  G[s] = g[Picked(s)] + G[s \ {Picked(s)}]
      <4>1. G[s \ {Picked(s)}] = F[s \ {Picked(s)}]  BY <3>1, <3>6
      <4>2. CASE Cardinality(s) <= n - 1
        <5>1. s \in few(n - 1)  BY <4>2
        <5>2. G[s] = F[s]  BY <4>2
        <5>3. QED  BY <5>1, <5>2, <4>1, <3>3, <3>6
      <4>3. CASE ~(Cardinality(s) <= n - 1)  BY <4>3, <4>1
      <4>4. QED  BY <4>2, <4>3
    <3> HIDE DEF G
    <3>7. QED  BY <3>4, <3>5, <3>6 DEF SumsTo
  <2>8. QED  BY <2>7, <2>2
<1>2. Cardinality(S) \in Nat  BY FS_CardinalityType
<1>3. PICK F : SumsTo(g, S, Cardinality(S), F)  BY <1>1, <1>2
<1>4. few(Cardinality(S)) = SUBSET S  BY FS_Subset
<1>5. Sums(g, S, F)  BY <1>3, <1>4 DEF Sums, SumsTo
<1>6. QED  BY <1>5

\* The sums over the subsets of T are those of any set T is a part of.
LEMMA SumsAgree ==
  ASSUME NEW S, IsFiniteSet(S), NEW T \in SUBSET S, NEW g, NEW h, NEW F, NEW G,
         Sums(g, S, F), Sums(h, T, G), \A x \in T : g[x] = h[x]
  PROVE  \A s \in SUBSET T : F[s] = G[s]
<1> DEFINE Differ == {s \in SUBSET T : F[s] # G[s]}
           Sizes == {n \in Nat : \E s \in Differ : Cardinality(s) = n}
<1>1. SUFFICES ASSUME NEW s \in Differ PROVE FALSE  OBVIOUS
<1>2. \A u \in Differ : Cardinality(u) \in Nat
  <2>1. \A u \in SUBSET S : IsFiniteSet(u) /\ Cardinality(u) \in Nat
    BY FS_Subset, FS_CardinalityType
  <2>2. QED  BY <2>1
<1>3. Sizes # {}  BY <1>2
<1>4. PICK n \in Sizes : \A m \in Sizes : n <= m  BY <1>3, LeastExists
<1>5. PICK u \in Differ : Cardinality(u) = n  OBVIOUS
<1>6. u # {}  BY <1>5 DEF Sums
<1>7. u \in SUBSET S /\ u \in SUBSET T  OBVIOUS
<1>8. /\ Picked(u) \in u /\ Cardinality(u) \in Nat
      /\ Cardinality(u \ {Picked(u)}) = Cardinality(u) - 1
  BY <1>6, <1>7, PickedFact
<1>9. u \ {Picked(u)} \notin Differ
  <2>1. SUFFICES ASSUME u \ {Picked(u)} \in Differ PROVE FALSE  OBVIOUS
  <2>2. Cardinality(u) - 1 \in Sizes  BY <2>1, <1>2, <1>8
  <2>3. n <= n - 1  BY <2>2, <1>4, <1>5
  <2>4. QED  BY <2>3, <1>8, <1>5
<1>10. F[u \ {Picked(u)}] = G[u \ {Picked(u)}]  BY <1>9, <1>7
<1>11. F[u] = g[Picked(u)] + F[u \ {Picked(u)}]  BY <1>6, <1>7 DEF Sums
<1>12. G[u] = h[Picked(u)] + G[u \ {Picked(u)}]  BY <1>6, <1>7 DEF Sums
<1>13. QED  BY <1>5, <1>7, <1>8, <1>10, <1>11, <1>12

\* A sum splits at any element, not only at the one the CHOOSE takes.
LEMMA SumsSplit ==
  ASSUME NEW S, IsFiniteSet(S), NEW g \in [S -> Int], NEW F, Sums(g, S, F)
  PROVE  \A s \in SUBSET S : \A x \in s : F[s] = g[x] + F[s \ {x}]
<1> DEFINE Fails == {s \in SUBSET S : \E x \in s : F[s] # g[x] + F[s \ {x}]}
           Sizes == {n \in Nat : \E s \in Fails : Cardinality(s) = n}
<1>1. SUFFICES ASSUME NEW s \in Fails PROVE FALSE  OBVIOUS
<1>2. \A u \in SUBSET S : IsFiniteSet(u) /\ Cardinality(u) \in Nat
  BY FS_Subset, FS_CardinalityType
<1>3. Sizes # {}
  <2>1. s \in SUBSET S  OBVIOUS
  <2>2. Cardinality(s) \in Sizes  BY <1>2, <2>1
  <2>3. QED  BY <2>2
<1>4. PICK n \in Sizes : \A m \in Sizes : n <= m  BY <1>3, LeastExists
<1>5. PICK u \in Fails : Cardinality(u) = n  OBVIOUS
<1>6. u \in SUBSET S  OBVIOUS
<1>7. PICK x \in u : F[u] # g[x] + F[u \ {x}]  OBVIOUS
<1> DEFINE p == Picked(u)
<1>8. u # {}  OBVIOUS
<1>9. p \in u /\ Cardinality(u) \in Nat  BY <1>6, <1>8, PickedFact
<1>10. F[u] = g[p] + F[u \ {p}]  BY <1>6, <1>8 DEF Sums
<1>11. x # p  BY <1>7, <1>10
<1> HIDE DEF p
<1>12. \A y \in u : u \ {y} \in SUBSET S /\ u \ {y} \notin Fails
  <2>1. SUFFICES ASSUME NEW y \in u, u \ {y} \in Fails PROVE FALSE  BY <1>6
  <2>2. Cardinality(u \ {y}) = Cardinality(u) - 1  BY <1>2, <1>6, FS_RemoveElement
  <2>3. u \ {y} \in SUBSET S  BY <1>6
  <2>4. Cardinality(u \ {y}) \in Nat  BY <1>2, <2>3
  <2>5. Cardinality(u \ {y}) \in Sizes  BY <2>1, <2>4
  <2>6. n <= Cardinality(u \ {y})  BY <1>4, <2>5
  <2>7. QED  BY <2>2, <2>6, <1>5, <1>9
<1>13. F[u \ {p}] = g[x] + F[(u \ {p}) \ {x}]
  <2>1. u \ {p} \in SUBSET S /\ u \ {p} \notin Fails  BY <1>9, <1>12
  <2>2. x \in u \ {p}  BY <1>11
  <2>3. QED  BY <2>1, <2>2
<1>14. F[u \ {x}] = g[p] + F[(u \ {x}) \ {p}]
  <2>1. u \ {x} \in SUBSET S /\ u \ {x} \notin Fails  BY <1>12
  <2>2. p \in u \ {x}  BY <1>11, <1>9
  <2>3. QED  BY <2>1, <2>2
<1>15. (u \ {x}) \ {p} = (u \ {p}) \ {x}  OBVIOUS
<1>16. g[x] \in Int /\ g[p] \in Int /\ F[(u \ {p}) \ {x}] \in Int
  BY <1>6, <1>9 DEF Sums
<1> DEFINE r == F[(u \ {p}) \ {x}]
<1>17. F[u] = g[p] + (g[x] + r) /\ F[u \ {x}] = g[p] + r  BY <1>10, <1>13, <1>14, <1>15
<1>18. g[p] \in Int /\ g[x] \in Int /\ r \in Int  BY <1>16
<1> HIDE DEF r, Fails
<1>19. F[u] = g[x] + F[u \ {x}]  BY <1>17, <1>18
<1>20. QED  BY <1>7, <1>19

\* What SumFunction computes.
LEMMA SumIs ==
  ASSUME NEW S, IsFiniteSet(S), NEW g \in [S -> Int]
  PROVE  \E F : Sums(g, S, F) /\ SumFunction(g) = F[S]
<1> DEFINE Step(F) == [s \in SUBSET S |->
                         IF s = {} THEN 0
                         ELSE g[Picked(s)] + F[s \ {Picked(s)}]]
           It == CHOOSE F : F = Step(F)
<1>1. PICK F : Sums(g, S, F)  BY SumsExist
<1>2. F = Step(F)  BY <1>1 DEF Sums
<1>3. It = Step(It)  BY <1>2
<1>4. DOMAIN g = S  OBVIOUS
<1>5. SumFunction(g) = It[S]
  BY <1>4 DEF SumFunction, SumFunctionOnSet, FoldFunctionOnSet, MapThenFoldSet, Picked
<1> HIDE DEF It
<1>6. It[{}] = 0  BY <1>3
<1>7. \A s \in SUBSET S : s # {} => It[s] = g[Picked(s)] + It[s \ {Picked(s)}]  BY <1>3
<1>8. It = [s \in SUBSET S |-> It[s]]  BY <1>3
<1> DEFINE Differ == {s \in SUBSET S : F[s] # It[s]}
           Sizes == {n \in Nat : \E s \in Differ : Cardinality(s) = n}
<1>9. Differ = {}
  <2>1. SUFFICES ASSUME NEW s \in Differ PROVE FALSE  OBVIOUS
  <2>2. \A u \in SUBSET S : Cardinality(u) \in Nat  BY FS_Subset, FS_CardinalityType
  <2>3. Sizes # {}  BY <2>2
  <2>4. PICK n \in Sizes : \A m \in Sizes : n <= m  BY <2>3, LeastExists
  <2>5. PICK u \in Differ : Cardinality(u) = n  OBVIOUS
  <2>6. u \in SUBSET S /\ u # {}  BY <1>6, <1>1 DEF Sums
  <2>7. /\ u \ {Picked(u)} \in SUBSET S /\ Cardinality(u) \in Nat
        /\ Cardinality(u \ {Picked(u)}) = Cardinality(u) - 1
    BY <2>6, PickedFact
  <2>8. u \ {Picked(u)} \notin Differ
    <3>1. SUFFICES ASSUME u \ {Picked(u)} \in Differ PROVE FALSE  OBVIOUS
    <3>2. Cardinality(u \ {Picked(u)}) \in Sizes  BY <3>1, <2>2, <2>7
    <3>3. n <= n - 1  BY <3>2, <2>4, <2>5, <2>7
    <3>4. QED  BY <3>3, <2>5, <2>7
  <2>9. QED  BY <2>5, <2>6, <2>7, <2>8, <1>7, <1>1 DEF Sums
<1>10. It[S] = F[S]  BY <1>9
<1>11. QED  BY <1>1, <1>5, <1>10

\* The sum of no numbers, and that a sum is an integer.
LEMMA SumType ==
  ASSUME NEW S, IsFiniteSet(S), NEW g \in [S -> Int]
  PROVE  SumFunction(g) \in Int /\ (S = {} => SumFunction(g) = 0)
<1>1. PICK F : Sums(g, S, F) /\ SumFunction(g) = F[S]  BY SumIs
<1>2. QED  BY <1>1 DEF Sums

\* A sum without one of its terms.
LEMMA SumWithout ==
  ASSUME NEW S, IsFiniteSet(S), NEW g \in [S -> Int], NEW x \in S
  PROVE  SumFunction(g) = g[x] + SumFunction([y \in S \ {x} |-> g[y]])
<1> DEFINE T == S \ {x}
           h == [y \in T |-> g[y]]
<1>1. IsFiniteSet(T) /\ T \in SUBSET S /\ h \in [T -> Int]  BY FS_Subset
<1>2. PICK F : Sums(g, S, F) /\ SumFunction(g) = F[S]  BY SumIs
<1>3. PICK G : Sums(h, T, G) /\ SumFunction(h) = G[T]  BY <1>1, SumIs
<1>4. \A y \in T : g[y] = h[y]  OBVIOUS
<1> HIDE DEF T, h
<1>5. F[T] = G[T]  BY <1>1, <1>2, <1>3, <1>4, SumsAgree
<1>6. F[S] = g[x] + F[S \ {x}]  BY <1>2, SumsSplit
<1>7. QED  BY <1>2, <1>3, <1>5, <1>6 DEF T, h

\* Two functions that differ in one value.
LEMMA SumChanged ==
  ASSUME NEW S, IsFiniteSet(S), NEW g \in [S -> Int], NEW h \in [S -> Int], NEW x \in S,
         \A y \in S \ {x} : g[y] = h[y]
  PROVE  SumFunction(h) = SumFunction(g) - g[x] + h[x]
<1> DEFINE gx == [y \in S \ {x} |-> g[y]]
           hx == [y \in S \ {x} |-> h[y]]
<1>1. gx = hx  OBVIOUS
<1>2. SumFunction(g) = g[x] + SumFunction(gx)  BY SumWithout
<1>3. SumFunction(h) = h[x] + SumFunction(hx)  BY SumWithout
<1>4. SumFunction(gx) \in Int
  <2>1. IsFiniteSet(S \ {x}) /\ gx \in [S \ {x} -> Int]  BY FS_Subset
  <2>2. QED  BY <2>1, SumType
<1>5. g[x] \in Int /\ h[x] \in Int  OBVIOUS
<1> HIDE DEF gx, hx
<1>6. QED  BY <1>1, <1>2, <1>3, <1>4, <1>5

\* Terms that are zero do not count.
LEMMA SumZeros ==
  ASSUME NEW S, IsFiniteSet(S), NEW g \in [S -> Int], NEW T \in SUBSET S,
         \A x \in S \ T : g[x] = 0
  PROVE  SumFunction(g) = SumFunction([x \in T |-> g[x]])
<1> DEFINE h == [x \in T |-> g[x]]
<1>1. IsFiniteSet(T) /\ h \in [T -> Int] /\ \A x \in T : g[x] = h[x]  BY FS_Subset
<1>2. PICK F : Sums(g, S, F) /\ SumFunction(g) = F[S]  BY SumIs
<1>3. PICK G : Sums(h, T, G) /\ SumFunction(h) = G[T]  BY <1>1, SumIs
<1> HIDE DEF h
<1>4. F[T] = G[T]
  <2>1. \A s \in SUBSET T : F[s] = G[s]  BY <1>1, <1>2, <1>3, SumsAgree
  <2>2. QED  BY <2>1
<1> DEFINE Differ == {s \in SUBSET S : F[s] # F[s \cap T]}
           Sizes == {n \in Nat : \E s \in Differ : Cardinality(s) = n}
<1>5. Differ = {}
  <2>1. SUFFICES ASSUME NEW s \in Differ PROVE FALSE  OBVIOUS
  <2>2. \A u \in SUBSET S : IsFiniteSet(u) /\ Cardinality(u) \in Nat  BY FS_Subset, FS_CardinalityType
  <2>3. Sizes # {}  BY <2>2
  <2>4. PICK n \in Sizes : \A m \in Sizes : n <= m  BY <2>3, LeastExists
  <2>5. PICK u \in Differ : Cardinality(u) = n  OBVIOUS
  <2>6. u \in SUBSET S  OBVIOUS
  <2>7. PICK x \in u : x \notin T
    <3>1. u \cap T # u  OBVIOUS
    <3>2. QED  BY <3>1
  <2>8. u \ {x} \in SUBSET S /\ (u \ {x}) \cap T = u \cap T  BY <2>6, <2>7
  <2>9. Cardinality(u \ {x}) = n - 1 /\ n \in Nat /\ n - 1 \in Nat
    <3>1. Cardinality(u \ {x}) = Cardinality(u) - 1  BY <2>2, <2>6, FS_RemoveElement
    <3>2. Cardinality(u \ {x}) \in Nat  BY <2>2, <2>8
    <3>3. QED  BY <2>5, <3>1, <3>2
  <2>10. u \ {x} \notin Differ
    <3>1. SUFFICES ASSUME u \ {x} \in Differ PROVE FALSE  OBVIOUS
    <3>2. n - 1 \in Sizes  BY <3>1, <2>9
    <3>3. n <= n - 1  BY <3>2, <2>4
    <3> HIDE DEF Sizes
    <3>4. QED  BY <3>3, <2>9
  <2>11. F[u \ {x}] = F[u \cap T]  BY <2>8, <2>10
  <2>12. F[u] = g[x] + F[u \ {x}]  BY <1>2, <2>6, SumsSplit
  <2>13. g[x] = 0 /\ F[u \ {x}] \in Int  BY <1>2, <2>6, <2>7, <2>8 DEF Sums
  <2>14. F[u] = F[u \cap T]  BY <2>11, <2>12, <2>13
  <2>15. QED  BY <2>14
<1>6. S \cap T = T  OBVIOUS
<1>7. F[S] = F[T]  BY <1>5, <1>6
<1>8. QED  BY <1>2, <1>3, <1>4, <1>7 DEF h

\* A sum of zeros.
LEMMA SumNothing ==
  ASSUME NEW S, IsFiniteSet(S), NEW g \in [S -> Int], \A x \in S : g[x] = 0
  PROVE  SumFunction(g) = 0
<1> DEFINE none == {}
           z == [x \in none |-> g[x]]
<1>1. IsFiniteSet(none) /\ none \in SUBSET S /\ z \in [none -> Int]  BY FS_EmptySet
<1>2. SumFunction(z) = 0
  <2>1. none = {}  OBVIOUS
  <2> HIDE DEF z, none
  <2>2. QED  BY <1>1, <2>1, SumType
<1>3. \A x \in S \ none : g[x] = 0  OBVIOUS
<1> HIDE DEF none
<1>4. SumFunction(g) = SumFunction(z)  BY <1>1, <1>3, SumZeros
<1>5. QED  BY <1>2, <1>4

\* A set's size is a sum of ones.
LEMMA SumOnes ==
  ASSUME NEW S, IsFiniteSet(S)
  PROVE  SumFunction([x \in S |-> 1]) = Cardinality(S)
<1> DEFINE g == [x \in S |-> 1]
<1>1. g \in [S -> Int] /\ \A x \in S : g[x] = 1  OBVIOUS
<1> HIDE DEF g
<1>2. PICK F : Sums(g, S, F) /\ SumFunction(g) = F[S]  BY <1>1, SumIs
<1> DEFINE Differ == {s \in SUBSET S : F[s] # Cardinality(s)}
           Sizes == {n \in Nat : \E s \in Differ : Cardinality(s) = n}
<1>3. Differ = {}
  <2>1. SUFFICES ASSUME NEW s \in Differ PROVE FALSE  OBVIOUS
  <2>2. \A u \in SUBSET S : Cardinality(u) \in Nat  BY FS_Subset, FS_CardinalityType
  <2>3. Sizes # {}  BY <2>2
  <2>4. PICK n \in Sizes : \A m \in Sizes : n <= m  BY <2>3, LeastExists
  <2>5. PICK u \in Differ : Cardinality(u) = n  OBVIOUS
  <2>6. u \in SUBSET S /\ u # {}  BY <1>2, FS_EmptySet DEF Sums
  <2>7. /\ Picked(u) \in u /\ u \ {Picked(u)} \in SUBSET S /\ Cardinality(u) \in Nat
        /\ Cardinality(u \ {Picked(u)}) = Cardinality(u) - 1
    BY <2>6, PickedFact
  <2>8. u \ {Picked(u)} \notin Differ
    <3>1. SUFFICES ASSUME u \ {Picked(u)} \in Differ PROVE FALSE  OBVIOUS
    <3>2. Cardinality(u \ {Picked(u)}) \in Sizes  BY <3>1, <2>2, <2>7
    <3>3. n <= n - 1  BY <3>2, <2>4, <2>5, <2>7
    <3>4. QED  BY <3>3, <2>5, <2>7
  <2>9. F[u] = 1 + (Cardinality(u) - 1)  BY <2>6, <2>7, <2>8, <1>1, <1>2 DEF Sums
  <2>10. F[u] = Cardinality(u)  BY <2>9, <2>7
  <2>11. QED  BY <2>10
<1>4. QED  BY <1>2, <1>3 DEF g

\* F holds the sums of g over the subsets of S, split anywhere.
SplitSums(g, S, F) ==
  /\ F \in [SUBSET S -> Int]
  /\ F[{}] = 0
  /\ \A s \in SUBSET S : \A x \in s : F[s] = g[x] + F[s \ {x}]

\* The sum as a function of the part summed.
LEMMA SumOfParts ==
  ASSUME NEW S, IsFiniteSet(S), NEW g \in [S -> Int]
  PROVE  \E F : SplitSums(g, S, F) /\ SumFunction(g) = F[S]
<1>1. PICK F : Sums(g, S, F) /\ SumFunction(g) = F[S]  BY SumIs
<1>2. ASSUME NEW s \in SUBSET S, NEW x \in s PROVE F[s] = g[x] + F[s \ {x}]  BY <1>1, SumsSplit
<1>3. F \in [SUBSET S -> Int] /\ F[{}] = 0  BY <1>1 DEF Sums
<1>4. QED  BY <1>1, <1>2, <1>3 DEF SplitSums

\* Changes c at the places x add up to the change of the sum.
LEMMA SumMoved ==
  ASSUME NEW S, IsFiniteSet(S), NEW g \in [S -> Int], NEW h \in [S -> Int],
         NEW K, IsFiniteSet(K), NEW c \in [K -> Int], NEW x \in [K -> S],
         \A j \in K : \A k \in K : x[j] = x[k] => j = k,
         \A k \in K : h[x[k]] = g[x[k]] + c[k],
         \A y \in S : (\A k \in K : y # x[k]) => h[y] = g[y]
  PROVE  SumFunction(h) = SumFunction(g) + SumFunction(c)
<1>1. PICK F : SplitSums(c, K, F) /\ SumFunction(c) = F[K]  BY SumOfParts
<1> DEFINE At(s) == [y \in S |-> IF \E k \in s : y = x[k] THEN h[y] ELSE g[y]]
           Differ == {s \in SUBSET K : SumFunction(At(s)) # SumFunction(g) + F[s]}
           Sizes == {n \in Nat : \E s \in Differ : Cardinality(s) = n}
<1>2. \A s \in SUBSET K : At(s) \in [S -> Int]  OBVIOUS
<1>3. SumFunction(g) \in Int /\ \A s \in SUBSET K : F[s] \in Int  BY <1>1, SumType DEF SplitSums
<1>4. Differ = {}
  <2>1. SUFFICES ASSUME NEW s \in Differ PROVE FALSE  OBVIOUS
  <2>2. \A u \in SUBSET K : IsFiniteSet(u) /\ Cardinality(u) \in Nat  BY FS_Subset, FS_CardinalityType
  <2>3. Sizes # {}  BY <2>2
  <2>4. PICK n \in Sizes : \A m \in Sizes : n <= m  BY <2>3, LeastExists
  <2>5. PICK u \in Differ : Cardinality(u) = n  OBVIOUS
  <2>6. u \in SUBSET K  OBVIOUS
  <2>7. u # {}
    <3>1. SUFFICES ASSUME u = {} PROVE FALSE  OBVIOUS
    <3>2. At({}) = g  OBVIOUS
    <3>3. F[{}] = 0  BY <1>1 DEF SplitSums
    <3>4. QED  BY <3>1, <3>2, <3>3, <1>3
  <2>8. PICK k \in u : TRUE  BY <2>7
  <2> DEFINE v == u \ {k}
  <2>9. v \in SUBSET K /\ k \in K  BY <2>6
  <2>10. Cardinality(v) = n - 1 /\ n \in Nat /\ n - 1 \in Nat
    <3>1. Cardinality(v) = Cardinality(u) - 1  BY <2>2, <2>6, FS_RemoveElement
    <3>2. Cardinality(v) \in Nat  BY <2>2, <2>9
    <3>3. QED  BY <2>5, <3>1, <3>2
  <2>11. v \notin Differ
    <3>1. SUFFICES ASSUME v \in Differ PROVE FALSE  OBVIOUS
    <3>2. n - 1 \in Sizes  BY <3>1, <2>10
    <3>3. n <= n - 1  BY <3>2, <2>4
    <3> HIDE DEF Sizes
    <3>4. QED  BY <3>3, <2>10
  <2>12. SumFunction(At(v)) = SumFunction(g) + F[v]  BY <2>9, <2>11
  <2>13. F[u] = c[k] + F[v]  BY <2>6, <1>1 DEF SplitSums
  <2>14. x[k] \in S  BY <2>9
  <2>15. At(u)[x[k]] = h[x[k]] /\ At(v)[x[k]] = g[x[k]]  BY <2>6, <2>9, <2>14
  <2>16. \A y \in S \ {x[k]} : At(v)[y] = At(u)[y]  BY <2>6, <2>9
  <2>17. At(u) \in [S -> Int] /\ At(v) \in [S -> Int]  BY <1>2, <2>6, <2>9
  <2>18. h[x[k]] = g[x[k]] + c[k] /\ g[x[k]] \in Int /\ c[k] \in Int  BY <2>9
  <2>19. F[v] \in Int  BY <1>3, <2>9
  <2>20. SumFunction(At(u)) # SumFunction(g) + F[u]  OBVIOUS
  <2> HIDE DEF At, v, Differ
  <2>21. SumFunction(At(u)) = SumFunction(At(v)) - At(v)[x[k]] + At(u)[x[k]]
    BY <2>14, <2>16, <2>17, SumChanged
  <2>22. QED  BY <2>12, <2>13, <2>15, <2>18, <2>19, <2>20, <2>21, <1>3
<1>5. At(K) = h  OBVIOUS
<1>6. SumFunction(At(K)) = SumFunction(g) + F[K]  BY <1>4
<1>7. QED  BY <1>1, <1>5, <1>6
=============================================================================
