---------------------------- MODULE GroupProofs ----------------------------
(***************************************************************************)
(* Proofs about one allocation group's space (Group), for every size of    *)
(* group, of leaf, of node and of free list, and any number of forks.      *)
(*                                                                         *)
(* The invariant is that the committed group, and the group a running      *)
(* operation holds, each fit what the files map (Fit): the uses part the   *)
(* blocks and the list and the trees are in order (Good), the reverse map  *)
(* names what is due (Names), and the reference counts are the numbers of  *)
(* owners (Shared).  Every edit moves blocks from one use to another.      *)
(***************************************************************************)
EXTENDS Group, AgSpaceProofs

-----------------------------------------------------------------------------
(* Numbers *)

\* A remainder once round.
LEMMA ModSmall ==
  ASSUME NEW c \in Nat \ {0}, NEW a \in 0 .. 2 * c - 1
  PROVE  a % c = IF a < c THEN a ELSE a - c
OBVIOUS

-----------------------------------------------------------------------------
(* The free list *)

\* An index of the ring, once round.
Wrap(a) == IF a < Capacity THEN a ELSE a - Capacity

Rings == [slot : [0 .. Capacity - 1 -> Blocks \cup {None}],
          first : 0 .. Capacity - 1, last : 0 .. Capacity - 1, count : 0 .. Capacity]

\* A list whose indices describe its count.
Sound(l) == l \in Rings /\ (l.count # 0 => l.last = Wrap(l.first + l.count - 1))

\* Indices of the ring are computed by remainders, and are in it.
LEMMA WrapFact ==
  ASSUME NEW a \in Nat, a < 2 * Capacity
  PROVE  a % Capacity = Wrap(a) /\ Wrap(a) \in 0 .. Capacity - 1
<1>1. Capacity \in Nat \ {0}  BY GroupAssumption
<1>2. a \in 0 .. 2 * Capacity - 1  BY <1>1
<1>3. a % Capacity = IF a < Capacity THEN a ELSE a - Capacity  BY <1>1, <1>2, ModSmall
<1>4. Wrap(a) \in 0 .. Capacity - 1  BY <1>1, <1>2 DEF Wrap
<1>5. QED  BY <1>3, <1>4 DEF Wrap

\* The last of k entries from f on is k - 1 places further round.
LEMMA RingParse ==
  ASSUME NEW f \in Nat, f < Capacity, NEW k \in Nat, 0 < k, k <= Capacity, NEW l, l = Wrap(f + k - 1)
  PROVE  /\ l + Capacity - f \in Nat /\ l + Capacity - f < 2 * Capacity
         /\ Wrap(l + Capacity - f) + 1 = k
BY GroupAssumption DEF Wrap

\* Entries from n places further round are those from there on.
LEMMA RingTake ==
  ASSUME NEW f \in Nat, f < Capacity, NEW k \in Nat, k <= Capacity, NEW n \in Nat, n <= k
  PROVE  /\ f + n \in Nat /\ f + n < 2 * Capacity
         /\ k # n => Wrap(f + k - 1) = Wrap(Wrap(f + n) + (k - n) - 1)
         /\ \A i \in 1 .. k - n : Wrap(Wrap(f + n) + i - 1) = Wrap(f + (n + i) - 1)
BY GroupAssumption DEF Wrap

\* What the n places from at on are, behind the k entries from f on.
Behind(f, k, n, at) ==
  /\ at \in Nat /\ at < Capacity
  /\ k # 0 => at = Wrap(Wrap(f + k - 1) + 1)
  /\ Wrap(at + n - 1) = Wrap(f + (k + n) - 1)
  /\ at + n - 1 \in Nat /\ at + n - 1 < 2 * Capacity
  /\ \A i \in 1 .. k : ~(Wrap(Wrap(f + i - 1) + Capacity - at) < n)
  /\ \A i \in 1 .. k + n : i > k => Wrap(Wrap(f + i - 1) + Capacity - at) = i - k - 1

\* They are not the entries', and come in order.
LEMMA RingPut ==
  ASSUME NEW f \in Nat, f < Capacity, NEW k \in Nat, NEW n \in Nat, n # 0, k + n <= Capacity
  PROVE  Behind(f, k, n, Wrap(f + k))
<1> DEFINE at == Wrap(f + k)
<1>1. at = Wrap(f + k)  OBVIOUS
<1>2. /\ at \in Nat /\ at < Capacity
      /\ k # 0 => at = Wrap(Wrap(f + k - 1) + 1)
      /\ Wrap(at + n - 1) = Wrap(f + (k + n) - 1)
      /\ at + n - 1 \in Nat /\ at + n - 1 < 2 * Capacity
      /\ \A i \in 1 .. k : ~(Wrap(Wrap(f + i - 1) + Capacity - at) < n)
      /\ \A i \in 1 .. k + n : i > k => Wrap(Wrap(f + i - 1) + Capacity - at) = i - k - 1
  BY GroupAssumption DEF Wrap
<1> HIDE DEF at
<1>3. Behind(f, k, n, at)  BY <1>2, Zenon DEF Behind
<1>4. QED  BY <1>1, <1>3

\* What the fields of a list are.
LEMMA RingFields ==
  ASSUME NEW l, Sound(l)
  PROVE  /\ Capacity \in Nat \ {0}
         /\ l.first \in Nat /\ l.first < Capacity /\ l.last \in Nat /\ l.last < Capacity
         /\ l.count \in Nat /\ l.count <= Capacity
         /\ l.slot \in [0 .. Capacity - 1 -> Blocks \cup {None}]
         /\ l.count # 0 => l.last = Wrap(l.first + l.count - 1)
         /\ l = [slot |-> l.slot, first |-> l.first, last |-> l.last, count |-> l.count]
<1>1. Capacity \in Nat \ {0}  BY GroupAssumption
<1>2. l \in Rings /\ (l.count # 0 => l.last = Wrap(l.first + l.count - 1))  BY DEF Sound
<1>3. QED  BY <1>1, <1>2 DEF Rings

\* Agfl::parse accepts it.
LEMMA SoundParses ==
  ASSUME NEW l, Sound(l)
  PROVE  Parses(l)
<1>1. /\ Capacity \in Nat \ {0}
      /\ l.first \in Nat /\ l.first < Capacity /\ l.last \in Nat /\ l.last < Capacity
      /\ l.count \in Nat /\ l.count <= Capacity
      /\ l.count # 0 => l.last = Wrap(l.first + l.count - 1)
  BY RingFields
<1>2. CASE l.count = 0  BY <1>1, <1>2 DEF Parses
<1>3. CASE l.count # 0
  <2>1. /\ l.last + Capacity - l.first \in Nat /\ l.last + Capacity - l.first < 2 * Capacity
        /\ Wrap(l.last + Capacity - l.first) + 1 = l.count
    BY <1>1, <1>3, RingParse, SMTT(30)
  <2>2. (l.last + Capacity - l.first) % Capacity = Wrap(l.last + Capacity - l.first)
    BY <2>1, WrapFact
  <2>3. QED  BY <1>1, <2>1, <2>2 DEF Parses
<1>4. QED  BY <1>2, <1>3

\* The entries, from the first on round the ring.
LEMMA EntriesFact ==
  ASSUME NEW l, Sound(l)
  PROVE  /\ DOMAIN Entries(l) = 1 .. l.count
         /\ \A i \in 1 .. l.count : /\ Entries(l)[i] = l.slot[Wrap(l.first + i - 1)]
                                    /\ Wrap(l.first + i - 1) \in 0 .. Capacity - 1
<1>1. /\ Capacity \in Nat \ {0}
      /\ l.first \in Nat /\ l.first < Capacity /\ l.count \in Nat /\ l.count <= Capacity
  BY RingFields
<1>2. ASSUME NEW i \in 1 .. l.count
      PROVE  /\ (l.first + i - 1) % Capacity = Wrap(l.first + i - 1)
             /\ Wrap(l.first + i - 1) \in 0 .. Capacity - 1
  <2>1. l.first + i - 1 \in Nat /\ l.first + i - 1 < 2 * Capacity  BY <1>1
  <2>2. QED  BY <2>1, WrapFact
<1>3. QED  BY <1>2 DEF Entries

\* Agfl::take removes the oldest entries and keeps the order of the others.
LEMMA ListTakeFact ==
  ASSUME NEW l, Sound(l), NEW n \in Nat, n <= l.count
  PROVE  LET m == ListTake(l, n)
         IN  /\ Sound(m) /\ m.count = l.count - n
             /\ \A i \in 1 .. l.count - n : Entries(m)[i] = Entries(l)[n + i]
<1> DEFINE m == ListTake(l, n)
<1>1. /\ Capacity \in Nat \ {0}
      /\ l.first \in Nat /\ l.first < Capacity /\ l.last \in Nat /\ l.last < Capacity
      /\ l.count \in Nat /\ l.count <= Capacity
      /\ l.slot \in [0 .. Capacity - 1 -> Blocks \cup {None}]
      /\ l.count # 0 => l.last = Wrap(l.first + l.count - 1)
      /\ l = [slot |-> l.slot, first |-> l.first, last |-> l.last, count |-> l.count]
  BY RingFields
<1>a. /\ l.first + n \in Nat /\ l.first + n < 2 * Capacity
      /\ l.count # n => Wrap(l.first + l.count - 1) = Wrap(Wrap(l.first + n) + (l.count - n) - 1)
      /\ \A i \in 1 .. l.count - n : Wrap(Wrap(l.first + n) + i - 1) = Wrap(l.first + (n + i) - 1)
  BY <1>1, RingTake, SMTT(30)
<1>2. (l.first + n) % Capacity = Wrap(l.first + n) /\ Wrap(l.first + n) \in 0 .. Capacity - 1
  BY <1>a, WrapFact
<1>3. m = [slot |-> l.slot, first |-> Wrap(l.first + n), last |-> l.last, count |-> l.count - n]
  <2>1. m = [l EXCEPT !.first = Wrap(l.first + n), !.count = l.count - n]  BY <1>2 DEF ListTake
  <2> HIDE DEF m
  <2> DEFINE a == l.slot
             b == l.first
             c == l.last
             d == l.count
  <2>2. l = [slot |-> a, first |-> b, last |-> c, count |-> d]  BY <1>1
  <2> HIDE DEF a, b, c, d
  <2>3. m = [slot |-> a, first |-> Wrap(l.first + n), last |-> c, count |-> l.count - n]
    BY <2>1, <2>2
  <2>4. QED  BY <2>3 DEF a, c
<1> HIDE DEF m
<1>4. m.slot = l.slot /\ m.first = Wrap(l.first + n) /\ m.last = l.last /\ m.count = l.count - n
  BY <1>3
<1>5. m \in Rings  BY <1>1, <1>2, <1>3, SMTT(30) DEF Rings
<1>6. m.count # 0 => m.last = Wrap(m.first + m.count - 1)
  <2>1. SUFFICES ASSUME l.count - n # 0 PROVE l.last = Wrap(Wrap(l.first + n) + (l.count - n) - 1)
    BY <1>4
  <2>2. l.count # 0 /\ l.count # n  BY <1>1, <2>1
  <2>3. QED  BY <1>1, <1>a, <2>2
<1>7. Sound(m)  BY <1>5, <1>6 DEF Sound
<1>8. ASSUME NEW i \in 1 .. l.count - n
      PROVE  Entries(m)[i] = Entries(l)[n + i]
  <2>1. Entries(m)[i] = l.slot[Wrap(m.first + i - 1)]  BY <1>4, <1>7, EntriesFact
  <2>2. n + i \in 1 .. l.count  BY <1>1
  <2>3. Entries(l)[n + i] = l.slot[Wrap(l.first + (n + i) - 1)]  BY <2>2, EntriesFact
  <2>4. Wrap(m.first + i - 1) = Wrap(l.first + (n + i) - 1)  BY <1>a, <1>4
  <2>5. QED  BY <2>1, <2>3, <2>4
<1>9. QED  BY <1>4, <1>7, <1>8 DEF m

\* Agfl::put adds entries behind the others and overwrites none of them.
LEMMA ListPutFact ==
  ASSUME NEW l, Sound(l), NEW s \in Seq(Blocks), l.count + Len(s) <= Capacity
  PROVE  LET m == ListPut(l, s)
         IN  /\ Sound(m) /\ m.count = l.count + Len(s)
             /\ \A i \in 1 .. l.count + Len(s) :
                  Entries(m)[i] = IF i <= l.count THEN Entries(l)[i] ELSE s[i - l.count]
<1> DEFINE m == ListPut(l, s)
           n == Len(s)
<1>1. /\ Capacity \in Nat \ {0}
      /\ l.first \in Nat /\ l.first < Capacity /\ l.last \in Nat /\ l.last < Capacity
      /\ l.count \in Nat /\ l.count <= Capacity
      /\ l.slot \in [0 .. Capacity - 1 -> Blocks \cup {None}]
      /\ l.count # 0 => l.last = Wrap(l.first + l.count - 1)
  BY RingFields
<1>2. n \in Nat /\ l.count + n <= Capacity /\ \A k \in 1 .. n : s[k] \in Blocks
  BY LenProperties
<1> HIDE DEF n
<1>3. CASE n = 0
  <2>1. m = l  BY <1>3 DEF n, ListPut
  <2> HIDE DEF m
  <2>2. \A i \in 1 .. l.count + n : i <= l.count  BY <1>1, <1>3
  <2>3. QED  BY <2>1, <2>2, <1>1, <1>3 DEF m, n
<1>4. CASE n # 0
  <2> DEFINE at == Wrap(l.first + l.count)
             S == [i \in 0 .. Capacity - 1 |->
                     IF Wrap(i + Capacity - at) < n THEN s[Wrap(i + Capacity - at) + 1] ELSE l.slot[i]]
  <2>a. at = Wrap(l.first + l.count)  OBVIOUS
  <2> HIDE DEF at
  <2>d. Behind(l.first, l.count, n, at)  BY <1>1, <1>2, <1>4, <2>a, RingPut
  <2>b. /\ at \in Nat /\ at < Capacity
        /\ l.count # 0 => at = Wrap(Wrap(l.first + l.count - 1) + 1)
        /\ Wrap(at + n - 1) = Wrap(l.first + (l.count + n) - 1)
        /\ at + n - 1 \in Nat /\ at + n - 1 < 2 * Capacity
    BY <2>d DEF Behind
  <2>c. /\ \A i \in 1 .. l.count : ~(Wrap(Wrap(l.first + i - 1) + Capacity - at) < n)
        /\ \A i \in 1 .. l.count + n :
             i > l.count => Wrap(Wrap(l.first + i - 1) + Capacity - at) = i - l.count - 1
    BY <2>d DEF Behind
  <2>1. at \in Nat /\ at < Capacity  BY <2>b
  <2>2. at = IF l.count = 0 THEN l.first ELSE (l.last + 1) % Capacity
    <3>1. l.last + 1 \in Nat /\ l.last + 1 < 2 * Capacity  BY <1>1
    <3>2. (l.last + 1) % Capacity = Wrap(l.last + 1)  BY <3>1, WrapFact
    <3>3. l.count = 0 => at = l.first
      <4>1. l.first + 0 = l.first /\ Wrap(l.first) = l.first  BY <1>1 DEF Wrap
      <4>2. QED  BY <4>1, <2>a
    <3>4. QED  BY <3>2, <3>3, <2>b, <1>1
  <2>3. \A i \in 0 .. Capacity - 1 :
          /\ (i + Capacity - at) % Capacity = Wrap(i + Capacity - at)
          /\ Wrap(i + Capacity - at) \in 0 .. Capacity - 1
    <3>1. \A i \in 0 .. Capacity - 1 : i + Capacity - at \in Nat /\ i + Capacity - at < 2 * Capacity
      BY <1>1, <2>1
    <3>2. QED  BY <3>1, WrapFact
  <2>4. (at + n - 1) % Capacity = Wrap(at + n - 1) /\ Wrap(at + n - 1) \in 0 .. Capacity - 1
    BY <2>b, WrapFact
  <2>5. m = [slot |-> S, first |-> l.first, last |-> Wrap(at + n - 1), count |-> l.count + n]
    <3>1. m = [slot |-> [i \in 0 .. Capacity - 1 |->
                           LET k == (i + Capacity - at) % Capacity
                           IN  IF k < n THEN s[k + 1] ELSE l.slot[i]],
               first |-> l.first, last |-> (at + n - 1) % Capacity, count |-> l.count + n]
      BY <1>4, <2>2 DEF ListPut, n
    <3>2. [i \in 0 .. Capacity - 1 |->
             LET k == (i + Capacity - at) % Capacity
             IN  IF k < n THEN s[k + 1] ELSE l.slot[i]] = S
      BY <2>3
    <3>3. QED  BY <3>1, <3>2, <2>4
  <2> HIDE DEF m
  <2>6. S \in [0 .. Capacity - 1 -> Blocks \cup {None}]
    <3>1. ASSUME NEW i \in 0 .. Capacity - 1
          PROVE  S[i] \in Blocks \cup {None}
      <4>1. l.slot[i] \in Blocks \cup {None}  BY <1>1
      <4>2. Wrap(i + Capacity - at) \in 0 .. Capacity - 1  BY <2>3
      <4>3. Wrap(i + Capacity - at) < n => Wrap(i + Capacity - at) + 1 \in 1 .. n
        BY <4>2, <1>1, <1>2
      <4>4. QED  BY <4>1, <4>3, <1>2
    <3>2. QED  BY <3>1
  <2>7. /\ m.first = l.first /\ m.last = Wrap(at + n - 1) /\ m.count = l.count + n
        /\ \A i \in 0 .. Capacity - 1 :
             m.slot[i] = IF Wrap(i + Capacity - at) < n THEN s[Wrap(i + Capacity - at) + 1] ELSE l.slot[i]
    BY <2>5
  <2> HIDE DEF S
  <2>8. m \in Rings
    <3>1. l.first \in 0 .. Capacity - 1 /\ l.count + n \in 0 .. Capacity  BY <1>1, <1>2
    <3>2. QED  BY <3>1, <2>4, <2>5, <2>6 DEF Rings
  <2>9. m.last = Wrap(m.first + m.count - 1)  BY <2>7, <2>b
  <2>10. Sound(m)  BY <2>8, <2>9 DEF Sound
  <2>11. ASSUME NEW i \in 1 .. l.count + n
         PROVE  Entries(m)[i] = IF i <= l.count THEN Entries(l)[i] ELSE s[i - l.count]
    <3> DEFINE j == Wrap(l.first + i - 1)
    <3>1. j \in 0 .. Capacity - 1 /\ Entries(m)[i] = m.slot[j]
      BY <2>7, <2>10, EntriesFact
    <3>2. m.slot[j] = IF Wrap(j + Capacity - at) < n THEN s[Wrap(j + Capacity - at) + 1] ELSE l.slot[j]
      BY <3>1, <2>7
    <3>3. CASE i <= l.count
      <4>2. i \in 1 .. l.count  BY <3>3, <1>1
      <4>1. ~(Wrap(j + Capacity - at) < n)  BY <2>c, <4>2
      <4>3. Entries(l)[i] = l.slot[j]  BY <4>2, EntriesFact
      <4> HIDE DEF j
      <4>4. QED  BY <3>1, <3>2, <3>3, <4>1, <4>3
    <3>4. CASE i > l.count
      <4>1. Wrap(j + Capacity - at) = i - l.count - 1  BY <2>c, <3>4
      <4>2. i - l.count - 1 < n /\ (i - l.count - 1) + 1 = i - l.count  BY <1>1, <1>2
      <4> HIDE DEF j
      <4>3. QED  BY <3>1, <3>2, <3>4, <4>1, <4>2, <1>1
    <3>5. QED  BY <3>3, <3>4, <1>1
  <2>12. QED  BY <2>7, <2>10, <2>11 DEF m, n
<1>5. QED  BY <1>3, <1>4

\* The blocks of a list, each on it once.
ListSet(l) == {Entries(l)[i] : i \in 1 .. l.count}
Once(l)    == \A i, j \in 1 .. l.count : Entries(l)[i] = Entries(l)[j] => i = j

\* The members of a sequence.
Members(s) == {s[i] : i \in 1 .. Len(s)}

\* What is taken off the list is off it.
LEMMA ListTakeSet ==
  ASSUME NEW l, Sound(l), Once(l), NEW n \in Nat, n <= l.count
  PROVE  LET m == ListTake(l, n)
         IN  /\ Sound(m) /\ Once(m) /\ m.count = l.count - n
             /\ ListSet(m) = ListSet(l) \ {Entries(l)[i] : i \in 1 .. n}
<1> DEFINE m == ListTake(l, n)
           E == Entries(l)
           D == Entries(m)
           k == l.count
<1>1. Sound(m) /\ m.count = k - n /\ \A i \in 1 .. k - n : D[i] = E[n + i]
  BY ListTakeFact
<1>2. k \in Nat /\ n <= k  BY RingFields
<1>3. \A i, j \in 1 .. k : E[i] = E[j] => i = j  BY DEF Once
<1> HIDE DEF m, E, D, k
<1>4. ASSUME NEW i \in 1 .. k - n, NEW j \in 1 .. k - n, D[i] = D[j] PROVE i = j
  <2>1. n + i \in 1 .. k /\ n + j \in 1 .. k /\ E[n + i] = E[n + j]  BY <1>1, <1>2, <1>4
  <2>2. n + i = n + j  BY <1>3, <2>1
  <2>3. QED  BY <2>2, <1>2
<1>5. ASSUME NEW b
      PROVE  (\E i \in 1 .. k - n : b = D[i]) <=>
               (\E i \in 1 .. k : b = E[i]) /\ ~(\E i \in 1 .. n : b = E[i])
  <2>1. ASSUME NEW i \in 1 .. k - n, b = D[i]
        PROVE  (\E j \in 1 .. k : b = E[j]) /\ ~(\E j \in 1 .. n : b = E[j])
    <3>1. n + i \in 1 .. k /\ b = E[n + i]  BY <1>1, <1>2, <2>1
    <3>2. ASSUME NEW j \in 1 .. n, b = E[j] PROVE FALSE
      <4>1. j \in 1 .. k  BY <1>2
      <4>2. j = n + i  BY <1>3, <3>1, <3>2, <4>1
      <4>3. QED  BY <4>2, <1>2
    <3>3. QED  BY <3>1, <3>2
  <2>2. ASSUME NEW j \in 1 .. k, b = E[j], ~(\E i \in 1 .. n : b = E[i])
        PROVE  \E i \in 1 .. k - n : b = D[i]
    <3>1. ~(j \in 1 .. n)  BY <2>2
    <3>2. j - n \in 1 .. k - n /\ n + (j - n) = j  BY <3>1, <1>2
    <3>3. QED  BY <1>1, <2>2, <3>2
  <2>3. QED  BY <2>1, <2>2
<1>6. Once(m)  BY <1>1, <1>4 DEF Once, D
<1>7. ListSet(m) = ListSet(l) \ {Entries(l)[i] : i \in 1 .. n}
  BY <1>1, <1>5 DEF ListSet, D, E, k
<1>8. QED  BY <1>1, <1>6, <1>7 DEF m, k

\* What is put on it is on it.
LEMMA ListPutSet ==
  ASSUME NEW l, Sound(l), Once(l), NEW s \in Seq(Blocks), l.count + Len(s) <= Capacity,
         Distinct(s), Members(s) \cap ListSet(l) = {}
  PROVE  LET m == ListPut(l, s)
         IN  /\ Sound(m) /\ Once(m) /\ m.count = l.count + Len(s)
             /\ ListSet(m) = ListSet(l) \cup Members(s)
<1> DEFINE m == ListPut(l, s)
           E == Entries(l)
           D == Entries(m)
           k == l.count
           n == Len(s)
<1>1. /\ Sound(m) /\ m.count = k + n
      /\ \A i \in 1 .. k + n : D[i] = IF i <= k THEN E[i] ELSE s[i - k]
  BY ListPutFact
<1>2. k \in Nat /\ n \in Nat  BY RingFields, LenProperties
<1>3. \A i, j \in 1 .. k : E[i] = E[j] => i = j  BY DEF Once
<1>4. \A i, j \in 1 .. n : s[i] = s[j] => i = j  BY DEF Distinct
<1>5. \A i \in 1 .. k : \A j \in 1 .. n : E[i] # s[j]  BY DEF ListSet, Members
<1> HIDE DEF m, E, D, k, n
<1>6. ASSUME NEW i \in 1 .. k + n, NEW j \in 1 .. k + n, D[i] = D[j] PROVE i = j
  <2>1. CASE i <= k /\ j <= k
    <3>1. i \in 1 .. k /\ j \in 1 .. k  BY <2>1, <1>2
    <3>2. QED  BY <1>1, <1>3, <1>6, <2>1, <3>1
  <2>2. CASE i > k /\ j > k
    <3>1. i - k \in 1 .. n /\ j - k \in 1 .. n  BY <2>2, <1>2
    <3>2. ~(i <= k) /\ ~(j <= k)  BY <2>2, <1>2
    <3>3. s[i - k] = s[j - k]  BY <1>1, <1>6, <3>2
    <3>4. i - k = j - k  BY <1>4, <3>1, <3>3
    <3>5. QED  BY <3>4, <1>2
  <2>3. CASE i <= k /\ j > k
    <3>1. i \in 1 .. k /\ j - k \in 1 .. n /\ ~(j <= k)  BY <2>3, <1>2
    <3>2. QED  BY <1>1, <1>5, <1>6, <2>3, <3>1
  <2>4. CASE i > k /\ j <= k
    <3>1. j \in 1 .. k /\ i - k \in 1 .. n /\ ~(i <= k)  BY <2>4, <1>2
    <3>2. QED  BY <1>1, <1>5, <1>6, <2>4, <3>1
  <2>5. QED  BY <2>1, <2>2, <2>3, <2>4, <1>2
<1>7. ASSUME NEW b
      PROVE  (\E i \in 1 .. k + n : b = D[i]) <=>
               (\E i \in 1 .. k : b = E[i]) \/ (\E i \in 1 .. n : b = s[i])
  <2>1. ASSUME NEW i \in 1 .. k + n, b = D[i]
        PROVE  (\E j \in 1 .. k : b = E[j]) \/ (\E j \in 1 .. n : b = s[j])
    <3>1. CASE i <= k
      <4>1. i \in 1 .. k  BY <3>1, <1>2
      <4>2. QED  BY <4>1, <3>1, <2>1, <1>1
    <3>2. CASE ~(i <= k)
      <4>1. i - k \in 1 .. n  BY <3>2, <1>2
      <4>2. QED  BY <4>1, <3>2, <2>1, <1>1
    <3>3. QED  BY <3>1, <3>2
  <2>2. ASSUME NEW j \in 1 .. k, b = E[j] PROVE \E i \in 1 .. k + n : b = D[i]
    <3>1. j \in 1 .. k + n /\ j <= k  BY <1>2
    <3>2. QED  BY <3>1, <2>2, <1>1
  <2>3. ASSUME NEW j \in 1 .. n, b = s[j] PROVE \E i \in 1 .. k + n : b = D[i]
    <3>1. k + j \in 1 .. k + n /\ ~(k + j <= k) /\ (k + j) - k = j  BY <1>2
    <3>2. QED  BY <3>1, <2>3, <1>1
  <2>4. QED  BY <2>1, <2>2, <2>3
<1>8. Once(m)  BY <1>1, <1>6 DEF Once, D
<1>9. ListSet(m) = ListSet(l) \cup Members(s)
  <2>1. ListSet(m) = {D[i] : i \in 1 .. k + n}  BY <1>1 DEF ListSet, D
  <2>2. ListSet(l) = {E[i] : i \in 1 .. k}  BY DEF ListSet, E, k
  <2>3. Members(s) = {s[i] : i \in 1 .. n}  BY DEF Members, n
  <2>4. \A b : b \in ListSet(m) <=> b \in ListSet(l) \/ b \in Members(s)
    BY <2>1, <2>2, <2>3, <1>7, Zenon
  <2>5. QED  BY <2>4
<1>10. QED  BY <1>1, <1>8, <1>9 DEF m, k, n

\* The entries are a sequence of blocks, distinct ones if each is on it once.
LEMMA EntriesSeq ==
  ASSUME NEW l, Sound(l), ListSet(l) \subseteq Blocks
  PROVE  /\ Entries(l) \in Seq(Blocks) /\ Len(Entries(l)) = l.count
         /\ Members(Entries(l)) = ListSet(l)
         /\ Once(l) <=> Distinct(Entries(l))
<1>1. l.count \in Nat /\ DOMAIN Entries(l) = 1 .. l.count  BY RingFields, EntriesFact
<1>2. Entries(l) \in [1 .. l.count -> Blocks]
  <2>1. \A i \in 1 .. l.count : Entries(l)[i] \in Blocks  BY DEF ListSet
  <2>2. Entries(l) = [i \in 1 .. l.count |-> Entries(l)[i]]  BY DEF Entries
  <2> DEFINE E == Entries(l)
  <2> HIDE DEF E
  <2>3. QED  BY <2>1, <2>2 DEF E
<1>3. Entries(l) \in Seq(Blocks)  BY <1>1, <1>2, SeqDef
<1>4. Len(Entries(l)) = l.count
  <2> DEFINE E == Entries(l)
  <2>1. Len(E) \in Nat /\ DOMAIN E = 1 .. Len(E)  BY <1>3, LenProperties
  <2> HIDE DEF E
  <2>2. 1 .. Len(E) = 1 .. l.count  BY <2>1, <1>1 DEF E
  <2>3. QED  BY <2>1, <2>2, <1>1 DEF E
<1>5. QED  BY <1>3, <1>4 DEF Members, ListSet, Once, Distinct

-----------------------------------------------------------------------------
(* The blocks of a set in order *)

-----------------------------------------------------------------------------
(* The uses of blocks *)

Uses == Trees \cup {"free", "list", "files"}

UsesOf(g, m) ==
  [u \in Uses |-> IF u \in Trees THEN InTree(g, u)
                  ELSE IF u = "free" THEN g.free
                  ELSE IF u = "list" THEN Listed(g) ELSE Mapped(m)]

\* Every block has one.
Parted(U) ==
  /\ \A u, v \in Uses : u # v => U[u] \cap U[v] = {}
  /\ UNION {U[u] : u \in Uses} = Blocks

\* Blocks go from one use to another.
Moves(U, V, X, a, b) ==
  /\ a \in Uses /\ b \in Uses /\ a # b /\ X \subseteq U[a]
  /\ \A u \in Uses : V[u] = IF u = a THEN U[u] \ X ELSE IF u = b THEN U[u] \cup X ELSE U[u]

\* Blocks that change their use have one.
LEMMA MovePart ==
  ASSUME NEW U, NEW V, NEW X, NEW a, NEW b, Parted(U), Moves(U, V, X, a, b)
  PROVE  Parted(V)
<1>1. a \in Uses /\ b \in Uses /\ a # b /\ X \subseteq U[a]  BY DEF Moves
<1>2. \A u \in Uses : V[u] = IF u = a THEN U[u] \ X ELSE IF u = b THEN U[u] \cup X ELSE U[u]
  BY DEF Moves
<1>3. \A u, v \in Uses : u # v => U[u] \cap U[v] = {}  BY DEF Parted
<1>4. \A c : c \in Blocks <=> \E u \in Uses : c \in U[u]  BY DEF Parted
<1>5. \A u, v \in Uses : u # v => V[u] \cap V[v] = {}
  <2>1. SUFFICES ASSUME NEW u \in Uses, NEW v \in Uses, u # v, NEW c, c \in V[u], c \in V[v]
                PROVE  FALSE
    OBVIOUS
  <2>2. c \in X => (c \notin V[a] /\ \A w \in Uses : w # b => c \notin V[w])  BY <1>1, <1>2, <1>3
  <2>3. c \notin X => c \in U[u] /\ c \in U[v]  BY <1>2, <2>1
  <2>4. QED  BY <1>3, <2>1, <2>2, <2>3
<1>6. ASSUME NEW c PROVE c \in Blocks <=> \E u \in Uses : c \in V[u]
  <2>1. (\E u \in Uses : c \in U[u]) => \E u \in Uses : c \in V[u]  BY <1>1, <1>2
  <2>2. (\E u \in Uses : c \in V[u]) => \E u \in Uses : c \in U[u]  BY <1>1, <1>2
  <2>3. QED  BY <1>4, <2>1, <2>2
<1>7. UNION {V[u] : u \in Uses} = Blocks  BY <1>6
<1>8. QED  BY <1>5, <1>7 DEF Parted

\* A use's blocks.
LEMMA UsesAt ==
  ASSUME NEW g, NEW m
  PROVE  /\ UsesOf(g, m)["free"] = g.free
         /\ UsesOf(g, m)["list"] = ListSet(g.list)
         /\ UsesOf(g, m)["files"] = Mapped(m)
         /\ \A t \in Trees : UsesOf(g, m)[t] = Members(g.trees[t])
BY DEF UsesOf, Uses, Trees, ListSet, Listed, InTree, Members

\* What a group is in memory.
Owner    == Forks \cup {"ag", "refc"}
Mapping  == [block : Blocks, owner : Owner, unwritten : BOOLEAN]
Fails    == {"no", "no space to refill", "free list empty", "free list full"}
Groups   == [free : SUBSET Blocks, list : Rings, trees : [Trees -> Seq(Blocks)],
             rmap : SUBSET Mapping, refs : [Blocks -> Nat], fail : Fails]

\* The trees and the list in order, and every block with one use.
Good(g, m) ==
  /\ Parted(UsesOf(g, m))
  /\ Sound(g.list) /\ Once(g.list)
  /\ \A t \in Trees : /\ g.trees[t] \in Seq(Blocks) /\ Distinct(g.trees[t])
                      /\ t \notin Present => g.trees[t] = <<>>
  /\ IsFiniteSet(g.rmap)

\* The uses are blocks, and apart.
LEMMA GoodUses ==
  ASSUME NEW g, NEW m, Good(g, m)
  PROVE  /\ g.free \subseteq Blocks /\ ListSet(g.list) \subseteq Blocks /\ Mapped(m) \subseteq Blocks
         /\ g.free \cap ListSet(g.list) = {} /\ g.free \cap Mapped(m) = {}
         /\ ListSet(g.list) \cap Mapped(m) = {}
         /\ \A t \in Trees : /\ Members(g.trees[t]) \subseteq Blocks
                             /\ Members(g.trees[t]) \cap g.free = {}
                             /\ Members(g.trees[t]) \cap ListSet(g.list) = {}
                             /\ Members(g.trees[t]) \cap Mapped(m) = {}
<1> DEFINE U == UsesOf(g, m)
<1>1. \A u, v \in Uses : u # v => U[u] \cap U[v] = {}  BY DEF Good, Parted
<1>2. \A u \in Uses : U[u] \subseteq Blocks  BY DEF Good, Parted
<1>3. /\ U["free"] = g.free /\ U["list"] = ListSet(g.list) /\ U["files"] = Mapped(m)
      /\ \A t \in Trees : U[t] = Members(g.trees[t])
  BY UsesAt
<1> HIDE DEF U
<1>4. /\ {"free", "list", "files"} \subseteq Uses /\ Trees \subseteq Uses
      /\ \A t \in Trees : t # "free" /\ t # "list" /\ t # "files"
  BY DEF Uses, Trees
<1>5. QED  BY <1>1, <1>2, <1>3, <1>4

\* What a trade leaves alone.
LEMMA RelayFields ==
  ASSUME NEW g \in Groups, NEW t \in Trees, NEW s \in Seq(Blocks), NEW l \in Rings
  PROVE  LET h == Traded(g, t, s, l)
         IN  /\ h \in Groups
             /\ h.list = l
             /\ \A u \in Trees : h.trees[u] = IF u = t THEN s ELSE g.trees[u]
             /\ h.free = g.free /\ h.rmap = g.rmap /\ h.refs = g.refs /\ h.fail = g.fail
<1>1. g.trees \in [Trees -> Seq(Blocks)]  BY DEF Groups
<1> DEFINE T == [g.trees EXCEPT ![t] = s]
           h == Traded(g, t, s, l)
<1>2. T \in [Trees -> Seq(Blocks)]  BY <1>1
<1>3. h = [g EXCEPT !.trees = T, !.list = l]  BY DEF Groups, Traded
<1>5. \A u \in Trees : T[u] = IF u = t THEN s ELSE g.trees[u]  BY <1>1
<1> HIDE DEF T, h
<1>4. /\ h \in Groups /\ h.list = l /\ h.trees = T
      /\ h.free = g.free /\ h.rmap = g.rmap /\ h.refs = g.refs /\ h.fail = g.fail
  BY <1>2, <1>3 DEF Groups
<1>6. \A u \in Trees : h.trees[u] = IF u = t THEN s ELSE g.trees[u]  BY <1>4, <1>5
<1>7. QED  BY <1>4, <1>6 DEF h

\* That of a refusal.
LEMMA FailFields ==
  ASSUME NEW g \in Groups, NEW f \in Fails
  PROVE  LET h == Refused(g, f)
         IN  /\ h \in Groups /\ h.fail = f
             /\ h.free = g.free /\ h.list = g.list /\ h.rmap = g.rmap
             /\ h.trees = g.trees /\ h.refs = g.refs
BY DEF Groups, Refused

\* What keeps a group good: its parts do.
LEMMA GoodKept ==
  ASSUME NEW g, NEW h, NEW m, NEW n, NEW X, NEW a, NEW b, Good(g, m),
         Moves(UsesOf(g, m), UsesOf(h, n), X, a, b),
         Sound(h.list), Once(h.list), IsFiniteSet(h.rmap),
         \A t \in Trees : /\ h.trees[t] \in Seq(Blocks) /\ Distinct(h.trees[t])
                          /\ t \notin Present => h.trees[t] = <<>>
  PROVE  Good(h, n)
<1>1. Parted(UsesOf(h, n))  BY MovePart DEF Good
<1>2. QED  BY <1>1 DEF Good

\* Reverse mappings of blocks.
LEMMA MappingsType ==
  ASSUME NEW S \in SUBSET Blocks, NEW o \in Owner, NEW flag \in BOOLEAN, IsFiniteSet(S)
  PROVE  Mappings(S, o, flag) \in SUBSET Mapping /\ IsFiniteSet(Mappings(S, o, flag))
<1>1. Mappings(S, o, flag) \in SUBSET Mapping  BY DEF Mappings, Owned, Mapping
<1> DEFINE F == [b \in S |-> Owned(b, o, flag)]
<1>2. F \in Surjection(S, Mappings(S, o, flag))  BY DEF Surjection, Mappings
<1> HIDE DEF F
<1>3. QED  BY <1>1, <1>2, FS_Surjection

\* A refill moves blocks of free space to the list, and maps them to the group.
LEMMA RefillFact ==
  ASSUME NEW g \in Groups, NEW m, Good(g, m), disk.levels \in [Trees -> Nat]
  PROVE  LET h == Refill(g)
         IN  /\ h \in Groups /\ Good(h, m) /\ h.refs = g.refs
             /\ \E X \in SUBSET g.free :
                  /\ h.free = g.free \ X
                  /\ h.rmap = IF HasRmap THEN g.rmap \cup Mappings(X, "ag", FALSE) ELSE g.rmap
<1> DEFINE h == Refill(g)
           short == Need(disk.levels) - g.list.count
           moved == SubSeq(InOrder(g.free), 1, short)
           X == {moved[i] : i \in 1 .. Len(moved)}
           l == ListPut(g.list, moved)
           R == IF HasRmap THEN g.rmap \cup Mappings(X, "ag", FALSE) ELSE g.rmap
<1>1. /\ Sound(g.list) /\ Once(g.list) /\ g.list.count \in Nat /\ g.list.count <= Capacity
      /\ Capacity \in Nat
  BY RingFields DEF Good
<1>2. Need(disk.levels) \in Int /\ Need(disk.levels) <= Capacity
  <2>1. disk.levels["bno"] \in Nat /\ disk.levels["cnt"] \in Nat /\ disk.levels["rmap"] \in Nat
    BY DEF Trees
  <2>2. QED  BY <2>1, <1>1 DEF Need
<1>3. short \in Int /\ g.list.count + short <= Capacity  BY <1>1, <1>2
<1>4. g.free \in SUBSET Blocks /\ Cardinality(g.free) \in Nat /\ IsFiniteSet(g.free)
      /\ g.free \in SUBSET Nat
  BY BlocksFinite DEF Groups
<1>5. ASSUME h = g PROVE /\ h \in Groups /\ Good(h, m) /\ h.refs = g.refs
                         /\ h.free = g.free \ {}
                         /\ h.rmap = IF HasRmap THEN g.rmap \cup Mappings({}, "ag", FALSE) ELSE g.rmap
  <2>1. Mappings({}, "ag", FALSE) = {}  BY DEF Mappings
  <2> HIDE DEF h
  <2>2. QED  BY <1>5, <2>1
<1>6. CASE short <= 0
  <2>1. h = g  BY <1>6 DEF Refill
  <2>2. QED  BY <1>5, <2>1
<1>7. CASE short > 0 /\ Cardinality(g.free) < short
  <2>0. ~(short <= 0)  BY <1>3, <1>7
  <2>1. h = Refused(g, "no space to refill")  BY <1>7, <2>0 DEF Refill
  <2> DEFINE e == "no space to refill"
  <2>2. e \in Fails /\ h = Refused(g, e)  BY <2>1 DEF Fails
  <2> HIDE DEF h, e
  <2>3. /\ h \in Groups /\ h.free = g.free /\ h.list = g.list /\ h.rmap = g.rmap
        /\ h.trees = g.trees /\ h.refs = g.refs
    BY <2>2, FailFields
  <2>4. UsesOf(h, m) = UsesOf(g, m)  BY <2>3 DEF UsesOf, InTree, Listed
  <2>5. Good(h, m)  BY <2>3, <2>4 DEF Good
  <2>6. Mappings({}, "ag", FALSE) = {}  BY DEF Mappings
  <2>7. QED  BY <2>3, <2>5, <2>6 DEF h
<1>8. CASE short > 0 /\ short <= Cardinality(g.free)
  <2>1. h = [g EXCEPT !.free = g.free \ X, !.list = l, !.rmap = R]
    <3>1. ~(short <= 0) /\ ~(Cardinality(g.free) < short)  BY <1>3, <1>4, <1>8
    <3>2. QED  BY <3>1 DEF Refill
  <2> HIDE DEF h
  <2>2. /\ \A i \in 1 .. short : InOrder(g.free)[i] \in g.free
        /\ \A i, j \in 1 .. short : InOrder(g.free)[i] = InOrder(g.free)[j] => i = j
    <3>1. 1 .. short \subseteq 1 .. Cardinality(g.free)  BY <1>3, <1>4, <1>8
    <3>2. QED  BY <3>1, <1>4, InOrderFact
  <2>3. /\ moved \in Seq(g.free) /\ Len(moved) = short
        /\ \A i \in 1 .. short : moved[i] = InOrder(g.free)[i]
    <3> DEFINE s == InOrder(g.free)
    <3>1. short \in Nat  BY <1>3, <1>8
    <3>2. moved = SubSeq(s, 1, short) /\ \A i \in 1 .. short : s[i] \in g.free  BY <2>2
    <3> DEFINE S == g.free
               n == short
    <3>3. n \in Nat /\ \A i \in 1 .. n : s[i] \in S  BY <3>1, <3>2
    <3> HIDE DEF s, moved, S, n
    <3>4. /\ SubSeq(s, 1, n) \in Seq(S) /\ Len(SubSeq(s, 1, n)) = n
          /\ \A i \in 1 .. n : SubSeq(s, 1, n)[i] = s[i]
      BY <3>3, PrefixFact
    <3>5. moved = SubSeq(s, 1, n)  BY <3>2 DEF n
    <3> HIDE DEF short
    <3>6. QED  BY <3>4, <3>5 DEF s, S, n
  <2> HIDE DEF short, moved
  <2>4. moved \in Seq(Blocks)  BY <2>3, <1>4, SeqMonotonic
  <2>5. Distinct(moved) /\ X \subseteq g.free  BY <2>2, <2>3 DEF Distinct
  <2>6. X = Members(moved)  BY DEF Members
  <2> HIDE DEF X
  <2>7. X \cap ListSet(g.list) = {}  BY <2>5, GoodUses
  <2>8. /\ Sound(l) /\ Once(l) /\ ListSet(l) = ListSet(g.list) \cup X
    BY <1>1, <1>3, <2>3, <2>4, <2>5, <2>6, <2>7, ListPutSet
  <2> HIDE DEF l
  <2>9. R \in SUBSET Mapping /\ IsFiniteSet(R)
    <3>1. X \in SUBSET Blocks /\ IsFiniteSet(X)  BY <2>5, <1>4, BlocksFinite
    <3>2. "ag" \in Owner /\ FALSE \in BOOLEAN  BY DEF Owner
    <3>3. Mappings(X, "ag", FALSE) \in SUBSET Mapping /\ IsFiniteSet(Mappings(X, "ag", FALSE))
      BY <3>1, <3>2, MappingsType
    <3>4. g.rmap \in SUBSET Mapping /\ IsFiniteSet(g.rmap)  BY DEF Groups, Good
    <3>5. IsFiniteSet(g.rmap \cup Mappings(X, "ag", FALSE))  BY <3>3, <3>4, FS_Union
    <3>6. QED  BY <3>3, <3>4, <3>5
  <2> HIDE DEF R
  <2>10. /\ h \in Groups
         /\ h.free = g.free \ X /\ h.list = l /\ h.rmap = R
         /\ h.trees = g.trees /\ h.refs = g.refs
    <3> DEFINE f == g.free \ X
    <3>1. f \in SUBSET Blocks /\ l \in Rings  BY <1>4, <2>8 DEF Sound
    <3>2. h = [g EXCEPT !.free = f, !.list = l, !.rmap = R]  BY <2>1
    <3> HIDE DEF f
    <3>3. /\ h \in Groups
          /\ h.free = f /\ h.list = l /\ h.rmap = R
          /\ h.trees = g.trees /\ h.refs = g.refs
      BY <2>9, <3>1, <3>2 DEF Groups
    <3>4. QED  BY <3>3 DEF f
  <2>11. Moves(UsesOf(g, m), UsesOf(h, m), X, "free", "list")
    <3>1. "free" \in Uses /\ "list" \in Uses  BY DEF Uses
    <3>2. \A u \in Uses : u \in Trees \/ u = "free" \/ u = "list" \/ u = "files"  BY DEF Uses
    <3>3. UsesOf(h, m)["free"] = UsesOf(g, m)["free"] \ X  BY <2>10, UsesAt
    <3>4. UsesOf(h, m)["list"] = UsesOf(g, m)["list"] \cup X  BY <2>8, <2>10, UsesAt
    <3>5. \A t \in Trees : UsesOf(h, m)[t] = UsesOf(g, m)[t] /\ t # "free" /\ t # "list"
      BY <2>10, UsesAt DEF Trees
    <3>6. UsesOf(h, m)["files"] = UsesOf(g, m)["files"]  BY UsesAt
    <3>7. X \subseteq UsesOf(g, m)["free"]  BY <2>5, UsesAt
    <3>8. QED  BY <3>1, <3>2, <3>3, <3>4, <3>5, <3>6, <3>7 DEF Moves
  <2>12. Good(h, m)  BY <2>8, <2>9, <2>10, <2>11, GoodKept DEF Good
  <2>13. QED  BY <2>5, <2>10, <2>12 DEF h, R
<1>9. short <= 0 \/ (short > 0 /\ Cardinality(g.free) < short)
        \/ (short > 0 /\ short <= Cardinality(g.free))
  <2> HIDE DEF short
  <2>1. QED  BY <1>3, <1>4
<1>10. QED  BY <1>6, <1>7, <1>8, <1>9

\* How much a tree takes is a number.
LEMMA LayoutFact ==
  ASSUME NEW g, NEW m, Good(g, m), NEW t \in Trees
  PROVE  Layout(g, t) \in Plans
<1>1. LeafRecords[t] \in Nat \ {0}  BY GroupAssumption
<1>2. Records(g, t) \in Nat
  <2>1. g.free \in SUBSET Blocks /\ IsFiniteSet(g.rmap)  BY GoodUses DEF Good
  <2>2. RunStarts(g.free) \in SUBSET Blocks  BY <2>1 DEF RunStarts
  <2>3. CASE t \in {"bno", "cnt"}
    <3>1. Records(g, t) = Cardinality(RunStarts(g.free))  BY <2>3 DEF Records
    <3>2. QED  BY <3>1, <2>2, BlocksFinite
  <2>4. CASE t = "rmap"
    <3> DEFINE S == {x \in g.rmap : [x EXCEPT !.block = @ - 1] \notin g.rmap}
    <3>1. Records(g, t) = 1 + Cardinality(S)  BY <2>4 DEF Records
    <3>2. S \in SUBSET g.rmap  OBVIOUS
    <3> HIDE DEF S
    <3>3. Cardinality(S) \in Nat  BY <2>1, <3>2, FS_Subset, FS_CardinalityType
    <3>4. QED  BY <3>1, <3>3
  <2>5. CASE t = "refc"
    <3> DEFINE S == {b \in Blocks : /\ g.refs[b] # 0
                                    /\ b - 1 \in Blocks => g.refs[b - 1] # g.refs[b]}
    <3>1. Records(g, t) = Cardinality(S)  BY <2>5 DEF Records
    <3>2. S \in SUBSET Blocks  OBVIOUS
    <3> HIDE DEF S
    <3>3. QED  BY <3>1, <3>2, BlocksFinite
  <2>6. QED  BY <2>3, <2>4, <2>5 DEF Trees
<1>3. QED  BY <1>1, <1>2, LayoutType DEF Layout

\* Blocks that go from the list to the end of a tree.
LEMMA GrownFact ==
  ASSUME NEW held \in Seq(Blocks), Distinct(held), NEW l, Sound(l), Once(l),
         ListSet(l) \subseteq Blocks, Members(held) \cap ListSet(l) = {},
         NEW n \in Nat, n <= l.count
  PROVE  LET grown == held \o SubSeq(Entries(l), 1, n)
             X     == {Entries(l)[i] : i \in 1 .. n}
         IN  /\ grown \in Seq(Blocks) /\ Distinct(grown)
             /\ Members(grown) = Members(held) \cup X /\ X \subseteq ListSet(l)
             /\ Len(grown) = Len(held) + n
<1> DEFINE s == SubSeq(Entries(l), 1, n)
           grown == held \o s
           k == Len(held)
           X == {Entries(l)[i] : i \in 1 .. n}
<1>1. \A i \in 1 .. n : i \in 1 .. l.count /\ Entries(l)[i] \in ListSet(l)
  <2>1. l.count \in Nat  BY RingFields
  <2>2. QED  BY <2>1 DEF ListSet
<1>2. /\ s \in Seq(Blocks) /\ Len(s) = n /\ \A i \in 1 .. n : s[i] = Entries(l)[i]
  <2> DEFINE E == Entries(l)
  <2>1. \A i \in 1 .. n : E[i] \in Blocks  BY <1>1
  <2> HIDE DEF E
  <2>2. QED  BY <2>1, PrefixFact DEF E
<1>3. k \in Nat /\ X \subseteq ListSet(l)  BY <1>1, LenProperties
<1> HIDE DEF s
<1>4. /\ grown \in Seq(Blocks) /\ Len(grown) = k + n
      /\ \A i \in 1 .. k + n : grown[i] = IF i <= k THEN held[i] ELSE s[i - k]
  BY <1>2, ConcatProperties, ZenonT(60)
<1>5. \A i, j \in 1 .. k : held[i] = held[j] => i = j  BY DEF Distinct
<1>6. \A i, j \in 1 .. n : s[i] = s[j] => i = j  BY <1>1, <1>2 DEF Once
<1>7. \A i \in 1 .. k : \A j \in 1 .. n : held[i] # s[j]  BY <1>1, <1>2 DEF Members
<1>8. X = {s[i] : i \in 1 .. n} /\ Members(held) = {held[i] : i \in 1 .. k}
  BY <1>2 DEF Members
<1> HIDE DEF grown, k, X
<1>9. ASSUME NEW i \in 1 .. k + n, NEW j \in 1 .. k + n, grown[i] = grown[j] PROVE i = j
  <2>1. CASE i <= k /\ j <= k
    <3>1. i \in 1 .. k /\ j \in 1 .. k  BY <2>1, <1>3
    <3>2. QED  BY <1>4, <1>5, <1>9, <2>1, <3>1
  <2>2. CASE i > k /\ j > k
    <3>1. i - k \in 1 .. n /\ j - k \in 1 .. n  BY <2>2, <1>3
    <3>2. ~(i <= k) /\ ~(j <= k)  BY <2>2, <1>3
    <3>3. s[i - k] = s[j - k]  BY <1>4, <1>9, <3>2
    <3>4. i - k = j - k  BY <1>6, <3>1, <3>3
    <3>5. QED  BY <3>4, <1>3
  <2>3. CASE i <= k /\ j > k
    <3>1. i \in 1 .. k /\ j - k \in 1 .. n /\ ~(j <= k)  BY <2>3, <1>3
    <3>2. QED  BY <1>4, <1>7, <1>9, <2>3, <3>1
  <2>4. CASE i > k /\ j <= k
    <3>1. j \in 1 .. k /\ i - k \in 1 .. n /\ ~(i <= k)  BY <2>4, <1>3
    <3>2. QED  BY <1>4, <1>7, <1>9, <2>4, <3>1
  <2>5. QED  BY <2>1, <2>2, <2>3, <2>4, <1>3
<1>10. Distinct(grown)  BY <1>4, <1>9 DEF Distinct
<1>11. ASSUME NEW b
       PROVE  (\E i \in 1 .. k + n : b = grown[i]) <=>
                (\E i \in 1 .. k : b = held[i]) \/ (\E i \in 1 .. n : b = s[i])
  <2>1. ASSUME NEW i \in 1 .. k + n, b = grown[i]
        PROVE  (\E j \in 1 .. k : b = held[j]) \/ (\E j \in 1 .. n : b = s[j])
    <3>1. CASE i <= k
      <4>1. i \in 1 .. k  BY <3>1, <1>3
      <4>2. QED  BY <4>1, <3>1, <2>1, <1>4
    <3>2. CASE ~(i <= k)
      <4>1. i - k \in 1 .. n  BY <3>2, <1>3
      <4>2. QED  BY <4>1, <3>2, <2>1, <1>4
    <3>3. QED  BY <3>1, <3>2
  <2>2. ASSUME NEW j \in 1 .. k, b = held[j] PROVE \E i \in 1 .. k + n : b = grown[i]
    <3>1. j \in 1 .. k + n /\ j <= k  BY <1>3
    <3>2. QED  BY <3>1, <2>2, <1>4
  <2>3. ASSUME NEW j \in 1 .. n, b = s[j] PROVE \E i \in 1 .. k + n : b = grown[i]
    <3>1. k + j \in 1 .. k + n /\ ~(k + j <= k) /\ (k + j) - k = j  BY <1>3
    <3>2. QED  BY <3>1, <2>3, <1>4
  <2>4. QED  BY <2>1, <2>2, <2>3
<1>12. Members(grown) = Members(held) \cup X
  <2>1. Members(grown) = {grown[i] : i \in 1 .. k + n}  BY <1>4 DEF Members
  <2>2. \A b : b \in Members(grown) <=> b \in Members(held) \/ b \in X
    BY <2>1, <1>8, <1>11, Zenon
  <2>3. QED  BY <2>2
<1>13. QED  BY <1>3, <1>4, <1>10, <1>12 DEF grown, s, k, X

\* Blocks that go from the end of a tree to the list, the last first.
LEMMA SpareFact ==
  ASSUME NEW held \in Seq(Blocks), Distinct(held), NEW n \in Nat, n <= Len(held)
  PROVE  LET spare == [i \in 1 .. n |-> held[Len(held) + 1 - i]]
             keep  == SubSeq(held, 1, Len(held) - n)
         IN  /\ spare \in Seq(Blocks) /\ Len(spare) = n /\ Distinct(spare)
             /\ keep \in Seq(Blocks) /\ Distinct(keep)
             /\ Members(spare) \subseteq Members(held)
             /\ Members(keep) = Members(held) \ Members(spare)
<1> DEFINE k == Len(held)
           want == k - n
           spare == [i \in 1 .. n |-> held[k + 1 - i]]
           keep == SubSeq(held, 1, want)
<1>1. k \in Nat /\ \A i \in 1 .. k : held[i] \in Blocks  BY LenProperties
<1>2. n \in Nat /\ want \in Nat /\ n + want = k  BY <1>1
<1>3. \A i, j \in 1 .. k : held[i] = held[j] => i = j  BY DEF Distinct
<1>4. Members(held) = {held[i] : i \in 1 .. k}  BY DEF Members
<1> HIDE DEF k, want
<1>5. \A i \in 1 .. n : spare[i] = held[k + 1 - i] /\ k + 1 - i \in 1 .. k /\ ~(k + 1 - i <= want)
  BY <1>1, <1>2
<1>6. spare \in [1 .. n -> Blocks]  BY <1>1, <1>5
<1>7. spare \in Seq(Blocks)  BY <1>2, <1>6, SeqDef
<1>8. Len(spare) = n
  <2>1. Len(spare) \in Nat /\ DOMAIN spare = 1 .. Len(spare)  BY <1>7, LenProperties
  <2>2. DOMAIN spare = 1 .. n  OBVIOUS
  <2> HIDE DEF spare
  <2>3. 1 .. Len(spare) = 1 .. n  BY <2>1, <2>2
  <2> DEFINE c == Len(spare)
  <2>4. c \in Nat /\ n \in Nat /\ 1 .. c = 1 .. n  BY <2>1, <2>3, <1>2
  <2> HIDE DEF c
  <2>5. c = n  BY <2>4
  <2>6. QED  BY <2>5 DEF c
<1>9. /\ keep \in Seq(Blocks) /\ Len(keep) = want /\ \A i \in 1 .. want : keep[i] = held[i]
  <2>1. \A i \in 1 .. want : held[i] \in Blocks
    <3>1. \A i \in 1 .. want : i \in 1 .. k  BY <1>1, <1>2
    <3>2. QED  BY <3>1, <1>1
  <2>2. QED  BY <2>1, <1>2, PrefixFact
<1> HIDE DEF spare, keep
<1>10. Distinct(spare)
  <2>1. ASSUME NEW i \in 1 .. n, NEW j \in 1 .. n, spare[i] = spare[j] PROVE i = j
    <3>1. k + 1 - i = k + 1 - j  BY <1>3, <1>5, <2>1
    <3>2. QED  BY <3>1, <1>1, <1>2
  <2>2. QED  BY <2>1, <1>8 DEF Distinct
<1>11. \A i \in 1 .. want : i \in 1 .. k  BY <1>1, <1>2
<1>12. Distinct(keep)  BY <1>3, <1>9, <1>11 DEF Distinct
<1>13. Members(spare) = {spare[i] : i \in 1 .. n} /\ Members(keep) = {keep[i] : i \in 1 .. want}
  BY <1>8, <1>9 DEF Members
<1>14. Members(spare) \subseteq Members(held)  BY <1>4, <1>5, <1>13
<1>15. ASSUME NEW b
       PROVE  (\E i \in 1 .. want : b = keep[i]) <=>
                (\E i \in 1 .. k : b = held[i]) /\ ~(\E i \in 1 .. n : b = spare[i])
  <2>1. ASSUME NEW i \in 1 .. want, b = keep[i]
        PROVE  (\E j \in 1 .. k : b = held[j]) /\ ~(\E j \in 1 .. n : b = spare[j])
    <3>1. i \in 1 .. k /\ b = held[i]  BY <1>9, <1>11, <2>1
    <3>2. ASSUME NEW j \in 1 .. n, b = spare[j] PROVE FALSE
      <4>1. i = k + 1 - j  BY <1>3, <1>5, <3>1, <3>2
      <4>2. QED  BY <4>1, <1>5, <1>2
    <3>3. QED  BY <3>1, <3>2
  <2>2. ASSUME NEW i \in 1 .. k, b = held[i], ~(\E j \in 1 .. n : b = spare[j])
        PROVE  \E j \in 1 .. want : b = keep[j]
    <3>1. CASE i <= want
      <4>1. i \in 1 .. want  BY <3>1, <1>2
      <4>2. QED  BY <4>1, <1>9, <2>2
    <3>2. CASE i > want
      <4>1. k + 1 - i \in 1 .. n /\ k + 1 - (k + 1 - i) = i  BY <3>2, <1>1, <1>2
      <4>2. QED  BY <4>1, <1>5, <2>2
    <3>3. QED  BY <3>1, <3>2, <1>1, <1>2
  <2>3. QED  BY <2>1, <2>2
<1>16. \A b : b \in Members(keep) <=> b \in Members(held) /\ b \notin Members(spare)
  <2>1. \A b : b \in Members(keep) <=> \E i \in 1 .. want : b = keep[i]  BY <1>13, Zenon
  <2>2. \A b : b \in Members(held) <=> \E i \in 1 .. k : b = held[i]  BY <1>4, Zenon
  <2>3. \A b : b \in Members(spare) <=> \E i \in 1 .. n : b = spare[i]  BY <1>13, Zenon
  <2>4. QED  BY <2>1, <2>2, <2>3, <1>15, ZenonT(60)
<1>17. Members(keep) = Members(held) \ Members(spare)  BY <1>16
<1>18. QED  BY <1>7, <1>8, <1>9, <1>10, <1>12, <1>14, <1>17 DEF spare, keep, want, k

\* Nothing of a group but its tree and its list.
Relaid(g, h) == h \in Groups /\ h.free = g.free /\ h.rmap = g.rmap /\ h.refs = g.refs

\* A refusal changes nothing else.
LEMMA FailGood ==
  ASSUME NEW g \in Groups, NEW m, Good(g, m), NEW f \in Fails
  PROVE  Good(Refused(g, f), m) /\ Relaid(g, Refused(g, f))
<1> DEFINE h == Refused(g, f)
<1>1. /\ h \in Groups /\ h.free = g.free /\ h.list = g.list /\ h.rmap = g.rmap
      /\ h.trees = g.trees /\ h.refs = g.refs
  BY FailFields
<1> HIDE DEF h
<1>2. UsesOf(h, m) = UsesOf(g, m)  BY <1>1 DEF UsesOf, InTree, Listed
<1>3. Good(h, m)  BY <1>1, <1>2 DEF Good
<1>4. QED  BY <1>1, <1>3 DEF Relaid, h

\* A tree and the list that trade blocks.
LEMMA TradeGood ==
  ASSUME NEW g \in Groups, NEW m, Good(g, m), NEW t \in Trees, t \in Present,
         NEW s \in Seq(Blocks), Distinct(s), NEW l, Sound(l), Once(l), NEW X,
         \/ /\ X \subseteq ListSet(g.list) /\ ListSet(l) = ListSet(g.list) \ X
            /\ Members(s) = Members(g.trees[t]) \cup X
         \/ /\ X \subseteq Members(g.trees[t]) /\ ListSet(l) = ListSet(g.list) \cup X
            /\ Members(s) = Members(g.trees[t]) \ X
  PROVE  LET h == Traded(g, t, s, l)
         IN  Good(h, m) /\ Relaid(g, h)
<1> DEFINE h == Traded(g, t, s, l)
           U == UsesOf(g, m)
           V == UsesOf(h, m)
<1>0. l \in Rings  BY DEF Sound
<1>1. /\ h \in Groups /\ h.list = l
      /\ \A u \in Trees : h.trees[u] = IF u = t THEN s ELSE g.trees[u]
      /\ h.free = g.free /\ h.rmap = g.rmap /\ h.refs = g.refs /\ h.fail = g.fail
  BY <1>0, RelayFields
<1> HIDE DEF h
<1>2. /\ V["free"] = U["free"] /\ V["files"] = U["files"]
      /\ U["list"] = ListSet(g.list) /\ V["list"] = ListSet(l)
      /\ U[t] = Members(g.trees[t]) /\ V[t] = Members(s)
      /\ \A u \in Trees : u # t => V[u] = U[u]
  BY <1>1, UsesAt
<1> HIDE DEF U, V
<1>3. /\ "list" \in Uses /\ t \in Uses /\ t # "list" /\ t # "free" /\ t # "files"
      /\ \A u \in Uses : u \in Trees \/ u = "free" \/ u = "list" \/ u = "files"
      /\ \A u \in Trees : u # "list"
  BY DEF Uses, Trees
<1>4. Moves(U, V, X, "list", t) \/ Moves(U, V, X, t, "list")
  <2>1. CASE /\ X \subseteq ListSet(g.list) /\ ListSet(l) = ListSet(g.list) \ X
             /\ Members(s) = Members(g.trees[t]) \cup X
    <3>1. V["list"] = U["list"] \ X /\ V[t] = U[t] \cup X /\ X \subseteq U["list"]
      BY <1>2, <2>1
    <3>2. QED  BY <3>1, <1>2, <1>3 DEF Moves
  <2>2. CASE /\ X \subseteq Members(g.trees[t]) /\ ListSet(l) = ListSet(g.list) \cup X
             /\ Members(s) = Members(g.trees[t]) \ X
    <3>1. V["list"] = U["list"] \cup X /\ V[t] = U[t] \ X /\ X \subseteq U[t]
      BY <1>2, <2>2
    <3>2. QED  BY <3>1, <1>2, <1>3 DEF Moves
  <2>3. QED  BY <2>1, <2>2
<1>5. \A u \in Trees : /\ h.trees[u] \in Seq(Blocks) /\ Distinct(h.trees[u])
                       /\ u \notin Present => h.trees[u] = <<>>
  BY <1>1 DEF Good
<1>6. IsFiniteSet(h.rmap)  BY <1>1 DEF Good
<1>7. Good(h, m)  BY <1>1, <1>4, <1>5, <1>6, GoodKept DEF U, V
<1>8. QED  BY <1>1, <1>7 DEF Relaid, h

\* What a good group has of a tree and of the list.
LEMMA GoodParts ==
  ASSUME NEW g \in Groups, NEW m, Good(g, m), NEW t \in Trees
  PROVE  /\ g.trees[t] \in Seq(Blocks) /\ Distinct(g.trees[t]) /\ Len(g.trees[t]) \in Nat
         /\ Sound(g.list) /\ Once(g.list) /\ g.list.count \in Nat
         /\ ListSet(g.list) \subseteq Blocks /\ Members(g.trees[t]) \cap ListSet(g.list) = {}
<1>1. g.trees[t] \in Seq(Blocks) /\ Distinct(g.trees[t])  BY DEF Good
<1>2. Sound(g.list) /\ Once(g.list)  BY DEF Good
<1>3. QED  BY <1>1, <1>2, LenProperties, RingFields, GoodUses

\* A tree grows from the list, or is refused.
LEMMA GrowFact ==
  ASSUME NEW g \in Groups, NEW m, Good(g, m), NEW t \in Trees, t \in Present, NEW n \in Nat
  PROVE  Good(Grow(g, t, n), m) /\ Relaid(g, Grow(g, t, n))
<1> DEFINE held == g.trees[t]
           grown == held \o SubSeq(Entries(g.list), 1, n)
           X == {Entries(g.list)[i] : i \in 1 .. n}
           l == ListTake(g.list, n)
<1>1. /\ held \in Seq(Blocks) /\ Distinct(held)
      /\ Sound(g.list) /\ Once(g.list) /\ g.list.count \in Nat
      /\ ListSet(g.list) \subseteq Blocks /\ Members(held) \cap ListSet(g.list) = {}
  BY GoodParts
<1>2. CASE g.list.count < n
  <2>1. Grow(g, t, n) = Refused(g, "free list empty")  BY <1>2 DEF Grow
  <2>2. "free list empty" \in Fails  BY DEF Fails
  <2>3. QED  BY <2>1, <2>2, FailGood
<1>3. CASE ~(g.list.count < n)
  <2>1. Grow(g, t, n) = Traded(g, t, grown, l)  BY <1>3 DEF Grow
  <2>2. n <= g.list.count  BY <1>1, <1>3
  <2>3. Sound(l) /\ Once(l) /\ ListSet(l) = ListSet(g.list) \ X  BY <1>1, <2>2, ListTakeSet
  <2>4. /\ grown \in Seq(Blocks) /\ Distinct(grown)
        /\ Members(grown) = Members(held) \cup X /\ X \subseteq ListSet(g.list)
    <3> HIDE DEF held
    <3>1. QED  BY <1>1, <2>2, GrownFact
  <2> HIDE DEF grown, l, X
  <2>5. QED  BY <2>1, <2>3, <2>4, TradeGood
<1>4. QED  BY <1>2, <1>3

\* A tree shrinks onto the list, or is refused.
LEMMA ShrinkFact ==
  ASSUME NEW g \in Groups, NEW m, Good(g, m), NEW t \in Trees, t \in Present,
         NEW n \in Nat, n <= Len(g.trees[t])
  PROVE  Good(Shrink(g, t, n), m) /\ Relaid(g, Shrink(g, t, n))
<1> DEFINE held == g.trees[t]
           k == Len(held)
           spare == [i \in 1 .. n |-> held[k + 1 - i]]
           keep == SubSeq(held, 1, k - n)
           l == ListPut(g.list, spare)
<1>1. /\ held \in Seq(Blocks) /\ Distinct(held) /\ k \in Nat
      /\ Sound(g.list) /\ Once(g.list) /\ g.list.count \in Nat
      /\ ListSet(g.list) \subseteq Blocks /\ Members(held) \cap ListSet(g.list) = {}
  BY GoodParts
<1>2. CASE g.list.count + n > Capacity
  <2>1. Shrink(g, t, n) = Refused(g, "free list full")  BY <1>2 DEF Shrink
  <2>2. "free list full" \in Fails  BY DEF Fails
  <2>3. QED  BY <2>1, <2>2, FailGood
<1>3. CASE ~(g.list.count + n > Capacity)
  <2>1. Shrink(g, t, n) = Traded(g, t, keep, l)  BY <1>3 DEF Shrink
  <2>3. /\ spare \in Seq(Blocks) /\ Len(spare) = n /\ Distinct(spare)
        /\ keep \in Seq(Blocks) /\ Distinct(keep)
        /\ Members(spare) \subseteq Members(held)
        /\ Members(keep) = Members(held) \ Members(spare)
    <3>1. n <= Len(held)  OBVIOUS
    <3> HIDE DEF held
    <3>2. QED  BY <1>1, <3>1, SpareFact
  <2>4. g.list.count + Len(spare) <= Capacity
    <3>1. Capacity \in Nat  BY GroupAssumption
    <3> HIDE DEF spare
    <3>2. QED  BY <2>3, <3>1, <1>1, <1>3
  <2>5. Members(spare) \cap ListSet(g.list) = {}  BY <1>1, <2>3
  <2> HIDE DEF spare, keep
  <2>6. Sound(l) /\ Once(l) /\ ListSet(l) = ListSet(g.list) \cup Members(spare)
    BY <1>1, <2>3, <2>4, <2>5, ListPutSet
  <2> HIDE DEF l
  <2>7. QED  BY <2>1, <2>3, <2>6, TradeGood
<1>4. QED  BY <1>2, <1>3

\* A tree laid out again trades blocks with the list, or is refused.
LEMMA RelayFact ==
  ASSUME NEW g \in Groups, NEW m, Good(g, m), NEW t \in Trees
  PROVE  Good(Relay(g, t), m) /\ Relaid(g, Relay(g, t))
<1> DEFINE held == Len(g.trees[t])
           want == Layout(g, t).blocks
<1>1. want \in Nat /\ held \in Nat  BY LayoutFact, GoodParts DEF Plans
<1>2. CASE g.fail # "no" \/ t \notin Present
  <2>1. Relay(g, t) = g  BY <1>2 DEF Relay
  <2>2. QED  BY <2>1 DEF Relaid
<1>3. CASE ~(g.fail # "no" \/ t \notin Present) /\ want > held
  <2>1. Relay(g, t) = Grow(g, t, want - held)  BY <1>3 DEF Relay
  <2>2. want - held \in Nat /\ t \in Present  BY <1>1, <1>3
  <2>3. QED  BY <2>1, <2>2, GrowFact
<1>4. CASE ~(g.fail # "no" \/ t \notin Present) /\ ~(want > held)
  <2>1. Relay(g, t) = Shrink(g, t, held - want)  BY <1>4 DEF Relay
  <2>2. held - want \in Nat /\ t \in Present /\ held - want <= held  BY <1>1, <1>4
  <2>3. QED  BY <2>1, <2>2, ShrinkFact
<1>5. QED  BY <1>2, <1>3, <1>4

\* into_items, after its refill.
LEMMA RelaysFact ==
  ASSUME NEW g \in Groups, NEW m, Good(g, m)
  PROVE  LET h == Relay(Relay(Relay(Relay(g, "bno"), "cnt"), "rmap"), "refc")
         IN  Good(h, m) /\ Relaid(g, h)
<1> DEFINE g1 == Relay(g, "bno")
           g2 == Relay(g1, "cnt")
           g3 == Relay(g2, "rmap")
           h == Relay(g3, "refc")
<1>1. "bno" \in Trees /\ "cnt" \in Trees /\ "rmap" \in Trees /\ "refc" \in Trees  BY DEF Trees
<1>2. Good(g1, m) /\ Relaid(g, g1)  BY <1>1, RelayFact
<1> HIDE DEF g1
<1>3. Good(g2, m) /\ Relaid(g1, g2)  BY <1>1, <1>2, RelayFact DEF Relaid
<1> HIDE DEF g2
<1>4. Good(g3, m) /\ Relaid(g2, g3)  BY <1>1, <1>3, RelayFact DEF Relaid
<1> HIDE DEF g3
<1>5. Good(h, m) /\ Relaid(g3, h)  BY <1>1, <1>4, RelayFact DEF Relaid
<1> HIDE DEF h
<1>6. Relaid(g, h)  BY <1>2, <1>3, <1>4, <1>5 DEF Relaid
<1>7. QED  BY <1>5, <1>6 DEF h, g3, g2, g1

-----------------------------------------------------------------------------
(* The reverse map *)

\* Who a reverse mapping names: the group's own blocks have two owners.
Named(x) == IF x.owner = "refc" THEN "ag" ELSE x.owner
Nameable == Forks \cup {"ag"}

\* The reverse map R names o for block b; no two of its mappings say the same.
Has(R, b, o) == \E x \in R : x.block = b /\ Named(x) = o
Unique(R)    == \A x, y \in R : x.block = y.block /\ Named(x) = Named(y) => x = y

\* What it has to name, with F free and files mapped by m.
Due(F, m, b, o) == IF o = "ag" THEN b \notin F /\ b \notin Mapped(m) ELSE b \in m[o]

Names(R, F, m) ==
  HasRmap => Unique(R) /\ \A b \in Blocks, o \in Nameable : Has(R, b, o) <=> Due(F, m, b, o)

\* The mappings of some blocks to one owner.
LEMMA MappingsHas ==
  ASSUME NEW S, NEW o, NEW flag
  PROVE  \A x : x \in Mappings(S, o, flag) <=>
                  x.block \in S /\ x.owner = o /\ x = Owned(x.block, o, flag)
<1>1. SUFFICES ASSUME NEW x
               PROVE  x \in Mappings(S, o, flag) <=>
                        x.block \in S /\ x.owner = o /\ x = Owned(x.block, o, flag)
  OBVIOUS
<1>2. ASSUME NEW b \in S, x = Owned(b, o, flag)
      PROVE  x.block = b /\ x.owner = o
  BY <1>2 DEF Owned
<1>3. (\E b \in S : x = Owned(b, o, flag)) <=>
        x.block \in S /\ x.owner = o /\ x = Owned(x.block, o, flag)
  BY <1>2
<1>4. x \in Mappings(S, o, flag) <=> \E b \in S : x = Owned(b, o, flag)  BY DEF Mappings
<1>5. QED  BY <1>3, <1>4

\* They name that owner.
LEMMA MappingsNames ==
  ASSUME NEW S, NEW o \in Nameable, NEW flag
  PROVE  /\ \A b \in S : /\ Owned(b, o, flag) \in Mappings(S, o, flag)
                         /\ Owned(b, o, flag).block = b /\ Named(Owned(b, o, flag)) = o
         /\ \A x \in Mappings(S, o, flag) : x.block \in S /\ Named(x) = o
         /\ \A x, y \in Mappings(S, o, flag) : x.block = y.block => x = y
<1>1. o # "refc"  BY GroupAssumption DEF Nameable
<1>2. \A b \in S : Owned(b, o, flag) \in Mappings(S, o, flag)  BY DEF Mappings
<1>3. \A b : Owned(b, o, flag).block = b /\ Owned(b, o, flag).owner = o  BY DEF Owned
<1>4. \A x \in Mappings(S, o, flag) : x.block \in S /\ x.owner = o /\ x = Owned(x.block, o, flag)
  BY MappingsHas
<1>5. QED  BY <1>1, <1>2, <1>3, <1>4 DEF Named

\* Blocks not named for an owner are, once it is added for them.
LEMMA AddNames ==
  ASSUME NEW R, NEW S, NEW o \in Nameable, NEW flag, Unique(R), \A b \in S : ~Has(R, b, o)
  PROVE  /\ Unique(R \cup Mappings(S, o, flag))
         /\ \A b, q : Has(R \cup Mappings(S, o, flag), b, q) <=> Has(R, b, q) \/ (q = o /\ b \in S)
<1> DEFINE M == Mappings(S, o, flag)
<1>1. /\ \A b \in S : \E x \in M : x.block = b /\ Named(x) = o
      /\ \A x \in M : x.block \in S /\ Named(x) = o
      /\ \A x, y \in M : x.block = y.block => x = y
  <2>1. \A b \in S : LET x == Owned(b, o, flag) IN x \in M /\ x.block = b /\ Named(x) = o
    BY MappingsNames
  <2>2. \A x \in M : x.block \in S /\ Named(x) = o  BY MappingsNames
  <2>3. \A x, y \in M : x.block = y.block => x = y  BY MappingsNames
  <2> HIDE DEF M
  <2>4. QED  BY <2>1, <2>2, <2>3
<1> HIDE DEF M
<1>2. \A x \in R : \A y \in M : ~(x.block = y.block /\ Named(x) = Named(y))
  BY <1>1 DEF Has
<1>3. Unique(R \cup M)  BY <1>1, <1>2 DEF Unique
<1>4. ASSUME NEW b, NEW q
      PROVE  Has(R \cup M, b, q) <=> Has(R, b, q) \/ (q = o /\ b \in S)
  BY <1>1 DEF Has
<1>5. QED  BY <1>3, <1>4 DEF M

\* They no longer are once they are removed.
LEMMA DropNames ==
  ASSUME NEW R, NEW S, NEW o \in Nameable, NEW flag, Unique(R), Mappings(S, o, flag) \subseteq R
  PROVE  /\ Unique(R \ Mappings(S, o, flag))
         /\ \A b, q : Has(R \ Mappings(S, o, flag), b, q) <=> Has(R, b, q) /\ ~(q = o /\ b \in S)
<1> DEFINE M == Mappings(S, o, flag)
<1>1. /\ \A b \in S : \E x \in M : x.block = b /\ Named(x) = o
      /\ \A x \in M : x.block \in S /\ Named(x) = o
  BY MappingsNames
<1>2. M \subseteq R  OBVIOUS
<1> HIDE DEF M
<1>3. Unique(R \ M)  BY DEF Unique
<1>4. ASSUME NEW b, NEW q, Has(R \ M, b, q)
      PROVE  Has(R, b, q) /\ ~(q = o /\ b \in S)
  <2>1. PICK x \in R \ M : x.block = b /\ Named(x) = q  BY <1>4 DEF Has
  <2>2. Has(R, b, q)  BY <2>1 DEF Has
  <2>3. ASSUME q = o, b \in S PROVE FALSE
    <3>1. PICK y \in M : y.block = b /\ Named(y) = o  BY <1>1, <2>3
    <3>2. x = y  BY <2>1, <2>3, <3>1, <1>2 DEF Unique
    <3>3. QED  BY <2>1, <3>1, <3>2
  <2>4. QED  BY <2>2, <2>3
<1>5. ASSUME NEW b, NEW q, Has(R, b, q), ~(q = o /\ b \in S)
      PROVE  Has(R \ M, b, q)
  <2>1. PICK x \in R : x.block = b /\ Named(x) = q  BY <1>5 DEF Has
  <2>2. x \notin M  BY <1>1, <1>5, <2>1
  <2>3. QED  BY <2>1, <2>2 DEF Has
<1>6. QED  BY <1>3, <1>4, <1>5 DEF M

\* A refill names the group for the blocks it moves.
LEMMA RefillNames ==
  ASSUME NEW R, NEW F \in SUBSET Blocks, NEW m, F \cap Mapped(m) = {}, Names(R, F, m),
         NEW X \in SUBSET F
  PROVE  Names(IF HasRmap THEN R \cup Mappings(X, "ag", FALSE) ELSE R, F \ X, m)
<1>1. SUFFICES ASSUME HasRmap PROVE Names(R \cup Mappings(X, "ag", FALSE), F \ X, m)
  BY DEF Names
<1>2. Unique(R) /\ \A b \in Blocks, o \in Nameable : Has(R, b, o) <=> Due(F, m, b, o)
  BY <1>1 DEF Names
<1>3. "ag" \in Nameable  BY DEF Nameable
<1>4. \A b \in X : ~Has(R, b, "ag")  BY <1>2, <1>3 DEF Due
<1> DEFINE Q == R \cup Mappings(X, "ag", FALSE)
<1>5. /\ Unique(Q)
      /\ \A b, q : Has(Q, b, q) <=> Has(R, b, q) \/ (q = "ag" /\ b \in X)
  BY <1>2, <1>3, <1>4, AddNames
<1> HIDE DEF Q
<1>6. ASSUME NEW b \in Blocks, NEW q \in Nameable
      PROVE  Due(F \ X, m, b, q) <=> Due(F, m, b, q) \/ (q = "ag" /\ b \in X)
  BY DEF Due
<1>7. \A b \in Blocks, q \in Nameable : Has(Q, b, q) <=> Due(F \ X, m, b, q)
  BY <1>2, <1>5, <1>6
<1>8. Names(Q, F \ X, m)  BY <1>5, <1>7 DEF Names
<1>9. QED  BY <1>8 DEF Q

-----------------------------------------------------------------------------
(* How many files map a block *)

FileMaps == [Forks -> SUBSET Blocks]

\* A fork maps blocks more, or fewer.
More(m, f, run)  == [m EXCEPT ![f] = m[f] \cup run]
Fewer(m, f, run) == [m EXCEPT ![f] = m[f] \ run]

\* They are counted.
LEMMA OwnersFact ==
  ASSUME NEW m, NEW b
  PROVE  /\ IsFiniteSet({f \in Forks : b \in m[f]}) /\ Owners(m, b) \in Nat
         /\ Owners(m, b) = 0 <=> b \notin Mapped(m)
<1> DEFINE S == {f \in Forks : b \in m[f]}
<1>1. S \in SUBSET Forks /\ IsFiniteSet(Forks)  BY GroupAssumption
<1>2. S = {} <=> b \notin Mapped(m)  BY DEF Mapped
<1>3. Owners(m, b) = Cardinality(S)  BY DEF Owners
<1> HIDE DEF S
<1>4. IsFiniteSet(S) /\ Cardinality(S) \in Nat  BY <1>1, FS_Subset, FS_CardinalityType
<1>5. Cardinality(S) = 0 <=> S = {}  BY <1>4, FS_EmptySet
<1>6. QED  BY <1>2, <1>3, <1>4, <1>5 DEF S

\* One more.
LEMMA OwnersMore ==
  ASSUME NEW m \in FileMaps, NEW f \in Forks, NEW run \in SUBSET Blocks
  PROVE  LET n == More(m, f, run)
         IN  /\ n \in FileMaps /\ Mapped(n) = Mapped(m) \cup run
             /\ \A g \in Forks : n[g] = IF g = f THEN m[g] \cup run ELSE m[g]
             /\ \A b : Owners(n, b) = IF b \in run /\ b \notin m[f] THEN Owners(m, b) + 1
                                      ELSE Owners(m, b)
<1> DEFINE n == More(m, f, run)
<1>1. n \in FileMaps  BY DEF FileMaps, More
<1>2. \A g \in Forks : n[g] = IF g = f THEN m[g] \cup run ELSE m[g]  BY DEF FileMaps, More
<1> HIDE DEF n
<1>3. Mapped(n) = Mapped(m) \cup run  BY <1>2 DEF Mapped
<1>4. ASSUME NEW b
      PROVE  Owners(n, b) = IF b \in run /\ b \notin m[f] THEN Owners(m, b) + 1 ELSE Owners(m, b)
  <2> DEFINE S == {g \in Forks : b \in m[g]}
             T == {g \in Forks : b \in n[g]}
  <2>1. IsFiniteSet(S) /\ Owners(m, b) = Cardinality(S) /\ Owners(n, b) = Cardinality(T)
    BY OwnersFact DEF Owners
  <2>2. CASE b \in run /\ b \notin m[f]
    <3>1. T = S \cup {f} /\ f \notin S  BY <1>2, <2>2
    <3> HIDE DEF S, T
    <3>2. Cardinality(T) = Cardinality(S) + 1  BY <2>1, <3>1, FS_AddElement
    <3>3. QED  BY <2>1, <2>2, <3>2
  <2>3. CASE ~(b \in run /\ b \notin m[f])
    <3>1. T = S  BY <1>2, <2>3
    <3>2. QED  BY <2>1, <2>3, <3>1
  <2>4. QED  BY <2>2, <2>3
<1>5. QED  BY <1>1, <1>2, <1>3, <1>4 DEF n

\* One fewer.
LEMMA OwnersFewer ==
  ASSUME NEW m \in FileMaps, NEW f \in Forks, NEW run \in SUBSET m[f]
  PROVE  LET n == Fewer(m, f, run)
         IN  /\ n \in FileMaps /\ Mapped(n) \subseteq Mapped(m)
             /\ \A g \in Forks : n[g] = IF g = f THEN m[g] \ run ELSE m[g]
             /\ \A b : Owners(n, b) = IF b \in run THEN Owners(m, b) - 1 ELSE Owners(m, b)
<1> DEFINE n == Fewer(m, f, run)
<1>1. n \in FileMaps  BY DEF FileMaps, Fewer
<1>2. \A g \in Forks : n[g] = IF g = f THEN m[g] \ run ELSE m[g]  BY DEF FileMaps, Fewer
<1> HIDE DEF n
<1>3. Mapped(n) \subseteq Mapped(m)  BY <1>2 DEF Mapped
<1>4. ASSUME NEW b
      PROVE  Owners(n, b) = IF b \in run THEN Owners(m, b) - 1 ELSE Owners(m, b)
  <2> DEFINE S == {g \in Forks : b \in m[g]}
             T == {g \in Forks : b \in n[g]}
  <2>1. IsFiniteSet(S) /\ Owners(m, b) = Cardinality(S) /\ Owners(n, b) = Cardinality(T)
    BY OwnersFact DEF Owners
  <2>2. CASE b \in run
    <3>1. T = S \ {f} /\ f \in S  BY <1>2, <2>2
    <3> HIDE DEF S, T
    <3>2. Cardinality(T) = Cardinality(S) - 1  BY <2>1, <3>1, FS_RemoveElement
    <3>3. QED  BY <2>1, <2>2, <3>2
  <2>3. CASE b \notin run
    <3>1. T = S  BY <1>2, <2>3
    <3>2. QED  BY <2>1, <2>3, <3>1
  <2>4. QED  BY <2>2, <2>3
<1>5. QED  BY <1>1, <1>2, <1>3, <1>4 DEF n

\* Reference counts are the numbers of owners, where there are several;
\* several there are only where references are counted, and of data forks.
Shared(refs, m) ==
  \A b \in Blocks :
    /\ HasRefcount => refs[b] = IF Owners(m, b) >= 2 THEN Owners(m, b) ELSE 0
    /\ Owners(m, b) > 1 => HasRefcount /\ \A f \in Attrs : b \notin m[f]

-----------------------------------------------------------------------------
(* Takes and frees in memory *)

\* A group that agrees with what the files map.
Fit(g, m) == Good(g, m) /\ Names(g.rmap, g.free, m) /\ Shared(g.refs, m)

\* What an edit replaces.
After(g, free, rmap, refs) == [g EXCEPT !.free = free, !.rmap = rmap, !.refs = refs]

\* And what it leaves alone.
LEMMA AfterFields ==
  ASSUME NEW g \in Groups, NEW F \in SUBSET Blocks, NEW R \in SUBSET Mapping,
         NEW r \in [Blocks -> Nat]
  PROVE  LET h == After(g, F, R, r)
         IN  /\ h \in Groups /\ h.free = F /\ h.rmap = R /\ h.refs = r
             /\ h.list = g.list /\ h.trees = g.trees /\ h.fail = g.fail
BY DEF Groups, After

\* Blocks go between free space and the files.
LEMMA EditGood ==
  ASSUME NEW g \in Groups, NEW m, NEW n, Good(g, m), NEW F \in SUBSET Blocks,
         NEW R \in SUBSET Mapping, IsFiniteSet(R), NEW r \in [Blocks -> Nat], NEW X,
         \/ X \subseteq g.free /\ F = g.free \ X /\ Mapped(n) = Mapped(m) \cup X
         \/ X \subseteq Mapped(m) /\ F = g.free \cup X /\ Mapped(n) = Mapped(m) \ X
  PROVE  Good(After(g, F, R, r), n)
<1> DEFINE h == After(g, F, R, r)
           U == UsesOf(g, m)
           V == UsesOf(h, n)
<1>1. h.free = F /\ h.rmap = R /\ h.list = g.list /\ h.trees = g.trees  BY AfterFields
<1> HIDE DEF h
<1>2. /\ U["free"] = g.free /\ V["free"] = F /\ U["files"] = Mapped(m) /\ V["files"] = Mapped(n)
      /\ V["list"] = U["list"] /\ \A u \in Trees : V[u] = U[u]
  BY <1>1, UsesAt
<1> HIDE DEF U, V
<1>3. /\ "free" \in Uses /\ "files" \in Uses
      /\ \A u \in Uses : u \in Trees \/ u = "free" \/ u = "list" \/ u = "files"
      /\ \A u \in Trees : u # "free" /\ u # "files"
  BY DEF Uses, Trees
<1>4. Moves(U, V, X, "free", "files") \/ Moves(U, V, X, "files", "free")
  <2>1. CASE X \subseteq g.free /\ F = g.free \ X /\ Mapped(n) = Mapped(m) \cup X
    BY <1>2, <1>3, <2>1 DEF Moves
  <2>2. CASE X \subseteq Mapped(m) /\ F = g.free \cup X /\ Mapped(n) = Mapped(m) \ X
    BY <1>2, <1>3, <2>2 DEF Moves
  <2>3. QED  BY <2>1, <2>2
<1>5. QED  BY <1>1, <1>4, GoodKept DEF Good, U, V, h

\* take_at.
LEMMA TakeFit ==
  ASSUME NEW g \in Groups, NEW m \in FileMaps, Fit(g, m), NEW f \in Forks,
         NEW run \in SUBSET g.free
  PROVE  LET R == IF HasRmap THEN g.rmap \cup Mappings(run, f, FALSE) ELSE g.rmap
             h == After(g, g.free \ run, R, g.refs)
             n == More(m, f, run)
         IN  h \in Groups /\ Fit(h, n) /\ n \in FileMaps
<1> DEFINE R == IF HasRmap THEN g.rmap \cup Mappings(run, f, FALSE) ELSE g.rmap
           h == After(g, g.free \ run, R, g.refs)
           n == More(m, f, run)
           F == g.free \ run
<1>1. /\ g.free \in SUBSET Blocks /\ g.refs \in [Blocks -> Nat] /\ g.rmap \in SUBSET Mapping
      /\ g.fail \in Fails
  BY DEF Groups
<1>2. Good(g, m) /\ Names(g.rmap, g.free, m) /\ Shared(g.refs, m)  BY DEF Fit
<1>3. IsFiniteSet(g.rmap)  BY <1>2 DEF Good
<1>4. run \in SUBSET Blocks /\ IsFiniteSet(run)  BY <1>1, BlocksFinite
<1>5. f \in Owner /\ f \in Nameable /\ f # "ag"  BY GroupAssumption DEF Owner, Nameable
<1>6. R \in SUBSET Mapping /\ IsFiniteSet(R)
  <2>1. Mappings(run, f, FALSE) \in SUBSET Mapping /\ IsFiniteSet(Mappings(run, f, FALSE))
    BY <1>4, <1>5, MappingsType
  <2>2. IsFiniteSet(g.rmap \cup Mappings(run, f, FALSE))  BY <2>1, <1>3, FS_Union
  <2>3. QED  BY <1>1, <1>3, <2>1, <2>2
<1>7. /\ n \in FileMaps /\ Mapped(n) = Mapped(m) \cup run
      /\ \A q \in Forks : n[q] = IF q = f THEN m[q] \cup run ELSE m[q]
      /\ \A b : Owners(n, b) = IF b \in run /\ b \notin m[f] THEN Owners(m, b) + 1 ELSE Owners(m, b)
  BY <1>4, OwnersMore
<1>8. g.free \cap Mapped(m) = {}  BY <1>2, GoodUses
<1>9. F \in SUBSET Blocks  BY <1>1
<1>10. Names(R, F, n)
  <2>1. SUFFICES ASSUME HasRmap PROVE Names(g.rmap \cup Mappings(run, f, FALSE), F, n)
    BY DEF Names
  <2> DEFINE Q == g.rmap \cup Mappings(run, f, FALSE)
  <2>2. Unique(g.rmap)
        /\ \A b \in Blocks, o \in Nameable : Has(g.rmap, b, o) <=> Due(g.free, m, b, o)
    BY <1>2, <2>1 DEF Names
  <2>3. \A b \in run : b \notin m[f]  BY <1>8 DEF Mapped
  <2>4. \A b \in run : ~Has(g.rmap, b, f)  BY <1>4, <1>5, <2>2, <2>3 DEF Due
  <2>5. /\ Unique(Q)
        /\ \A b, q : Has(Q, b, q) <=> Has(g.rmap, b, q) \/ (q = f /\ b \in run)
    BY <1>5, <2>2, <2>4, AddNames
  <2> HIDE DEF Q, n
  <2>6. ASSUME NEW b \in Blocks, NEW q \in Nameable
        PROVE  Due(F, n, b, q) <=> Due(g.free, m, b, q) \/ (q = f /\ b \in run)
    <3>1. CASE q = "ag"  BY <3>1, <1>5, <1>7 DEF Due
    <3>2. CASE q # "ag"
      <4>1. q \in Forks  BY <3>2 DEF Nameable
      <4>2. QED  BY <3>2, <4>1, <1>7 DEF Due
    <3>3. QED  BY <3>1, <3>2
  <2>7. \A b \in Blocks, q \in Nameable : Has(Q, b, q) <=> Due(F, n, b, q)
    BY <2>2, <2>5, <2>6
  <2>8. Names(Q, F, n)  BY <2>5, <2>7 DEF Names
  <2>9. QED  BY <2>8 DEF Q
<1>11. Shared(g.refs, n)
  <2>1. ASSUME NEW b \in Blocks
        PROVE  /\ HasRefcount => g.refs[b] = IF Owners(n, b) >= 2 THEN Owners(n, b) ELSE 0
               /\ Owners(n, b) > 1 => HasRefcount /\ \A q \in Attrs : b \notin n[q]
    <3>1. /\ HasRefcount => g.refs[b] = IF Owners(m, b) >= 2 THEN Owners(m, b) ELSE 0
          /\ Owners(m, b) > 1 => HasRefcount /\ \A q \in Attrs : b \notin m[q]
      BY <1>2 DEF Shared
    <3>2. CASE b \in run
      <4>1. b \notin Mapped(m) /\ b \notin m[f]  BY <3>2, <1>8 DEF Mapped
      <4>2. Owners(m, b) = 0  BY <4>1, OwnersFact
      <4>3. Owners(n, b) = 1  BY <4>1, <4>2, <3>2, <1>7
      <4> HIDE DEF n
      <4>4. QED  BY <3>1, <4>2, <4>3
    <3>3. CASE b \notin run
      <4>1. Owners(n, b) = Owners(m, b)  BY <3>3, <1>7
      <4>2. \A q \in Attrs : b \notin m[q] => b \notin n[q]  BY <3>3, <1>7 DEF Forks
      <4> HIDE DEF n
      <4>3. QED  BY <3>1, <4>1, <4>2
    <3>4. QED  BY <3>2, <3>3
  <2>2. QED  BY <2>1 DEF Shared
<1> HIDE DEF n, R, F
<1>12. Good(After(g, F, R, g.refs), n)
  BY <1>1, <1>2, <1>6, <1>7, <1>9, EditGood DEF F
<1> DEFINE k == After(g, F, R, g.refs)
<1>13. k \in Groups /\ k.free = F /\ k.rmap = R /\ k.refs = g.refs
  BY <1>1, <1>6, <1>9, AfterFields
<1> HIDE DEF k
<1>14. Fit(k, n)  BY <1>10, <1>11, <1>12, <1>13 DEF Fit, k
<1>15. QED  BY <1>7, <1>13, <1>14 DEF k, F, R, n

\* forget_rmap, release_shared and give_back.
LEMMA FreeFit ==
  ASSUME NEW g \in Groups, NEW m \in FileMaps, Fit(g, m), NEW f \in Forks,
         NEW run \in SUBSET m[f], NEW flag, HasRmap => Mappings(run, f, flag) \subseteq g.rmap,
         NEW r \in [Blocks -> Nat], Shared(r, Fewer(m, f, run)),
         NEW Y, Y = {b \in run : Owners(m, b) = 1}
  PROVE  LET h == After(g, g.free \cup Y, g.rmap \ Mappings(run, f, flag), r)
             n == Fewer(m, f, run)
         IN  h \in Groups /\ Fit(h, n) /\ n \in FileMaps
<1> DEFINE R == g.rmap \ Mappings(run, f, flag)
           n == Fewer(m, f, run)
           F == g.free \cup Y
<1>1. /\ g.free \in SUBSET Blocks /\ g.rmap \in SUBSET Mapping  BY DEF Groups
<1>2. Good(g, m) /\ Names(g.rmap, g.free, m)  BY DEF Fit
<1>3. m[f] \in SUBSET Blocks  BY DEF FileMaps
<1>4. F \in SUBSET Blocks  BY <1>1, <1>3
<1>5. f \in Nameable /\ f # "ag"  BY GroupAssumption DEF Nameable
<1>6. R \in SUBSET Mapping /\ IsFiniteSet(R)
  <2>1. R \in SUBSET g.rmap  OBVIOUS
  <2> HIDE DEF R
  <2>2. QED  BY <1>1, <1>2, <2>1, FS_Subset DEF Good
<1>7. /\ n \in FileMaps /\ Mapped(n) \subseteq Mapped(m)
      /\ \A q \in Forks : n[q] = IF q = f THEN m[q] \ run ELSE m[q]
      /\ \A b : Owners(n, b) = IF b \in run THEN Owners(m, b) - 1 ELSE Owners(m, b)
  BY OwnersFewer, ZenonT(60)
<1>8. Y \subseteq Mapped(m)  BY DEF Mapped
<1>a. Shared(r, n)  OBVIOUS
<1> HIDE DEF n
<1>9. ASSUME NEW b PROVE b \in Mapped(n) <=> b \in Mapped(m) /\ b \notin Y
  <2>1. /\ Owners(n, b) \in Nat /\ (Owners(n, b) = 0 <=> b \notin Mapped(n))
        /\ Owners(m, b) \in Nat /\ (Owners(m, b) = 0 <=> b \notin Mapped(m))
    BY OwnersFact
  <2>2. CASE b \in run
    <3>1. Owners(n, b) = Owners(m, b) - 1  BY <1>7, <2>2
    <3>2. b \in Y <=> Owners(m, b) = 1  BY <2>2
    <3>3. QED  BY <2>1, <3>1, <3>2
  <2>3. CASE b \notin run
    <3>1. Owners(n, b) = Owners(m, b) /\ b \notin Y  BY <1>7, <2>3
    <3>2. QED  BY <2>1, <3>1
  <2>4. QED  BY <2>2, <2>3
<1>10. Mapped(n) = Mapped(m) \ Y  BY <1>9
<1>11. Names(R, F, n)
  <2>1. SUFFICES ASSUME HasRmap PROVE Names(R, F, n)  BY DEF Names
  <2>2. Unique(g.rmap)
        /\ \A b \in Blocks, o \in Nameable : Has(g.rmap, b, o) <=> Due(g.free, m, b, o)
    BY <1>2, <2>1 DEF Names
  <2>3. Mappings(run, f, flag) \subseteq g.rmap  BY <2>1
  <2>4. /\ Unique(R)
        /\ \A b, q : Has(R, b, q) <=> Has(g.rmap, b, q) /\ ~(q = f /\ b \in run)
    BY <1>5, <2>2, <2>3, DropNames
  <2> HIDE DEF R
  <2>5. ASSUME NEW b \in Blocks, NEW q \in Nameable
        PROVE  Due(F, n, b, q) <=> Due(g.free, m, b, q) /\ ~(q = f /\ b \in run)
    <3>1. CASE q = "ag"  BY <3>1, <1>5, <1>8, <1>10 DEF Due
    <3>2. CASE q # "ag"
      <4>1. q \in Forks  BY <3>2 DEF Nameable
      <4>2. QED  BY <3>2, <4>1, <1>7 DEF Due
    <3>3. QED  BY <3>1, <3>2
  <2>6. \A b \in Blocks, q \in Nameable : Has(R, b, q) <=> Due(F, n, b, q)
    BY <2>2, <2>4, <2>5
  <2>7. QED  BY <2>4, <2>6 DEF Names
<1> HIDE DEF R, F
<1>12. Good(After(g, F, R, r), n)
  BY <1>2, <1>4, <1>6, <1>8, <1>10, EditGood DEF F
<1> DEFINE k == After(g, F, R, r)
<1>13. k \in Groups /\ k.free = F /\ k.rmap = R /\ k.refs = r
  BY <1>4, <1>6, AfterFields
<1> HIDE DEF k
<1>14. Fit(k, n)  BY <1>a, <1>11, <1>12, <1>13 DEF Fit, k
<1>15. QED  BY <1>7, <1>13, <1>14 DEF k, F, R, n

-----------------------------------------------------------------------------
(* The invariant *)

\* The committed group as an operation opens it.
OnDisk == [free |-> disk.free, list |-> disk.list, trees |-> disk.trees,
           rmap |-> disk.rmap, refs |-> disk.refs, fail |-> "no"]

Ops == [edits : Nat, took : BOOLEAN, released : BOOLEAN, settled : SUBSET Blocks,
        ahead : SUBSET Blocks, cancels : SUBSET Blocks, maps : FileMaps,
        unwritten : SUBSET Blocks]

\* The volume agrees with itself,
Committed ==
  /\ maps \in FileMaps /\ unwritten \in SUBSET Blocks
  /\ OnDisk \in Groups /\ Fit(OnDisk, maps)
  /\ disk.levels \in [Trees -> Nat]
  /\ disk.freeblks = Cardinality(disk.free) /\ disk.btreeblks = BtreeBlks(disk)

\* and so does what an operation holds with what it will have the files map.
Running ==
  group # None =>
    /\ group \in Groups /\ group.fail = "no" /\ op \in Ops
    /\ Fit(group, op.maps)
    /\ op.settled = disk.free /\ op.ahead \subseteq disk.free
    /\ ~op.took => op.maps = maps

Inv == Committed /\ Running

\* What is on the volume stays as long as nothing is committed.
LEMMA CommittedStays ==
  ASSUME Committed, UNCHANGED <<disk, maps, unwritten>>
  PROVE  Committed'
BY DEF Committed, OnDisk, BtreeBlks

\* An operation that is dropped leaves no trace.
LEMMA DropInv ==
  ASSUME Inv, NEW reason, Drop(reason)
  PROVE  Inv'
<1>1. UNCHANGED <<disk, maps, unwritten>> /\ group' = None  BY DEF Drop
<1>2. Committed'  BY <1>1, CommittedStays DEF Inv
<1>3. QED  BY <1>1, <1>2 DEF Inv, Running

\* GroupAlloc::open
LEMMA OpenInv ==
  ASSUME Inv, Open
  PROVE  Inv'
<1>1. /\ group' = OnDisk
      /\ op' = [edits |-> 0, took |-> FALSE, released |-> FALSE,
                settled |-> disk.free, ahead |-> {}, cancels |-> {},
                maps |-> maps, unwritten |-> unwritten]
      /\ UNCHANGED <<disk, maps, unwritten>>
  BY DEF Open, OnDisk
<1>2. Committed'  BY <1>1, CommittedStays DEF Inv
<1>3. OnDisk \in Groups /\ Fit(OnDisk, maps) /\ maps \in FileMaps /\ unwritten \in SUBSET Blocks
  BY DEF Inv, Committed
<1>4. OnDisk.fail = "no" /\ OnDisk.free = disk.free /\ disk.free \in SUBSET Blocks
  BY <1>3 DEF OnDisk, Groups
<1>5. /\ op' \in Ops /\ op'.maps = maps /\ op'.settled = disk.free /\ op'.ahead = {}
      /\ op'.took = FALSE
  BY <1>1, <1>3, <1>4 DEF Ops
<1>6. Running'  BY <1>1, <1>3, <1>4, <1>5 DEF Running
<1>7. QED  BY <1>2, <1>6 DEF Inv

\* One take or free.
LEMMA EditInv ==
  ASSUME Inv, group # None, NEW F, NEW R, NEW r, NEW m \in FileMaps,
         NEW ahead \in SUBSET disk.free, NEW cancels \in SUBSET Blocks,
         Edited(F, R, r, m, ahead, cancels),
         After(group, F, R, r) \in Groups, Fit(After(group, F, R, r), m),
         After(group, F, R, r).fail = "no"
  PROVE  Inv'
<1>1. group' = After(group, F, R, r) /\ UNCHANGED <<disk, maps, unwritten>>
  BY DEF Edited, After
<1>2. Committed'  BY <1>1, CommittedStays DEF Inv
<1>3. op \in Ops /\ op.settled = disk.free  BY DEF Inv, Running
<1>4. disk.free \in SUBSET Blocks  BY DEF Inv, Committed, OnDisk, Groups
<1> DEFINE u == op.unwritten \cap UNION {m[f] : f \in Forks}
           c == op.cancels \cup cancels
           e == op.edits + 1
           d == (op.released \/ cancels # {})
<1>5. /\ u \in SUBSET Blocks /\ c \in SUBSET Blocks /\ e \in Nat /\ d \in BOOLEAN
      /\ ahead \in SUBSET Blocks
  BY <1>3, <1>4 DEF Ops
<1>6. op' = [op EXCEPT !.edits = e, !.took = TRUE, !.maps = m, !.ahead = ahead,
                       !.unwritten = u, !.cancels = c, !.released = d]
  BY DEF Edited
<1> HIDE DEF u, c, e, d
<1>7. op' \in Ops  BY <1>3, <1>5, <1>6 DEF Ops
<1>8. op'.maps = m /\ op'.ahead = ahead /\ op'.took = TRUE /\ op'.settled = op.settled
  BY <1>3, <1>6 DEF Ops
<1>9. Running'  BY <1>1, <1>3, <1>7, <1>8 DEF Running
<1>10. QED  BY <1>2, <1>9 DEF Inv

\* What a running operation holds.
LEMMA Holds ==
  ASSUME Inv, group # None
  PROVE  /\ group \in Groups /\ group.fail = "no" /\ op \in Ops /\ Fit(group, op.maps)
         /\ op.maps \in FileMaps /\ op.settled = disk.free /\ op.ahead \in SUBSET disk.free
         /\ group.free \in SUBSET Blocks /\ group.refs \in [Blocks -> Nat]
BY DEF Inv, Running, Ops, Groups

\* take_at, of blocks that are free.
LEMMA TakeAtInv ==
  ASSUME Inv, group # None, NEW f \in Forks, NEW run \in SUBSET group.free,
         NEW ahead \in SUBSET disk.free, TakeAt(run, f, ahead)
  PROVE  Inv'
<1> DEFINE R == IF HasRmap THEN group.rmap \cup Mappings(run, f, FALSE) ELSE group.rmap
           F == group.free \ run
           n == More(op.maps, f, run)
           h == After(group, F, R, group.refs)
<1>1. /\ group \in Groups /\ group.fail = "no" /\ op.maps \in FileMaps /\ Fit(group, op.maps)
      /\ group.free \in SUBSET Blocks
  BY Holds
<1>2. h \in Groups /\ Fit(h, n) /\ n \in FileMaps  BY <1>1, TakeFit
<1>3. h.fail = "no"
  <2> HIDE DEF R, F
  <2>1. QED  BY <1>1 DEF After, Groups
<1>4. Edited(F, R, group.refs, n, ahead, {})  BY DEF TakeAt, More
<1> HIDE DEF R, F, n
<1>5. QED  BY <1>2, <1>3, <1>4, EditInv

\* take and take_aligned
LEMMA TakeInv ==
  ASSUME Inv, NEW f \in Forks, NEW want, NEW align, Take(f, want, align)
  PROVE  Inv'
<1>1. group # None  BY DEF Take, Editing
<1>2. group.free \in SUBSET Blocks /\ op.ahead \in SUBSET disk.free  BY <1>1, Holds
<1>3. CASE Fits(group.free, want, align) = {}
  <2>1. Drop("no space")  BY <1>3 DEF Take
  <2>2. QED  BY <2>1, DropInv
<1>4. CASE Fits(group.free, want, align) # {}
  <2> DEFINE run == Run(Lowest(Fits(group.free, want, align)), want)
  <2>1. TakeAt(run, f, op.ahead)  BY <1>4 DEF Take
  <2>2. run \in SUBSET group.free  BY <1>2, <1>4, FitsFact
  <2> HIDE DEF run
  <2>3. QED  BY <1>1, <1>2, <2>1, <2>2, TakeAtInv
<1>5. QED  BY <1>3, <1>4

\* take_settled
LEMMA TakeSettledInv ==
  ASSUME Inv, NEW f \in Forks, NEW want, TakeSettled(f, want)
  PROVE  Inv'
<1> DEFINE S == op.settled \cap group.free
<1>1. group # None  BY DEF TakeSettled, Editing
<1>2. /\ group.free \in SUBSET Blocks /\ op.ahead \in SUBSET disk.free /\ op.settled = disk.free
  BY <1>1, Holds
<1>3. S \in SUBSET Blocks /\ S \subseteq disk.free /\ S \subseteq group.free  BY <1>2
<1>4. CASE Fits(S, want, 1) = {}
  <2>1. Drop("no space")  BY <1>4 DEF TakeSettled
  <2>2. QED  BY <2>1, DropInv
<1>5. CASE Fits(S, want, 1) # {}
  <2> DEFINE run == Run(Lowest(Fits(S, want, 1)), want)
  <2>1. TakeAt(run, f, op.ahead \cup run)  BY <1>5 DEF TakeSettled
  <2> HIDE DEF S
  <2>2. run \in SUBSET S  BY <1>3, <1>5, FitsFact
  <2> HIDE DEF run
  <2>3. run \in SUBSET group.free /\ op.ahead \cup run \in SUBSET disk.free  BY <1>2, <1>3, <2>2
  <2>4. QED  BY <1>1, <2>1, <2>3, TakeAtInv
<1>6. QED  BY <1>4, <1>5

\* take_up_to
LEMMA TakeUpToInv ==
  ASSUME Inv, NEW f \in Forks, NEW want \in Nat \ {0}, TakeUpTo(f, want)
  PROVE  Inv'
<1> DEFINE S == group.free
           longest == Longest(S)
           got == IF want <= longest THEN want ELSE longest
<1>1. group # None  BY DEF TakeUpTo, Editing
<1>2. S \in SUBSET Blocks /\ op.ahead \in SUBSET disk.free  BY <1>1, Holds
<1>3. CASE got = 0
  <2>1. Drop("no space")  BY <1>3 DEF TakeUpTo
  <2>2. QED  BY <2>1, DropInv
<1>4. CASE got # 0
  <2> DEFINE run == Run(Lowest(Fits(S, got, 1)), got)
  <2>1. TakeAt(run, f, op.ahead)  BY <1>4 DEF TakeUpTo
  <2>2. S # {}
    <3>1. ASSUME S = {} PROVE FALSE
      <4>1. longest = 0  BY <3>1 DEF Longest
      <4>2. got = 0  BY <4>1
      <4>3. QED  BY <4>2, <1>4
    <3>2. QED  BY <3>1
  <2> HIDE DEF S
  <2>3. longest \in Nat \ {0} /\ \E b \in S : Run(b, longest) \subseteq S  BY <1>2, <2>2, LongestFact
  <2>4. PICK b \in S : Run(b, longest) \subseteq S  BY <2>3
  <2>5. got \in Nat /\ got <= longest
    <3> HIDE DEF longest
    <3>1. QED  BY <2>3
  <2> HIDE DEF got, longest
  <2>6. b \in Nat  BY <1>2, BlocksFinite
  <2>7. Run(b, got) \subseteq Run(b, longest)  BY <2>3, <2>5, <2>6 DEF Run
  <2>8. b \in Fits(S, got, 1)  BY <2>4, <2>6, <2>7 DEF Fits
  <2>9. run \in SUBSET S  BY <1>2, <2>8, FitsFact
  <2> HIDE DEF run
  <2>10. QED  BY <1>1, <1>2, <2>1, <2>9, TakeAtInv DEF S
<1>5. QED  BY <1>3, <1>4

\* release_shared, on a volume that counts references.
LEMMA ReleasedFact ==
  ASSUME NEW m \in FileMaps, NEW f \in Data, NEW run \in SUBSET m[f],
         group.refs \in [Blocks -> Nat], Shared(group.refs, m), HasRefcount
  PROVE  /\ Released(run) \in [Blocks -> Nat] /\ Shared(Released(run), Fewer(m, f, run))
         /\ {b \in run : group.refs[b] = 0} = {b \in run : Owners(m, b) = 1}
<1> DEFINE n == Fewer(m, f, run)
           q == Released(run)
<1>0. f \in Forks  BY DEF Forks
<1> HIDE DEF q
<1>1. /\ \A g \in Forks : n[g] = IF g = f THEN m[g] \ run ELSE m[g]
      /\ \A b : Owners(n, b) = IF b \in run THEN Owners(m, b) - 1 ELSE Owners(m, b)
  <2>1. /\ n \in FileMaps /\ Mapped(n) \subseteq Mapped(m)
        /\ \A g \in Forks : n[g] = IF g = f THEN m[g] \ run ELSE m[g]
        /\ \A b : Owners(n, b) = IF b \in run THEN Owners(m, b) - 1 ELSE Owners(m, b)
    BY <1>0, OwnersFewer, ZenonT(60)
  <2>2. QED  BY <2>1
<1>2. \A b \in run : b \in Blocks /\ b \in Mapped(m)  BY <1>0 DEF FileMaps, Mapped
<1>3. \A b : Owners(m, b) \in Nat /\ (Owners(m, b) = 0 <=> b \notin Mapped(m))  BY OwnersFact
<1>4. \A b \in Blocks : /\ group.refs[b] = IF Owners(m, b) >= 2 THEN Owners(m, b) ELSE 0
                        /\ Owners(m, b) > 1 => \A g \in Attrs : b \notin m[g]
  BY DEF Shared
<1>5. \A b \in Blocks : q[b] = IF b \in run /\ group.refs[b] = 2 THEN 0
                               ELSE IF b \in run /\ group.refs[b] > 2 THEN group.refs[b] - 1
                               ELSE group.refs[b]
  <2>1. SUFFICES ASSUME NEW b \in Blocks
        PROVE  q[b] = IF b \in run /\ group.refs[b] = 2 THEN 0
                               ELSE IF b \in run /\ group.refs[b] > 2 THEN group.refs[b] - 1
                               ELSE group.refs[b]
    OBVIOUS
  <2>2. group.refs[b] \in Nat  OBVIOUS
  <2>3. ~(group.refs[b] = 2 /\ group.refs[b] > 2)  BY <2>2
  <2>4. QED  BY <2>2, <2>3 DEF Released, q
<1>6. DOMAIN q = Blocks /\ q = [b \in Blocks |-> q[b]]  BY DEF Released, q
<1> HIDE DEF n
<1>7. \A b \in Blocks : q[b] \in Nat  BY <1>5
<1>8. q \in [Blocks -> Nat]  BY <1>6, <1>7
<1>9. ASSUME NEW b \in Blocks
      PROVE  /\ q[b] = IF Owners(n, b) >= 2 THEN Owners(n, b) ELSE 0
             /\ Owners(n, b) > 1 => \A g \in Attrs : b \notin n[g]
  <2>1. /\ Owners(m, b) \in Nat
        /\ group.refs[b] = IF Owners(m, b) >= 2 THEN Owners(m, b) ELSE 0
        /\ Owners(n, b) = IF b \in run THEN Owners(m, b) - 1 ELSE Owners(m, b)
    BY <1>1, <1>3, <1>4
  <2>2. b \in run => Owners(m, b) # 0  BY <1>2, <1>3
  <2>3. q[b] = IF Owners(n, b) >= 2 THEN Owners(n, b) ELSE 0  BY <2>1, <2>2, <1>5
  <2>4. Owners(n, b) > 1 => Owners(m, b) > 1  BY <2>1
  <2>5. \A g \in Attrs : b \notin m[g] => b \notin n[g]  BY <1>1 DEF Forks
  <2>6. QED  BY <2>3, <2>4, <2>5, <1>4
<1>10. Shared(q, n)  BY <1>9 DEF Shared
<1>11. ASSUME NEW b \in run PROVE group.refs[b] = 0 <=> Owners(m, b) = 1
  <2>1. /\ Owners(m, b) \in Nat /\ Owners(m, b) # 0
        /\ group.refs[b] = IF Owners(m, b) >= 2 THEN Owners(m, b) ELSE 0
    BY <1>2, <1>3, <1>4
  <2>2. QED  BY <2>1
<1>12. QED  BY <1>8, <1>10, <1>11 DEF q, n

\* Blocks nobody shares need no count, before or after.
LEMMA UnsharedFact ==
  ASSUME NEW m \in FileMaps, NEW f \in Forks, NEW run \in SUBSET m[f], NEW refs,
         Shared(refs, m), ~HasRefcount \/ f \in Attrs
  PROVE  Shared(refs, Fewer(m, f, run)) /\ run = {b \in run : Owners(m, b) = 1}
<1> DEFINE n == Fewer(m, f, run)
<1>1. /\ \A g \in Forks : n[g] = IF g = f THEN m[g] \ run ELSE m[g]
      /\ \A b : Owners(n, b) = IF b \in run THEN Owners(m, b) - 1 ELSE Owners(m, b)
  BY OwnersFewer
<1>2. \A b \in run : b \in Blocks /\ b \in Mapped(m)  BY DEF FileMaps, Mapped
<1>3. \A b : Owners(m, b) \in Nat /\ (Owners(m, b) = 0 <=> b \notin Mapped(m))  BY OwnersFact
<1> HIDE DEF n
<1>4. ASSUME NEW b \in run PROVE Owners(m, b) = 1
  <2>1. ~(Owners(m, b) > 1)  BY <1>2 DEF Shared
  <2>2. QED  BY <2>1, <1>2, <1>3
<1>5. ASSUME NEW b \in Blocks
      PROVE  /\ HasRefcount => refs[b] = IF Owners(n, b) >= 2 THEN Owners(n, b) ELSE 0
             /\ Owners(n, b) > 1 => HasRefcount /\ \A g \in Attrs : b \notin n[g]
  <2>1. /\ HasRefcount => refs[b] = IF Owners(m, b) >= 2 THEN Owners(m, b) ELSE 0
        /\ Owners(m, b) > 1 => HasRefcount /\ \A g \in Attrs : b \notin m[g]
    BY DEF Shared
  <2>2. CASE b \in run
    <3>1. Owners(m, b) = 1 /\ Owners(n, b) = 0  BY <1>1, <1>4, <2>2
    <3>2. QED  BY <2>1, <3>1
  <2>3. CASE b \notin run
    <3>1. Owners(n, b) = Owners(m, b)  BY <1>1, <2>3
    <3>2. \A g \in Attrs : b \notin m[g] => b \notin n[g]  BY <1>1 DEF Forks
    <3>3. QED  BY <2>1, <3>1, <3>2
  <2>4. QED  BY <2>2, <2>3
<1>6. Shared(refs, n)  BY <1>5 DEF Shared
<1>7. QED  BY <1>4, <1>6 DEF n

\* A free, however it is called.
LEMMA GiveBackInv ==
  ASSUME Inv, group # None, NEW f \in Forks, NEW run \in SUBSET op.maps[f], NEW flag,
         HasRmap => Mappings(run, f, flag) \subseteq group.rmap,
         NEW r \in [Blocks -> Nat], Shared(r, Fewer(op.maps, f, run)),
         NEW Y, Y = {b \in run : Owners(op.maps, b) = 1}, NEW cancels \in SUBSET Blocks,
         Edited(group.free \cup Y, group.rmap \ Mappings(run, f, flag), r,
                Fewer(op.maps, f, run), op.ahead, cancels)
  PROVE  Inv'
<1> DEFINE R == group.rmap \ Mappings(run, f, flag)
           F == group.free \cup Y
           m == op.maps
           n == Fewer(m, f, run)
           h == After(group, F, R, r)
<1>1. /\ group \in Groups /\ group.fail = "no" /\ m \in FileMaps /\ Fit(group, m)
      /\ op.ahead \in SUBSET disk.free
  BY Holds
<1>2. h \in Groups /\ Fit(h, n) /\ n \in FileMaps  BY <1>1, FreeFit
<1>3. h.fail = "no"
  <2> HIDE DEF R, F
  <2>1. QED  BY <1>1 DEF After, Groups
<1>4. Edited(F, R, r, n, op.ahead, cancels)  OBVIOUS
<1> HIDE DEF R, F, n
<1>5. QED  BY <1>1, <1>2, <1>3, <1>4, EditInv

\* The extents of a data fork.
LEMMA FreeExtentInv ==
  ASSUME Inv, NEW f \in Data, NEW run, FreeExtent(f, run)
  PROVE  Inv'
<1> DEFINE flag == run \subseteq op.unwritten
           held == Mappings(run, f, flag)
           r == IF HasRefcount THEN Released(run) ELSE group.refs
<1>1. group # None /\ run \in SUBSET op.maps[f] /\ f \in Forks
  BY DEF FreeExtent, Editing, Forks
<1>2. /\ op.maps \in FileMaps /\ Fit(group, op.maps) /\ group.refs \in [Blocks -> Nat]
  BY <1>1, Holds
<1>3. Shared(group.refs, op.maps)  BY <1>2 DEF Fit
<1>4. CASE HasRmap /\ ~(held \subseteq group.rmap)
  <2>1. Drop("reverse map disagrees")  BY <1>4 DEF FreeExtent
  <2>2. QED  BY <2>1, DropInv
<1>5. CASE ~(HasRmap /\ ~(held \subseteq group.rmap)) /\ Freeable(run) \cap group.free # {}
  <2>1. Drop("already free")  BY <1>5 DEF FreeExtent
  <2>2. QED  BY <2>1, DropInv
<1>6. CASE ~(HasRmap /\ ~(held \subseteq group.rmap)) /\ Freeable(run) \cap group.free = {}
  <2>1. Edited(group.free \cup Freeable(run), group.rmap \ held, r,
               Fewer(op.maps, f, run), op.ahead, {})
    BY <1>6 DEF FreeExtent, Fewer
  <2>2. /\ r \in [Blocks -> Nat] /\ Shared(r, Fewer(op.maps, f, run))
        /\ Freeable(run) = {b \in run : Owners(op.maps, b) = 1}
    <3>1. CASE HasRefcount
      <4>1. r = Released(run) /\ Freeable(run) = {b \in run : group.refs[b] = 0}
        BY <3>1 DEF Freeable
      <4> HIDE DEF r
      <4>2. QED  BY <4>1, <3>1, <1>1, <1>2, <1>3, ReleasedFact
    <3>2. CASE ~HasRefcount
      <4>1. r = group.refs /\ Freeable(run) = run  BY <3>2 DEF Freeable
      <4> HIDE DEF r
      <4>2. QED  BY <4>1, <3>2, <1>1, <1>2, <1>3, UnsharedFact
    <3>3. QED  BY <3>1, <3>2
  <2>3. HasRmap => held \subseteq group.rmap  BY <1>6
  <2> DEFINE Y == Freeable(run)
             none == {}
  <2>4. /\ Y = {b \in run : Owners(op.maps, b) = 1} /\ none \in SUBSET Blocks
        /\ Edited(group.free \cup Y, group.rmap \ held, r, Fewer(op.maps, f, run), op.ahead, none)
    BY <2>1, <2>2
  <2> HIDE DEF r, flag, Y, none
  <2>5. QED  BY <1>1, <2>2, <2>3, <2>4, GiveBackInv
<1>7. QED  BY <1>4, <1>5, <1>6

\* The blocks of an attribute fork.
LEMMA ReleaseForkInv ==
  ASSUME Inv, NEW f \in Attrs, ReleaseFork(f)
  PROVE  Inv'
<1> DEFINE run == maps[f]
           held == Mappings(run, f, FALSE)
<1>1. group # None /\ run \in SUBSET op.maps[f] /\ f \in Forks
  BY DEF ReleaseFork, Editing, Forks
<1>2. /\ op.maps \in FileMaps /\ Fit(group, op.maps) /\ group.refs \in [Blocks -> Nat]
  BY <1>1, Holds
<1>3. Shared(group.refs, op.maps)  BY <1>2 DEF Fit
<1>4. run \in SUBSET Blocks  BY <1>1 DEF Inv, Committed, FileMaps
<1>5. CASE HasRmap /\ ~(held \subseteq group.rmap)
  <2>1. Drop("reverse map disagrees")  BY <1>5 DEF ReleaseFork
  <2>2. QED  BY <2>1, DropInv
<1>6. CASE ~(HasRmap /\ ~(held \subseteq group.rmap)) /\ run \cap group.free # {}
  <2>1. Drop("already free")  BY <1>6 DEF ReleaseFork
  <2>2. QED  BY <2>1, DropInv
<1>7. CASE ~(HasRmap /\ ~(held \subseteq group.rmap)) /\ run \cap group.free = {}
  <2>1. Edited(group.free \cup run, group.rmap \ held, group.refs,
               Fewer(op.maps, f, run), op.ahead, run)
    BY <1>7 DEF ReleaseFork, Fewer
  <2> HIDE DEF run
  <2>2. Shared(group.refs, Fewer(op.maps, f, run)) /\ run = {b \in run : Owners(op.maps, b) = 1}
    BY <1>1, <1>2, <1>3, UnsharedFact
  <2>3. HasRmap => held \subseteq group.rmap  BY <1>7
  <2>4. QED  BY <1>1, <1>2, <1>4, <2>1, <2>2, <2>3, GiveBackInv
<1>8. QED  BY <1>5, <1>6, <1>7

\* A write over part of an unwritten extent.
LEMMA ConvertInv ==
  ASSUME Inv, NEW f, NEW run, Convert(f, run)
  PROVE  Inv'
<1>1. group # None /\ UNCHANGED <<disk, maps, unwritten, group>>  BY DEF Convert, Editing
<1>2. op \in Ops  BY <1>1, Holds
<1> DEFINE e == op.edits + 1
           u == op.unwritten \ run
<1>3. op' = [op EXCEPT !.edits = e, !.unwritten = u] /\ e \in Nat /\ u \in SUBSET Blocks
  BY <1>2 DEF Convert, Ops
<1> HIDE DEF e, u
<1>4. /\ op' \in Ops /\ op'.maps = op.maps /\ op'.settled = op.settled
      /\ op'.ahead = op.ahead /\ op'.took = op.took
  BY <1>2, <1>3 DEF Ops
<1>5. Committed'  BY <1>1, CommittedStays DEF Inv
<1>6. Running'  BY <1>1, <1>4 DEF Inv, Running
<1>7. QED  BY <1>5, <1>6 DEF Inv

\* What is laid out agrees with the files as what was held did.
LEMMA IntoItemsFact ==
  ASSUME Inv, group # None, op.took
  PROVE  IntoItems(group) \in Groups /\ Fit(IntoItems(group), op.maps)
<1> DEFINE g == Refill(group)
           h == IntoItems(group)
           m == op.maps
<1>1. group \in Groups /\ Fit(group, m)  BY Holds
<1>2. Good(group, m) /\ Names(group.rmap, group.free, m) /\ Shared(group.refs, m)  BY <1>1 DEF Fit
<1>3. disk.levels \in [Trees -> Nat]  BY DEF Inv, Committed
<1>4. /\ g \in Groups /\ Good(g, m) /\ g.refs = group.refs
      /\ \E X \in SUBSET group.free :
           /\ g.free = group.free \ X
           /\ g.rmap = IF HasRmap THEN group.rmap \cup Mappings(X, "ag", FALSE) ELSE group.rmap
  BY <1>1, <1>2, <1>3, RefillFact
<1>5. h = Relay(Relay(Relay(Relay(g, "bno"), "cnt"), "rmap"), "refc")  BY DEF IntoItems
<1> HIDE DEF g, h
<1>6. Good(h, m) /\ Relaid(g, h)  BY <1>4, <1>5, RelaysFact
<1>7. group.free \in SUBSET Blocks /\ group.free \cap Mapped(m) = {}  BY <1>1, <1>2, GoodUses
<1>8. Names(g.rmap, g.free, m)
  <2>1. PICK X \in SUBSET group.free :
           /\ g.free = group.free \ X
           /\ g.rmap = IF HasRmap THEN group.rmap \cup Mappings(X, "ag", FALSE) ELSE group.rmap
    BY <1>4
  <2>2. Names(IF HasRmap THEN group.rmap \cup Mappings(X, "ag", FALSE) ELSE group.rmap,
              group.free \ X, m)
    BY <1>2, <1>7, RefillNames
  <2>3. QED  BY <2>1, <2>2, Zenon
<1>9. Fit(h, m)  BY <1>2, <1>4, <1>6, <1>8 DEF Fit, Relaid
<1>10. QED  BY <1>6, <1>9 DEF Relaid, h

\* A group and its header.
LEMMA HeadedFact ==
  ASSUME NEW g \in Groups, NEW m, Fit(g, m), g.fail = "no", disk' = Headed(g)
  PROVE  /\ OnDisk' = g
         /\ disk'.levels \in [Trees -> Nat]
         /\ disk'.freeblks = Cardinality(disk'.free) /\ disk'.btreeblks = BtreeBlks(disk')
<1>1. g = [free |-> g.free, list |-> g.list, trees |-> g.trees, rmap |-> g.rmap,
           refs |-> g.refs, fail |-> g.fail]
  BY DEF Groups
<1>2. /\ disk'.free = g.free /\ disk'.list = g.list /\ disk'.trees = g.trees
      /\ disk'.rmap = g.rmap /\ disk'.refs = g.refs /\ disk'.levels = Levels(g)
      /\ disk'.freeblks = Cardinality(g.free) /\ disk'.btreeblks = BtreeBlks(g)
  BY DEF Headed
<1>3. OnDisk' = g  BY <1>1, <1>2 DEF OnDisk
<1>4. Levels(g) \in [Trees -> Nat]
  <2>1. \A t \in Trees : Layout(g, t).levels \in Nat  BY LayoutFact DEF Fit, Plans
  <2>2. QED  BY <2>1 DEF Levels
<1>5. BtreeBlks(disk') = BtreeBlks(g)  BY <1>2 DEF BtreeBlks
<1>6. QED  BY <1>2, <1>3, <1>4, <1>5

\* into_items, and the record.
LEMMA CommitInv ==
  ASSUME Inv, Commit
  PROVE  Inv'
<1> DEFINE g == IntoItems(group)
<1>1. group # None  BY DEF Commit
<1>2. op \in Ops /\ op.maps \in FileMaps /\ (~op.took => op.maps = maps)
      /\ op.unwritten \in SUBSET Blocks
  BY <1>1, Holds DEF Inv, Running, Ops
<1>3. CASE g.fail # "no"
  <2>1. Drop(g.fail)  BY <1>3 DEF Commit
  <2>2. QED  BY <2>1, DropInv
<1>4. CASE g.fail = "no"
  <2>1. /\ disk' = (IF op.took THEN Headed(g) ELSE disk)
        /\ maps' = op.maps /\ unwritten' = op.unwritten /\ group' = None
    BY <1>4 DEF Commit
  <2>2. Committed'
    <3>1. CASE op.took
      <4>1. g \in Groups /\ Fit(g, op.maps)  BY <1>1, <3>1, IntoItemsFact
      <4> HIDE DEF g
      <4>2. /\ OnDisk' = g
            /\ disk'.levels \in [Trees -> Nat]
            /\ disk'.freeblks = Cardinality(disk'.free) /\ disk'.btreeblks = BtreeBlks(disk')
        BY <1>4, <2>1, <3>1, <4>1, HeadedFact
      <4>3. BtreeBlks(disk') = BtreeBlks(disk)'  BY DEF BtreeBlks
      <4>4. QED  BY <1>2, <2>1, <4>1, <4>2, <4>3 DEF Committed
    <3>2. CASE ~op.took
      <4>1. disk' = disk /\ maps' = maps  BY <1>2, <2>1, <3>2
      <4>2. OnDisk' = OnDisk /\ BtreeBlks(disk)' = BtreeBlks(disk)  BY <4>1 DEF OnDisk, BtreeBlks
      <4>3. QED  BY <1>2, <2>1, <4>1, <4>2 DEF Inv, Committed
    <3>3. QED  BY <3>1, <3>2
  <2>3. QED  BY <2>1, <2>2 DEF Inv, Running
<1>5. QED  BY <1>3, <1>4

\* Every step preserves the invariant.
LEMMA NextInv ==
  ASSUME Inv, [Next]_vars
  PROVE  Inv'
<1>1. CASE Open  BY <1>1, OpenInv
<1>2. CASE Abandon  BY <1>2, DropInv DEF Abandon
<1>3. CASE Commit  BY <1>3, CommitInv
<1>4. ASSUME NEW f \in Forks, NEW want \in Wants, NEW align \in Aligns, Take(f, want, align)
      PROVE  Inv'
  BY <1>4, TakeInv
<1>5. ASSUME NEW f \in Forks, NEW want \in Wants, TakeUpTo(f, want) PROVE Inv'
  <2>1. want \in Nat \ {0}  BY GroupAssumption
  <2>2. QED  BY <1>5, <2>1, TakeUpToInv
<1>6. ASSUME NEW f \in Forks, NEW want \in Wants, TakeSettled(f, want) PROVE Inv'
  BY <1>6, TakeSettledInv
<1>7. ASSUME NEW f \in Data, NEW want \in Wants, NEW b \in Blocks, FreeExtent(f, Run(b, want))
      PROVE  Inv'
  BY <1>7, FreeExtentInv
<1>8. ASSUME NEW f \in Data, NEW want \in Wants, NEW b \in Blocks, Convert(f, Run(b, want))
      PROVE  Inv'
  BY <1>8, ConvertInv
<1>9. ASSUME NEW f \in Attrs, ReleaseFork(f) PROVE Inv'  BY <1>9, ReleaseForkInv
<1>10. CASE UNCHANGED vars
  <2>1. UNCHANGED <<disk, maps, unwritten, group, op>>  BY <1>10 DEF vars
  <2>2. Committed'  BY <2>1, CommittedStays DEF Inv
  <2>3. QED  BY <2>1, <2>2 DEF Inv, Running
<1>11. QED  BY <1>1, <1>2, <1>3, <1>4, <1>5, <1>6, <1>7, <1>8, <1>9, <1>10 DEF Next

-----------------------------------------------------------------------------
(* What check expects of the reverse map *)

\* The mappings of the files' blocks, flagged yes where in u, of the group's
\* blocks A, and of the reference counts' blocks B.
Kept(m, u, A, B, no, yes) ==
  (UNION {Mappings(m[f] \ u, f, no) \cup Mappings(m[f] \cap u, f, yes) : f \in Forks})
    \cup Mappings(A, "ag", no) \cup Mappings(B, "refc", no)

\* There are finitely many mappings.
LEMMA MappingFinite == \A R \in SUBSET Mapping : IsFiniteSet(R)
<1>1. IsFiniteSet(Owner)
  <2>1. IsFiniteSet(Forks)  BY GroupAssumption
  <2>2. IsFiniteSet(Forks \cup {"ag"})  BY <2>1, FS_AddElement
  <2>3. IsFiniteSet((Forks \cup {"ag"}) \cup {"refc"})  BY <2>2, FS_AddElement
  <2>4. (Forks \cup {"ag"}) \cup {"refc"} = Owner  BY DEF Owner
  <2>5. QED  BY <2>3, <2>4
<1> DEFINE P == Blocks \X Owner
           Half(flag) == {x \in Mapping : x.unwritten = flag}
<1>2. IsFiniteSet(P)  BY <1>1, BlocksFinite, FS_Product
<1>3. ASSUME NEW flag \in BOOLEAN PROVE IsFiniteSet(Half(flag))
  <2> DEFINE F == [p \in P |-> Owned(p[1], p[2], flag)]
  <2>1. \A p \in P : Owned(p[1], p[2], flag) \in Half(flag)  BY DEF Owned, Mapping
  <2>2. \A x \in Half(flag) : \E p \in P : Owned(p[1], p[2], flag) = x
    <3>1. SUFFICES ASSUME NEW x \in Half(flag) PROVE \E p \in P : Owned(p[1], p[2], flag) = x
      OBVIOUS
    <3>2. /\ x.block \in Blocks /\ x.owner \in Owner
          /\ x = [block |-> x.block, owner |-> x.owner, unwritten |-> flag]
      BY DEF Mapping
    <3>3. <<x.block, x.owner>> \in P  BY <3>2
    <3>4. x = Owned(x.block, x.owner, flag)  BY <3>2, Zenon DEF Owned
    <3>5. QED  BY <3>3, <3>4
  <2> HIDE DEF P, Half
  <2>3. F \in Surjection(P, Half(flag))  BY <2>1, <2>2 DEF Surjection
  <2> HIDE DEF F
  <2>4. QED  BY <1>2, <2>3, FS_Surjection
<1>4. Mapping = Half(TRUE) \cup Half(FALSE)  BY DEF Mapping
<1>5. IsFiniteSet(Half(TRUE)) /\ IsFiniteSet(Half(FALSE))  BY <1>3
<1> HIDE DEF Half
<1>6. IsFiniteSet(Mapping)  BY <1>4, <1>5, FS_Union
<1>7. QED  BY <1>6, FS_Subset

\* What they are.
LEMMA KeptIs ==
  ASSUME NEW m, NEW u, NEW A, NEW B, NEW no, NEW yes
  PROVE  \A x : x \in Kept(m, u, A, B, no, yes) <=>
           \/ \E f \in Forks :
                /\ x.owner = f /\ x.block \in m[f]
                /\ \/ x.block \notin u /\ x = Owned(x.block, f, no)
                   \/ x.block \in u /\ x = Owned(x.block, f, yes)
           \/ x.block \in A /\ x.owner = "ag" /\ x = Owned(x.block, "ag", no)
           \/ x.block \in B /\ x.owner = "refc" /\ x = Owned(x.block, "refc", no)
<1>1. SUFFICES ASSUME NEW x
      PROVE x \in Kept(m, u, A, B, no, yes) <=>
           \/ \E f \in Forks :
                /\ x.owner = f /\ x.block \in m[f]
                /\ \/ x.block \notin u /\ x = Owned(x.block, f, no)
                   \/ x.block \in u /\ x = Owned(x.block, f, yes)
           \/ x.block \in A /\ x.owner = "ag" /\ x = Owned(x.block, "ag", no)
           \/ x.block \in B /\ x.owner = "refc" /\ x = Owned(x.block, "refc", no)
  OBVIOUS
<1>2. x \in Kept(m, u, A, B, no, yes) <=>
        \/ \E f \in Forks : x \in Mappings(m[f] \ u, f, no) \/ x \in Mappings(m[f] \cap u, f, yes)
        \/ x \in Mappings(A, "ag", no)
        \/ x \in Mappings(B, "refc", no)
  <2> DEFINE J(f) == Mappings(m[f] \ u, f, no) \cup Mappings(m[f] \cap u, f, yes)
             a == Mappings(A, "ag", no)
             b == Mappings(B, "refc", no)
             c == UNION {J(f) : f \in Forks}
             k == Kept(m, u, A, B, no, yes)
  <2>1. k = c \cup a \cup b  BY DEF Kept
  <2>2. \A f : x \in J(f) <=> x \in Mappings(m[f] \ u, f, no) \/ x \in Mappings(m[f] \cap u, f, yes)
    OBVIOUS
  <2> HIDE DEF J, a, b, k
  <2>3. x \in c <=> \E f \in Forks : x \in J(f)  BY Zenon
  <2> HIDE DEF c
  <2>4. x \in k <=> x \in c \/ x \in a \/ x \in b  BY <2>1
  <2>5. QED  BY <2>2, <2>3, <2>4, Zenon DEF a, b, k
<1>3. \A f : x \in Mappings(m[f] \ u, f, no) <=>
               x.block \in m[f] \ u /\ x.owner = f /\ x = Owned(x.block, f, no)
  BY MappingsHas
<1>4. \A f : x \in Mappings(m[f] \cap u, f, yes) <=>
               x.block \in m[f] \cap u /\ x.owner = f /\ x = Owned(x.block, f, yes)
  BY MappingsHas
<1>5. x \in Mappings(A, "ag", no) <=> x.block \in A /\ x.owner = "ag" /\ x = Owned(x.block, "ag", no)
  BY MappingsHas
<1>6. x \in Mappings(B, "refc", no) <=> x.block \in B /\ x.owner = "refc" /\ x = Owned(x.block, "refc", no)
  BY MappingsHas
<1>7. QED  BY <1>2, <1>3, <1>4, <1>5, <1>6

\* They name for every block what is due.
LEMMA KeptNames ==
  ASSUME NEW m \in FileMaps, NEW u, NEW A \in SUBSET Blocks, NEW B \in SUBSET Blocks, NEW F,
         NEW no \in BOOLEAN, NEW yes \in BOOLEAN,
         A \cap B = {}, \A b \in Blocks : b \in A \/ b \in B <=> b \notin F /\ b \notin Mapped(m)
  PROVE  /\ Kept(m, u, A, B, no, yes) \in SUBSET Mapping
         /\ Unique(Kept(m, u, A, B, no, yes))
         /\ \A b \in Blocks, o \in Nameable : Has(Kept(m, u, A, B, no, yes), b, o) <=> Due(F, m, b, o)
<1> DEFINE K == Kept(m, u, A, B, no, yes)
<1>1. \A x : x \in K <=>
           \/ \E f \in Forks :
                /\ x.owner = f /\ x.block \in m[f]
                /\ \/ x.block \notin u /\ x = Owned(x.block, f, no)
                   \/ x.block \in u /\ x = Owned(x.block, f, yes)
           \/ x.block \in A /\ x.owner = "ag" /\ x = Owned(x.block, "ag", no)
           \/ x.block \in B /\ x.owner = "refc" /\ x = Owned(x.block, "refc", no)
  BY KeptIs
<1> HIDE DEF K
<1>2. "ag" \notin Forks /\ "refc" \notin Forks  BY GroupAssumption
<1>3. \A b, o, w : Owned(b, o, w).block = b /\ Owned(b, o, w).owner = o  BY DEF Owned
<1>4. K \in SUBSET Mapping
  <2>1. SUFFICES ASSUME NEW x \in K PROVE x \in Mapping  OBVIOUS
  <2>2. \A b \in Blocks : \A o \in Owner : Owned(b, o, yes) \in Mapping /\ Owned(b, o, no) \in Mapping
    BY DEF Owned, Mapping
  <2>3. \A f \in Forks : m[f] \subseteq Blocks /\ f \in Owner  BY DEF FileMaps, Owner
  <2>4. "ag" \in Owner /\ "refc" \in Owner  BY DEF Owner
  <2>5. QED  BY <1>1, <2>2, <2>3, <2>4
<1>5. Unique(K)
  <2>1. SUFFICES ASSUME NEW x \in K, NEW y \in K, x.block = y.block, Named(x) = Named(y)
                 PROVE  x = y
    BY DEF Unique
  <2>2. CASE \E f \in Forks :
                /\ x.owner = f /\ x.block \in m[f]
                /\ \/ x.block \notin u /\ x = Owned(x.block, f, no)
                   \/ x.block \in u /\ x = Owned(x.block, f, yes)
    <3>1. x.owner \in Forks /\ y.owner = x.owner  BY <1>2, <2>1, <2>2 DEF Named
    <3>2. QED  BY <1>1, <1>2, <2>1, <2>2, <3>1
  <2>3. CASE x.block \in A /\ x.owner = "ag" /\ x = Owned(x.block, "ag", no)
    <3>1. y.owner \notin Forks /\ y.block \notin B  BY <1>2, <2>1, <2>3 DEF Named
    <3>2. QED  BY <1>1, <2>1, <2>3, <3>1
  <2>4. CASE x.block \in B /\ x.owner = "refc" /\ x = Owned(x.block, "refc", no)
    <3>1. y.owner \notin Forks /\ y.block \notin A  BY <1>2, <2>1, <2>4 DEF Named
    <3>2. QED  BY <1>1, <2>1, <2>4, <3>1
  <2>5. QED  BY <1>1, <2>2, <2>3, <2>4
<1>6. ASSUME NEW b \in Blocks, NEW o \in Nameable
      PROVE  Has(K, b, o) <=> Due(F, m, b, o)
  <2>1. CASE o = "ag"
    <3>1. Due(F, m, b, o) <=> b \in A \/ b \in B  BY <2>1 DEF Due
    <3>2. ASSUME Has(K, b, o) PROVE b \in A \/ b \in B
      <4>1. PICK x \in K : x.block = b /\ Named(x) = "ag"  BY <2>1, <3>2 DEF Has
      <4>2. x.owner \notin Forks  BY <1>2, <4>1 DEF Named
      <4>3. QED  BY <1>1, <4>1, <4>2
    <3>3. ASSUME b \in A PROVE Has(K, b, o)
      <4>1. Owned(b, "ag", no) \in K /\ Owned(b, "ag", no).block = b  BY <1>1, <1>3, <3>3
      <4>2. Named(Owned(b, "ag", no)) = "ag"  BY <1>3 DEF Named
      <4>3. QED  BY <2>1, <4>1, <4>2 DEF Has
    <3>4. ASSUME b \in B PROVE Has(K, b, o)
      <4>1. Owned(b, "refc", no) \in K /\ Owned(b, "refc", no).block = b  BY <1>1, <1>3, <3>4
      <4>2. Named(Owned(b, "refc", no)) = "ag"  BY <1>3 DEF Named
      <4>3. QED  BY <2>1, <4>1, <4>2 DEF Has
    <3>5. QED  BY <3>1, <3>2, <3>3, <3>4
  <2>2. CASE o # "ag"
    <3>1. o \in Forks /\ (Due(F, m, b, o) <=> b \in m[o])  BY <2>2 DEF Due, Nameable
    <3>2. ASSUME Has(K, b, o) PROVE b \in m[o]
      <4>1. PICK x \in K : x.block = b /\ Named(x) = o  BY <3>2 DEF Has
      <4>2. x.owner = o  BY <2>2, <4>1 DEF Named
      <4>3. QED  BY <1>1, <1>2, <3>1, <4>1, <4>2
    <3>3. ASSUME b \in m[o] PROVE Has(K, b, o)
      <4>1. \A w : Named(Owned(b, o, w)) = o  BY <1>2, <1>3, <3>1 DEF Named
      <4>2. CASE b \in u
        <5>1. Owned(b, o, yes) \in K  BY <1>1, <1>3, <3>1, <3>3, <4>2
        <5>2. QED  BY <1>3, <4>1, <5>1 DEF Has
      <4>3. CASE b \notin u
        <5>1. Owned(b, o, no) \in K  BY <1>1, <1>3, <3>1, <3>3, <4>3
        <5>2. QED  BY <1>3, <4>1, <5>1 DEF Has
      <4>4. QED  BY <4>2, <4>3
    <3>4. QED  BY <3>1, <3>2, <3>3
  <2>3. QED  BY <2>1, <2>2
<1>7. QED  BY <1>4, <1>5, <1>6 DEF K

\* Two reverse maps that name the same are as large as each other.
LEMMA SameNames ==
  ASSUME NEW R \in SUBSET Mapping, NEW E \in SUBSET Mapping, Unique(R), Unique(E),
         \A b \in Blocks, o \in Nameable : Has(R, b, o) <=> Has(E, b, o)
  PROVE  /\ {<<x.block, Named(x)>> : x \in R} = {<<x.block, Named(x)>> : x \in E}
         /\ Cardinality(R) = Cardinality(E)
<1>1. \A x \in Mapping : x.block \in Blocks /\ Named(x) \in Nameable
  BY DEF Mapping, Owner, Named, Nameable
<1>2. \A x \in R : \E y \in E : y.block = x.block /\ Named(y) = Named(x)
  <2>1. SUFFICES ASSUME NEW x \in R PROVE \E y \in E : y.block = x.block /\ Named(y) = Named(x)
    OBVIOUS
  <2>2. Has(R, x.block, Named(x)) /\ x.block \in Blocks /\ Named(x) \in Nameable
    BY <1>1 DEF Has
  <2>3. QED  BY <2>2 DEF Has
<1>3. \A y \in E : \E x \in R : y.block = x.block /\ Named(y) = Named(x)
  <2>1. SUFFICES ASSUME NEW y \in E PROVE \E x \in R : y.block = x.block /\ Named(y) = Named(x)
    OBVIOUS
  <2>2. Has(E, y.block, Named(y)) /\ y.block \in Blocks /\ Named(y) \in Nameable
    BY <1>1 DEF Has
  <2>3. QED  BY <2>2 DEF Has
<1>4. {<<x.block, Named(x)>> : x \in R} = {<<x.block, Named(x)>> : x \in E}
  BY <1>2, <1>3
<1> DEFINE F == [x \in R |-> CHOOSE y \in E : y.block = x.block /\ Named(y) = Named(x)]
<1>5. \A x \in R : F[x] \in E /\ F[x].block = x.block /\ Named(F[x]) = Named(x)
  BY <1>2
<1>6. F \in [R -> E]  BY <1>5
<1> HIDE DEF F
<1>7. F \in Surjection(R, E)
  <2>1. ASSUME NEW y \in E PROVE \E x \in R : F[x] = y
    <3>1. PICK x \in R : y.block = x.block /\ Named(y) = Named(x)  BY <1>3
    <3>2. F[x] = y  BY <1>5, <3>1 DEF Unique
    <3>3. QED  BY <3>2
  <2>2. QED  BY <1>6, <2>1 DEF Surjection
<1>8. F \in Injection(R, E)
  <2>1. \A x \in R : \A y \in R : F[x] = F[y] => x = y  BY <1>5 DEF Unique
  <2>2. QED  BY <1>6, <2>1 DEF Injection, IsInjective
<1>9. IsFiniteSet(R)  BY MappingFinite
<1>10. QED  BY <1>4, <1>7, <1>8, <1>9, FS_Surjection

-----------------------------------------------------------------------------
(* The group as mkfs leaves it *)

\* How many trees there are, and how long the list is.
LEMMA StartSizes ==
  /\ Cardinality(Present) = 2 + (IF HasRmap THEN 1 ELSE 0) + (IF HasRefcount THEN 1 ELSE 0)
  /\ Need([t \in Trees |-> 1]) \in 1 .. Capacity
<1>1. IsFiniteSet({"bno", "cnt"}) /\ Cardinality({"bno", "cnt"}) = 2
  <2>1. IsFiniteSet({"bno"}) /\ Cardinality({"bno"}) = 1  BY FS_Singleton
  <2>2. /\ IsFiniteSet({"bno"} \cup {"cnt"})
        /\ Cardinality({"bno"} \cup {"cnt"}) = Cardinality({"bno"}) + 1
    BY <2>1, FS_AddElement
  <2>3. {"bno"} \cup {"cnt"} = {"bno", "cnt"}  OBVIOUS
  <2>4. QED  BY <2>1, <2>2, <2>3
<1> DEFINE two   == {"bno", "cnt"}
           three == two \cup (IF HasRmap THEN {"rmap"} ELSE {})
<1>2. IsFiniteSet(three) /\ Cardinality(three) = 2 + (IF HasRmap THEN 1 ELSE 0)
  <2>1. CASE HasRmap
    <3>1. three = two \cup {"rmap"} /\ "rmap" \notin two  BY <2>1
    <3>2. IsFiniteSet(three) /\ Cardinality(three) = Cardinality(two) + 1
      BY <1>1, <3>1, FS_AddElement
    <3>3. QED  BY <1>1, <2>1, <3>2
  <2>2. CASE ~HasRmap
    <3>1. three = two  BY <2>2
    <3>2. QED  BY <1>1, <2>2, <3>1
  <2>3. QED  BY <2>1, <2>2
<1>3. "refc" \notin three  OBVIOUS
<1>4. Present = three \cup (IF HasRefcount THEN {"refc"} ELSE {})  BY DEF Present
<1> HIDE DEF three
<1>5. Cardinality(Present) = 2 + (IF HasRmap THEN 1 ELSE 0) + (IF HasRefcount THEN 1 ELSE 0)
  <2>1. CASE HasRefcount
    <3>1. Cardinality(three \cup {"refc"}) = Cardinality(three) + 1
      BY <1>2, <1>3, FS_AddElement
    <3>2. QED  BY <1>2, <1>4, <2>1, <3>1
  <2>2. CASE ~HasRefcount
    BY <1>2, <1>4, <2>2
  <2>3. QED  BY <2>1, <2>2
<1>6. Need([t \in Trees |-> 1]) \in 1 .. Capacity
  <2> DEFINE one == [t \in Trees |-> 1]
  <2>1. one["bno"] = 1 /\ one["cnt"] = 1 /\ one["rmap"] = 1  BY DEF Trees
  <2> HIDE DEF one
  <2>2. Need(one) \in 1 .. Capacity  BY <2>1, GroupAssumption DEF Need
  <2>3. QED  BY <2>2 DEF one
<1>7. QED  BY <1>5, <1>6

\* A ring of c slots from the last on: where the i-th of its entries is.
LEMMA RingLast ==
  ASSUME NEW i \in 1 .. Capacity
  PROVE  /\ Capacity - 1 + i - 1 \in Nat /\ Capacity - 1 + i - 1 < 2 * Capacity
         /\ Wrap(Wrap(Capacity - 1 + i - 1) + Capacity - (Capacity - 1)) = i - 1
BY GroupAssumption DEF Wrap

\* The list is sound, and holds the blocks after the roots in order.
LEMMA StartListFact ==
  /\ Sound(StartList) /\ StartList.count = Need([t \in Trees |-> 1])
  /\ \A i \in 1 .. StartList.count : Entries(StartList)[i] = Cardinality(Present) + i
<1> DEFINE n == Need([t \in Trees |-> 1])
           p == Cardinality(Present)
           K(i) == (i + Capacity - (Capacity - 1)) % Capacity
           slots == [i \in 0 .. Capacity - 1 |-> IF K(i) < n THEN p + 1 + K(i) ELSE None]
<1>1. p \in Nat /\ n \in 1 .. Capacity
  <2>1. p = 2 + (IF HasRmap THEN 1 ELSE 0) + (IF HasRefcount THEN 1 ELSE 0)  BY StartSizes
  <2> HIDE DEF p
  <2>2. p \in Nat  BY <2>1
  <2>3. QED  BY <2>2, StartSizes
<1>2. Capacity \in Nat \ {0}  BY GroupAssumption
<1>3. StartList = [slot |-> slots, first |-> Capacity - 1,
                   last |-> (Capacity - 1 + n - 1) % Capacity, count |-> n]
  BY DEF StartList
<1>4. StartList.count = n  BY <1>3
<1>5. p + n <= LastBlock  BY <1>4, StartsAssumption
<1> HIDE DEF n, p
<1>6. /\ Capacity - 1 + n - 1 \in Nat /\ Capacity - 1 + n - 1 < 2 * Capacity
  BY <1>1, <1>2
<1> DEFINE z == (Capacity - 1 + n - 1) % Capacity
<1>7. z = Wrap(Capacity - 1 + n - 1) /\ z \in 0 .. Capacity - 1
  BY <1>6, WrapFact
<1>8. \A i \in 0 .. Capacity - 1 : K(i) = Wrap(i + Capacity - (Capacity - 1)) /\ K(i) \in 0 .. Capacity - 1
  <2>1. SUFFICES ASSUME NEW i \in 0 .. Capacity - 1
                 PROVE  K(i) = Wrap(i + Capacity - (Capacity - 1)) /\ K(i) \in 0 .. Capacity - 1
    OBVIOUS
  <2>2. i + Capacity - (Capacity - 1) \in Nat /\ i + Capacity - (Capacity - 1) < 2 * Capacity
    BY <1>2
  <2>3. QED  BY <2>2, WrapFact
<1> HIDE DEF K
<1>9. slots \in [0 .. Capacity - 1 -> Blocks \cup {None}]
  <2>1. \A i \in 0 .. Capacity - 1 : K(i) < n => p + 1 + K(i) \in Blocks
    BY <1>1, <1>2, <1>5, <1>8, AgSpaceAssumption DEF Blocks
  <2>2. QED  BY <2>1
<1>10. \A i \in 0 .. Capacity - 1 : slots[i] = IF K(i) < n THEN p + 1 + K(i) ELSE None
  OBVIOUS
<1> HIDE DEF slots, z
<1>11. StartList = [slot |-> slots, first |-> Capacity - 1, last |-> z, count |-> n]
  BY <1>3 DEF z
<1>12. /\ StartList.slot = slots /\ StartList.first = Capacity - 1
       /\ StartList.last = z
  BY <1>11
<1>13. StartList \in Rings
  <2>1. Capacity - 1 \in 0 .. Capacity - 1 /\ n \in 0 .. Capacity  BY <1>1, <1>2
  <2>2. QED  BY <1>7, <1>9, <1>11, <2>1 DEF Rings
<1>14. Sound(StartList)  BY <1>4, <1>7, <1>12, <1>13 DEF Sound
<1>15. ASSUME NEW i \in 1 .. n PROVE Entries(StartList)[i] = p + i
  <2>1. i \in 1 .. Capacity  BY <1>1, <1>2
  <2> DEFINE w == Wrap(Capacity - 1 + i - 1)
  <2>2. Entries(StartList)[i] = slots[w] /\ w \in 0 .. Capacity - 1
    BY <1>4, <1>12, <1>14, EntriesFact
  <2>3. Wrap(w + Capacity - (Capacity - 1)) = i - 1  BY <2>1, RingLast
  <2> HIDE DEF w
  <2>4. K(w) = i - 1  BY <1>8, <2>2, <2>3
  <2>5. slots[w] = p + 1 + (i - 1)  BY <1>1, <1>10, <2>2, <2>4
  <2>6. QED  BY <1>1, <2>2, <2>5
<1>16. QED  BY <1>4, <1>14, <1>15 DEF n, p

\* A sequence of one block, or none.
LEMMA ShortSeqs ==
  /\ \A b : Members(<<b>>) = {b} /\ Distinct(<<b>>)
  /\ \A b \in Blocks : <<b>> \in Seq(Blocks)
  /\ Members(<< >>) = {} /\ Distinct(<< >>) /\ << >> \in Seq(Blocks)
<1>1. ASSUME NEW b PROVE Members(<<b>>) = {b} /\ Distinct(<<b>>)
  <2>1. Len(<<b>>) = 1 /\ <<b>>[1] = b  OBVIOUS
  <2>2. 1 .. 1 = {1}  OBVIOUS
  <2>3. QED  BY <2>1, <2>2 DEF Members, Distinct
<1>2. Len(<< >>) = 0 /\ 1 .. 0 = {}  OBVIOUS
<1>3. Members(<< >>) = {} /\ Distinct(<< >>)  BY <1>2 DEF Members, Distinct
<1>4. QED  BY <1>1, <1>3

\* Each tree has its root, and they are the first blocks.
LEMMA RootsFact ==
  LET p == Cardinality(Present)
  IN  /\ \A t \in Trees : /\ Roots[t] \in Seq(Blocks) /\ Distinct(Roots[t])
                          /\ t \notin Present => Roots[t] = << >>
                          /\ Members(Roots[t]) \subseteq 1 .. p
      /\ \A t, u \in Trees : t # u => Members(Roots[t]) \cap Members(Roots[u]) = {}
      /\ \A b \in 1 .. p : \E t \in Trees : b \in Members(Roots[t])
      /\ HasRmap => /\ Members(Roots["bno"]) = {1} /\ Members(Roots["cnt"]) = {2}
                    /\ Members(Roots["rmap"]) = {3}
                    /\ Members(Roots["refc"]) = IF HasRefcount THEN {4} ELSE {}
<1> DEFINE p == Cardinality(Present)
           M(t) == Members(Roots[t])
<1>1. p = 2 + (IF HasRmap THEN 1 ELSE 0) + (IF HasRefcount THEN 1 ELSE 0)  BY StartSizes
<1>2. p <= LastBlock
  <2>1. StartList.count \in 1 .. Capacity  BY StartListFact, StartSizes
  <2>2. p + StartList.count <= LastBlock  BY StartsAssumption
  <2> HIDE DEF p
  <2>3. p \in Nat  BY <1>1
  <2>4. QED  BY <2>1, <2>2, <2>3, GroupAssumption, AgSpaceAssumption
<1> HIDE DEF p
<1>3. Trees = {"bno", "cnt", "rmap", "refc"}  BY DEF Trees
<1>4. /\ Roots["bno"] = <<1>> /\ Roots["cnt"] = <<2>>
      /\ Roots["rmap"] = IF HasRmap THEN <<3>> ELSE << >>
      /\ Roots["refc"] = IF ~HasRefcount THEN << >> ELSE IF HasRmap THEN <<4>> ELSE <<3>>
  BY DEF Roots
<1>5. /\ M("bno") = {1} /\ M("cnt") = {2}
      /\ M("rmap") = IF HasRmap THEN {3} ELSE {}
      /\ M("refc") = IF ~HasRefcount THEN {} ELSE IF HasRmap THEN {4} ELSE {3}
  BY <1>4, ShortSeqs
<1>6. \A t \in Trees : Roots[t] \in Seq(Blocks) /\ Distinct(Roots[t])
  <2>1. 1 \in Blocks /\ 2 \in Blocks  BY <1>1, <1>2, AgSpaceAssumption DEF Blocks
  <2>2. HasRmap \/ HasRefcount => 3 \in Blocks  BY <1>1, <1>2, AgSpaceAssumption DEF Blocks
  <2>3. HasRmap /\ HasRefcount => 4 \in Blocks  BY <1>1, <1>2, AgSpaceAssumption DEF Blocks
  <2>4. Roots["bno"] \in Seq(Blocks) /\ Roots["cnt"] \in Seq(Blocks)  BY <1>4, <2>1, ShortSeqs
  <2>5. Roots["rmap"] \in Seq(Blocks)  BY <1>4, <2>2, ShortSeqs
  <2>6. Roots["refc"] \in Seq(Blocks)  BY <1>4, <2>2, <2>3, ShortSeqs
  <2>7. Distinct(Roots["bno"]) /\ Distinct(Roots["cnt"]) /\ Distinct(Roots["rmap"])
    BY <1>4, ShortSeqs
  <2>8. Distinct(Roots["refc"])  BY <1>4, ShortSeqs
  <2>9. QED  BY <1>3, <2>4, <2>5, <2>6, <2>7, <2>8
<1>7. \A t \in Trees : t \notin Present => Roots[t] = << >>
  BY <1>3, <1>4 DEF Present
<1> HIDE DEF M
<1>8. \A t \in Trees : M(t) \subseteq 1 .. p
  <2>1. M("bno") \subseteq 1 .. p /\ M("cnt") \subseteq 1 .. p  BY <1>1, <1>5
  <2>2. M("rmap") \subseteq 1 .. p  BY <1>1, <1>5
  <2>3. M("refc") \subseteq 1 .. p  BY <1>1, <1>5
  <2>4. QED  BY <1>3, <2>1, <2>2, <2>3
<1>9. \A t, u \in Trees : t # u => M(t) \cap M(u) = {}
  <2>1. /\ M("bno") \cap M("cnt") = {} /\ M("bno") \cap M("rmap") = {}
        /\ M("bno") \cap M("refc") = {} /\ M("cnt") \cap M("rmap") = {}
        /\ M("cnt") \cap M("refc") = {} /\ M("rmap") \cap M("refc") = {}
    BY <1>5
  <2>2. QED  BY <1>3, <2>1
<1>10. \A b \in 1 .. p : \E t \in Trees : b \in M(t)
  <2>1. ASSUME NEW b \in 1 .. p
        PROVE  b \in M("bno") \/ b \in M("cnt") \/ b \in M("rmap") \/ b \in M("refc")
    <3>1. b = 1 \/ b = 2 \/ b = 3 \/ b = 4  BY <1>1
    <3>2. b = 3 => HasRmap \/ HasRefcount  BY <1>1
    <3>3. b = 4 => HasRmap /\ HasRefcount  BY <1>1
    <3>4. QED  BY <1>5, <3>1, <3>2, <3>3
  <2>2. QED  BY <1>3, <2>1
<1>11. QED  BY <1>5, <1>6, <1>7, <1>8, <1>9, <1>10 DEF M, p

\* Where everything is at first: the roots, the list, and past them the files.
LEMMA StartUses ==
  ASSUME NEW m \in [Forks -> SUBSET Rest], NEW u
  PROVE  LET g == StartGroup(m, u)
             p == Cardinality(Present)
             n == StartList.count
         IN  /\ p \in Nat /\ n \in Nat /\ p + n <= LastBlock
             /\ g.list = StartList /\ g.trees = Roots
             /\ ListSet(StartList) = p + 1 .. p + n /\ Once(StartList)
             /\ Mapped(m) \subseteq p + n + 1 .. LastBlock
             /\ g.free = {b \in Blocks : b > p + n /\ b \notin Mapped(m)}
             /\ \A b \in Blocks : (\E t \in Trees : b \in Members(Roots[t])) <=> b <= p
<1> DEFINE g == StartGroup(m, u)
           p == Cardinality(Present)
           n == StartList.count
           roots == TreeBlocks([trees |-> Roots])
<1>1. p \in Nat /\ n \in Nat
  <2>1. p = 2 + (IF HasRmap THEN 1 ELSE 0) + (IF HasRefcount THEN 1 ELSE 0)  BY StartSizes
  <2>2. n \in 1 .. Capacity  BY StartListFact, StartSizes
  <2> HIDE DEF p, n
  <2>3. QED  BY <2>1, <2>2, GroupAssumption
<1>2. p + n <= LastBlock  BY StartsAssumption
<1>3. /\ g.list = StartList /\ g.trees = Roots
      /\ g.free = Blocks \ (Mapped(m) \cup ListSet(StartList) \cup roots)
  BY DEF StartGroup, Mapped, ListSet
<1>4. \A i \in 1 .. n : Entries(StartList)[i] = p + i  BY StartListFact
<1>5. ListSet(StartList) = {Entries(StartList)[i] : i \in 1 .. n}  BY DEF ListSet
<1>6. Rest = p + n + 1 .. LastBlock  BY DEF Rest
<1>7. \A t \in Trees : Members(Roots[t]) \subseteq 1 .. p  BY RootsFact
<1>8. \A b \in 1 .. p : \E t \in Trees : b \in Members(Roots[t])  BY RootsFact
<1>9. Once(StartList)
  <2>1. SUFFICES ASSUME NEW i \in 1 .. n, NEW j \in 1 .. n, Entries(StartList)[i] = Entries(StartList)[j]
                 PROVE  i = j
    BY DEF Once
  <2>2. p + i = p + j  BY <1>4, <2>1
  <2> HIDE DEF p, n
  <2>3. QED  BY <1>1, <2>2
<1>10. \A b : b \in roots <=> \E t \in Trees : b \in Members(Roots[t])
  <2> DEFINE r == [trees |-> Roots]
  <2>1. r.trees = Roots  OBVIOUS
  <2> HIDE DEF r
  <2>2. roots = UNION {Members(Roots[t]) : t \in Trees}
    <3>1. TreeBlocks(r) = UNION {Members(r.trees[t]) : t \in Trees}  BY Zenon DEF TreeBlocks, Members
    <3>2. roots = TreeBlocks(r)  BY DEF r
    <3> HIDE DEF roots
    <3>3. QED  BY <2>1, <3>1, <3>2
  <2> HIDE DEF roots
  <2>3. QED  BY <2>2, Zenon
<1> HIDE DEF p, n, roots, g
<1>11. ListSet(StartList) = p + 1 .. p + n
  <2>1. ASSUME NEW b \in p + 1 .. p + n PROVE \E i \in 1 .. n : b = p + i
    <3>1. b - p \in 1 .. n /\ b = p + (b - p)  BY <1>1
    <3>2. QED  BY <3>1
  <2>2. \A i \in 1 .. n : p + i \in p + 1 .. p + n  BY <1>1
  <2>3. ASSUME NEW b PROVE b \in ListSet(StartList) <=> b \in p + 1 .. p + n
    <3>1. b \in ListSet(StartList) <=> \E i \in 1 .. n : b = Entries(StartList)[i]  BY <1>5, Zenon
    <3>2. QED  BY <1>4, <2>1, <2>2, <3>1
  <2>4. QED  BY <2>3
<1>12. Mapped(m) \subseteq p + n + 1 .. LastBlock  BY <1>6 DEF Mapped
<1>13. \A b \in Blocks : (\E t \in Trees : b \in Members(Roots[t])) <=> b <= p
  <2>1. \A b \in Blocks : b <= p => b \in 1 .. p  BY <1>1, AgSpaceAssumption DEF Blocks
  <2>2. \A b \in 1 .. p : b <= p  BY <1>1
  <2>3. QED  BY <1>7, <1>8, <2>1, <2>2
<1>14. ASSUME NEW b \in Blocks
       PROVE  b \in g.free <=> b > p + n /\ b \notin Mapped(m)
  <2>1. b \in g.free <=> b \notin Mapped(m) /\ b \notin ListSet(StartList) /\ b \notin roots
    BY <1>3
  <2>2. b \in roots <=> b <= p  BY <1>10, <1>13
  <2>3. b \in Nat /\ 1 <= b  BY AgSpaceAssumption DEF Blocks
  <2>4. b \in ListSet(StartList) <=> p < b /\ b <= p + n  BY <1>1, <1>11, <2>3
  <2>5. QED  BY <1>1, <2>1, <2>2, <2>3, <2>4
<1>15. g.free \subseteq Blocks  BY <1>3
<1>16. g.free = {b \in Blocks : b > p + n /\ b \notin Mapped(m)}  BY <1>14, <1>15
<1>17. QED  BY <1>1, <1>2, <1>3, <1>9, <1>11, <1>12, <1>13, <1>16 DEF p, n, g

\* Every block has one use.
LEMMA StartParted ==
  ASSUME NEW m \in [Forks -> SUBSET Rest], NEW u
  PROVE  Parted(UsesOf(StartGroup(m, u), m))
<1> DEFINE g == StartGroup(m, u)
           p == Cardinality(Present)
           n == StartList.count
           U == UsesOf(g, m)
<1>1. /\ p \in Nat /\ n \in Nat /\ p + n <= LastBlock
      /\ g.list = StartList /\ g.trees = Roots
      /\ ListSet(StartList) = p + 1 .. p + n
      /\ Mapped(m) \subseteq p + n + 1 .. LastBlock
      /\ g.free = {b \in Blocks : b > p + n /\ b \notin Mapped(m)}
      /\ \A b \in Blocks : (\E t \in Trees : b \in Members(Roots[t])) <=> b <= p
  BY StartUses
<1>2. /\ U["free"] = g.free /\ U["list"] = ListSet(StartList) /\ U["files"] = Mapped(m)
      /\ \A t \in Trees : U[t] = Members(Roots[t])
  BY <1>1, UsesAt
<1>3. /\ \A t \in Trees : Members(Roots[t]) \subseteq 1 .. p
      /\ \A t, v \in Trees : t # v => Members(Roots[t]) \cap Members(Roots[v]) = {}
  BY RootsFact
<1> HIDE DEF g, p, n, U
<1>4. LastBlock \in Nat /\ Blocks = 1 .. LastBlock  BY AgSpaceAssumption DEF Blocks
<1>5. Uses = Trees \cup {"free", "list", "files"}  BY DEF Uses
<1>6. /\ \A t \in Trees : \A b \in U[t] : b \in Blocks /\ b <= p
      /\ \A b \in U["list"] : b \in Blocks /\ p < b /\ b <= p + n
      /\ \A b \in U["files"] : b \in Blocks /\ p + n < b
      /\ \A b \in U["free"] : b \in Blocks /\ p + n < b /\ b \notin U["files"]
  <2>1. \A t \in Trees : \A b \in U[t] : b \in Blocks /\ b <= p  BY <1>1, <1>2, <1>3, <1>4
  <2>2. \A b \in U["list"] : b \in Blocks /\ p < b /\ b <= p + n  BY <1>1, <1>2, <1>4
  <2>3. \A b \in U["files"] : b \in Blocks /\ p + n < b  BY <1>1, <1>2, <1>4
  <2>4. \A b \in U["free"] : b \in Blocks /\ p + n < b /\ b \notin U["files"]
    BY <1>1, <1>2, <1>4
  <2>5. QED  BY <2>1, <2>2, <2>3, <2>4
<1>7. ASSUME NEW b \in Blocks PROVE \E x \in Uses : b \in U[x]
  <2>1. b \in Nat  BY <1>4
  <2>2. CASE b <= p
    <3>1. PICK t \in Trees : b \in Members(Roots[t])  BY <1>1, <2>2
    <3>2. QED  BY <1>2, <1>5, <3>1
  <2>3. CASE p < b /\ b <= p + n
    <3>1. b \in U["list"]  BY <1>1, <1>2, <2>1, <2>3
    <3>2. QED  BY <1>5, <3>1
  <2>4. CASE p + n < b
    <3>1. b \in U["files"] \/ b \in U["free"]  BY <1>1, <1>2, <2>1, <2>4
    <3>2. QED  BY <1>5, <3>1
  <2>5. QED  BY <1>1, <2>1, <2>2, <2>3, <2>4
<1>8. \A x \in Uses : U[x] \subseteq Blocks  BY <1>5, <1>6
<1>9. ASSUME NEW x \in Uses, NEW y \in Uses, x # y, NEW b \in U[x], b \in U[y]
      PROVE  FALSE
  <2>1. b \in Nat  BY <1>4, <1>8, <1>9
  <2>2. CASE x \in Trees /\ y \in Trees  BY <1>2, <1>3, <1>9, <2>2
  <2>3. CASE x \in Trees /\ y \notin Trees
    <3>1. b <= p /\ p < b  BY <1>1, <1>5, <1>6, <1>9, <2>1, <2>3
    <3>2. QED  BY <1>1, <2>1, <3>1
  <2>4. CASE x \notin Trees /\ y \in Trees
    <3>1. b <= p /\ p < b  BY <1>1, <1>5, <1>6, <1>9, <2>1, <2>4
    <3>2. QED  BY <1>1, <2>1, <3>1
  <2>5. CASE x \notin Trees /\ y \notin Trees
    <3>1. x \in {"free", "list", "files"} /\ y \in {"free", "list", "files"}
      BY <1>5, <1>9, <2>5
    <3>2. b \in U["list"] => ~(p + n < b)  BY <1>1, <1>6, <2>1
    <3>3. QED  BY <1>6, <1>9, <3>1, <3>2
  <2>6. QED  BY <2>2, <2>3, <2>4, <2>5
<1>10. UNION {U[x] : x \in Uses} = Blocks  BY <1>7, <1>8
<1>11. QED  BY <1>9, <1>10 DEF Parted, U, g

\* The reverse map mkfs writes is the one check expects.
LEMMA StartNames ==
  ASSUME NEW m \in [Forks -> SUBSET Rest], NEW u
  PROVE  LET g == StartGroup(m, u)
         IN  g.rmap \in SUBSET Mapping /\ Names(g.rmap, g.free, m)
<1> DEFINE g == StartGroup(m, u)
           p == Cardinality(Present)
           n == StartList.count
           A == ListSet(StartList) \cup {1, 2, 3}
           B == IF HasRefcount THEN {4} ELSE {}
<1>1. CASE ~HasRmap
  <2>1. g.rmap = {}  BY <1>1 DEF StartGroup
  <2>2. QED  BY <1>1, <2>1 DEF Names
<1>2. CASE HasRmap
  <2>1. g.rmap = Kept(m, u, A, B, FALSE, TRUE)
    <3> DEFINE Files == UNION {Mappings(m[f] \ u, f, FALSE) \cup Mappings(m[f] \cap u, f, TRUE)
                                 : f \in Forks}
               ours == Mappings(A, "ag", FALSE)
               more == IF HasRefcount THEN Mappings({4}, "refc", FALSE) ELSE {}
    <3>1. g.rmap = Files \cup ours \cup more
      BY <1>2 DEF StartGroup, ListSet
    <3>2. Kept(m, u, A, B, FALSE, TRUE) = Files \cup ours \cup Mappings(B, "refc", FALSE)
      BY DEF Kept
    <3> HIDE DEF Files, ours, g
    <3>3. Mappings({}, "refc", FALSE) = {}  BY DEF Mappings
    <3>4. more = Mappings(B, "refc", FALSE)  BY <3>3
    <3>5. QED  BY <3>1, <3>2, <3>4
  <2>2. /\ p \in Nat /\ n \in Nat /\ p + n <= LastBlock
        /\ ListSet(StartList) = p + 1 .. p + n
        /\ Mapped(m) \subseteq p + n + 1 .. LastBlock
        /\ g.free = {b \in Blocks : b > p + n /\ b \notin Mapped(m)}
    BY StartUses
  <2>3. p = IF HasRefcount THEN 4 ELSE 3
    <3>1. p = 2 + (IF HasRmap THEN 1 ELSE 0) + (IF HasRefcount THEN 1 ELSE 0)  BY StartSizes
    <3> HIDE DEF p
    <3>2. QED  BY <1>2, <3>1
  <2>4. m \in FileMaps
    <3>1. Rest \subseteq Blocks
      <4>1. Rest = p + n + 1 .. LastBlock  BY DEF Rest
      <4> HIDE DEF p, n
      <4>2. QED  BY <2>2, <4>1, AgSpaceAssumption DEF Blocks
    <3>2. QED  BY <3>1 DEF FileMaps
  <2> HIDE DEF g, p, n
  <2>5. LastBlock \in Nat /\ Blocks = 1 .. LastBlock  BY AgSpaceAssumption DEF Blocks
  <2>6. /\ \A b : b \in A <=> b \in p + 1 .. p + n \/ b \in {1, 2, 3}
        /\ \A b : b \in B <=> HasRefcount /\ b = 4
    BY <2>2
  <2> HIDE DEF A, B
  <2>7. A \in SUBSET Blocks /\ B \in SUBSET Blocks /\ A \cap B = {}
    BY <2>2, <2>3, <2>5, <2>6
  <2>8. ASSUME NEW b \in Blocks
        PROVE  b \in A \/ b \in B <=> b \notin g.free /\ b \notin Mapped(m)
    <3>1. b \in Nat /\ 1 <= b /\ b <= LastBlock  BY <2>5
    <3>2. b \in A \/ b \in B <=> b <= p + n  BY <2>2, <2>3, <2>6, <3>1
    <3>3. b \in Mapped(m) => b > p + n  BY <2>2, <3>1
    <3>4. b \in g.free <=> b > p + n /\ b \notin Mapped(m)  BY <2>2
    <3>5. QED  BY <2>2, <3>1, <3>2, <3>3, <3>4
  <2>9. ASSUME NEW no \in BOOLEAN, NEW yes \in BOOLEAN
        PROVE  LET K == Kept(m, u, A, B, no, yes)
               IN  /\ K \in SUBSET Mapping /\ Unique(K)
                   /\ \A b \in Blocks, o \in Nameable : Has(K, b, o) <=> Due(g.free, m, b, o)
    BY <2>4, <2>7, <2>8, KeptNames
  <2>10. QED  BY <2>1, <2>9 DEF Names, g
<1>3. QED  BY <1>1, <1>2, GroupAssumption

\* mkfs leaves a group that agrees with what the files map.
LEMMA StartFit ==
  ASSUME NEW s \in Starts
  PROVE  LET g == StartGroup(s.maps, s.unwritten)
         IN  /\ s.maps \in FileMaps /\ s.unwritten \in SUBSET Blocks
             /\ g.free \in SUBSET Blocks /\ g.list \in Rings /\ g.trees \in [Trees -> Seq(Blocks)]
             /\ g.rmap \in SUBSET Mapping /\ g.refs \in [Blocks -> Nat]
             /\ Fit(g, s.maps)
<1> DEFINE m == s.maps
           u == s.unwritten
           g == StartGroup(m, u)
<1>1. /\ m \in [Forks -> SUBSET Rest] /\ u \subseteq UNION {m[f] : f \in Forks}
      /\ \A b \in Rest : Owners(m, b) > 1 => HasRefcount /\ \A f \in Attrs : b \notin m[f]
  BY StartsAssumption
<1>2. Rest \subseteq Blocks
  <2> DEFINE p == Cardinality(Present)
             n == StartList.count
  <2>1. p \in Nat /\ n \in Nat  BY <1>1, StartUses
  <2>2. Rest = p + n + 1 .. LastBlock  BY DEF Rest
  <2> HIDE DEF p, n
  <2>3. QED  BY <2>1, <2>2, AgSpaceAssumption DEF Blocks
<1>3. m \in FileMaps  BY <1>1, <1>2 DEF FileMaps
<1>4. u \in SUBSET Blocks
  <2>1. \A f \in Forks : m[f] \subseteq Blocks  BY <1>3 DEF FileMaps
  <2>2. QED  BY <1>1, <2>1
<1>5. /\ g.list = StartList /\ g.trees = Roots /\ Once(StartList) /\ g.free \in SUBSET Blocks
  BY <1>1, StartUses
<1>6. g.refs = [b \in Blocks |-> IF Owners(m, b) >= 2 THEN Owners(m, b) ELSE 0]
  BY DEF StartGroup
<1>7. Parted(UsesOf(g, m))  BY <1>1, StartParted
<1>8. g.rmap \in SUBSET Mapping /\ Names(g.rmap, g.free, m)  BY <1>1, StartNames
<1> HIDE DEF g
<1>9. IsFiniteSet(g.rmap)  BY <1>8, MappingFinite
<1>10. Sound(g.list) /\ Once(g.list)  BY <1>5, StartListFact
<1>11. \A t \in Trees : /\ g.trees[t] \in Seq(Blocks) /\ Distinct(g.trees[t])
                        /\ t \notin Present => g.trees[t] = << >>
  BY <1>5, RootsFact
<1>12. Good(g, m)  BY <1>7, <1>9, <1>10, <1>11 DEF Good
<1>13. \A b : Owners(m, b) \in Nat  BY OwnersFact
<1>14. g.refs \in [Blocks -> Nat]  BY <1>6, <1>13
<1>15. Shared(g.refs, m)
  <2>1. SUFFICES ASSUME NEW b \in Blocks
                 PROVE  /\ HasRefcount => g.refs[b] = IF Owners(m, b) >= 2 THEN Owners(m, b) ELSE 0
                        /\ Owners(m, b) > 1 => HasRefcount /\ \A f \in Attrs : b \notin m[f]
    BY DEF Shared
  <2>2. g.refs[b] = IF Owners(m, b) >= 2 THEN Owners(m, b) ELSE 0  BY <1>6
  <2>3. ASSUME b \notin Rest PROVE Owners(m, b) = 0
    <3>1. b \notin Mapped(m)  BY <1>1, <2>3 DEF Mapped
    <3>2. QED  BY <3>1, OwnersFact
  <2>4. Owners(m, b) > 1 => b \in Rest  BY <1>13, <2>3
  <2>5. QED  BY <1>1, <2>2, <2>4
<1>16. g.list \in Rings  BY <1>10 DEF Sound
<1>17. g.trees \in [Trees -> Seq(Blocks)]
  <2>1. Roots = [t \in Trees |-> Roots[t]]  BY DEF Roots, Trees
  <2>2. QED  BY <1>5, <1>11, <2>1
<1>18. Fit(g, m)  BY <1>8, <1>12, <1>15 DEF Fit
<1>19. QED  BY <1>3, <1>4, <1>5, <1>8, <1>14, <1>16, <1>17, <1>18 DEF g

\* What the group's fields say is all that counts.
LEMMA SameFit ==
  ASSUME NEW g, NEW h, NEW m, Fit(g, m), h.free = g.free, h.list = g.list, h.trees = g.trees,
         h.rmap = g.rmap, h.refs = g.refs
  PROVE  Fit(h, m)
<1>1. UsesOf(h, m) = UsesOf(g, m)  BY DEF UsesOf, InTree, Listed
<1>2. QED  BY <1>1 DEF Fit, Good

\* The invariant holds at first,
LEMMA InitInv ==
  ASSUME Init
  PROVE  Inv
<1>1. PICK s \in Starts : /\ maps = s.maps /\ unwritten = s.unwritten
                          /\ disk = Headed(StartGroup(s.maps, s.unwritten))
  BY DEF Init
<1> DEFINE g == StartGroup(s.maps, s.unwritten)
<1>2. /\ maps \in FileMaps /\ unwritten \in SUBSET Blocks
      /\ g.free \in SUBSET Blocks /\ g.list \in Rings /\ g.trees \in [Trees -> Seq(Blocks)]
      /\ g.rmap \in SUBSET Mapping /\ g.refs \in [Blocks -> Nat]
      /\ Fit(g, maps)
  BY <1>1, StartFit
<1>3. disk = Headed(g)  BY <1>1
<1> HIDE DEF g
<1>4. /\ disk.free = g.free /\ disk.list = g.list /\ disk.trees = g.trees
      /\ disk.rmap = g.rmap /\ disk.refs = g.refs /\ disk.levels = Levels(g)
      /\ disk.freeblks = Cardinality(g.free) /\ disk.btreeblks = BtreeBlks(g)
  BY <1>3 DEF Headed
<1>5. OnDisk \in Groups  BY <1>2, <1>4 DEF OnDisk, Groups, Fails
<1>6. Fit(OnDisk, maps)
  <2>1. /\ OnDisk.free = g.free /\ OnDisk.list = g.list /\ OnDisk.trees = g.trees
        /\ OnDisk.rmap = g.rmap /\ OnDisk.refs = g.refs
    BY <1>4 DEF OnDisk
  <2>2. QED  BY <1>2, <2>1, SameFit
<1>7. Levels(g) \in [Trees -> Nat]
  <2>1. \A t \in Trees : Layout(g, t).levels \in Nat  BY <1>2, LayoutFact DEF Fit, Plans
  <2>2. QED  BY <2>1 DEF Levels
<1>8. BtreeBlks(disk) = BtreeBlks(g)  BY <1>4 DEF BtreeBlks
<1>9. Committed  BY <1>2, <1>4, <1>5, <1>6, <1>7, <1>8 DEF Committed
<1>10. Running  BY DEF Init, Running
<1>11. QED  BY <1>9, <1>10 DEF Inv

\* and always.
LEMMA AlwaysInv == Spec => []Inv
<1>1. Init => Inv  BY InitInv
<1>2. Inv /\ [Next]_vars => Inv'  BY NextInv
<1>3. QED  BY <1>1, <1>2, PTL DEF Spec

-----------------------------------------------------------------------------
(* The theorems *)

\* The committed group is what an operation would open.
LEMMA DiskFact ==
  ASSUME Inv
  PROVE  /\ Fit(disk, maps) /\ maps \in FileMaps
         /\ disk.rmap \in SUBSET Mapping
         /\ disk.freeblks = Cardinality(disk.free) /\ disk.btreeblks = BtreeBlks(disk)
<1>1. /\ OnDisk.free = disk.free /\ OnDisk.list = disk.list /\ OnDisk.trees = disk.trees
      /\ OnDisk.rmap = disk.rmap /\ OnDisk.refs = disk.refs
  BY DEF OnDisk
<1>2. OnDisk \in Groups /\ Fit(OnDisk, maps)  BY DEF Inv, Committed
<1>3. Fit(disk, maps)  BY <1>1, <1>2, SameFit
<1>4. disk.rmap \in SUBSET Mapping  BY <1>1, <1>2 DEF Groups
<1>5. QED  BY <1>3, <1>4 DEF Inv, Committed

\* Whatever operations take, free, grow and shrink, every block of the
\* committed group has one use and the free list can be opened again: the
\* edits and relays of GroupAlloc (group_write.rs) for every size of group.
THEOREM OneUseTheorem == Spec => []EveryBlockHasOneUse
<1>1. ASSUME Inv PROVE EveryBlockHasOneUse
  <2>1. Good(disk, maps)  BY <1>1, DiskFact DEF Fit
  <2> DEFINE uses == UsesOf(disk, maps)
  <2>2. /\ \A u, v \in Uses : u # v => uses[u] \cap uses[v] = {}
        /\ UNION {uses[u] : u \in Uses} = Blocks
    BY <2>1 DEF Good, Parted
  <2>3. DOMAIN uses = Uses  BY DEF UsesOf
  <2>4. Parses(disk.list)  BY <2>1, SoundParses DEF Good
  <2>5. Distinct(Entries(disk.list))
    <3>1. ListSet(disk.list) \subseteq Blocks  BY <2>1, GoodUses
    <3>2. Sound(disk.list) /\ Once(disk.list)  BY <2>1 DEF Good
    <3>3. QED  BY <3>1, <3>2, EntriesSeq
  <2>6. \A t \in Trees : Distinct(disk.trees[t])  BY <2>1 DEF Good
  <2> HIDE DEF uses
  <2>7. EveryBlockHasOneUse <=>
          /\ \A u, v \in DOMAIN uses : u # v => uses[u] \cap uses[v] = {}
          /\ UNION {uses[u] : u \in DOMAIN uses} = Blocks
          /\ Parses(disk.list) /\ Distinct(Entries(disk.list))
          /\ \A t \in Trees : Distinct(disk.trees[t])
    BY Zenon DEF EveryBlockHasOneUse, uses, UsesOf, Uses
  <2>8. QED  BY <2>2, <2>3, <2>4, <2>5, <2>6, <2>7
<1>2. QED  BY <1>1, AlwaysInv, PTL

\* Blocks written ahead of their record are free on the committed volume, by
\* whatever the operation frees before it takes them: take_settled.
THEOREM AheadTheorem == Spec => []AheadIsUnused
<1>1. Inv => AheadIsUnused  BY DEF Inv, Running, AheadIsUnused
<1>2. QED  BY <1>1, AlwaysInv, PTL

\* A sequence with no block twice has as many blocks as it is long.
LEMMA MembersCount ==
  ASSUME NEW s \in Seq(Blocks), Distinct(s)
  PROVE  IsFiniteSet(Members(s)) /\ Cardinality(Members(s)) = Len(s)
<1> DEFINE n == Len(s)
           M == Members(s)
<1>1. n \in Nat /\ DOMAIN s = 1 .. n  OBVIOUS
<1>2. /\ \A i \in 1 .. n : s[i] \in M
      /\ \A b \in M : \E i \in 1 .. n : s[i] = b
      /\ \A i, j \in 1 .. n : s[i] = s[j] => i = j
  BY DEF Members, Distinct
<1> DEFINE F == [i \in 1 .. n |-> s[i]]
<1> HIDE DEF n, M
<1>3. F \in [1 .. n -> M]  BY <1>2
<1>4. F \in Surjection(1 .. n, M)  BY <1>2, <1>3 DEF Surjection
<1>5. F \in Injection(1 .. n, M)  BY <1>2, <1>3 DEF Injection, IsInjective
<1>6. IsFiniteSet(1 .. n) /\ Cardinality(1 .. n) = n  BY <1>1, FS_Interval
<1> HIDE DEF F
<1>7. QED  BY <1>4, <1>5, <1>6, FS_Surjection DEF n, M

\* Two sets apart: their sizes add.
LEMMA SizesAdd ==
  ASSUME NEW A \in SUBSET Blocks, NEW B \in SUBSET Blocks, A \cap B = {}
  PROVE  /\ A \cup B \in SUBSET Blocks
         /\ Cardinality(A) \in Nat /\ Cardinality(B) \in Nat
         /\ Cardinality(A \cup B) = Cardinality(A) + Cardinality(B)
<1>1. IsFiniteSet(A) /\ IsFiniteSet(B) /\ Cardinality(A) \in Nat /\ Cardinality(B) \in Nat
  BY BlocksFinite
<1>2. Cardinality(A \cup B) = Cardinality(A) + Cardinality(B) - Cardinality(A \cap B)
  BY <1>1, FS_Union
<1>3. Cardinality(A \cap B) = 0  BY FS_EmptySet
<1>4. QED  BY <1>1, <1>2, <1>3

\* The blocks of a group, use by use.
LEMMA UsesCount ==
  ASSUME NEW g, NEW m, Good(g, m)
  PROVE  /\ Cardinality(g.free) \in Nat /\ Cardinality(Mapped(m)) \in Nat /\ g.list.count \in Nat
         /\ \A t \in Trees : Len(g.trees[t]) \in Nat
         /\ Cardinality(g.free) + g.list.count + Cardinality(Mapped(m))
              + Len(g.trees["bno"]) + Len(g.trees["cnt"]) + Len(g.trees["rmap"])
              + Len(g.trees["refc"]) = LastBlock
<1> DEFINE U == UsesOf(g, m)
           C(u) == Cardinality(U[u])
<1>1. /\ \A u, v \in Uses : u # v => U[u] \cap U[v] = {}
      /\ UNION {U[u] : u \in Uses} = Blocks
  BY DEF Good, Parted
<1>2. /\ U["free"] = g.free /\ U["list"] = ListSet(g.list) /\ U["files"] = Mapped(m)
      /\ \A t \in Trees : U[t] = Members(g.trees[t])
  BY UsesAt
<1>3. Uses = {"free", "list", "files", "bno", "cnt", "rmap", "refc"}  BY DEF Uses, Trees
<1>4. C("list") = g.list.count /\ g.list.count \in Nat
  <2>1. ListSet(g.list) \subseteq Blocks /\ Sound(g.list) /\ Once(g.list)
    BY GoodUses DEF Good
  <2>2. /\ Entries(g.list) \in Seq(Blocks) /\ Len(Entries(g.list)) = g.list.count
        /\ Members(Entries(g.list)) = ListSet(g.list) /\ Distinct(Entries(g.list))
    BY <2>1, EntriesSeq
  <2>3. Cardinality(ListSet(g.list)) = g.list.count  BY <2>2, MembersCount
  <2>4. g.list.count \in Nat  BY <2>1, RingFields
  <2>5. QED  BY <1>2, <2>3, <2>4
<1>5. \A t \in Trees : C(t) = Len(g.trees[t]) /\ Len(g.trees[t]) \in Nat
  <2>1. \A t \in Trees : g.trees[t] \in Seq(Blocks) /\ Distinct(g.trees[t])  BY DEF Good
  <2>2. \A t \in Trees : Cardinality(Members(g.trees[t])) = Len(g.trees[t])  BY <2>1, MembersCount
  <2>3. QED  BY <1>2, <2>1, <2>2
<1>6. \A u \in Uses : U[u] \in SUBSET Blocks  BY <1>1
<1> HIDE DEF U
<1> DEFINE s2 == U["free"] \cup U["list"]
           s3 == s2 \cup U["files"]
           s4 == s3 \cup U["bno"]
           s5 == s4 \cup U["cnt"]
           s6 == s5 \cup U["rmap"]
           s7 == s6 \cup U["refc"]
<1>7. s7 = Blocks  BY <1>1, <1>3
<1>8. /\ s2 \in SUBSET Blocks /\ C("free") \in Nat /\ Cardinality(s2) = C("free") + C("list")
  <2>1. U["free"] \cap U["list"] = {}  BY <1>1, <1>3
  <2>2. U["free"] \in SUBSET Blocks /\ U["list"] \in SUBSET Blocks  BY <1>3, <1>6
  <2>3. QED  BY <2>1, <2>2, SizesAdd
<1>9. /\ s3 \in SUBSET Blocks /\ C("files") \in Nat /\ Cardinality(s3) = Cardinality(s2) + C("files")
  <2>1. s2 \cap U["files"] = {}  BY <1>1, <1>3
  <2> HIDE DEF s2
  <2>2. U["files"] \in SUBSET Blocks  BY <1>3, <1>6
  <2>3. QED  BY <1>8, <2>1, <2>2, SizesAdd
<1>10. /\ s4 \in SUBSET Blocks /\ Cardinality(s4) = Cardinality(s3) + C("bno")
  <2>1. s3 \cap U["bno"] = {}  BY <1>1, <1>3
  <2> HIDE DEF s3
  <2>2. U["bno"] \in SUBSET Blocks  BY <1>3, <1>6
  <2>3. QED  BY <1>9, <2>1, <2>2, SizesAdd
<1>11. /\ s5 \in SUBSET Blocks /\ Cardinality(s5) = Cardinality(s4) + C("cnt")
  <2>1. s4 \cap U["cnt"] = {}  BY <1>1, <1>3
  <2> HIDE DEF s4
  <2>2. U["cnt"] \in SUBSET Blocks  BY <1>3, <1>6
  <2>3. QED  BY <1>10, <2>1, <2>2, SizesAdd
<1>12. /\ s6 \in SUBSET Blocks /\ Cardinality(s6) = Cardinality(s5) + C("rmap")
  <2>1. s5 \cap U["rmap"] = {}  BY <1>1, <1>3
  <2> HIDE DEF s5
  <2>2. U["rmap"] \in SUBSET Blocks  BY <1>3, <1>6
  <2>3. QED  BY <1>11, <2>1, <2>2, SizesAdd
<1>13. Cardinality(s7) = Cardinality(s6) + C("refc")
  <2>1. s6 \cap U["refc"] = {}  BY <1>1, <1>3
  <2> HIDE DEF s6
  <2>2. U["refc"] \in SUBSET Blocks  BY <1>3, <1>6
  <2>3. QED  BY <1>12, <2>1, <2>2, SizesAdd
<1>14. Cardinality(Blocks) = LastBlock
  <2>1. 1 \in Int /\ LastBlock \in Int /\ LastBlock >= 0  BY AgSpaceAssumption
  <2>2. QED  BY <2>1, FS_Interval DEF Blocks
<1> HIDE DEF s2, s3, s4, s5, s6, s7, C
<1>15. /\ C("bno") = Len(g.trees["bno"]) /\ C("cnt") = Len(g.trees["cnt"])
       /\ C("rmap") = Len(g.trees["rmap"]) /\ C("refc") = Len(g.trees["refc"])
       /\ C("bno") \in Nat /\ C("cnt") \in Nat /\ C("rmap") \in Nat /\ C("refc") \in Nat
  BY <1>5 DEF Trees
<1>16. C("free") + C("list") + C("files") + C("bno") + C("cnt") + C("rmap") + C("refc") = LastBlock
  BY <1>4, <1>7, <1>8, <1>9, <1>10, <1>11, <1>12, <1>13, <1>14, <1>15
<1>17. C("free") = Cardinality(g.free) /\ C("files") = Cardinality(Mapped(m))  BY <1>2 DEF C
<1>18. QED  BY <1>4, <1>5, <1>8, <1>9, <1>15, <1>16, <1>17

\* What a mount adds up as available, the header's free blocks, the list and
\* the trees' blocks past their roots, is every block but the mapped ones, the
\* roots and the reference counts' own.
THEOREM CountsTheorem == Spec => []CountsAddUp
<1>1. ASSUME Inv PROVE CountsAddUp
  <2>1. /\ Good(disk, maps) /\ disk.freeblks = Cardinality(disk.free)
        /\ disk.btreeblks = BtreeBlks(disk)
    BY <1>1, DiskFact DEF Fit
  <2> DEFINE f == Cardinality(disk.free)
             c == Cardinality(Mapped(maps))
             n == disk.list.count
             L(t) == Len(disk.trees[t])
             p == Cardinality(Present \ {"refc"})
  <2>2. /\ f \in Nat /\ c \in Nat /\ n \in Nat
        /\ \A t \in Trees : L(t) \in Nat
        /\ f + n + c + L("bno") + L("cnt") + L("rmap") + L("refc") = LastBlock
    BY <2>1, UsesCount
  <2>3. L("bno") \in Nat /\ L("cnt") \in Nat /\ L("rmap") \in Nat /\ L("refc") \in Nat
    BY <2>2 DEF Trees
  <2>4. ~HasRmap => L("rmap") = 0
    <3>1. "rmap" \in Trees  BY DEF Trees
    <3>2. ~HasRmap => "rmap" \notin Present  BY DEF Present
    <3>3. ~HasRmap => disk.trees["rmap"] = << >>  BY <2>1, <3>1, <3>2 DEF Good
    <3>4. QED  BY <3>3
  <2>5. p = IF HasRmap THEN 3 ELSE 2
    <3>1. Cardinality(Present) = 2 + (IF HasRmap THEN 1 ELSE 0) + (IF HasRefcount THEN 1 ELSE 0)
      BY StartSizes
    <3>2. IsFiniteSet(Present)
      <4>1. Present \in SUBSET Trees  BY DEF Present, Trees
      <4>2. IsFiniteSet({"bno"} \cup {"cnt"} \cup {"rmap"} \cup {"refc"})
        <5>1. IsFiniteSet({"bno"})  BY FS_Singleton
        <5>2. IsFiniteSet({"bno"} \cup {"cnt"})  BY <5>1, FS_AddElement
        <5>3. IsFiniteSet({"bno"} \cup {"cnt"} \cup {"rmap"})  BY <5>2, FS_AddElement
        <5>4. QED  BY <5>3, FS_AddElement
      <4>3. {"bno"} \cup {"cnt"} \cup {"rmap"} \cup {"refc"} = Trees  BY DEF Trees
      <4>4. QED  BY <4>1, <4>2, <4>3, FS_Subset
    <3>3. Cardinality(Present \ {"refc"}) =
            IF "refc" \in Present THEN Cardinality(Present) - 1 ELSE Cardinality(Present)
      BY <3>2, FS_RemoveElement
    <3>4. "refc" \in Present <=> HasRefcount  BY DEF Present
    <3> HIDE DEF p
    <3>5. p = IF HasRefcount THEN Cardinality(Present) - 1 ELSE Cardinality(Present)
      BY <3>3, <3>4 DEF p
    <3>6. QED  BY <3>1, <3>5
  <2>6. disk.btreeblks = (L("bno") - 1) + (L("cnt") - 1) + (IF HasRmap THEN L("rmap") - 1 ELSE 0)
    BY <2>1 DEF BtreeBlks
  <2>7. CountsAddUp <=> f + n + disk.btreeblks = LastBlock - c - p - L("refc")
    BY <2>1 DEF CountsAddUp
  <2> HIDE DEF f, c, n, L, p
  <2>8. QED  BY <2>2, <2>3, <2>4, <2>5, <2>6, <2>7
<1>2. QED  BY <1>1, AlwaysInv, PTL

\* The reverse map names for every block in use, and no other, each file that
\* maps it or else the group, with one mapping for each name: no take_at,
\* forget_rmap, refill or relay (group_write.rs) forgets or leaves one.
THEOREM NamesTheorem == Spec => []ReverseMapNamesOwners
<1>1. ASSUME Inv, HasRmap
      PROVE  /\ {<<x.block, Named(x)>> : x \in disk.rmap} = {<<x.block, Named(x)>> : x \in Expected}
             /\ Cardinality(disk.rmap) = Cardinality(Expected)
  <2>1. /\ Good(disk, maps) /\ Names(disk.rmap, disk.free, maps)
        /\ maps \in FileMaps /\ disk.rmap \in SUBSET Mapping
    BY <1>1, DiskFact DEF Fit
  <2> DEFINE M(t) == Members(disk.trees[t])
             A == ListSet(disk.list) \cup UNION {M(t) : t \in Trees \ {"refc"}}
             B == M("refc")
  <2>2. Expected = Kept(maps, unwritten, A, B, FALSE, TRUE)
    <3>1. Listed(disk) = ListSet(disk.list) /\ \A t : InTree(disk, t) = M(t)
      BY DEF Listed, ListSet, InTree, Members
    <3>2. UNION {InTree(disk, t) : t \in Trees \ {"refc"}} = UNION {M(t) : t \in Trees \ {"refc"}}
      BY <3>1
    <3> HIDE DEF M
    <3>3. QED  BY <3>1, <3>2, Zenon DEF Expected, Kept
  <2>3. /\ ListSet(disk.list) \subseteq Blocks
        /\ ListSet(disk.list) \cap disk.free = {} /\ ListSet(disk.list) \cap Mapped(maps) = {}
        /\ \A t \in Trees : /\ M(t) \subseteq Blocks /\ M(t) \cap disk.free = {}
                            /\ M(t) \cap ListSet(disk.list) = {} /\ M(t) \cap Mapped(maps) = {}
    BY <2>1, GoodUses
  <2> DEFINE U == UsesOf(disk, maps)
  <2>4. /\ \A u, v \in Uses : u # v => U[u] \cap U[v] = {}
        /\ UNION {U[u] : u \in Uses} = Blocks
    BY <2>1 DEF Good, Parted
  <2>5. /\ U["free"] = disk.free /\ U["list"] = ListSet(disk.list) /\ U["files"] = Mapped(maps)
        /\ \A t \in Trees : U[t] = M(t)
    BY UsesAt
  <2>6. Uses = Trees \cup {"free", "list", "files"} /\ "refc" \in Trees  BY DEF Uses, Trees
  <2> HIDE DEF U, M
  <2>7. \A t \in Trees \ {"refc"} : M(t) \cap M("refc") = {}  BY <2>4, <2>5, <2>6
  <2>8. \A b : b \in A <=> b \in ListSet(disk.list) \/ \E t \in Trees \ {"refc"} : b \in M(t)
    BY Zenon
  <2>9. A \in SUBSET Blocks /\ B \in SUBSET Blocks /\ A \cap B = {}
    <3> HIDE DEF A
    <3>1. QED  BY <2>3, <2>6, <2>7, <2>8
  <2>10. ASSUME NEW b \in Blocks
         PROVE  b \in A \/ b \in B <=> b \notin disk.free /\ b \notin Mapped(maps)
    <3>1. b \in A \/ b \in B <=> b \in ListSet(disk.list) \/ \E t \in Trees : b \in M(t)
      BY <2>6, <2>8, Zenon
    <3>2. \E u \in Uses : b \in U[u]  BY <2>4, Zenon
    <3>3. b \in disk.free \/ b \in Mapped(maps) \/ b \in ListSet(disk.list) \/ \E t \in Trees : b \in M(t)
      BY <2>5, <2>6, <3>2
    <3>4. QED  BY <2>3, <3>1, <3>3
  <2> HIDE DEF A, B
  <2>11. ASSUME NEW no \in BOOLEAN, NEW yes \in BOOLEAN
         PROVE  LET K == Kept(maps, unwritten, A, B, no, yes)
                IN  /\ K \in SUBSET Mapping /\ Unique(K)
                    /\ \A b \in Blocks, o \in Nameable : Has(K, b, o) <=> Due(disk.free, maps, b, o)
    BY <2>1, <2>9, <2>10, KeptNames
  <2>12. /\ Expected \in SUBSET Mapping /\ Unique(Expected)
         /\ \A b \in Blocks, o \in Nameable : Has(Expected, b, o) <=> Due(disk.free, maps, b, o)
    BY <2>2, <2>11
  <2>13. /\ Unique(disk.rmap)
         /\ \A b \in Blocks, o \in Nameable : Has(disk.rmap, b, o) <=> Due(disk.free, maps, b, o)
    BY <1>1, <2>1 DEF Names
  <2>14. \A b \in Blocks, o \in Nameable : Has(disk.rmap, b, o) <=> Has(Expected, b, o)
    BY <2>12, <2>13
  <2>15. QED  BY <2>1, <2>12, <2>13, <2>14, SameNames
<1>2. Inv => ReverseMapNamesOwners  BY <1>1, Zenon DEF ReverseMapNamesOwners, Named
<1>3. QED  BY <1>2, AlwaysInv, PTL
=============================================================================
