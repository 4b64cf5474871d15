-------------------------- MODULE HeadSearchProofs --------------------------
(***************************************************************************)
(* The search for the newest record, for a ring of any size, records of    *)
(* any lengths and any window.                                             *)
(*                                                                         *)
(* What makes the bisection right is not where the blocks that did not     *)
(* arrive are, but that a record is followed: once the next record is      *)
(* begun, the block behind it is never again of an older cycle than it had *)
(* then (Followed).  The bisection only answers with a record that is not  *)
(* (ByCycleSays), and of those there is one, the last (Loose), or with two *)
(* records in flight two.  Records do not overlap in the order they were   *)
(* written (Chain), so the last is also the one the scan takes.            *)
(***************************************************************************)
EXTENDS HeadSearch, OrderFacts, TLAPS

-----------------------------------------------------------------------------
(* Positions *)

\* A ring has blocks, and None is not one of them.
LEMMA TotalType == Total \in Nat \ {0} /\ Position \subseteq Nat /\ None \notin Position
BY SearchAssumption DEF Position

\* Once round the ring, in the next cycle.
LEMMA OnceRound ==
  ASSUME NEW a \in Nat, a < 2 * Total
  PROVE  /\ a % Total = IF a < Total THEN a ELSE a - Total
         /\ a \div Total = IF a < Total THEN 0 ELSE 1
<1>1. Total \in Nat \ {0}  BY TotalType
<1>2. QED  BY <1>1

-----------------------------------------------------------------------------
(* The bisection *)

Answers == Position \cup {None}

\* One step of it, with the rest of the search given.
Half(F, lo, hi) ==
  LET mid == lo + (hi - lo) \div 2
  IN  IF hi - lo <= 1 THEN hi
      ELSE IF ring[mid].cycle = Last THEN F[<<lo, mid>>]
      ELSE IF ring[mid].cycle = First THEN F[<<mid, hi>>]
      ELSE None

\* It is settled for places at most n apart.
Settled(n, F) ==
  /\ F \in [Position \X Position -> Answers]
  /\ \A lo, hi \in Position : hi - lo <= n => F[<<lo, hi>>] = Half(F, lo, hi)

\* The middle lies between.
LEMMA MidFact ==
  ASSUME NEW lo \in Position, NEW hi \in Position, ~(hi - lo <= 1)
  PROVE  LET mid == lo + (hi - lo) \div 2
         IN  mid \in Position /\ lo < mid /\ mid < hi
<1>1. Total \in Nat \ {0} /\ lo \in Nat /\ hi \in Nat /\ hi <= Total - 1  BY TotalType DEF Position
<1>2. QED  BY <1>1 DEF Position

\* By least counterexample: each span is settled from shorter ones.
LEMMA SettledExists ==
  ASSUME NEW n \in Nat
  PROVE  \E F : Settled(n, F)
<1> DEFINE Bad == {k \in Nat : ~\E F : Settled(k, F)}
<1>1. SUFFICES ASSUME Bad # {} PROVE FALSE  OBVIOUS
<1>2. PICK k \in Bad : \A i \in Bad : k <= i  BY <1>1, LeastExists
<1>3. k # 0 /\ k # 1
  <2> DEFINE F == [p \in Position \X Position |-> p[2]]
  <2>1. F \in [Position \X Position -> Answers]  BY DEF Answers
  <2>2. \A lo, hi \in Position : F[<<lo, hi>>] = hi  OBVIOUS
  <2>3. \A lo, hi \in Position : hi - lo <= 1 => F[<<lo, hi>>] = Half(F, lo, hi)  BY <2>2 DEF Half
  <2>4. \A lo, hi \in Position : hi - lo <= 0 => hi - lo <= 1  BY TotalType
  <2> HIDE DEF F
  <2>5. Settled(0, F) /\ Settled(1, F)  BY <2>1, <2>3, <2>4 DEF Settled
  <2>6. QED  BY <1>2, <2>5
<1>4. k - 1 \in Nat /\ ~(k <= k - 1)  BY <1>3
<1>5. PICK F : Settled(k - 1, F)  BY <1>2, <1>4
<1> DEFINE G == [p \in Position \X Position |-> IF p[2] - p[1] = k THEN Half(F, p[1], p[2]) ELSE F[p]]
<1>6. \A lo, hi \in Position : G[<<lo, hi>>] = IF hi - lo = k THEN Half(F, lo, hi) ELSE F[<<lo, hi>>]
  OBVIOUS
<1>7. ASSUME NEW lo \in Position, NEW hi \in Position
      PROVE  Half(F, lo, hi) \in Answers
  <2> DEFINE mid == lo + (hi - lo) \div 2
  <2>1. ~(hi - lo <= 1) => mid \in Position  BY MidFact
  <2>2. \A a, b \in Position : F[<<a, b>>] \in Answers  BY <1>5 DEF Settled
  <2>3. hi \in Answers /\ None \in Answers  BY DEF Answers
  <2> HIDE DEF mid
  <2>4. QED  BY <2>1, <2>2, <2>3 DEF Half, mid
<1>8. G \in [Position \X Position -> Answers]
  <2>1. ASSUME NEW p \in Position \X Position
        PROVE  (IF p[2] - p[1] = k THEN Half(F, p[1], p[2]) ELSE F[p]) \in Answers
    <3>1. p[1] \in Position /\ p[2] \in Position  OBVIOUS
    <3>2. F[p] \in Answers  BY <1>5 DEF Settled
    <3>3. QED  BY <3>1, <3>2, <1>7
  <2>2. QED  BY <2>1
<1> HIDE DEF G
<1>9. ASSUME NEW lo \in Position, NEW hi \in Position, hi - lo <= k
      PROVE  G[<<lo, hi>>] = Half(G, lo, hi)
  <2> DEFINE mid == lo + (hi - lo) \div 2
  <2>1. ~(hi - lo <= 1) => mid \in Position /\ lo < mid /\ mid < hi  BY MidFact
  <2>2. lo \in Nat /\ hi \in Nat /\ k \in Nat  BY TotalType
  <2> HIDE DEF mid
  <2>3. ~(hi - lo <= 1) => G[<<lo, mid>>] = F[<<lo, mid>>] /\ G[<<mid, hi>>] = F[<<mid, hi>>]
    <3>1. SUFFICES ASSUME ~(hi - lo <= 1)
                   PROVE  G[<<lo, mid>>] = F[<<lo, mid>>] /\ G[<<mid, hi>>] = F[<<mid, hi>>]
      OBVIOUS
    <3>2. mid \in Position /\ lo < mid /\ mid < hi  BY <2>1, <3>1
    <3>4. mid \in Nat  BY <3>2, TotalType
    <3>5. mid - lo # k /\ hi - mid # k  BY <3>2, <3>4, <2>2, <1>9
    <3>3. QED  BY <3>2, <3>5, <1>6
  <2>4. Half(G, lo, hi) = Half(F, lo, hi)  BY <2>3 DEF Half, mid
  <2>5. CASE hi - lo = k  BY <2>4, <2>5, <1>6
  <2>6. CASE hi - lo # k
    <3>1. hi - lo <= k - 1  BY <2>2, <2>6, <1>9
    <3>2. F[<<lo, hi>>] = Half(F, lo, hi)  BY <3>1, <1>5 DEF Settled
    <3>3. QED  BY <3>2, <2>4, <2>6, <1>6
  <2>7. QED  BY <2>5, <2>6
<1>10. Settled(k, G)  BY <1>8, <1>9 DEF Settled
<1>11. QED  BY <1>2, <1>10

\* The recursion has a solution, and Bisect is one.
LEMMA BisectIs ==
  \A lo, hi \in Position : Bisect[<<lo, hi>>] = Half(Bisect, lo, hi)
<1> DEFINE H(f) == [p \in Position \X Position |-> Half(f, p[1], p[2])]
<1>1. PICK F : Settled(Total, F)  BY SettledExists, TotalType
<1>2. \A lo, hi \in Position : hi - lo <= Total
  BY TotalType DEF Position
<1>3. \A lo, hi \in Position : F[<<lo, hi>>] = Half(F, lo, hi)  BY <1>1, <1>2 DEF Settled
<1>4. F = H(F)
  <2>1. F \in [Position \X Position -> Answers]  BY <1>1 DEF Settled
  <2>2. QED  BY <2>1, <1>3
<1>5. Bisect = CHOOSE f : f = H(f)  BY DEF Bisect, Half
<1>6. Bisect = H(Bisect)
  <2> HIDE DEF H
  <2>1. QED BY <1>4, <1>5
<1>7. QED  BY <1>6

\* What it finds between a block of the first cycle and one of the last is a
\* place where the one gives way to the other; and it finds one, if there
\* are no other cycles.
Turn(h, lo, hi) == h \in lo + 1 .. hi /\ ring[h].cycle = Last /\ ring[h - 1].cycle = First
Turns(lo, hi) ==
  /\ Bisect[<<lo, hi>>] # None => Turn(Bisect[<<lo, hi>>], lo, hi)
  /\ (\A b \in Position : ring[b].cycle \in {First, Last}) => Bisect[<<lo, hi>>] # None

LEMMA BisectFinds ==
  ASSUME NEW l \in Position, NEW h \in Position, l < h, ring[l].cycle = First, ring[h].cycle = Last
  PROVE  Turns(l, h)
<1> DEFINE Wrong(lo, hi) == lo < hi /\ ring[lo].cycle = First /\ ring[hi].cycle = Last /\ ~Turns(lo, hi)
           Bad == {n \in Nat : \E lo, hi \in Position : hi - lo = n /\ Wrong(lo, hi)}
<1>1. SUFFICES ASSUME ~Turns(l, h) PROVE FALSE  OBVIOUS
<1>2. l \in Nat /\ h \in Nat /\ h - l \in Nat  BY TotalType
<1>3. h - l \in Bad  BY <1>1, <1>2
<1>4. PICK n \in Bad : \A i \in Bad : n <= i  BY <1>3, LeastExists
<1>5. PICK lo \in Position, hi \in Position : hi - lo = n /\ Wrong(lo, hi)  OBVIOUS
<1>6. lo \in Nat /\ hi \in Nat /\ n \in Nat  BY TotalType
<1> DEFINE mid == lo + (hi - lo) \div 2
<1>7. Bisect[<<lo, hi>>] = IF hi - lo <= 1 THEN hi
                           ELSE IF ring[mid].cycle = Last THEN Bisect[<<lo, mid>>]
                           ELSE IF ring[mid].cycle = First THEN Bisect[<<mid, hi>>]
                           ELSE None
  BY BisectIs DEF Half
<1>8. ~(hi - lo <= 1)
  <2>1. SUFFICES ASSUME hi - lo <= 1 PROVE FALSE  OBVIOUS
  <2>2. hi = lo + 1 /\ hi - 1 = lo /\ hi \in lo + 1 .. hi  BY <2>1, <1>5, <1>6
  <2>3. Bisect[<<lo, hi>>] = hi /\ hi # None  BY <2>1, <1>7, TotalType
  <2>4. QED  BY <2>2, <2>3, <1>5 DEF Turns, Turn
<1>9. mid \in Position /\ lo < mid /\ mid < hi  BY <1>8, MidFact
<1> HIDE DEF mid
<1>10. mid \in Nat  BY <1>9, TotalType
<1>11. ASSUME NEW a \in Position, NEW b \in Position, a < b, b - a < n,
              ring[a].cycle = First, ring[b].cycle = Last
       PROVE  Turns(a, b)
  <2>1. a \in Nat /\ b \in Nat /\ b - a \in Nat /\ ~(n <= b - a)  BY <1>11, <1>6, TotalType
  <2>2. b - a \notin Bad  BY <2>1, <1>4
  <2>3. QED  BY <2>1, <2>2, <1>11
<1>12. CASE ring[mid].cycle = Last
  <2>1. Turns(lo, mid)  BY <1>5, <1>6, <1>9, <1>10, <1>11, <1>12
  <2>2. lo + 1 .. mid \subseteq lo + 1 .. hi  BY <1>6, <1>9, <1>10
  <2>3. Turns(lo, hi)  BY <2>1, <2>2, <1>7, <1>8, <1>12 DEF Turns, Turn
  <2>4. QED  BY <2>3, <1>5
<1>13. CASE ring[mid].cycle # Last /\ ring[mid].cycle = First
  <2>1. Turns(mid, hi)  BY <1>5, <1>6, <1>9, <1>10, <1>11, <1>13
  <2>2. mid + 1 .. hi \subseteq lo + 1 .. hi  BY <1>6, <1>9, <1>10
  <2>3. Turns(lo, hi)  BY <2>1, <2>2, <1>7, <1>8, <1>13 DEF Turns, Turn
  <2>4. QED  BY <2>3, <1>5
<1>14. CASE ring[mid].cycle # Last /\ ring[mid].cycle # First
  <2>1. Bisect[<<lo, hi>>] = None  BY <1>7, <1>8, <1>14
  <2>2. Turns(lo, hi)  BY <2>1, <1>9, <1>14 DEF Turns
  <2>3. QED  BY <2>2, <1>5
<1>15. QED  BY <1>12, <1>13, <1>14

-----------------------------------------------------------------------------
(* Records in the order they were written *)

Place == [cycle : Nat, block : Position]

Earlier(p, q) == p.cycle < q.cycle \/ (p.cycle = q.cycle /\ p.block < q.block)
NotPast(p, q) == Earlier(p, q) \/ p = q

\* Where the blocks of a record are and the cycles they get.
LEMMA PlaceFact ==
  ASSUME NEW p \in Place, NEW k \in 0 .. Total
  PROVE  /\ Where(p, k) = IF p.block + k < Total THEN p.block + k ELSE p.block + k - Total
         /\ CycleAt(p, k) = IF p.block + k < Total THEN p.cycle ELSE p.cycle + 1
         /\ Where(p, k) \in Position /\ CycleAt(p, k) \in Nat
<1>1. Total \in Nat \ {0} /\ p.block \in Nat /\ p.block < Total /\ k \in Nat /\ k <= Total /\ p.cycle \in Nat
  BY TotalType DEF Place, Position
<1> DEFINE a == p.block + k
<1>2. a \in Nat /\ a < 2 * Total  BY <1>1
<1>3. a % Total = (IF a < Total THEN a ELSE a - Total) /\ a \div Total = (IF a < Total THEN 0 ELSE 1)
  BY <1>2, OnceRound
<1>4. Where(p, k) = a % Total /\ CycleAt(p, k) = p.cycle + a \div Total  BY DEF Where, CycleAt
<1> HIDE DEF a
<1>5. Where(p, k) = (IF a < Total THEN a ELSE a - Total) /\ CycleAt(p, k) = (IF a < Total THEN p.cycle ELSE p.cycle + 1)
  BY <1>1, <1>3, <1>4
<1>6. QED  BY <1>1, <1>2, <1>5 DEF a, Position

\* The place behind a record.
LEMMA BeyondFact ==
  ASSUME NEW p \in Place, NEW k \in 1 .. Total
  PROVE  /\ Beyond(p, k) \in Place /\ Earlier(p, Beyond(p, k))
         /\ Beyond(p, k).cycle = IF p.block + k < Total THEN p.cycle ELSE p.cycle + 1
         /\ Beyond(p, k).block = IF p.block + k < Total THEN p.block + k ELSE p.block + k - Total
<1>1. k \in 0 .. Total  BY TotalType
<1>2. /\ Beyond(p, k) \in Place
      /\ Beyond(p, k).cycle = IF p.block + k < Total THEN p.cycle ELSE p.cycle + 1
      /\ Beyond(p, k).block = IF p.block + k < Total THEN p.block + k ELSE p.block + k - Total
  BY <1>1, PlaceFact DEF Beyond, Place
<1>3. p.block \in Nat /\ p.cycle \in Nat /\ k \in Nat /\ k > 0 /\ Total \in Nat
  BY TotalType DEF Place, Position
<1>4. CASE p.block + k < Total
  <2>1. Beyond(p, k).cycle = p.cycle /\ Beyond(p, k).block = p.block + k  BY <1>2, <1>4
  <2>2. p.block < p.block + k  BY <1>3
  <2>3. QED  BY <1>2, <2>1, <2>2 DEF Earlier
<1>5. CASE ~(p.block + k < Total)
  <2>1. Beyond(p, k).cycle = p.cycle + 1  BY <1>2, <1>5
  <2>2. p.cycle < p.cycle + 1  BY <1>3
  <2>3. QED  BY <1>2, <2>1, <2>2 DEF Earlier
<1>6. QED  BY <1>4, <1>5

\* Places are in order.
LEMMA EarlierOrder ==
  ASSUME NEW p \in Place, NEW q \in Place, NEW r \in Place
  PROVE  /\ ~Earlier(p, p)
         /\ Earlier(p, q) /\ Earlier(q, r) => Earlier(p, r)
         /\ Earlier(p, q) \/ p = q \/ Earlier(q, p)
<1>1. \A x \in Place : x.cycle \in Nat /\ x.block \in Nat
  BY TotalType DEF Place, Position
<1>2. ~Earlier(p, p)  BY <1>1 DEF Earlier
<1>3. Earlier(p, q) /\ Earlier(q, r) => Earlier(p, r)  BY <1>1 DEF Earlier
<1>4. Earlier(p, q) \/ p = q \/ Earlier(q, p)
  <2>1. p.cycle = q.cycle /\ p.block = q.block => p = q  BY DEF Place
  <2>2. /\ p.cycle < q.cycle \/ p.cycle = q.cycle \/ q.cycle < p.cycle
        /\ p.block < q.block \/ p.block = q.block \/ q.block < p.block
    BY <1>1
  <2>3. QED  BY <2>1, <2>2, Zenon DEF Earlier
<1>5. QED  BY <1>2, <1>3, <1>4

\* A record of a ring: where it begins and the place behind it.
Rings == [Position -> Block]
HeadersOf(r) == {b \in Position : r[b].len > 0}
Start(r, b) == [cycle |-> r[b].cycle, block |-> b]
End(r, b) == Beyond(Start(r, b), r[b].len)

\* Records have a length that records have, and none is from before the first
\* cycle.
Lengthy(r) == \A b \in HeadersOf(r) : r[b].len \in Lengths /\ r[b].cycle > 0

\* Records end before the next begins, and none after the top.
Chain(r, top) ==
  /\ \A b \in HeadersOf(r) : NotPast(End(r, b), top)
  /\ \A b, c \in HeadersOf(r) : Earlier(Start(r, b), Start(r, c)) => NotPast(End(r, b), Start(r, c))

\* The block behind a record has been written since: in the record's cycle,
\* or in a later one.
Followed(r, b) == r[End(r, b).block].cycle >= End(r, b).cycle

\* All are, but for those that end at these places.
Loose(r, ends) == \A b \in HeadersOf(r) : Followed(r, b) \/ End(r, b) \in ends

\* A record begins before it ends.
LEMMA EndFact ==
  ASSUME NEW r \in Rings, Lengthy(r), NEW b \in HeadersOf(r)
  PROVE  /\ b \in Position /\ r[b].cycle \in Nat /\ r[b].len \in 1 .. Total
         /\ Start(r, b) \in Place /\ End(r, b) \in Place /\ Earlier(Start(r, b), End(r, b))
<1>1. b \in Position /\ r[b] \in Block /\ r[b].len \in 1 .. Total  BY SearchAssumption DEF HeadersOf, Rings, Lengthy
<1>2. r[b].cycle \in Nat  BY <1>1 DEF Block
<1>3. Start(r, b) \in Place  BY <1>1, <1>2 DEF Start, Place
<1>4. QED  BY <1>1, <1>2, <1>3, BeyondFact DEF End

\* The cycle a block was last due to be written in, when the next record goes
\* to a place.
Due(p, b) == IF b < p.block THEN p.cycle ELSE p.cycle - 1

\* Each block of a record that fits the ring is another one, and is written
\* in the cycle after.
LEMMA BlocksOfRecord ==
  ASSUME NEW p \in Place, NEW len \in 1 .. Total, NEW k \in 0 .. len - 1
  PROVE  /\ k \in 0 .. Total /\ Where(p, k) \in Position /\ CycleAt(p, k) \in Nat
         /\ CycleAt(p, k) = Due(p, Where(p, k)) + 1
         /\ k = IF Where(p, k) < p.block THEN Where(p, k) + Total - p.block ELSE Where(p, k) - p.block
<1>1. Total \in Nat /\ len \in Nat /\ k \in Nat /\ k < Total /\ p.block \in Nat /\ p.cycle \in Nat
      /\ p.block < Total
  BY TotalType DEF Place, Position
<1>2. k \in 0 .. Total  BY <1>1
<1>3. /\ Where(p, k) = IF p.block + k < Total THEN p.block + k ELSE p.block + k - Total
      /\ CycleAt(p, k) = IF p.block + k < Total THEN p.cycle ELSE p.cycle + 1
      /\ Where(p, k) \in Position /\ CycleAt(p, k) \in Nat
  BY <1>2, PlaceFact
<1>4. CASE p.block + k < Total
  <2>1. Where(p, k) = p.block + k /\ CycleAt(p, k) = p.cycle  BY <1>3, <1>4
  <2>2. ~(Where(p, k) < p.block) /\ k = Where(p, k) - p.block  BY <1>1, <2>1
  <2>3. Due(p, Where(p, k)) = p.cycle - 1  BY <2>2 DEF Due
  <2>4. p.cycle = p.cycle - 1 + 1  BY <1>1
  <2>5. QED  BY <1>2, <1>3, <2>1, <2>2, <2>3, <2>4
<1>5. CASE ~(p.block + k < Total)
  <2>1. Where(p, k) = p.block + k - Total /\ CycleAt(p, k) = p.cycle + 1  BY <1>3, <1>5
  <2>2. Where(p, k) < p.block /\ k = Where(p, k) + Total - p.block  BY <1>1, <2>1
  <2>3. Due(p, Where(p, k)) = p.cycle  BY <2>2 DEF Due
  <2>4. QED  BY <1>2, <1>3, <2>1, <2>2, <2>3
<1>6. QED  BY <1>4, <1>5

\* The ring after a record: its landed blocks, and the others as they were.
LEMMA StampedIs ==
  ASSUME NEW r \in Rings, NEW p \in Place, NEW len \in 1 .. Total, NEW landed \in SUBSET (0 .. len - 1)
  PROVE  /\ Stamped(r, p, len, landed) \in Rings
         /\ \A k \in landed : Stamped(r, p, len, landed)[Where(p, k)]
                                = [cycle |-> CycleAt(p, k), len |-> IF k = 0 THEN len ELSE 0]
         /\ \A b \in Position : (\A k \in landed : Where(p, k) # b) => Stamped(r, p, len, landed)[b] = r[b]
<1> DEFINE S == Stamped(r, p, len, landed)
           Put(k) == [cycle |-> CycleAt(p, k), len |-> IF k = 0 THEN len ELSE 0]
           Pick(b) == CHOOSE i \in landed : Where(p, i) = b
<1>1. \A k \in landed : k \in 0 .. len - 1  OBVIOUS
<1>2. ASSUME NEW j \in landed, NEW k \in landed, Where(p, j) = Where(p, k) PROVE j = k
  BY <1>1, <1>2, BlocksOfRecord
<1>3. \A k \in landed : Where(p, k) \in Position /\ Put(k) \in Block
  <2>1. ASSUME NEW k \in landed PROVE Where(p, k) \in Position /\ Put(k) \in Block
    <3>1. Where(p, k) \in Position /\ CycleAt(p, k) \in Nat  BY <1>1, BlocksOfRecord
    <3>2. len \in Nat  BY TotalType
    <3>3. QED  BY <3>1, <3>2 DEF Block
  <2>2. QED  BY <2>1
<1>4. S = [b \in Position |-> IF \E k \in landed : Where(p, k) = b THEN Put(Pick(b)) ELSE r[b]]
  BY DEF Stamped
<1>5. \A k \in landed : Pick(Where(p, k)) = k  BY <1>2
<1>6. \A b \in Position : (\E k \in landed : Where(p, k) = b) => Pick(b) \in landed  OBVIOUS
<1> HIDE DEF S, Put, Pick
<1>7. \A k \in landed : S[Where(p, k)] = Put(k)  BY <1>3, <1>4, <1>5
<1>8. \A b \in Position : (\A k \in landed : Where(p, k) # b) => S[b] = r[b]  BY <1>4
<1>9. S \in Rings
  <2>1. \A b \in Position : (IF \E k \in landed : Where(p, k) = b THEN Put(Pick(b)) ELSE r[b]) \in Block
    BY <1>3, <1>6 DEF Rings
  <2>2. QED  BY <2>1, <1>4 DEF Rings
<1>10. QED  BY <1>7, <1>8, <1>9 DEF S, Put

\* A record whose header landed is the last of the chain; one whose header
\* did not leaves the chain as it was, though it may lose some of its headers.
\* Cycles only grow, so what was followed still is.
LEMMA StampKeeps ==
  ASSUME NEW r \in Rings, Lengthy(r), NEW top \in Place, NEW p \in Place, p.cycle > 0, NotPast(top, p),
         NEW len \in Lengths, NEW landed \in SUBSET (0 .. len - 1),
         \A k \in landed : r[Where(p, k)].cycle <= CycleAt(p, k),
         Chain(r, top), NEW ends, Loose(r, ends),
         NEW s, s = Stamped(r, p, len, landed)
  PROVE  /\ s \in Rings /\ Lengthy(s)
         /\ 0 \in landed => /\ Chain(s, Beyond(p, len)) /\ Loose(s, (ends \ {p}) \cup {Beyond(p, len)})
                            /\ p.block \in HeadersOf(s) /\ End(s, p.block) = Beyond(p, len)
         /\ 0 \notin landed => Chain(s, top) /\ Loose(s, ends)
<1>0. len \in 1 .. Total  BY SearchAssumption
<1>1. /\ s \in Rings
      /\ \A k \in landed : s[Where(p, k)] = [cycle |-> CycleAt(p, k), len |-> IF k = 0 THEN len ELSE 0]
      /\ \A b \in Position : (\A k \in landed : Where(p, k) # b) => s[b] = r[b]
  <2> DEFINE S == Stamped(r, p, len, landed)
  <2>1. /\ S \in Rings
        /\ \A k \in landed : S[Where(p, k)] = [cycle |-> CycleAt(p, k), len |-> IF k = 0 THEN len ELSE 0]
        /\ \A b \in Position : (\A k \in landed : Where(p, k) # b) => S[b] = r[b]
    BY <1>0, StampedIs
  <2>2. S = s  OBVIOUS
  <2> HIDE DEF S
  <2>3. QED  BY <2>1, <2>2
<1>a. ASSUME NEW k \in landed, NEW b, Where(p, k) = b
      PROVE  s[b].cycle = CycleAt(p, k) /\ (k # 0 => s[b].len = 0)
  <2> DEFINE v == [cycle |-> CycleAt(p, k), len |-> IF k = 0 THEN len ELSE 0]
  <2>1. s[b] = v  BY <1>1, <1>a
  <2>2. v.cycle = CycleAt(p, k) /\ (k # 0 => v.len = 0)  OBVIOUS
  <2> HIDE DEF v
  <2>3. QED  BY <2>1, <2>2
<1>2. Where(p, 0) = p.block /\ CycleAt(p, 0) = p.cycle
  <2>1. 0 \in 0 .. Total /\ p.block + 0 = p.block /\ p.block < Total  BY TotalType DEF Place, Position
  <2>2. QED  BY <2>1, PlaceFact
<1>3. p.block \in Position /\ p.cycle \in Nat /\ p = [cycle |-> p.cycle, block |-> p.block] /\ len > 0
  BY <1>0, TotalType DEF Place
<1>4. 0 \in landed => /\ p.block \in HeadersOf(s) /\ s[p.block].len = len /\ s[p.block].cycle = p.cycle
                      /\ Start(s, p.block) = p /\ End(s, p.block) = Beyond(p, len)
  <2>1. SUFFICES ASSUME 0 \in landed
                 PROVE  /\ p.block \in HeadersOf(s) /\ s[p.block].len = len /\ s[p.block].cycle = p.cycle
                        /\ Start(s, p.block) = p /\ End(s, p.block) = Beyond(p, len)
    OBVIOUS
  <2>2. s[p.block] = [cycle |-> p.cycle, len |-> len]  BY <1>1, <1>2, <2>1
  <2>3. Start(s, p.block) = p  BY <2>2, <1>3 DEF Start
  <2>4. QED  BY <2>2, <2>3, <1>3 DEF HeadersOf, End
<1>5. ASSUME NEW b \in HeadersOf(s)
      PROVE  \/ 0 \in landed /\ b = p.block
             \/ b \in HeadersOf(r) /\ s[b] = r[b] /\ Start(s, b) = Start(r, b) /\ End(s, b) = End(r, b)
  <2>1. b \in Position /\ s[b].len > 0  BY DEF HeadersOf
  <2>2. CASE \E k \in landed : Where(p, k) = b
    <3>1. PICK k \in landed : Where(p, k) = b  BY <2>2
    <3>2. k # 0 => s[b].len = 0  BY <1>a, <3>1
    <3>3. k = 0  BY <2>1, <3>2
    <3>4. QED  BY <3>1, <3>3, <1>2
  <2>3. CASE \A k \in landed : Where(p, k) # b
    <3>1. s[b] = r[b]  BY <1>1, <2>1, <2>3
    <3>2. QED  BY <3>1, <2>1 DEF HeadersOf, Start, End
  <2>4. QED  BY <2>2, <2>3
<1>6. ASSUME NEW b \in Position PROVE s[b].cycle \in Nat /\ r[b].cycle \in Nat /\ r[b].cycle <= s[b].cycle
  <2>1. s[b] \in Block /\ r[b] \in Block  BY <1>1 DEF Rings
  <2>2. s[b].cycle \in Nat /\ r[b].cycle \in Nat  BY <2>1 DEF Block
  <2>3. CASE \E k \in landed : Where(p, k) = b
    <3>1. PICK k \in landed : Where(p, k) = b  BY <2>3
    <3>2. s[b].cycle = CycleAt(p, k)  BY <1>a, <3>1
    <3>3. QED  BY <2>2, <3>1, <3>2
  <2>4. CASE \A k \in landed : Where(p, k) # b  BY <1>1, <2>2, <2>4
  <2>5. QED  BY <2>2, <2>3, <2>4
<1>7. Lengthy(s)
  <2>1. SUFFICES ASSUME NEW b \in HeadersOf(s) PROVE s[b].len \in Lengths /\ s[b].cycle > 0  BY DEF Lengthy
  <2>2. CASE 0 \in landed /\ b = p.block  BY <1>4, <2>2
  <2>3. CASE b \in HeadersOf(r) /\ s[b] = r[b]  BY <2>3 DEF Lengthy
  <2>4. QED  BY <1>5, <2>2, <2>3
<1>8. ASSUME NEW b \in HeadersOf(r), NEW e, e = End(r, b), b \in HeadersOf(s), End(s, b) = e, Followed(r, b)
      PROVE  Followed(s, b)
  <2>1. e \in Place  BY <1>8, EndFact
  <2>2. e.block \in Position /\ e.cycle \in Nat  BY <2>1 DEF Place
  <2>3. r[e.block].cycle >= e.cycle  BY <1>8 DEF Followed
  <2>4. s[e.block].cycle >= e.cycle  BY <2>2, <2>3, <1>6
  <2>5. QED  BY <2>4, <1>8 DEF Followed
<1> DEFINE q == Beyond(p, len)
<1>9. q \in Place /\ Earlier(p, q)  BY <1>0, BeyondFact
<1> HIDE DEF q
<1>10. ASSUME NEW b \in HeadersOf(r) PROVE NotPast(End(r, b), p) /\ NotPast(End(r, b), q)
  <2>1. NotPast(End(r, b), top)  BY DEF Chain
  <2>2. End(r, b) \in Place  BY EndFact
  <2>3. NotPast(End(r, b), p)  BY <2>1, <2>2, EarlierOrder DEF NotPast
  <2>4. QED  BY <2>2, <2>3, <1>9, EarlierOrder DEF NotPast
<1>11. ASSUME 0 \in landed PROVE Chain(s, q) /\ Loose(s, (ends \ {p}) \cup {q})
  <2>1. Start(s, p.block) = p /\ End(s, p.block) = q /\ s[p.block].cycle = p.cycle  BY <1>4, <1>11 DEF q
  <2>2. ASSUME NEW b \in HeadersOf(s) PROVE NotPast(End(s, b), q)
    BY <2>1, <1>5, <1>10 DEF NotPast
  <2>3. ASSUME NEW b \in HeadersOf(s), NEW c \in HeadersOf(s), Earlier(Start(s, b), Start(s, c))
        PROVE  NotPast(End(s, b), Start(s, c))
    <3>1. CASE b = p.block
      <4>1. Start(s, b) = p  BY <2>1, <3>1
      <4>2. c # p.block  BY <4>1, <2>3, <2>1, EarlierOrder
      <4>3. c \in HeadersOf(r) /\ Start(s, c) = Start(r, c)  BY <4>2, <1>5
      <4>4. NotPast(End(r, c), p) /\ Earlier(Start(r, c), End(r, c)) /\ Start(r, c) \in Place /\ End(r, c) \in Place
        BY <4>3, <1>10, EndFact
      <4>5. Earlier(Start(r, c), p)  BY <4>4, EarlierOrder DEF NotPast
      <4>6. QED  BY <4>1, <4>3, <4>4, <4>5, <2>3, EarlierOrder
    <3>2. CASE b # p.block /\ c = p.block
      <4>1. b \in HeadersOf(r) /\ End(s, b) = End(r, b)  BY <3>2, <1>5
      <4>2. QED  BY <4>1, <3>2, <2>1, <1>10
    <3>3. CASE b # p.block /\ c # p.block
      <4>1. /\ b \in HeadersOf(r) /\ End(s, b) = End(r, b) /\ Start(s, b) = Start(r, b)
            /\ c \in HeadersOf(r) /\ Start(s, c) = Start(r, c)
        BY <3>3, <1>5
      <4>2. QED  BY <4>1, <2>3 DEF Chain
    <3>4. QED  BY <3>1, <3>2, <3>3
  <2>4. ASSUME NEW b \in HeadersOf(s) PROVE Followed(s, b) \/ End(s, b) \in (ends \ {p}) \cup {q}
    <3>1. CASE b = p.block  BY <3>1, <2>1
    <3>2. CASE b # p.block
      <4>1. b \in HeadersOf(r) /\ End(s, b) = End(r, b)  BY <3>2, <1>5
      <4>2. CASE Followed(r, b)  BY <4>1, <4>2, <1>8
      <4>3. CASE End(r, b) \in ends /\ End(r, b) # p  BY <4>1, <4>3
      <4>4. CASE End(r, b) = p
        <5>1. End(s, b) = p /\ s[p.block].cycle >= p.cycle  BY <4>1, <4>4, <2>1, <1>3
        <5>2. QED  BY <5>1 DEF Followed
      <4>5. QED  BY <4>1, <4>2, <4>3, <4>4 DEF Loose
    <3>3. QED  BY <3>1, <3>2
  <2>5. QED  BY <2>2, <2>3, <2>4 DEF Chain, Loose
<1>12. ASSUME 0 \notin landed PROVE Chain(s, top) /\ Loose(s, ends)
  <2>1. ASSUME NEW b \in HeadersOf(s)
        PROVE  b \in HeadersOf(r) /\ Start(s, b) = Start(r, b) /\ End(s, b) = End(r, b)
    BY <1>5, <1>12
  <2>2. Chain(s, top)  BY <2>1 DEF Chain
  <2>3. Loose(s, ends)
    <3>1. SUFFICES ASSUME NEW b \in HeadersOf(s) PROVE Followed(s, b) \/ End(s, b) \in ends  BY DEF Loose
    <3>2. b \in HeadersOf(r) /\ End(s, b) = End(r, b)  BY <2>1
    <3>3. Followed(r, b) \/ End(r, b) \in ends  BY <3>2 DEF Loose
    <3>4. QED  BY <3>2, <3>3, <1>8
  <2>4. QED  BY <2>2, <2>3
<1>13. QED  BY <1>1, <1>4, <1>7, <1>11, <1>12 DEF q

-----------------------------------------------------------------------------
(* The invariant *)

\* No block is past the cycle it was due in; every block is in it.
Reached(r, p) == \A b \in Position : r[b].cycle <= Due(p, b)
Even(r, p)    == \A b \in Position : r[b].cycle = Due(p, b)

\* A record ends where the next one goes, unless there is none yet.
Ended(r, p) ==
  \/ p = [cycle |-> 1, block |-> 0] /\ HeadersOf(r) = {}
  \/ \E b \in HeadersOf(r) : End(r, b) = p

Running == Reached(ring, at) /\ Chain(ring, at) /\ Loose(ring, {at}) /\ Ended(ring, at)

\* After a stop the chain ends at some place, which nothing follows.  With two
\* records in flight the first of them may be missing, and then nothing
\* follows the last record before it either.
Stopped(ends) == \E top \in Place : Chain(ring, top) /\ Loose(ring, {top} \cup ends)

Inv ==
  /\ ring \in Rings /\ Lengthy(ring) /\ at \in Place /\ at.cycle > 0
  /\ state \in {"whole", "resumed", "cut", "flight"}
  /\ state \in {"whole", "resumed"} => Running
  /\ state = "whole" => Even(ring, at)
  /\ state = "cut" => Stopped({})
  /\ state = "flight" => Stopped({at})

\* A record's blocks are due a cycle later behind it, the others are not.
LEMMA DueBeyond ==
  ASSUME NEW p \in Place, NEW len \in 1 .. Total, NEW b \in Position
  PROVE  Due(Beyond(p, len), b) = IF \E k \in 0 .. len - 1 : Where(p, k) = b THEN Due(p, b) + 1 ELSE Due(p, b)
<1> DEFINE d == IF b < p.block THEN b + Total - p.block ELSE b - p.block
           q == Beyond(p, len)
<1>1. Total \in Nat \ {0} /\ len \in Nat /\ len > 0 /\ len <= Total /\ p.block \in Nat /\ p.cycle \in Nat
      /\ p.block < Total /\ b \in Nat /\ b < Total
  BY TotalType DEF Place, Position
<1>2. d \in Nat /\ d < Total  BY <1>1
<1>3. (\E k \in 0 .. len - 1 : Where(p, k) = b) <=> d < len
  <2>1. ASSUME NEW k \in 0 .. len - 1, Where(p, k) = b PROVE d < len
    <3>1. k = d  BY <2>1, BlocksOfRecord
    <3> HIDE DEF d
    <3>2. QED  BY <3>1, <1>1
  <2>2. ASSUME d < len PROVE \E k \in 0 .. len - 1 : Where(p, k) = b
    <3>1. Where(p, d) = IF p.block + d < Total THEN p.block + d ELSE p.block + d - Total
      <4>1. d \in 0 .. Total  BY <1>1, <1>2
      <4> HIDE DEF d
      <4>2. QED  BY <4>1, PlaceFact
    <3>2. (IF p.block + d < Total THEN p.block + d ELSE p.block + d - Total) = b  BY <1>1
    <3>3. d \in 0 .. len - 1  BY <1>1, <1>2, <2>2
    <3>4. QED  BY <3>1, <3>2, <3>3
  <2> HIDE DEF d
  <2>3. QED  BY <2>1, <2>2
<1>4. /\ q.cycle = IF p.block + len < Total THEN p.cycle ELSE p.cycle + 1
      /\ q.block = IF p.block + len < Total THEN p.block + len ELSE p.block + len - Total
  BY BeyondFact
<1> HIDE DEF q
<1>5. Due(q, b) = IF d < len THEN Due(p, b) + 1 ELSE Due(p, b)
  <2>1. CASE p.block + len < Total  BY <1>1, <1>4, <2>1 DEF Due
  <2>2. CASE ~(p.block + len < Total)  BY <1>1, <1>4, <2>2 DEF Due
  <2>3. QED  BY <2>1, <2>2
<1> HIDE DEF d
<1>6. QED  BY <1>3, <1>5 DEF q

\* What a record brings is due behind it.
LEMMA ReachedStep ==
  ASSUME NEW r \in Rings, NEW p \in Place, NEW len \in 1 .. Total, NEW landed \in SUBSET (0 .. len - 1),
         Reached(r, p)
  PROVE  /\ Reached(Stamped(r, p, len, landed), Beyond(p, len))
         /\ Even(r, p) /\ landed = 0 .. len - 1 => Even(Stamped(r, p, len, landed), Beyond(p, len))
         /\ \A k \in landed : r[Where(p, k)].cycle <= CycleAt(p, k)
<1> DEFINE s == Stamped(r, p, len, landed)
<1>1. /\ s \in Rings
      /\ \A k \in landed : s[Where(p, k)] = [cycle |-> CycleAt(p, k), len |-> IF k = 0 THEN len ELSE 0]
      /\ \A b \in Position : (\A k \in landed : Where(p, k) # b) => s[b] = r[b]
  <2>1. s \in Rings  BY StampedIs
  <2>2. \A k \in landed : s[Where(p, k)] = [cycle |-> CycleAt(p, k), len |-> IF k = 0 THEN len ELSE 0]
    BY StampedIs
  <2>3. \A b \in Position : (\A k \in landed : Where(p, k) # b) => s[b] = r[b]  BY StampedIs
  <2>4. QED  BY <2>1, <2>2, <2>3
<1> DEFINE q == Beyond(p, len)
<1> HIDE DEF s
<1>2. ASSUME NEW b \in Position PROVE r[b].cycle \in Nat /\ Due(p, b) \in Int
  <2>1. r[b] \in Block /\ p.cycle \in Nat  BY DEF Rings, Place
  <2>2. QED  BY <2>1 DEF Block, Due
<1>3. ASSUME NEW b \in Position
      PROVE  /\ s[b].cycle <= Due(q, b)
             /\ Even(r, p) /\ landed = 0 .. len - 1 => s[b].cycle = Due(q, b)
  <2>1. Due(q, b) = IF \E k \in 0 .. len - 1 : Where(p, k) = b THEN Due(p, b) + 1 ELSE Due(p, b)
    BY DueBeyond
  <2>2. r[b].cycle <= Due(p, b)  BY DEF Reached
  <2>3. CASE \E k \in landed : Where(p, k) = b
    <3>1. PICK k \in landed : Where(p, k) = b  BY <2>3
    <3> DEFINE v == [cycle |-> CycleAt(p, k), len |-> IF k = 0 THEN len ELSE 0]
    <3>2. s[b] = v  BY <1>1, <3>1
    <3>3. v.cycle = CycleAt(p, k)  OBVIOUS
    <3> HIDE DEF v
    <3>4. k \in 0 .. len - 1  OBVIOUS
    <3>5. CycleAt(p, k) = Due(p, b) + 1  BY <3>1, <3>4, BlocksOfRecord
    <3>6. Due(q, b) = Due(p, b) + 1  BY <3>1, <3>4, <2>1
    <3>7. QED  BY <3>2, <3>3, <3>5, <3>6, <1>2
  <2>4. CASE \A k \in landed : Where(p, k) # b
    <3>1. s[b] = r[b]  BY <1>1, <2>4
    <3>2. Due(q, b) = Due(p, b) \/ Due(q, b) = Due(p, b) + 1  BY <2>1
    <3>3. s[b].cycle <= Due(q, b)  BY <3>1, <3>2, <2>2, <1>2
    <3>4. ASSUME Even(r, p), landed = 0 .. len - 1 PROVE s[b].cycle = Due(q, b)
      <4>1. Due(q, b) = Due(p, b)  BY <2>1, <2>4, <3>4
      <4>2. QED  BY <3>1, <4>1, <3>4 DEF Even
    <3>5. QED  BY <3>3, <3>4
  <2>5. QED  BY <2>3, <2>4
<1>4. ASSUME NEW k \in landed PROVE r[Where(p, k)].cycle <= CycleAt(p, k)
  <2>1. k \in 0 .. len - 1  OBVIOUS
  <2>2. Where(p, k) \in Position /\ CycleAt(p, k) = Due(p, Where(p, k)) + 1  BY <2>1, BlocksOfRecord
  <2>3. r[Where(p, k)].cycle <= Due(p, Where(p, k))  BY <2>2 DEF Reached
  <2>4. QED  BY <2>2, <2>3, <1>2
<1>5. QED  BY <1>3, <1>4 DEF s, q, Reached, Even

\* An empty ring.
LEMMA InitInv == Init => Inv
<1> SUFFICES ASSUME Init PROVE Inv  OBVIOUS
<1>1. Total \in Nat \ {0} /\ 0 \in Position  BY TotalType DEF Position
<1>2. ring \in Rings /\ at \in Place /\ at.cycle = 1 /\ at.block = 0 /\ at = [cycle |-> 1, block |-> 0]
  BY <1>1 DEF Init, Rings, Block, Place
<1>3. \A b \in Position : ring[b].cycle = 0 /\ ring[b].len = 0  BY DEF Init
<1>4. HeadersOf(ring) = {}  BY <1>3 DEF HeadersOf
<1>5. Lengthy(ring) /\ Chain(ring, at) /\ Loose(ring, {at}) /\ Ended(ring, at)
  BY <1>2, <1>4 DEF Lengthy, Chain, Loose, Ended
<1>6. \A b \in Position : b \in Nat /\ ~(b < 0)  BY <1>1 DEF Position
<1>7. Reached(ring, at) /\ Even(ring, at)  BY <1>2, <1>3, <1>6 DEF Reached, Even, Due
<1>8. QED  BY <1>2, <1>5, <1>7 DEF Inv, Running, Init

\* A record, whole or in part, behind a log that was sound.
LEMMA OneRecord ==
  ASSUME Inv, Running, NEW len \in Lengths, NEW landed \in SUBSET (0 .. len - 1),
         NEW s, s = Stamped(ring, at, len, landed), NEW q, q = Beyond(at, len)
  PROVE  /\ s \in Rings /\ Lengthy(s) /\ q \in Place /\ q.cycle > 0 /\ Earlier(at, q) /\ Reached(s, q)
         /\ Even(ring, at) /\ landed = 0 .. len - 1 => Even(s, q)
         /\ 0 \in landed => Chain(s, q) /\ Loose(s, {q}) /\ Ended(s, q)
         /\ 0 \notin landed => Chain(s, at) /\ Loose(s, {at})
<1>1. len \in 1 .. Total  BY SearchAssumption
<1>2. ring \in Rings /\ Lengthy(ring) /\ at \in Place /\ at.cycle > 0 /\ NotPast(at, at)  BY DEF Inv, NotPast
<1>3. Reached(ring, at) /\ Chain(ring, at) /\ Loose(ring, {at})  BY DEF Running
<1>4. /\ Reached(s, q)
      /\ Even(ring, at) /\ landed = 0 .. len - 1 => Even(s, q)
      /\ \A k \in landed : ring[Where(at, k)].cycle <= CycleAt(at, k)
  <2>1. /\ Reached(Stamped(ring, at, len, landed), Beyond(at, len))
        /\ Even(ring, at) /\ landed = 0 .. len - 1 => Even(Stamped(ring, at, len, landed), Beyond(at, len))
        /\ \A k \in landed : ring[Where(at, k)].cycle <= CycleAt(at, k)
    BY <1>1, <1>2, <1>3, ReachedStep
  <2>2. QED  BY <2>1
<1>5. /\ q \in Place /\ Earlier(at, q)
      /\ q.cycle = IF at.block + len < Total THEN at.cycle ELSE at.cycle + 1
  BY <1>1, <1>2, BeyondFact
<1>6. q.cycle > 0
  <2>1. at.cycle \in Nat  BY <1>2 DEF Place
  <2>2. QED  BY <2>1, <1>2, <1>5
<1>7. /\ s \in Rings /\ Lengthy(s)
      /\ 0 \in landed => /\ Chain(s, Beyond(at, len)) /\ Loose(s, ({at} \ {at}) \cup {Beyond(at, len)})
                         /\ at.block \in HeadersOf(s) /\ End(s, at.block) = Beyond(at, len)
      /\ 0 \notin landed => Chain(s, at) /\ Loose(s, {at})
  <2> DEFINE ends == {at}
  <2>1. Loose(ring, ends)  BY <1>3
  <2> HIDE DEF ends
  <2>2. \A k \in landed : ring[Where(at, k)].cycle <= CycleAt(at, k)  BY <1>4
  <2>3. /\ s \in Rings /\ Lengthy(s)
        /\ 0 \in landed => /\ Chain(s, Beyond(at, len)) /\ Loose(s, (ends \ {at}) \cup {Beyond(at, len)})
                           /\ at.block \in HeadersOf(s) /\ End(s, at.block) = Beyond(at, len)
        /\ 0 \notin landed => Chain(s, at) /\ Loose(s, ends)
    BY <1>2, <1>3, <2>1, <2>2, StampKeeps
  <2>4. QED  BY <2>3 DEF ends
<1>8. ({at} \ {at}) \cup {q} = {q}  OBVIOUS
<1>9. 0 \in landed => Chain(s, q) /\ Loose(s, {q}) /\ Ended(s, q)  BY <1>7, <1>8 DEF Ended
<1>10. QED  BY <1>4, <1>5, <1>6, <1>7, <1>9

\* Every write and every stop keeps the invariant.
LEMMA InvStep == Inv /\ [Next]_vars => Inv'
<1> SUFFICES ASSUME Inv, [Next]_vars PROVE Inv'  OBVIOUS
<1>1. ASSUME NEW len \in Lengths, Write(len) PROVE Inv'
  <2> DEFINE all == 0 .. len - 1
  <2>1. Running /\ ring' = Stamped(ring, at, len, all) /\ at' = Beyond(at, len) /\ state' = state
        /\ state \in {"whole", "resumed"}
    BY <1>1 DEF Write, Inv
  <2>2. all \in SUBSET (0 .. len - 1) /\ 0 \in all  BY SearchAssumption
  <2>3. /\ ring' \in Rings /\ Lengthy(ring') /\ at' \in Place /\ at'.cycle > 0 /\ Reached(ring', at')
        /\ Even(ring, at) => Even(ring', at')
        /\ Chain(ring', at') /\ Loose(ring', {at'}) /\ Ended(ring', at')
    BY <2>1, <2>2, OneRecord
  <2>4. state = "whole" => Even(ring, at)  BY DEF Inv
  <2>5. QED  BY <2>1, <2>3, <2>4 DEF Inv, Running
<1>2. ASSUME NEW len \in Lengths, NEW landed \in SUBSET (0 .. len - 1), Cut(len, landed) PROVE Inv'
  <2> DEFINE q == Beyond(at, len)
  <2>1. Running /\ ring' = Stamped(ring, at, len, landed)  BY <1>2 DEF Cut, Inv
  <2>2. at \in Place /\ at.cycle > 0  BY DEF Inv
  <2>3. /\ ring' \in Rings /\ Lengthy(ring') /\ q \in Place /\ q.cycle > 0 /\ Reached(ring', q)
        /\ 0 \in landed => Chain(ring', q) /\ Loose(ring', {q}) /\ Ended(ring', q)
        /\ 0 \notin landed => Chain(ring', at) /\ Loose(ring', {at})
    BY <2>1, OneRecord
  <2>4. CASE 0 \in landed /\ at' = q /\ state' = "resumed"
    BY <2>3, <2>4 DEF Inv, Running
  <2>5. CASE state' = "cut" /\ at' = at
    <3>1. \E top \in Place : Chain(ring', top) /\ Loose(ring', {top})  BY <2>2, <2>3
    <3>2. \A top : {top} \cup {} = {top}  OBVIOUS
    <3>3. \E top \in Place : Chain(ring', top) /\ Loose(ring', {top} \cup {})  BY <3>1, <3>2
    <3>4. (Stopped({}))'  BY <3>3 DEF Stopped
    <3>5. QED  BY <2>2, <2>3, <2>5, <3>4 DEF Inv
  <2>6. QED  BY <1>2, <2>4, <2>5 DEF Cut
<1>3. ASSUME NEW len \in Lengths, NEW next \in Lengths, NEW landed \in SUBSET (0 .. len - 1),
             NEW landedNext \in SUBSET (0 .. next - 1), CutTwo(len, next, landed, landedNext)
      PROVE  Inv'
  <2> DEFINE s == Stamped(ring, at, len, landed)
             q == Beyond(at, len)
             z == Beyond(q, next)
             top1 == IF 0 \in landed THEN q ELSE at
  <2>1. Running /\ ring' = Stamped(s, q, next, landedNext) /\ state' = "flight" /\ at' = at
    BY <1>3 DEF CutTwo, Inv
  <2>2. at \in Place /\ at.cycle > 0  BY DEF Inv
  <2>3. /\ s \in Rings /\ Lengthy(s) /\ q \in Place /\ q.cycle > 0 /\ Earlier(at, q) /\ Reached(s, q)
        /\ 0 \in landed => Chain(s, q) /\ Loose(s, {q})
        /\ 0 \notin landed => Chain(s, at) /\ Loose(s, {at})
    BY <2>1, OneRecord
  <2> HIDE DEF s, q
  <2>4. next \in 1 .. Total  BY SearchAssumption
  <2>5. \A k \in landedNext : s[Where(q, k)].cycle <= CycleAt(q, k)  BY <2>3, <2>4, ReachedStep
  <2>6. top1 \in Place /\ NotPast(top1, q) /\ Chain(s, top1) /\ Loose(s, {top1})
    BY <2>2, <2>3 DEF NotPast
  <2>7. top1 \in {at, q}  OBVIOUS
  <2> HIDE DEF top1
  <2>8. /\ ring' \in Rings /\ Lengthy(ring')
        /\ 0 \in landedNext => Chain(ring', Beyond(q, next)) /\ Loose(ring', ({top1} \ {q}) \cup {Beyond(q, next)})
        /\ 0 \notin landedNext => Chain(ring', top1) /\ Loose(ring', {top1})
    BY <2>1, <2>3, <2>4, <2>5, <2>6, StampKeeps, ZenonT(60)
  <2>9. z \in Place  BY <2>3, <2>4, BeyondFact
  <2>10. \E top \in Place : Chain(ring', top) /\ Loose(ring', {top} \cup {at})
    <3>1. CASE 0 \in landedNext
      <4>1. Chain(ring', z) /\ Loose(ring', ({top1} \ {q}) \cup {z})  BY <2>8, <3>1
      <4>2. ({top1} \ {q}) \cup {z} \subseteq {z} \cup {at}  BY <2>7
      <4>3. Loose(ring', {z} \cup {at})  BY <4>1, <4>2 DEF Loose
      <4>4. QED  BY <4>1, <4>3, <2>9
    <3>2. CASE 0 \notin landedNext
      <4>1. Chain(ring', top1) /\ Loose(ring', {top1})  BY <2>8, <3>2
      <4>2. Loose(ring', {top1} \cup {at})  BY <4>1 DEF Loose
      <4>3. QED  BY <4>1, <4>2, <2>6
    <3>3. QED  BY <3>1, <3>2
  <2>11. (Stopped({at}))'  BY <2>10, <2>1 DEF Stopped
  <2>12. QED  BY <2>1, <2>2, <2>8, <2>11 DEF Inv
<1>4. CASE UNCHANGED vars
  BY <1>4 DEF vars, Inv, Running, Stopped, Ended
<1>5. QED  BY <1>1, <1>2, <1>3, <1>4 DEF Next

\* Whatever landed of the last records, what is in the ring is a chain of
\* records, each followed but for the last.
THEOREM LogIsAChain == Spec => []Inv
<1>1. QED  BY InitInv, InvStep, PTL DEF Spec

-----------------------------------------------------------------------------
(* What the searches find *)

\* The record that ends at the top is the greatest.
LEMMA TopIsNewest ==
  ASSUME ring \in Rings, Lengthy(ring), NEW top \in Place, Chain(ring, top),
         NEW b \in HeadersOf(ring), End(ring, b) = top
  PROVE  WholeRing = b
<1>1. Headers = HeadersOf(ring)  BY DEF Headers, HeadersOf
<1>2. ASSUME NEW c \in HeadersOf(ring) PROVE ~Earlier(Start(ring, b), Start(ring, c))
  <2>1. SUFFICES ASSUME Earlier(Start(ring, b), Start(ring, c)) PROVE FALSE  OBVIOUS
  <2>2. NotPast(top, Start(ring, c)) /\ NotPast(End(ring, c), top)  BY <2>1 DEF Chain
  <2>3. Start(ring, c) \in Place /\ End(ring, c) \in Place /\ Earlier(Start(ring, c), End(ring, c))  BY EndFact
  <2>4. Earlier(Start(ring, c), top)  BY <2>2, <2>3, EarlierOrder DEF NotPast
  <2>5. QED  BY <2>2, <2>3, <2>4, EarlierOrder DEF NotPast
<1>3. ASSUME NEW c \in HeadersOf(ring), NEW d \in HeadersOf(ring)
      PROVE  LsnAtOrBefore(c, d) <=> ~Earlier(Start(ring, d), Start(ring, c))
  <2>1. c \in Nat /\ d \in Nat /\ ring[c].cycle \in Nat /\ ring[d].cycle \in Nat  BY EndFact, TotalType
  <2>2. Start(ring, c).cycle = ring[c].cycle /\ Start(ring, c).block = c
        /\ Start(ring, d).cycle = ring[d].cycle /\ Start(ring, d).block = d
    BY DEF Start
  <2>3. QED  BY <2>1, <2>2 DEF LsnAtOrBefore, Earlier
<1>4. \A c \in Headers : LsnAtOrBefore(c, b)  BY <1>1, <1>2, <1>3
<1>5. ASSUME NEW d \in Headers, \A c \in Headers : LsnAtOrBefore(c, d) PROVE d = b
  <2>1. ~Earlier(Start(ring, d), Start(ring, b)) /\ ~Earlier(Start(ring, b), Start(ring, d))
    BY <1>1, <1>2, <1>3, <1>5
  <2>2. Start(ring, d) \in Place /\ Start(ring, b) \in Place  BY <1>1, EndFact
  <2>3. Start(ring, d) = Start(ring, b)  BY <2>1, <2>2, EarlierOrder
  <2>4. QED  BY <2>3 DEF Start
<1>6. QED  BY <1>1, <1>4, <1>5 DEF WholeRing

\* The first and the last block.
LEMMA EndsFact ==
  ASSUME ring \in Rings
  PROVE  /\ Total - 1 \in Position /\ 0 \in Position
         /\ \A b \in Position : ring[b].cycle \in Nat /\ ring[b].len \in Nat
         /\ First \in Nat /\ Last \in Nat
<1>1. Total - 1 \in Position /\ 0 \in Position  BY TotalType DEF Position
<1>2. \A b \in Position : ring[b] \in Block  BY DEF Rings
<1>3. QED  BY <1>1, <1>2 DEF Block, First, Last

\* The three shapes of a ring, by what they say of the place found.
LEMMA HeadFact ==
  ASSUME ring \in Rings, HeadByCycle # None
  PROVE  /\ First > 0
         /\ \/ Last = First /\ HeadByCycle = Total
            \/ /\ Last # First /\ (Last = 0 \/ Last = First - 1)
               /\ HeadByCycle \in 1 .. Total - 1
               /\ ring[HeadByCycle].cycle = Last /\ ring[HeadByCycle - 1].cycle = First
<1>1. ~(Total < 2 \/ First = 0)  BY DEF HeadByCycle
<1>2. First \in Nat /\ Last \in Nat /\ Total \in Nat  BY EndsFact, TotalType
<1>3. CASE Last = First  BY <1>1, <1>2, <1>3 DEF HeadByCycle
<1>4. CASE Last # First
  <2>1. (Last = 0 \/ First - 1 = Last) /\ HeadByCycle = Bisect[<<0, Total - 1>>]
    BY <1>1, <1>4 DEF HeadByCycle
  <2>2. 0 \in Position /\ Total - 1 \in Position /\ 0 < Total - 1  BY <1>1, <1>2, EndsFact
  <2>3. ring[0].cycle = First /\ ring[Total - 1].cycle = Last  BY DEF First, Last
  <2>4. Turns(0, Total - 1)  BY <2>2, <2>3, BisectFinds
  <2>5. Turn(HeadByCycle, 0, Total - 1)  BY <2>1, <2>4 DEF Turns
  <2>6. 0 + 1 = 1  OBVIOUS
  <2>7. QED  BY <1>1, <1>2, <1>4, <2>1, <2>5, <2>6 DEF Turn
<1>5. QED  BY <1>3, <1>4

\* The highest block of a set.
LEMMA HighestFact ==
  ASSUME NEW bs \in SUBSET Position, bs # {}
  PROVE  /\ (CHOOSE b \in bs : \A c \in bs : c <= b) \in bs
         /\ \A x \in bs : (\A c \in bs : c <= x) => (CHOOSE b \in bs : \A c \in bs : c <= b) = x
<1>1. bs \in SUBSET Nat /\ Total \in Nat /\ \A i \in bs : i <= Total  BY TotalType DEF Position
<1>2. \E b \in bs : \A c \in bs : c <= b  BY <1>1, GreatestExists
<1>3. \A x, y \in bs : x <= y /\ y <= x => x = y  BY <1>1
<1>4. QED  BY <1>2, <1>3

\* The window is no longer than the ring.
WindowFits == WindowSize \in Nat /\ WindowSize > 0 /\ WindowSize <= Total /\ WindowSize <= Window
LEMMA WindowFact == WindowFits
BY SearchAssumption DEF WindowFits, WindowSize

\* The windows lie in the ring, before the head and from it on.
LEMMA WindowPlaces ==
  ASSUME NEW h \in 1 .. Total
  PROVE  /\ Straight(h) = {b \in Position : b < h /\ b >= h - WindowSize}
         /\ Wrapped(h) = IF h < WindowSize /\ Last # First /\ Last # 0
                         THEN {b \in Position : b >= Total - (WindowSize - h)} ELSE {}
         /\ \A b \in Wrapped(h) : b >= h
<1>1. h \in Nat /\ h > 0 /\ h <= Total /\ Total \in Nat /\ WindowSize \in Nat /\ WindowSize <= Total
  BY TotalType, WindowFact DEF WindowFits
<1>2. Straight(h) = {b \in Position : b < h /\ b >= h - WindowSize}
  BY <1>1 DEF Straight, Position
<1>3. Wrapped(h) = IF h < WindowSize /\ Last # First /\ Last # 0
                   THEN {b \in Position : b >= Total - (WindowSize - h)} ELSE {}
  <2>1. h < WindowSize => Total - (WindowSize - h) \in Nat  BY <1>1
  <2>2. h < WindowSize => Total - (WindowSize - h) .. Total - 1 = {b \in Position : b >= Total - (WindowSize - h)}
    BY <1>1, <2>1 DEF Position
  <2>3. QED  BY <2>2 DEF Wrapped
<1>4. \A b \in Wrapped(h) : b >= h  BY <1>1, <1>3 DEF Position
<1>5. QED  BY <1>2, <1>3, <1>4

\* What the bisection answers is a record that nothing follows: the block it
\* ends at is of an older cycle than one that had been written since.
LEMMA ByCycleSays ==
  ASSUME ring \in Rings, Lengthy(ring), ByCycle # None
  PROVE  ByCycle \in HeadersOf(ring) /\ ~Followed(ring, ByCycle)
<1> DEFINE h == HeadByCycle
           b == LastHeader(h)
           end == b + ring[b].len
<1>1. /\ h # None /\ WindowHolds(h) /\ b # None /\ ByCycle = b
      /\ (IF end > Total THEN end - Total ELSE end) = h
  BY DEF ByCycle
<1>2. /\ First > 0
      /\ \/ Last = First /\ h = Total
         \/ /\ Last # First /\ (Last = 0 \/ Last = First - 1)
            /\ h \in 1 .. Total - 1 /\ ring[h].cycle = Last /\ ring[h - 1].cycle = First
  BY <1>1, HeadFact
<1>3. First \in Nat /\ Last \in Nat /\ Total \in Nat \ {0}  BY EndsFact, TotalType
<1> HIDE DEF h
<1>4. h \in 1 .. Total  BY <1>2, <1>3
<1> DEFINE near == Headers \cap Straight(h)
           far  == Headers \cap Wrapped(h)
<1>5. b \in near \/ (near = {} /\ b \in far)
  <2>1. near \in SUBSET Position /\ far \in SUBSET Position  BY DEF Headers
  <2>2. b = IF near # {} THEN CHOOSE x \in near : \A c \in near : c <= x
            ELSE IF far # {} THEN CHOOSE x \in far : \A c \in far : c <= x ELSE None
    BY DEF LastHeader
  <2> HIDE DEF b, near, far
  <2>3. CASE near # {}  BY <2>1, <2>2, <2>3, HighestFact
  <2>4. CASE near = {} /\ far # {}  BY <2>1, <2>2, <2>4, HighestFact
  <2>5. QED  BY <2>2, <2>3, <2>4, <1>1
<1> HIDE DEF b
<1>6. b \in HeadersOf(ring)  BY <1>5 DEF Headers, HeadersOf
<1>7. b \in Position /\ ring[b].len \in 1 .. Total /\ Start(ring, b) \in Place  BY <1>6, EndFact
<1>8. b \in Nat /\ b < Total /\ ring[b].len \in Nat /\ ring[b].len <= Total /\ ring[b].len > 0
  BY <1>3, <1>7 DEF Position
<1> DEFINE e == End(ring, b)
<1>9. /\ e.cycle = IF b + ring[b].len < Total THEN ring[b].cycle ELSE ring[b].cycle + 1
      /\ e.block = IF b + ring[b].len < Total THEN b + ring[b].len ELSE b + ring[b].len - Total
  <2>1. Start(ring, b).block = b /\ Start(ring, b).cycle = ring[b].cycle  BY DEF Start
  <2>2. QED  BY <1>7, <2>1, BeyondFact DEF End
<1> HIDE DEF e
<1>10. CASE b \in near /\ h = Total
  <2>1. ring[b].cycle = First /\ Last = First  BY <1>1, <1>2, <1>3, <1>10 DEF WindowHolds
  <2>2. b + ring[b].len = Total  BY <1>1, <1>3, <1>8, <1>10
  <2>3. e.cycle = First + 1 /\ e.block = 0
    <3>1. ~(b + ring[b].len < Total) /\ b + ring[b].len - Total = 0  BY <1>3, <1>8, <2>2
    <3>2. QED  BY <1>9, <2>1, <3>1
  <2>4. ~(ring[e.block].cycle >= e.cycle)
    <3>1. ring[e.block].cycle = First  BY <2>3 DEF First
    <3>2. QED  BY <2>3, <3>1, <1>3
  <2>5. QED  BY <2>4, <1>1, <1>6 DEF Followed, e
<1>11. CASE b \in near /\ h # Total
  <2>1. ring[b].cycle = First /\ b < h /\ h < Total /\ ring[h].cycle = Last /\ Last < First
    BY <1>1, <1>2, <1>3, <1>4, <1>11, WindowPlaces DEF WindowHolds
  <2>2. b + ring[b].len = h  BY <1>1, <1>3, <1>4, <1>8, <2>1
  <2>3. e.cycle = First /\ e.block = h  BY <2>1, <2>2, <1>9
  <2>4. QED  BY <2>1, <2>3, <1>1, <1>3, <1>6 DEF Followed, e
<1>12. CASE b \in far
  <2>1. Last # First /\ Last # 0 /\ ring[b].cycle = Last /\ b >= h
    BY <1>1, <1>4, <1>12, WindowPlaces DEF WindowHolds
  <2>2. Last = First - 1 /\ h < Total /\ ring[h].cycle = Last  BY <1>2, <1>3, <2>1
  <2>3. b + ring[b].len > Total /\ b + ring[b].len - Total = h  BY <1>1, <1>3, <1>4, <1>8, <2>1
  <2>4. e.cycle = Last + 1 /\ e.block = h  BY <2>1, <2>3, <1>3, <1>8, <1>9
  <2>5. QED  BY <2>2, <2>4, <1>1, <1>3, <1>6 DEF Followed, e
<1>13. QED  BY <1>5, <1>10, <1>11, <1>12

\* HEAD_WINDOW_BLOCKS is eight of the largest records.
RecordsFitWindow == \A len \in Lengths : len <= Window

\* A log written whole is answered by the bisection, if no record is longer
\* than the window: every block is in the cycle it was due in, so the cycle
\* changes once, and the last record lies in the window before that place.
LEMMA WholeIsAnswered ==
  ASSUME Inv, state = "whole", First # 0, Total >= 2, RecordsFitWindow
  PROVE  ByCycle # None
<1>1. ring \in Rings /\ Lengthy(ring) /\ at \in Place /\ at.cycle > 0 /\ Even(ring, at) /\ Chain(ring, at)
      /\ Ended(ring, at)
  BY DEF Inv, Running
<1>2. at.cycle \in Nat /\ at.block \in Nat /\ at.block < Total /\ Total \in Nat /\ at.block \in Position
  BY <1>1, TotalType DEF Place, Position
<1>3. 0 \in Position /\ Total - 1 \in Position /\ First \in Nat /\ Last \in Nat
      /\ \A b \in Position : ring[b].cycle \in Nat
  BY <1>1, EndsFact
<1>4. \A b \in Position : b \in Nat /\ b < Total /\ ring[b].cycle = IF b < at.block THEN at.cycle ELSE at.cycle - 1
  BY <1>1, TotalType DEF Even, Due, Position
<1>5. First = (IF 0 < at.block THEN at.cycle ELSE at.cycle - 1) /\ Last = at.cycle - 1
  BY <1>2, <1>3, <1>4 DEF First, Last
<1>6. PICK b \in HeadersOf(ring) : End(ring, b) = at
  <2>1. ~(at = [cycle |-> 1, block |-> 0])  
    <3>1. SUFFICES ASSUME at = [cycle |-> 1, block |-> 0] PROVE FALSE  OBVIOUS
    <3>2. at.cycle = 1 /\ at.block = 0  BY <3>1
    <3>3. QED  BY <3>2, <1>5
  <2>2. QED  BY <2>1, <1>1 DEF Ended
<1>7. b \in Position /\ ring[b].len \in 1 .. Total /\ Start(ring, b) \in Place /\ ring[b].cycle \in Nat
      /\ ring[b].cycle > 0 /\ b \in Nat /\ b < Total /\ ring[b].len \in Nat /\ ring[b].len > 0 /\ ring[b].len <= Total
  BY <1>1, <1>4, EndFact DEF Lengthy
<1>8. ring[b].len <= WindowSize
  <2>1. ring[b].len \in Lengths  BY <1>1 DEF Lengthy
  <2>2. ring[b].len <= Window  BY <2>1 DEF RecordsFitWindow
  <2>3. QED  BY <1>7, <2>2, SearchAssumption DEF WindowSize
<1>9. /\ at.cycle = IF b + ring[b].len < Total THEN ring[b].cycle ELSE ring[b].cycle + 1
      /\ at.block = IF b + ring[b].len < Total THEN b + ring[b].len ELSE b + ring[b].len - Total
  <2>1. Start(ring, b).block = b /\ Start(ring, b).cycle = ring[b].cycle  BY DEF Start
  <2>2. End(ring, b) = Beyond(Start(ring, b), ring[b].len)  BY DEF End
  <2>3. QED  BY <1>6, <1>7, <2>1, <2>2, BeyondFact
\* No header lies between the last record's and the place behind it.
<1>10. ASSUME NEW c \in HeadersOf(ring)
       PROVE  ~(ring[b].cycle < ring[c].cycle) /\ ~(ring[b].cycle = ring[c].cycle /\ b < c)
  <2>1. SUFFICES ASSUME Earlier(Start(ring, b), Start(ring, c)) PROVE FALSE  BY DEF Earlier, Start
  <2>2. NotPast(at, Start(ring, c)) /\ NotPast(End(ring, c), at)  BY <2>1, <1>1, <1>6 DEF Chain
  <2>3. Start(ring, c) \in Place /\ End(ring, c) \in Place /\ Earlier(Start(ring, c), End(ring, c))  BY <1>1, EndFact
  <2>4. Earlier(Start(ring, c), at)  BY <1>1, <2>2, <2>3, EarlierOrder DEF NotPast
  <2>5. QED  BY <1>1, <2>2, <2>3, <2>4, EarlierOrder DEF NotPast
<1> DEFINE h == IF at.block = 0 THEN Total ELSE at.block
<1>11. HeadByCycle = h
  <2>1. CASE at.block = 0
    <3>1. First = Last  BY <1>5, <2>1
    <3>2. QED  BY <1>2, <2>1, <3>1 DEF HeadByCycle
  <2>2. CASE at.block # 0
    <3>1. First = at.cycle /\ Last = at.cycle - 1 /\ First # Last /\ First - 1 = Last  BY <1>2, <1>5, <2>2
    <3>2. HeadByCycle = Bisect[<<0, Total - 1>>]  BY <1>2, <3>1 DEF HeadByCycle
    <3>3. ring[0].cycle = First /\ ring[Total - 1].cycle = Last /\ 0 < Total - 1  BY <1>2 DEF First, Last
    <3>4. Turns(0, Total - 1)  BY <1>3, <3>3, BisectFinds
    <3>5. \A x \in Position : ring[x].cycle \in {First, Last}  BY <1>4, <3>1
    <3> DEFINE x == HeadByCycle
    <3>6. x \in 0 + 1 .. Total - 1 /\ ring[x].cycle = Last /\ ring[x - 1].cycle = First
      BY <3>2, <3>4, <3>5 DEF Turns, Turn
    <3> HIDE DEF x
    <3>7. x \in Position /\ x - 1 \in Position /\ x \in Nat  BY <3>6, <1>2 DEF Position
    <3>8. ~(x < at.block) /\ x - 1 < at.block  BY <3>1, <3>6, <3>7, <1>2, <1>4
    <3>9. x = at.block  BY <3>7, <3>8, <1>2
    <3>10. QED  BY <3>9, <2>2 DEF x
  <2>3. QED  BY <2>1, <2>2
<1>12. h \in 1 .. Total /\ h # None /\ h \in Nat /\ h > 0 /\ h <= Total
  <2>1. h \in 1 .. Total  BY <1>2
  <2>2. h \in 0 .. Total /\ h \in Nat /\ h > 0 /\ h <= Total  BY <2>1, <1>2
  <2> HIDE DEF h
  <2>3. QED  BY <2>1, <2>2, SearchAssumption
<1>13. Straight(h) = {x \in Position : x < h /\ x >= h - WindowSize}
       /\ Wrapped(h) = (IF h < WindowSize /\ Last # First /\ Last # 0
                       THEN {x \in Position : x >= Total - (WindowSize - h)} ELSE {})
       /\ \A x \in Wrapped(h) : x >= h
  <2> HIDE DEF h
  <2>1. QED  BY <1>12, WindowPlaces
<1>14. ASSUME NEW x \in Position, x < h PROVE ring[x].cycle = First
  BY <1>2, <1>4, <1>5, <1>14
<1>15. WindowHolds(h)
  <2>1. \A x \in Straight(h) : ring[x].cycle = First
    <3> HIDE DEF h
    <3>1. QED  BY <1>13, <1>14
  <2>2. ASSUME NEW x \in Wrapped(h) PROVE ring[x].cycle = Last
    <3>1. x \in Position /\ x >= h /\ x \in Nat /\ x < Total
      <4> HIDE DEF h
      <4>1. QED  BY <1>4, <1>13
    <3>2. ~(x < at.block)  BY <3>1, <1>2
    <3>3. QED  BY <3>1, <3>2, <1>4, <1>5
  <2>3. QED  BY <2>1, <2>2 DEF WindowHolds
<1>16. LastHeader(h) = b /\ (IF b + ring[b].len > Total THEN b + ring[b].len - Total ELSE b + ring[b].len) = h
  <2> DEFINE near == Headers \cap Straight(h)
             far  == Headers \cap Wrapped(h)
  <2>1. near \in SUBSET Position /\ far \in SUBSET Position /\ b \in Headers
        /\ \A c \in Headers : c \in HeadersOf(ring) /\ c \in Position /\ c \in Nat
    BY <1>4 DEF Headers, HeadersOf
  <2>2. LastHeader(h) = IF near # {} THEN CHOOSE x \in near : \A c \in near : c <= x
                        ELSE IF far # {} THEN CHOOSE x \in far : \A c \in far : c <= x ELSE None
    BY DEF LastHeader
  <2>3. WindowSize \in Nat /\ WindowSize <= Total  BY WindowFact DEF WindowFits
  <2>4. CASE b + ring[b].len <= Total
    <3>1. b + ring[b].len = h  BY <1>2, <1>7, <1>9, <2>4
    <3>2. b < h /\ b >= h - WindowSize /\ ring[b].cycle = First
      <4>1. b < h /\ b >= h - WindowSize
        <5> HIDE DEF h
        <5>1. QED  BY <3>1, <1>7, <1>8, <1>12, <2>3
      <4>2. QED  BY <4>1, <1>7, <1>14
    <3>3. b \in near  BY <3>2, <1>7, <1>13, <2>1
    <3>4. ASSUME NEW c \in near PROVE c <= b
      <4>1. c \in HeadersOf(ring) /\ c \in Nat /\ ring[c].cycle = First
        <5> HIDE DEF h
        <5>1. QED  BY <2>1, <1>13, <1>14
      <4>2. ~(b < c)  BY <4>1, <3>2, <1>10
      <4>3. QED  BY <4>1, <4>2, <1>7
    <3>5. LastHeader(h) = b
      <4> HIDE DEF near, far, h
      <4>1. QED  BY <2>1, <2>2, <3>3, <3>4, HighestFact
    <3>6. ~(b + ring[b].len > Total)  BY <2>4, <1>2, <1>7
    <3>7. QED  BY <3>1, <3>5, <3>6
  <2>5. CASE b + ring[b].len > Total
    <3>1. at.block = b + ring[b].len - Total /\ at.cycle = ring[b].cycle + 1  BY <1>2, <1>7, <1>9, <2>5
    <3>2. at.block > 0 /\ h = at.block /\ Last = ring[b].cycle /\ First = ring[b].cycle + 1
      BY <3>1, <1>2, <1>5, <1>7, <2>5
    <3> HIDE DEF h
    <3>3. h < WindowSize /\ Last # First /\ Last # 0 /\ b >= Total - (WindowSize - h)
      BY <3>1, <3>2, <1>2, <1>7, <1>8, <2>3
    <3>4. b \in far  BY <3>3, <1>7, <1>13, <2>1
    <3>5. ASSUME NEW c \in near PROVE FALSE
      <4>1. c \in HeadersOf(ring) /\ c \in Nat /\ ring[c].cycle = First  BY <2>1, <1>13, <1>14
      <4>2. QED  BY <4>1, <3>2, <1>7, <1>10
    <3>6. ASSUME NEW c \in far PROVE c <= b
      <4>1. c \in HeadersOf(ring) /\ c \in Nat  BY <2>1
      <4>2. ring[c].cycle = Last  BY <1>15 DEF WindowHolds
      <4>3. ~(b < c)  BY <4>1, <4>2, <3>2, <1>10
      <4>4. QED  BY <4>1, <4>3, <1>7
    <3>7. LastHeader(h) = b
      <4> HIDE DEF near, far
      <4>1. near = {}  BY <3>5
      <4>2. QED  BY <4>1, <2>1, <2>2, <3>4, <3>6, HighestFact
    <3>8. QED  BY <3>1, <3>2, <3>7, <2>5
  <2>6. QED  BY <2>4, <2>5, <1>2, <1>7
<1> HIDE DEF h
<1>17. b # None  BY <1>7, TotalType
<1>18. /\ HeadByCycle # None /\ WindowHolds(HeadByCycle) /\ LastHeader(HeadByCycle) = b
       /\ (IF b + ring[b].len > Total THEN b + ring[b].len - Total ELSE b + ring[b].len) = HeadByCycle
  BY <1>11, <1>12, <1>15, <1>16
<1>19. ByCycle = b
  <2> DEFINE H == HeadByCycle
             l == LastHeader(H)
             end == l + ring[l].len
  <2>1. ByCycle = IF H = None THEN None
                  ELSE IF ~WindowHolds(H) \/ l = None THEN None
                  ELSE IF (IF end > Total THEN end - Total ELSE end) = H THEN l ELSE None
    BY DEF ByCycle
  <2>2. H # None /\ WindowHolds(H) /\ l = b  BY <1>18
  <2> HIDE DEF l
  <2>3. end = b + ring[b].len /\ end \in Nat /\ Total \in Nat  BY <2>2, <1>2, <1>7
  <2> HIDE DEF end
  <2>4. (IF end > Total THEN end - Total ELSE end) = H  BY <2>3, <1>7, <1>18
  <2> HIDE DEF H
  <2>5. QED  BY <1>17, <2>1, <2>2, <2>4
<1>20. QED  BY <1>17, <1>19

\* What is found, in every state the log can be in.
LEMMA InvFinds ==
  ASSUME Inv
  PROVE  \/ NewestRecord = WholeRing
         \/ /\ state = "flight"
            /\ Where([cycle |-> 0, block |-> NewestRecord], ring[NewestRecord].len) = at.block
<1>1. ring \in Rings /\ Lengthy(ring) /\ at \in Place  BY DEF Inv
<1>2. CASE ByCycle = None  BY <1>2 DEF NewestRecord
<1>3. CASE ByCycle # None
  <2> DEFINE b == ByCycle
  <2>1. b \in HeadersOf(ring) /\ ~Followed(ring, b) /\ NewestRecord = b
    BY <1>1, <1>3, ByCycleSays DEF NewestRecord
  <2> HIDE DEF b
  <2>2. CASE state \in {"whole", "resumed"}
    <3>1. Chain(ring, at) /\ Loose(ring, {at})  BY <2>2 DEF Inv, Running
    <3>2. End(ring, b) = at  BY <2>1, <3>1 DEF Loose
    <3>3. QED  BY <1>1, <2>1, <3>1, <3>2, TopIsNewest
  <2>3. CASE state = "cut"
    <3>1. PICK top \in Place : Chain(ring, top) /\ Loose(ring, {top} \cup {})  BY <2>3 DEF Inv, Stopped
    <3>2. End(ring, b) = top  BY <2>1, <3>1 DEF Loose
    <3>3. QED  BY <1>1, <2>1, <3>1, <3>2, TopIsNewest
  <2>4. CASE state = "flight"
    <3>1. PICK top \in Place : Chain(ring, top) /\ Loose(ring, {top} \cup {at})  BY <2>4 DEF Inv, Stopped
    <3>2. End(ring, b) = top \/ End(ring, b) = at  BY <2>1, <3>1 DEF Loose
    <3>3. CASE End(ring, b) = top  BY <1>1, <2>1, <3>1, <3>3, TopIsNewest
    <3>4. CASE End(ring, b) = at
      <4>1. End(ring, b).block = Where(Start(ring, b), ring[b].len)  BY DEF End, Beyond
      <4>2. Where(Start(ring, b), ring[b].len) = Where([cycle |-> 0, block |-> b], ring[b].len)
        BY DEF Where, Start
      <4>3. QED  BY <4>1, <4>2, <3>4, <2>1, <2>4
    <3>5. QED  BY <3>2, <3>3, <3>4
  <2>5. QED  BY <2>2, <2>3, <2>4 DEF Inv
<1>4. QED  BY <1>2, <1>3

\* newest_record_by_cycle, for a ring of any size, records of any lengths and
\* any sequence of writes and stops: the bisection never answers with a record
\* that the scan of the whole ring would not, but for the last one before
\* two in flight; and if records fit the window it answers for every log
\* that was written whole.
THEOREM SearchFindsNewest == ASSUME RecordsFitWindow PROVE Spec => []FindsNewest
<1>1. Inv => FindsNewest  BY InvFinds, WholeIsAnswered DEF FindsNewest
<1>2. QED  BY <1>1, LogIsAChain, PTL

\* log::head, for every ring: behind the newest record is where the writer
\* was, after any number of whole records and of unmount records cut short.
THEOREM ScanFindsTheHead == Spec => []ScanFindsHead
<1>1. Inv => ScanFindsHead
  <2> SUFFICES ASSUME Inv, state \notin {"cut", "flight"}, ScannedHead # None PROVE ScannedHead = at
    BY DEF ScanFindsHead
  <2>1. ring \in Rings /\ Lengthy(ring) /\ at \in Place /\ Chain(ring, at) /\ Ended(ring, at)
    BY DEF Inv, Running
  <2>2. NewestRecord = WholeRing  BY InvFinds
  <2>3. Headers = HeadersOf(ring)  BY DEF Headers, HeadersOf
  <2>4. CASE HeadersOf(ring) = {}
    <3>1. NewestRecord = None  BY <2>2, <2>3, <2>4 DEF WholeRing
    <3>2. at = [cycle |-> 1, block |-> 0]  BY <2>1, <2>4 DEF Ended
    <3>3. QED  BY <3>1, <3>2 DEF ScannedHead
  <2>5. CASE \E b \in HeadersOf(ring) : End(ring, b) = at
    <3>1. PICK b \in HeadersOf(ring) : End(ring, b) = at  BY <2>5
    <3>2. NewestRecord = b  BY <2>1, <2>2, <3>1, TopIsNewest
    <3>3. b \in Position /\ ring[b].len \in 1 .. Total /\ Start(ring, b) \in Place /\ ring[b].cycle \in Nat
      BY <2>1, EndFact
    <3>4. b # None /\ b \in Nat /\ ring[b].len \in Nat /\ Total \in Nat  BY <3>3, TotalType
    <3>5. /\ at.cycle = IF b + ring[b].len < Total THEN ring[b].cycle ELSE ring[b].cycle + 1
          /\ at.block = IF b + ring[b].len < Total THEN b + ring[b].len ELSE b + ring[b].len - Total
      <4>1. Start(ring, b).block = b /\ Start(ring, b).cycle = ring[b].cycle  BY DEF Start
      <4>2. End(ring, b) = Beyond(Start(ring, b), ring[b].len)  BY DEF End
      <4>3. QED  BY <3>1, <3>3, <4>1, <4>2, BeyondFact
    <3>6. at = [cycle |-> at.cycle, block |-> at.block]  BY <2>1 DEF Place
    <3> DEFINE next == b + ring[b].len
    <3>7. ScannedHead = IF next > Total THEN None
                        ELSE IF next = Total THEN [cycle |-> ring[b].cycle + 1, block |-> 0]
                        ELSE [cycle |-> ring[b].cycle, block |-> next]
      BY <3>2, <3>4 DEF ScannedHead
    <3>8. next \in Nat /\ ~(next > Total)  BY <3>4, <3>7
    <3> HIDE DEF next
    <3>9. CASE next = Total
      <4>1. at.cycle = ring[b].cycle + 1 /\ at.block = 0  BY <3>4, <3>5, <3>8, <3>9 DEF next
      <4>2. ScannedHead = [cycle |-> ring[b].cycle + 1, block |-> 0]  BY <3>7, <3>8, <3>9
      <4>3. QED  BY <4>1, <4>2, <3>6
    <3>10. CASE next # Total
      <4>1. next < Total  BY <3>4, <3>8, <3>10
      <4>2. at.cycle = ring[b].cycle /\ at.block = next  BY <3>5, <4>1 DEF next
      <4>3. ScannedHead = [cycle |-> ring[b].cycle, block |-> next]  BY <3>7, <3>8, <3>10
      <4>4. QED  BY <4>2, <4>3, <3>6
    <3>11. QED  BY <3>9, <3>10
  <2>6. QED  BY <2>1, <2>4, <2>5 DEF Ended
<1>2. QED  BY <1>1, LogIsAChain, PTL
=============================================================================
