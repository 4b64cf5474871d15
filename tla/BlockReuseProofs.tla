-------------------------- MODULE BlockReuseProofs --------------------------
(***************************************************************************)
(* Theorems about BlockReuse, for any set of blocks and any number of      *)
(* operations.                                                             *)
(***************************************************************************)
EXTENDS BlockReuse, OrderFacts, SequenceTheorems

-----------------------------------------------------------------------------
(* What the helpers return *)

LEMMA OverType ==
  ASSUME NEW base \in [Blocks -> Nat], NEW images \in [Blocks -> Nat]
  PROVE  Over(base, images) \in [Blocks -> Nat]
BY DEF Over

LEMMA ImageType ==
  ASSUME count \in Nat, NEW bs \in SUBSET Blocks
  PROVE  Image(bs) \in [Blocks -> Nat]
BY DEF Image

LEMMA CommittedType ==
  ASSUME TypeOK, NEW writes \in SUBSET Blocks, NEW cancels \in SUBSET Blocks,
         Committed(writes, cancels)
  PROVE  /\ log' \in Seq(Checkpoint)
         /\ pushed' \in BOOLEAN /\ count' \in Nat
<1> DEFINE r == [writes |-> Image(writes), cancels |-> cancels]
<1>1. r \in Checkpoint
  BY ImageType DEF TypeOK, Checkpoint
<1>2. log' = <<r>> \/ log' = Append(log, r)
  BY DEF Committed
<1> HIDE DEF r
<1>3. log \in Seq(Checkpoint) /\ count \in Nat  BY DEF TypeOK
<1>4. log' \in Seq(Checkpoint)
  <2>1. <<r>> \in Seq(Checkpoint)  BY <1>1
  <2>2. Append(log, r) \in Seq(Checkpoint)  BY <1>1, <1>3
  <2>3. QED  BY <1>2, <2>1, <2>2
<1>5. pushed' \in BOOLEAN  BY Zenon DEF Committed
<1>6. count' \in Nat  BY <1>3 DEF Committed
<1>7. QED  BY <1>4, <1>5, <1>6

LEMMA LoggedType ==
  ASSUME TypeOK, NEW writes \in SUBSET Blocks, NEW forgotten \in SUBSET Blocks,
         Logged(writes, forgotten)
  PROVE  overlay' \in [Blocks -> Nat]
<1> DEFINE kept == [b \in Blocks |-> IF b \in forgotten THEN 0 ELSE overlay[b]]
<1>1. kept \in [Blocks -> Nat]  BY DEF TypeOK
<1>2. Image(writes) \in [Blocks -> Nat]  BY ImageType DEF TypeOK
<1>3. overlay' = Over(kept, Image(writes))  BY DEF Logged
<1> HIDE DEF kept
<1>4. QED  BY <1>1, <1>2, <1>3, OverType

-----------------------------------------------------------------------------
(* Type correctness *)

\* Every step keeps the types, whichever operation it belongs to.
LEMMA TypeStep == TypeOK /\ [Next]_vars => TypeOK'
<1> SUFFICES ASSUME TypeOK, [Next]_vars PROVE TypeOK'
  OBVIOUS
<1>0. Fork \in SUBSET Blocks /\ Free \in SUBSET Blocks /\ Held \in SUBSET Blocks
  BY DEF Fork, Free, Held
<1>1. NoImages \in [Blocks -> Nat]  BY DEF NoImages
<1>2. Over(dev, overlay) \in [Blocks -> Nat]  BY OverType DEF TypeOK
<1>3. CASE Sync
  BY <1>1, <1>2, <1>3 DEF Sync, TypeOK
<1>4. ASSUME NEW b \in Blocks, LogDir(b) PROVE TypeOK'
  <2>1. {b} \in SUBSET Blocks /\ {} \in SUBSET Blocks  OBVIOUS
  <2>2. /\ log' \in Seq(Checkpoint)
        /\ pushed' \in BOOLEAN /\ count' \in Nat
    BY <1>4, <2>1, CommittedType DEF LogDir
  <2>3. overlay' \in [Blocks -> Nat]  BY <1>4, <2>1, LoggedType DEF LogDir
  <2>4. use' \in [Blocks -> Uses] /\ want' \in [Blocks -> Nat] /\ stale' \in SUBSET Blocks
    BY <1>4 DEF LogDir, TypeOK, Uses
  <2>5. QED  BY <1>4, <2>2, <2>3, <2>4 DEF LogDir, Stays, TypeOK
<1>5. ASSUME NEW b \in Blocks, FreePlain(b) PROVE TypeOK'
  <2>2. /\ log' \in Seq(Checkpoint)
        /\ pushed' \in BOOLEAN /\ count' \in Nat
    BY <1>5, CommittedType DEF FreePlain
  <2>3. overlay' \in [Blocks -> Nat]  BY <1>5, LoggedType DEF FreePlain
  <2>4. stale' \in SUBSET Blocks  BY <1>5 DEF FreePlain, TypeOK
  <2>5. use' \in [Blocks -> Uses]  BY <1>5 DEF FreePlain, TypeOK, Uses
  <2>6. QED  BY <1>5, <2>2, <2>3, <2>4, <2>5 DEF FreePlain, Stays, TypeOK
<1>6. ASSUME NEW b \in Blocks, DataAhead(b) PROVE TypeOK'
  BY <1>6 DEF DataAhead, TypeOK
<1>7. CASE DataClaimed
  <2>2. /\ log' \in Seq(Checkpoint)
        /\ pushed' \in BOOLEAN /\ count' \in Nat
    BY <1>7, CommittedType DEF DataClaimed
  <2>3. overlay' \in [Blocks -> Nat]  BY <1>7, LoggedType DEF DataClaimed
  <2>4. QED  BY <1>7, <2>2, <2>3 DEF DataClaimed, TypeOK, Uses
<1>8. ASSUME NEW new \in SUBSET Blocks, NEW values \in SUBSET Blocks, SetAttr(new, values)
      PROVE  TypeOK'
  BY <1>1, <1>2, <1>8 DEF SetAttr, TypeOK
<1>9. ASSUME NEW new \in SUBSET Blocks, NEW values \in SUBSET Blocks,
             RebuildParents(new, values)
      PROVE  TypeOK'
  <2>1. /\ overlay' \in [Blocks -> Nat] /\ dev' \in [Blocks -> Nat]
        /\ stale' \in SUBSET Blocks
    <3>1. CASE values = {}
      BY <1>9, <3>1 DEF RebuildParents, TypeOK
    <3>2. CASE values # {}
      <4>1. /\ overlay' = NoImages
            /\ dev' = [b \in Blocks |-> IF b \in values THEN count + 1
                                        ELSE Over(dev, overlay)[b]]
            /\ stale' = stale \ Free
        BY <1>9, <3>2, Zenon DEF RebuildParents
      <4>2. QED  BY <1>1, <1>2, <4>1 DEF TypeOK
    <3>3. QED  BY <3>1, <3>2
  <2>2. pushed' \in BOOLEAN
    BY <1>9, Zenon DEF RebuildParents, TypeOK
  <2>3. QED  BY <1>9, <2>1, <2>2 DEF RebuildParents, TypeOK
<1>10. CASE ForkCommitted
  <2>1. leaf \in SUBSET Blocks  BY DEF TypeOK
  <2>2. /\ log' \in Seq(Checkpoint)
        /\ pushed' \in BOOLEAN /\ count' \in Nat
    BY <1>0, <1>10, <2>1, CommittedType DEF ForkCommitted
  <2>3. overlay' \in [Blocks -> Nat]  BY <1>10, <2>1, LoggedType DEF ForkCommitted
  <2>4. stale' \in SUBSET Blocks  BY <1>0, <1>10 DEF ForkCommitted, TypeOK
  <2>5. QED  BY <1>10, <2>2, <2>3, <2>4 DEF ForkCommitted, TypeOK, Uses
<1>11. CASE FreeInode
  <2>2. /\ log' \in Seq(Checkpoint)
        /\ pushed' \in BOOLEAN /\ count' \in Nat
    BY <1>0, <1>11, CommittedType DEF FreeInode
  <2>3. overlay' \in [Blocks -> Nat]  BY <1>0, <1>11, LoggedType DEF FreeInode
  <2>4. QED  BY <1>11, <2>2, <2>3 DEF FreeInode, Stays, TypeOK, Uses
<1>12. CASE UNCHANGED vars
  BY <1>12 DEF vars, TypeOK
<1>13. QED
  BY <1>3, <1>4, <1>5, <1>6, <1>7, <1>8, <1>9, <1>10, <1>11, <1>12 DEF Next

LEMMA TypeInit == Init => TypeOK
BY DEF Init, TypeOK, NoImages, Uses

\* The variables keep their types in every behaviour.
THEOREM TypeCorrect == Spec => []TypeOK
BY TypeInit, TypeStep, PTL DEF Spec

-----------------------------------------------------------------------------
(* What a block's owner reads *)

\* A block that holds no metadata, and was not handed on with an old image
\* about, has no image in the overlay; every other one reads as written.
ReadInv ==
  \A b \in Blocks \ stale :
    /\ use[b] \in {"free", "data", "remote"} => overlay[b] = 0
    /\ use[b] # "free" => Over(dev, overlay)[b] = want[b]

\* Between a device write and its record: the blocks filled are still free,
\* hold this operation's bytes, and (for a fork) were pushed over first.
AheadInv ==
  /\ pc = "idle" => ahead = {} /\ leaf = {}
  /\ ahead \cup leaf \subseteq Free
  /\ ahead \cap leaf = {}
  /\ \A b \in ahead : dev[b] = count + 1
  /\ pc = "data" => leaf = {}
  /\ pc = "set" \/ (pc = "rebuild" /\ ahead # {}) => overlay = NoImages

Inv == TypeOK /\ ReadInv /\ AheadInv

LEMMA InvInit == Init => Inv
BY TypeInit DEF Init, Inv, ReadInv, AheadInv, NoImages, Over, Free

\* What a commit leaves in the overlay, block by block.
LEMMA LoggedAt ==
  ASSUME TypeOK, NEW writes \in SUBSET Blocks, NEW forgotten \in SUBSET Blocks,
         Logged(writes, forgotten), NEW b \in Blocks
  PROVE  overlay'[b] = IF b \in writes THEN count + 1
                       ELSE IF b \in forgotten THEN 0 ELSE overlay[b]
<1> DEFINE kept == [c \in Blocks |-> IF c \in forgotten THEN 0 ELSE overlay[c]]
<1>1. overlay' = Over(kept, Image(writes))  BY DEF Logged
<1>2. Image(writes)[b] = IF b \in writes THEN count + 1 ELSE 0  BY DEF Image
<1>3. kept[b] = IF b \in forgotten THEN 0 ELSE overlay[b]  OBVIOUS
<1>4. count + 1 # 0  BY DEF TypeOK
<1> HIDE DEF kept
<1>5. QED  BY <1>1, <1>2, <1>3, <1>4 DEF Over

LEMMA OverAt ==
  ASSUME NEW base, NEW images, NEW b \in Blocks
  PROVE  Over(base, images)[b] = IF images[b] # 0 THEN images[b] ELSE base[b]
BY DEF Over

LEMMA ReadStep == Inv /\ [Next]_vars => ReadInv' /\ AheadInv'
<1> SUFFICES ASSUME Inv, [Next]_vars PROVE ReadInv' /\ AheadInv'
  OBVIOUS
<1>0. TypeOK /\ ReadInv /\ AheadInv  BY DEF Inv
<1> DEFINE Good(b) ==
      /\ use[b] \in {"free", "data", "remote"} => overlay[b] = 0
      /\ use[b] # "free" => (IF overlay[b] # 0 THEN overlay[b] ELSE dev[b]) = want[b]
<1>a. ASSUME NEW b \in Blocks, b \notin stale PROVE Good(b)
  BY <1>0, <1>a, OverAt DEF ReadInv
<1>b. ASSUME \A b \in Blocks : b \notin stale' => Good(b)' PROVE ReadInv'
  BY <1>b, OverAt DEF ReadInv, Over
<1>3. CASE Sync
  <2>1. ASSUME NEW b \in Blocks, b \notin stale' PROVE Good(b)'
    <3>1. overlay'[b] = 0 /\ dev'[b] = (IF overlay[b] # 0 THEN overlay[b] ELSE dev[b])
      BY <1>3, OverAt DEF Sync, NoImages
    <3>2. use'[b] = use[b] /\ want'[b] = want[b] /\ (b \notin stale \/ use[b] = "free")
      BY <1>3, <2>1 DEF Sync, Free
    <3>3. QED  BY <1>a, <3>1, <3>2
  <2>2. AheadInv'
    BY <1>0, <1>3 DEF Sync, AheadInv, Free
  <2>3. QED  BY <1>b, <2>1, <2>2
<1>4. ASSUME NEW c \in Blocks, LogDir(c) PROVE ReadInv' /\ AheadInv'
  <2>1. ASSUME NEW b \in Blocks, b \notin stale' PROVE Good(b)'
    <3>1. overlay'[b] = IF b \in {c} THEN count + 1
                        ELSE IF b \in {} THEN 0 ELSE overlay[b]
      BY <1>0, <1>4, LoggedAt DEF LogDir
    <3>2. CASE b = c
      BY <1>0, <1>4, <3>1, <3>2 DEF LogDir, TypeOK
    <3>3. CASE b # c
      BY <1>0, <1>a, <1>4, <2>1, <3>1, <3>3 DEF LogDir, TypeOK
    <3>4. QED  BY <3>2, <3>3
  <2>2. AheadInv'
    BY <1>0, <1>4 DEF LogDir, Start, Stays, AheadInv
  <2>3. QED  BY <1>b, <2>1, <2>2
<1>5. ASSUME NEW c \in Blocks, FreePlain(c) PROVE ReadInv' /\ AheadInv'
  <2>1. ASSUME NEW b \in Blocks, b \notin stale' PROVE Good(b)'
    <3>1. overlay'[b] = IF b \in {} THEN count + 1
                        ELSE IF b \in {} THEN 0 ELSE overlay[b]
      BY <1>0, <1>5, LoggedAt DEF FreePlain
    <3>2. CASE b = c
      <4>1. b \notin Lingering'  BY <1>5, <2>1, <3>2 DEF FreePlain
      <4>2. overlay'[b] = 0  BY <4>1 DEF Lingering, Held
      <4>3. use'[b] = "free"  BY <1>0, <1>5, <3>2 DEF FreePlain, TypeOK
      <4>4. QED  BY <4>2, <4>3
    <3>3. CASE b # c
      BY <1>0, <1>a, <1>5, <2>1, <3>1, <3>3 DEF FreePlain, TypeOK
    <3>4. QED  BY <3>2, <3>3
  <2>2. AheadInv'
    BY <1>0, <1>5 DEF FreePlain, Start, Stays, AheadInv
  <2>3. QED  BY <1>b, <2>1, <2>2
<1>6. ASSUME NEW c \in Blocks, DataAhead(c) PROVE ReadInv' /\ AheadInv'
  <2>1. ASSUME NEW b \in Blocks, b \notin stale' PROVE Good(b)'
    BY <1>0, <1>a, <1>6, <2>1 DEF DataAhead, TypeOK
  <2>2. AheadInv'
    BY <1>0, <1>6 DEF DataAhead, Start, AheadInv, Free, TypeOK
  <2>3. QED  BY <1>b, <2>1, <2>2
<1>7. CASE DataClaimed
  <2>1. ASSUME NEW b \in Blocks, b \notin stale' PROVE Good(b)'
    <3>1. overlay'[b] = IF b \in {} THEN count + 1
                        ELSE IF b \in {} THEN 0 ELSE overlay[b]
      BY <1>0, <1>7, LoggedAt DEF DataClaimed
    <3>2. ahead \subseteq Free /\ \A d \in ahead : dev[d] = count + 1
      BY <1>0 DEF AheadInv
    <3>3. QED  BY <1>0, <1>a, <1>7, <2>1, <3>1, <3>2 DEF DataClaimed, Free, TypeOK
  <2>2. AheadInv'
    BY <1>0, <1>7 DEF DataClaimed, AheadInv
  <2>3. QED  BY <1>b, <2>1, <2>2
<1>8. ASSUME NEW new \in SUBSET Blocks, NEW values \in SUBSET Blocks, SetAttr(new, values)
      PROVE  ReadInv' /\ AheadInv'
  <2>1. ASSUME NEW b \in Blocks, b \notin stale' PROVE Good(b)'
    <3>1. overlay'[b] = 0 /\ dev'[b] = IF b \in values THEN count + 1
                                       ELSE IF overlay[b] # 0 THEN overlay[b] ELSE dev[b]
      BY <1>8, OverAt DEF SetAttr, NoImages
    <3>2. /\ use'[b] = use[b] /\ want'[b] = want[b]
          /\ b \notin stale \/ use[b] = "free"
          /\ b \in values => use[b] = "free"
      BY <1>8, <2>1 DEF SetAttr, Free
    <3>3. QED  BY <1>a, <3>1, <3>2
  <2>2. AheadInv'
    BY <1>0, <1>8 DEF SetAttr, AheadInv, Free, TypeOK
  <2>3. QED  BY <1>b, <2>1, <2>2
<1>9. ASSUME NEW new \in SUBSET Blocks, NEW values \in SUBSET Blocks,
             RebuildParents(new, values)
      PROVE  ReadInv' /\ AheadInv'
  <2>0. /\ use' = use /\ want' = want /\ count' = count
        /\ new \cup values \subseteq Free /\ new \cap values = {}
        /\ pc' = "rebuild" /\ ahead' = values /\ leaf' = new
    BY <1>9 DEF RebuildParents
  <2>1. CASE values = {}
    <3>1. overlay' = overlay /\ dev' = dev /\ stale' = stale
      BY <1>9, <2>1, Zenon DEF RebuildParents
    <3>2. ASSUME NEW b \in Blocks, b \notin stale' PROVE Good(b)'
      BY <1>a, <2>0, <3>1, <3>2
    <3>3. AheadInv'  BY <2>0, <2>1, <3>1 DEF AheadInv, Free
    <3>4. QED  BY <1>b, <3>2, <3>3
  <2>2. CASE values # {}
    <3>1. /\ overlay' = NoImages
          /\ dev' = [b \in Blocks |-> IF b \in values THEN count + 1
                                      ELSE Over(dev, overlay)[b]]
          /\ stale' = stale \ Free
      BY <1>9, <2>2, Zenon DEF RebuildParents
    <3>2. ASSUME NEW b \in Blocks, b \notin stale' PROVE Good(b)'
      <4>1. overlay'[b] = 0 /\ dev'[b] = IF b \in values THEN count + 1
                                         ELSE IF overlay[b] # 0 THEN overlay[b] ELSE dev[b]
        BY <3>1, OverAt DEF NoImages
      <4>2. /\ b \notin stale \/ use[b] = "free"
            /\ b \in values => use[b] = "free"
        BY <2>0, <3>1, <3>2 DEF Free
      <4>3. QED  BY <1>a, <2>0, <4>1, <4>2
    <3>3. AheadInv'  BY <2>0, <3>1 DEF AheadInv, Free
    <3>4. QED  BY <1>b, <3>2, <3>3
  <2>3. QED  BY <2>1, <2>2
<1>10. CASE ForkCommitted
  <2>1. ASSUME NEW b \in Blocks, b \notin stale' PROVE Good(b)'
    <3>0. leaf \in SUBSET Blocks  BY <1>0 DEF TypeOK
    <3>1. overlay'[b] = IF b \in leaf THEN count + 1
                        ELSE IF b \in {} THEN 0 ELSE overlay[b]
      BY <1>0, <1>10, <3>0, LoggedAt DEF ForkCommitted
    <3>2. ahead \cup leaf \subseteq Free /\ ahead \cap leaf = {}
          /\ \A d \in ahead : dev[d] = count + 1
      BY <1>0 DEF AheadInv
    <3>3. CASE b \in leaf
      BY <1>0, <1>10, <3>1, <3>2, <3>3 DEF ForkCommitted, TypeOK
    <3>4. CASE b \in ahead
      <4>1. overlay[b] = 0
        BY <1>0, <1>10, <3>4 DEF ForkCommitted, AheadInv, NoImages
      <4>2. QED  BY <1>0, <1>10, <3>1, <3>2, <3>4, <4>1 DEF ForkCommitted, TypeOK
    <3>5. CASE b \notin ahead \cup leaf /\ b \in Fork
      <4>1. use'[b] = "free"
        BY <1>10, <3>5 DEF ForkCommitted
      <4>2. overlay[b] = 0
        BY <1>0, <1>10, <2>1, <3>5 DEF ForkCommitted, AheadInv, NoImages, Held
      <4>3. QED  BY <3>1, <3>5, <4>1, <4>2
    <3>6. CASE b \notin ahead \cup leaf /\ b \notin Fork
      <4>1. b \notin stale /\ use'[b] = use[b] /\ want'[b] = want[b] /\ dev' = dev
        BY <1>10, <2>1, <3>6 DEF ForkCommitted
      <4>2. QED  BY <1>a, <3>1, <3>6, <4>1
    <3>7. QED  BY <3>3, <3>4, <3>5, <3>6
  <2>2. AheadInv'
    BY <1>0, <1>10 DEF ForkCommitted, AheadInv
  <2>3. QED  BY <1>b, <2>1, <2>2
<1>11. CASE FreeInode
  <2>1. ASSUME NEW b \in Blocks, b \notin stale' PROVE Good(b)'
    <3>1. overlay'[b] = IF b \in {} THEN count + 1
                        ELSE IF b \in Fork THEN 0 ELSE overlay[b]
      BY <1>0, <1>11, LoggedAt DEF FreeInode, Fork
    <3>2. QED  BY <1>a, <1>11, <2>1, <3>1 DEF FreeInode
  <2>2. AheadInv'
    BY <1>0, <1>11 DEF FreeInode, Start, Stays, AheadInv
  <2>3. QED  BY <1>b, <2>1, <2>2
<1>12. CASE UNCHANGED vars
  BY <1>0, <1>12 DEF vars, ReadInv, AheadInv, Over, Free
<1>13. QED
  BY <1>3, <1>4, <1>5, <1>6, <1>7, <1>8, <1>9, <1>10, <1>11, <1>12 DEF Next

\* fs.rs cancelled_buffers, for every number of blocks and operations: unless
\* a block was given back by a path that tells neither the overlay nor the
\* log, whoever owns it reads what it last wrote there.
THEOREM OwnersReadTheirBlocks == Spec => []ReadsOwnUnlessStale
<1>1. Init => Inv  BY InvInit
<1>2. Inv /\ [Next]_vars => Inv'
  BY TypeStep, ReadStep DEF Inv
<1>3. Inv => ReadsOwnUnlessStale
  BY DEF Inv, ReadInv, ReadsOwnUnlessStale
<1>4. QED  BY <1>1, <1>2, <1>3, PTL DEF Spec

-----------------------------------------------------------------------------
(* What replay makes of a block *)

\* The indices of the images of a block that replay applies.
AppliedTo(b) == {i \in DOMAIN log : Applies(i, b)}

\* Replay leaves the last of them.
LastWins ==
  \A b \in Blocks :
    /\ AppliedTo(b) = {} => Replayed[b] = 0
    /\ \A i \in AppliedTo(b) :
         (\A j \in AppliedTo(b) : j <= i) => Replayed[b] = log[i].writes[b]

LEMMA ReplayedAt == TypeOK => LastWins
<1> SUFFICES ASSUME TypeOK, NEW b \in Blocks
    PROVE  /\ AppliedTo(b) = {} => Replayed[b] = 0
           /\ \A i \in AppliedTo(b) :
                (\A j \in AppliedTo(b) : j <= i) => Replayed[b] = log[i].writes[b]
  BY DEF LastWins
<1>1. Replayed[b] = IF AppliedTo(b) = {} THEN 0
         ELSE log[CHOOSE i \in AppliedTo(b) : \A j \in AppliedTo(b) : j <= i].writes[b]
  BY DEF Replayed, AppliedTo
<1>2. ASSUME NEW i \in AppliedTo(b), \A j \in AppliedTo(b) : j <= i
      PROVE  Replayed[b] = log[i].writes[b]
  <2> DEFINE m == CHOOSE k \in AppliedTo(b) : \A j \in AppliedTo(b) : j <= k
  <2>1. m \in AppliedTo(b) /\ \A j \in AppliedTo(b) : j <= m
    BY <1>2
  <2>2. AppliedTo(b) \subseteq Nat
    BY LenProperties DEF AppliedTo, TypeOK
  <2>3. m = i
    <3> HIDE DEF m
    <3>1. m <= i /\ i <= m  BY <1>2, <2>1
    <3>2. m \in Nat /\ i \in Nat  BY <2>1, <2>2
    <3>3. QED  BY <3>1, <3>2
  <2>4. QED  BY <1>1, <2>3
<1>3. QED  BY <1>1, <1>2

LEMMA LastApplied ==
  ASSUME TypeOK, NEW b \in Blocks, AppliedTo(b) # {}
  PROVE  \E i \in AppliedTo(b) : \A j \in AppliedTo(b) : j <= i
<1>1. DOMAIN log = 1 .. Len(log) /\ Len(log) \in Nat  BY LenProperties DEF TypeOK
<1>2. AppliedTo(b) \in SUBSET Nat /\ \A i \in AppliedTo(b) : i <= Len(log)
  BY <1>1 DEF AppliedTo
<1>3. QED  BY <1>1, <1>2, GreatestExists

\* log_recover::replay, one record later: a cancellation hides every image
\* before it, an image hides the earlier ones, and after a push only the
\* new record counts.
LEMMA ReplayedAfterCommit ==
  ASSUME TypeOK, TypeOK', NEW writes \in SUBSET Blocks, NEW cancels \in SUBSET Blocks,
         Committed(writes, cancels), NEW b \in Blocks
  PROVE  Replayed'[b] = IF b \in cancels THEN 0
                        ELSE IF b \in writes THEN count + 1
                        ELSE IF pushed THEN 0 ELSE Replayed[b]
<1> DEFINE r == [writes |-> Image(writes), cancels |-> cancels]
           n == Len(log') 
<1>0. LastWins /\ LastWins'
  <2>1. (TypeOK => LastWins)'  BY ReplayedAt, PTL
  <2>2. QED  BY <2>1, ReplayedAt
<1>1. log' = IF pushed THEN <<r>> ELSE Append(log, r)  BY DEF Committed
<1>2. r.writes[b] = (IF b \in writes THEN count + 1 ELSE 0) /\ r.cancels = cancels
  BY DEF Image
<1>3. count + 1 # 0  BY DEF TypeOK
<1>4. log \in Seq(Checkpoint) /\ log' \in Seq(Checkpoint)  BY DEF TypeOK
<1>5. Len(log) \in Nat /\ DOMAIN log = 1 .. Len(log)  BY <1>4, LenProperties
<1>6. n \in Nat /\ DOMAIN log' = 1 .. n  BY <1>4, LenProperties
<1> HIDE DEF r
<1>7. n >= 1 /\ log'[n] = r
  <2>1. CASE pushed  BY <1>1, <2>1
  <2>2. CASE ~pushed  BY <1>1, <1>4, <1>5, <2>2
  <2>3. QED  BY <2>1, <2>2
<1>8. \A i \in 1 .. n - 1 : ~pushed /\ i \in 1 .. Len(log) /\ n = Len(log) + 1 /\ log'[i] = log[i]
  <2>1. CASE pushed  BY <1>1, <2>1
  <2>2. CASE ~pushed  BY <1>1, <1>4, <1>5, <2>2
  <2>3. QED  BY <2>1, <2>2
<1> HIDE DEF n
<1>9. \A i : i \in AppliedTo(b)' <=>
        i \in 1 .. n /\ log'[i].writes[b] # 0 /\ \A j \in i .. n : b \notin log'[j].cancels
  BY <1>6 DEF AppliedTo, Applies, n
<1>10. CASE b \in cancels
  <2>1. AppliedTo(b)' = {}
    <3>1. ASSUME NEW i \in AppliedTo(b)' PROVE FALSE
      <4>1. i \in 1 .. n /\ n \in i .. n  BY <1>6, <1>7, <1>9, <3>1
      <4>2. QED  BY <1>2, <1>7, <1>9, <1>10, <3>1, <4>1
    <3>2. QED  BY <3>1
  <2>2. QED  BY <1>10, <2>1, <1>0 DEF LastWins
<1>11. CASE b \notin cancels /\ b \in writes
  <2>1. n \in AppliedTo(b)'
    BY <1>2, <1>3, <1>6, <1>7, <1>9, <1>11
  <2>2. \A j \in AppliedTo(b)' : j <= n  BY <1>6, <1>9
  <2>3. Replayed'[b] = log'[n].writes[b]  BY <2>1, <2>2, <1>0 DEF LastWins
  <2>4. QED  BY <1>2, <1>7, <1>11, <2>3
<1>12. CASE b \notin cancels /\ b \notin writes
  <2>1. n \notin AppliedTo(b)'  BY <1>2, <1>7, <1>9, <1>12
  <2>2. CASE pushed
    <3>1. AppliedTo(b)' = {}
      BY <1>6, <1>8, <1>9, <2>1, <2>2
    <3>2. QED  BY <1>12, <2>2, <3>1, <1>0 DEF LastWins
  <2>3. CASE ~pushed
    <3>0. n = Len(log) + 1 /\ \A i \in 1 .. Len(log) : log'[i] = log[i]
      BY <1>1, <1>4, <1>5, <2>3 DEF n
    <3>1. AppliedTo(b)' = AppliedTo(b)
      <4>1. ASSUME NEW i \in 1 .. Len(log)
            PROVE  (\A j \in i .. n : b \notin log'[j].cancels)
                     <=> (\A j \in i .. Len(log) : b \notin log[j].cancels)
        <5>1. \A j \in i .. n : j = n \/ j \in i .. Len(log)
          BY <1>5, <3>0
        <5>2. \A j \in i .. Len(log) : j \in i .. n /\ j \in 1 .. Len(log)
          BY <1>5, <3>0
        <5>3. b \notin log'[n].cancels  BY <1>2, <1>7, <1>12
        <5>4. QED  BY <3>0, <5>1, <5>2, <5>3
      <4>2. ASSUME NEW i \in 1 .. n, i # n PROVE i \in 1 .. Len(log)
        BY <1>5, <3>0, <4>2
      <4>3. \A i \in 1 .. Len(log) : i \in 1 .. n /\ i # n  BY <1>5, <3>0
      <4>4. \A i : i \in AppliedTo(b) <=>
              /\ i \in 1 .. Len(log) /\ log[i].writes[b] # 0
              /\ \A j \in i .. Len(log) : b \notin log[j].cancels
        BY <1>5 DEF AppliedTo, Applies
      <4>5. \A i : i \in AppliedTo(b)' <=> i \in AppliedTo(b)
        BY <1>9, <2>1, <3>0, <4>1, <4>2, <4>3, <4>4
      <4>6. QED  BY <4>5
    <3>2. CASE AppliedTo(b) = {}
      <4>1. Replayed[b] = 0  BY <1>0, <3>2 DEF LastWins
      <4>2. Replayed'[b] = 0  BY <3>1, <3>2, <1>0 DEF LastWins
      <4>3. QED  BY <1>12, <2>3, <4>1, <4>2
    <3>3. CASE AppliedTo(b) # {}
      <4>1. PICK i \in AppliedTo(b) : \A j \in AppliedTo(b) : j <= i
        BY <3>3, LastApplied
      <4>2. Replayed[b] = log[i].writes[b]  BY <1>0, <4>1 DEF LastWins
      <4>3. Replayed'[b] = log'[i].writes[b]  BY <3>1, <4>1, <1>0 DEF LastWins
      <4>4. i \in 1 .. Len(log)  BY <1>5 DEF AppliedTo
      <4>5. QED  BY <1>12, <2>3, <3>0, <4>2, <4>3, <4>4
    <3>4. QED  BY <3>2, <3>3
  <2>4. QED  BY <2>2, <2>3
<1>13. QED  BY <1>10, <1>11, <1>12

\* A block that holds no metadata has no image that replay would apply,
\* except one pushed since, in records the next commit drops; every other
\* block replays to what its owner wrote.
ReplayInv ==
  /\ pushed => overlay = NoImages
  /\ pc = "set" \/ (pc = "rebuild" /\ ahead # {}) => pushed
  /\ \A b \in Blocks \ stale :
       /\ use[b] \in {"data", "remote"} \/ (use[b] = "free" /\ ~pushed) => Replayed[b] = 0
       /\ use[b] # "free" => (IF Replayed[b] # 0 THEN Replayed[b] ELSE dev[b]) = want[b]

LEMMA ReplayInit == Init => ReplayInv
BY DEF Init, ReplayInv, NoImages

LEMMA ReplayStep == Inv /\ Inv' /\ ReplayInv /\ [Next]_vars => ReplayInv'
<1> SUFFICES ASSUME Inv, Inv', ReplayInv, [Next]_vars PROVE ReplayInv'
  OBVIOUS
<1>0. TypeOK /\ TypeOK' /\ ReadInv /\ AheadInv  BY DEF Inv
<1> DEFINE Good(b) ==
      /\ use[b] \in {"data", "remote"} \/ (use[b] = "free" /\ ~pushed) => Replayed[b] = 0
      /\ use[b] # "free" => (IF Replayed[b] # 0 THEN Replayed[b] ELSE dev[b]) = want[b]
<1>a. ASSUME NEW b \in Blocks, b \notin stale PROVE Good(b)
  BY <1>a DEF ReplayInv
\* After a push the home block already holds what its owner wrote.
<1>b. ASSUME NEW b \in Blocks, b \notin stale, use[b] # "free", pushed
      PROVE  dev[b] = want[b]
  <2>1. overlay[b] = 0  BY <1>b DEF ReplayInv, NoImages
  <2>2. QED  BY <1>0, <1>b, <2>1, OverAt DEF ReadInv
<1>c. ASSUME NEW b \in Blocks, b \notin stale, use[b] # "free"
      PROVE  (IF overlay[b] # 0 THEN overlay[b] ELSE dev[b]) = want[b]
  BY <1>0, <1>c, OverAt DEF ReadInv
\* A commit that neither logs nor cancels the block keeps it good.
<1>d. ASSUME NEW b \in Blocks, b \notin stale,
             Replayed'[b] = (IF pushed THEN 0 ELSE Replayed[b]),
             pushed' = FALSE, use'[b] = use[b], want'[b] = want[b], dev'[b] = dev[b]
      PROVE  Good(b)'
  <2>1. CASE pushed  BY <1>b, <1>d, <2>1
  <2>2. CASE ~pushed  BY <1>a, <1>d, <2>2
  <2>3. QED  BY <2>1, <2>2
<1>3. CASE Sync
  <2>1. ASSUME NEW b \in Blocks, b \notin stale' PROVE Good(b)'
    <3>1. /\ use' = use /\ want' = want /\ log' = log /\ pushed' = TRUE
          /\ b \notin stale \/ use[b] = "free"
      BY <1>3, <2>1 DEF Sync, Free
    <3>2. Replayed' = Replayed  BY <3>1 DEF Replayed, Applies
    <3>3. dev'[b] = IF overlay[b] # 0 THEN overlay[b] ELSE dev[b]
      BY <1>3, OverAt DEF Sync
    <3>4. QED  BY <1>a, <1>c, <3>1, <3>2, <3>3
  <2>2. overlay' = NoImages' /\ pc' = "idle"  BY <1>3 DEF Sync, NoImages
  <2>3. QED  BY <2>1, <2>2 DEF ReplayInv
<1>4. ASSUME NEW c \in Blocks, LogDir(c) PROVE ReplayInv'
  <2>0. pushed' = FALSE /\ pc' = "idle"  BY <1>4 DEF LogDir, Committed, Start, Stays
  <2>1. ASSUME NEW b \in Blocks, b \notin stale' PROVE Good(b)'
    <3>1. Replayed'[b] = IF b \in {} THEN 0 ELSE IF b \in {c} THEN count + 1
                         ELSE IF pushed THEN 0 ELSE Replayed[b]
      BY <1>0, <1>4, ReplayedAfterCommit DEF LogDir
    <3>2. CASE b = c
      BY <1>0, <1>4, <3>1, <3>2 DEF LogDir, TypeOK
    <3>3. CASE b # c
      <4>1. b \notin stale /\ use'[b] = use[b] /\ want'[b] = want[b] /\ dev'[b] = dev[b]
        BY <1>0, <1>4, <2>1, <3>3 DEF LogDir, TypeOK
      <4>2. QED  BY <1>d, <2>0, <3>1, <3>3, <4>1
    <3>4. QED  BY <3>2, <3>3
  <2>2. QED  BY <2>0, <2>1 DEF ReplayInv
<1>5. ASSUME NEW c \in Blocks, FreePlain(c) PROVE ReplayInv'
  <2>0. pushed' = FALSE /\ pc' = "idle"  BY <1>5 DEF FreePlain, Committed, Start, Stays
  <2>1. ASSUME NEW b \in Blocks, b \notin stale' PROVE Good(b)'
    <3>1. Replayed'[b] = IF b \in {} THEN 0 ELSE IF b \in {} THEN count + 1
                         ELSE IF pushed THEN 0 ELSE Replayed[b]
      BY <1>0, <1>5, ReplayedAfterCommit DEF FreePlain
    <3>2. CASE b = c
      <4>1. b \notin Lingering'  BY <1>5, <2>1, <3>2 DEF FreePlain
      <4>2. Replayed'[b] = 0  BY <4>1 DEF Lingering
      <4>3. use'[b] = "free"  BY <1>0, <1>5, <3>2 DEF FreePlain, TypeOK
      <4>4. QED  BY <4>2, <4>3
    <3>3. CASE b # c
      <4>1. b \notin stale /\ use'[b] = use[b] /\ want'[b] = want[b] /\ dev'[b] = dev[b]
        BY <1>0, <1>5, <2>1, <3>3 DEF FreePlain, TypeOK
      <4>2. QED  BY <1>d, <2>0, <3>1, <4>1
    <3>4. QED  BY <3>2, <3>3
  <2>2. QED  BY <2>0, <2>1 DEF ReplayInv
<1>6. ASSUME NEW c \in Blocks, DataAhead(c) PROVE ReplayInv'
  <2>1. /\ use' = use /\ want' = want /\ log' = log /\ pushed' = pushed /\ stale' = stale
        /\ overlay' = overlay /\ pc' = "data" /\ use[c] = "free"
        /\ \A b \in Blocks : b # c => dev'[b] = dev[b]
    BY <1>0, <1>6 DEF DataAhead, TypeOK
  <2>2. Replayed' = Replayed  BY <2>1 DEF Replayed, Applies
  <2>3. ASSUME NEW b \in Blocks, b \notin stale' PROVE Good(b)'
    BY <1>a, <2>1, <2>2, <2>3
  <2>4. pushed' => overlay' = NoImages'  BY <2>1 DEF ReplayInv, NoImages
  <2>5. QED  BY <2>1, <2>3, <2>4 DEF ReplayInv
<1>7. CASE DataClaimed
  <2>0. pushed' = FALSE /\ pc' = "idle" /\ dev' = dev /\ stale' = stale
    BY <1>7 DEF DataClaimed, Committed
  <2>1. ASSUME NEW b \in Blocks, b \notin stale' PROVE Good(b)'
    <3>1. Replayed'[b] = IF b \in {} THEN 0 ELSE IF b \in {} THEN count + 1
                         ELSE IF pushed THEN 0 ELSE Replayed[b]
      BY <1>0, <1>7, ReplayedAfterCommit DEF DataClaimed
    <3>2. CASE b \in ahead
      <4>1. use[b] = "free" /\ dev[b] = count + 1
        BY <1>0, <3>2 DEF AheadInv, Free
      <4>2. Replayed'[b] = 0  BY <1>a, <2>0, <2>1, <3>1, <4>1
      <4>3. want'[b] = count + 1  BY <1>7, <3>2 DEF DataClaimed
      <4>4. QED  BY <2>0, <4>1, <4>2, <4>3
    <3>3. CASE b \notin ahead
      <4>1. use'[b] = use[b] /\ want'[b] = want[b]  BY <1>7, <3>3 DEF DataClaimed
      <4>2. QED  BY <1>d, <2>0, <2>1, <3>1, <4>1
    <3>4. QED  BY <3>2, <3>3
  <2>2. QED  BY <2>0, <2>1 DEF ReplayInv
<1>8. ASSUME NEW new \in SUBSET Blocks, NEW values \in SUBSET Blocks, SetAttr(new, values)
      PROVE  ReplayInv'
  <2>1. ASSUME NEW b \in Blocks, b \notin stale' PROVE Good(b)'
    <3>1. /\ use' = use /\ want' = want /\ log' = log /\ pushed' = TRUE
          /\ b \notin stale \/ use[b] = "free"
          /\ b \in values => use[b] = "free"
      BY <1>8, <2>1 DEF SetAttr, Free
    <3>2. Replayed' = Replayed  BY <3>1 DEF Replayed, Applies
    <3>3. dev'[b] = IF b \in values THEN count + 1
                    ELSE IF overlay[b] # 0 THEN overlay[b] ELSE dev[b]
      BY <1>8, OverAt DEF SetAttr
    <3>4. QED  BY <1>a, <1>c, <3>1, <3>2, <3>3
  <2>2. overlay' = NoImages' /\ pushed' = TRUE  BY <1>8 DEF SetAttr, NoImages
  <2>3. QED  BY <2>1, <2>2 DEF ReplayInv
<1>9. ASSUME NEW new \in SUBSET Blocks, NEW values \in SUBSET Blocks,
             RebuildParents(new, values)
      PROVE  ReplayInv'
  <2>0. /\ use' = use /\ want' = want /\ log' = log /\ pc' = "rebuild" /\ ahead' = values
        /\ \A b \in values : use[b] = "free"
    BY <1>9 DEF RebuildParents, Free
  <2>a. Replayed' = Replayed  BY <2>0 DEF Replayed, Applies
  <2>1. CASE values = {}
    <3>1. overlay' = overlay /\ dev' = dev /\ stale' = stale /\ pushed' = pushed
      BY <1>9, <2>1, Zenon DEF RebuildParents
    <3>2. ASSUME NEW b \in Blocks, b \notin stale' PROVE Good(b)'
      BY <1>a, <2>0, <2>a, <3>1, <3>2
    <3>3. pushed' => overlay' = NoImages'  BY <3>1 DEF ReplayInv, NoImages
    <3>4. QED  BY <2>0, <2>1, <3>2, <3>3 DEF ReplayInv
  <2>2. CASE values # {}
    <3>1. /\ overlay' = NoImages /\ pushed' = TRUE
          /\ dev' = [b \in Blocks |-> IF b \in values THEN count + 1
                                      ELSE Over(dev, overlay)[b]]
          /\ stale' = stale \ Free
      BY <1>9, <2>2, Zenon DEF RebuildParents
    <3>2. ASSUME NEW b \in Blocks, b \notin stale' PROVE Good(b)'
      <4>1. dev'[b] = IF b \in values THEN count + 1
                      ELSE IF overlay[b] # 0 THEN overlay[b] ELSE dev[b]
        BY <3>1, OverAt
      <4>2. b \notin stale \/ use[b] = "free"  BY <3>1, <3>2 DEF Free
      <4>3. QED  BY <1>a, <1>c, <2>0, <2>a, <3>1, <4>1, <4>2
    <3>3. overlay' = NoImages'  BY <3>1 DEF NoImages
    <3>4. QED  BY <3>1, <3>2, <3>3 DEF ReplayInv
  <2>3. QED  BY <2>1, <2>2
<1>10. CASE ForkCommitted
  <2>0. pushed' = FALSE /\ pc' = "idle" /\ dev' = dev
    BY <1>10 DEF ForkCommitted, Committed
  <2>1. ASSUME NEW b \in Blocks, b \notin stale' PROVE Good(b)'
    <3>0. leaf \in SUBSET Blocks /\ Fork \in SUBSET Blocks  BY <1>0 DEF TypeOK, Fork
    <3>1. Replayed'[b] = IF b \in Fork THEN 0 ELSE IF b \in leaf THEN count + 1
                         ELSE IF pushed THEN 0 ELSE Replayed[b]
      BY <1>0, <1>10, <3>0, ReplayedAfterCommit DEF ForkCommitted
    <3>2. /\ ahead \cup leaf \subseteq Free /\ ahead \cap leaf = {}
          /\ \A d \in ahead : dev[d] = count + 1
      BY <1>0 DEF AheadInv
    <3>3. CASE b \in leaf
      <4>1. b \notin Fork  BY <3>2, <3>3 DEF Fork, Free
      <4>2. b \notin ahead  BY <3>2, <3>3
      <4>3. use'[b] = "attr" /\ want'[b] = count + 1
        BY <1>10, <3>3, <4>2 DEF ForkCommitted
      <4>4. count + 1 # 0  BY <1>0 DEF TypeOK
      <4>5. QED  BY <3>1, <3>3, <4>1, <4>3, <4>4
    <3>4. CASE b \in ahead
      <4>1. b \notin Fork /\ b \notin leaf  BY <3>2, <3>4 DEF Fork, Free
      <4>2. pushed  BY <1>10, <3>4 DEF ForkCommitted, ReplayInv
      <4>3. use'[b] = "remote" /\ want'[b] = count + 1
        BY <1>10, <3>4 DEF ForkCommitted
      <4>4. QED  BY <2>0, <3>1, <3>2, <3>4, <4>1, <4>2, <4>3
    <3>5. CASE b \notin ahead \cup leaf /\ b \in Fork
      <4>1. use'[b] = "free"  BY <1>10, <3>5 DEF ForkCommitted
      <4>2. QED  BY <3>1, <3>5, <4>1
    <3>6. CASE b \notin ahead \cup leaf /\ b \notin Fork
      <4>1. b \notin stale /\ use'[b] = use[b] /\ want'[b] = want[b]
        BY <1>10, <2>1, <3>6 DEF ForkCommitted
      <4>2. QED  BY <1>d, <2>0, <3>1, <3>6, <4>1
    <3>7. QED  BY <3>3, <3>4, <3>5, <3>6
  <2>2. QED  BY <2>0, <2>1 DEF ReplayInv
<1>11. CASE FreeInode
  <2>0. pushed' = FALSE /\ pc' = "idle" /\ dev' = dev /\ want' = want
    BY <1>11 DEF FreeInode, Committed, Start, Stays
  <2>1. ASSUME NEW b \in Blocks, b \notin stale' PROVE Good(b)'
    <3>0. Fork \in SUBSET Blocks  BY DEF Fork
    <3>1. Replayed'[b] = IF b \in Fork THEN 0 ELSE IF b \in {} THEN count + 1
                         ELSE IF pushed THEN 0 ELSE Replayed[b]
      BY <1>0, <1>11, <3>0, ReplayedAfterCommit DEF FreeInode
    <3>2. CASE b \in Fork
      <4>1. use'[b] = "free"  BY <1>11, <3>2 DEF FreeInode
      <4>2. QED  BY <3>1, <3>2, <4>1
    <3>3. CASE b \notin Fork
      <4>1. b \notin stale /\ use'[b] = use[b]  BY <1>11, <2>1, <3>3 DEF FreeInode
      <4>2. QED  BY <1>d, <2>0, <3>1, <3>3, <4>1
    <3>4. QED  BY <3>2, <3>3
  <2>2. QED  BY <2>0, <2>1 DEF ReplayInv
<1>12. CASE UNCHANGED vars
  <2>1. /\ use' = use /\ want' = want /\ log' = log /\ dev' = dev /\ overlay' = overlay
        /\ pushed' = pushed /\ pc' = pc /\ ahead' = ahead /\ stale' = stale
    BY <1>12 DEF vars
  <2>2. Replayed' = Replayed  BY <2>1 DEF Replayed, Applies
  <2>3. NoImages' = NoImages  BY DEF NoImages
  <2>4. QED  BY <2>1, <2>2, <2>3 DEF ReplayInv
<1>13. QED
  BY <1>3, <1>4, <1>5, <1>6, <1>7, <1>8, <1>9, <1>10, <1>11, <1>12 DEF Next

\* log_recover::replay, for every number of blocks and operations: a crash at
\* any point, between a device write and its record included, replays to
\* blocks that hold what their owner wrote, unless a block was handed on by
\* a path that logs no cancellation.
THEOREM ReplayKeepsTheirBlocks == Spec => []ReplayKeepsUnlessStale
<1>1. Init => Inv /\ ReplayInv  BY InvInit, ReplayInit
<1>2. Inv /\ ReplayInv /\ [Next]_vars => Inv' /\ ReplayInv'
  <2>1. Inv /\ [Next]_vars => Inv'  BY TypeStep, ReadStep DEF Inv
  <2>2. QED  BY <2>1, ReplayStep
<1>3. Inv /\ ReplayInv => ReplayKeepsUnlessStale
  BY OverAt DEF ReplayInv, ReplayKeepsUnlessStale
<1>4. QED  BY <1>1, <1>2, <1>3, PTL DEF Spec
=============================================================================
