----------------------------- MODULE HeadSearch -----------------------------
(***************************************************************************)
(* Finding the newest record of the log (log.rs).                          *)
(*                                                                         *)
(* Every block of the ring begins with the cycle it was written in.  The   *)
(* fast search bisects for the place where the cycle changes, confirms a   *)
(* window before it and takes the last header there; the slow one reads    *)
(* every block for the header with the greatest sequence number.  A block  *)
(* is its cycle and, if it is a record header, the blocks the record has.  *)
(*                                                                         *)
(* The ring is written by this driver (one record at a time, none past the *)
(* end) or by the kernel (several at once, the blocks past the end stamped *)
(* with the next cycle).  A machine that stops leaves any of the blocks it *)
(* was writing.                                                            *)
(***************************************************************************)
EXTENDS Integers, FiniteSets, Sequences

CONSTANTS
  Total,         \* basic blocks in the ring
  Window,        \* HEAD_WINDOW_BLOCKS
  Lengths,       \* lengths a record may have, in basic blocks
  UnmountLength, \* the unmount record's
  InFlight,      \* records that may be on their way to the device at once
  MaxCycle,      \* bound: the last cycle of a behaviour
  None

ASSUME SearchAssumption ==
  /\ Total \in Nat \ {0} /\ Window \in Nat \ {0} /\ InFlight \in Nat \ {0}
  /\ Lengths \subseteq 1 .. Total /\ UnmountLength \in Lengths
  /\ MaxCycle \in Nat /\ None \notin 0 .. Total

VARIABLES
  ring,   \* device: every block's cycle and header
  at,     \* where the next record goes: its cycle and block
  state   \* "whole", "cut" (the machine stopped), "resumed" after that, or
          \* "flight" (it stopped with two records on their way)

vars == <<ring, at, state>>

Position == 0 .. Total - 1
Block    == [cycle : Nat, len : Nat]

Init ==
  /\ ring = [b \in Position |-> [cycle |-> 0, len |-> 0]]
  /\ at = [cycle |-> 1, block |-> 0]
  /\ state = "whole"

-----------------------------------------------------------------------------
(* Writing *)

\* Block k of a record that starts at `pos'; one that runs past the end of
\* the ring goes on at block 0 (only the kernel writes those).
Where(pos, k) == (pos.block + k) % Total
CycleAt(pos, k) == pos.cycle + (pos.block + k) \div Total

\* The head after a record; at the end of the ring the next cycle begins.
Beyond(pos, len) == [cycle |-> CycleAt(pos, len), block |-> Where(pos, len)]

\* What the blocks of a record say, for those of them that landed.
Stamped(r, pos, len, landed) ==
  [b \in Position |->
     IF \E k \in landed : Where(pos, k) = b
     THEN LET k == CHOOSE i \in landed : Where(pos, i) = b
          IN  [cycle |-> CycleAt(pos, k), len |-> IF k = 0 THEN len ELSE 0]
     ELSE r[b]]

Write(len) ==
  /\ state \in {"whole", "resumed"}
  /\ Beyond(at, len).cycle <= MaxCycle
  /\ ring' = Stamped(ring, at, len, 0 .. len - 1)
  /\ at' = Beyond(at, len)
  /\ UNCHANGED state

\* The machine stops while one record is on its way.  A log whose newest
\* header is an unmount record's may still be taken for a clean one, and
\* then the next mount goes on behind it.
Cut(len, landed) ==
  /\ state \in {"whole", "resumed"}
  /\ Beyond(at, len).cycle <= MaxCycle
  /\ ring' = Stamped(ring, at, len, landed)
  /\ IF len = UnmountLength /\ 0 \in landed
     THEN at' = Beyond(at, len) /\ state' = "resumed"
     ELSE state' = "cut" /\ UNCHANGED at

\* The machine stops while the kernel has two records on their way.
CutTwo(len, next, landed, landedNext) ==
  /\ InFlight > 1
  /\ state \in {"whole", "resumed"}
  /\ Beyond(Beyond(at, len), next).cycle <= MaxCycle
  /\ len + next <= Total
  /\ ring' = Stamped(Stamped(ring, at, len, landed), Beyond(at, len), next, landedNext)
  /\ state' = "flight"
  /\ UNCHANGED at

Next ==
  \E len \in Lengths :
    \/ Write(len)
    \/ \E landed \in SUBSET (0 .. len - 1) : Cut(len, landed)
    \/ \E next \in Lengths, landed \in SUBSET (0 .. len - 1) :
         \E landedNext \in SUBSET (0 .. next - 1) : CutTwo(len, next, landed, landedNext)

Spec == Init /\ [][Next]_vars

-----------------------------------------------------------------------------
(* scan_whole_ring *)

Headers == {b \in Position : ring[b].len > 0}

\* h_lsn: a header's cycle and the block it is at.
LsnAtOrBefore(a, b) ==
  \/ ring[a].cycle < ring[b].cycle
  \/ ring[a].cycle = ring[b].cycle /\ a <= b

WholeRing ==
  IF Headers = {} THEN None
  ELSE CHOOSE b \in Headers : \A c \in Headers : LsnAtOrBefore(c, b)

-----------------------------------------------------------------------------
(* newest_record_by_cycle *)

First == ring[0].cycle
Last  == ring[Total - 1].cycle

\* The bisection between a block known to carry First and one known to
\* carry Last; None at a block that carries neither.
Bisect[span \in Position \X Position] ==
  LET lo  == span[1]
      hi  == span[2]
      mid == lo + (hi - lo) \div 2
  IN  IF hi - lo <= 1 THEN hi
      ELSE IF ring[mid].cycle = Last THEN Bisect[<<lo, mid>>]
      ELSE IF ring[mid].cycle = First THEN Bisect[<<mid, hi>>]
      ELSE None

\* Where the cycle changes, by the three shapes a ring can have.
HeadByCycle ==
  IF Total < 2 \/ First = 0 THEN None
  ELSE IF Last = First THEN Total
  ELSE IF Last = 0 \/ First - 1 = Last THEN Bisect[<<0, Total - 1>>]
  ELSE None

\* The blocks before the head, with the cycle each of them has to carry: in
\* a wrapped ring the window goes on from the end, in the cycle before.
WindowSize == IF Window < Total THEN Window ELSE Total
Wrapped(head) == IF head < WindowSize /\ Last # First /\ Last # 0
                 THEN Total - (WindowSize - head) .. Total - 1 ELSE {}
Straight(head) == (IF head < WindowSize THEN 0 ELSE head - WindowSize) .. head - 1

\* Mutant: the window is not confirmed.
MutWindowTrusted(head) == TRUE

WindowHolds(head) ==
  /\ \A b \in Wrapped(head) : ring[b].cycle = Last
  /\ \A b \in Straight(head) : ring[b].cycle = First

\* The last header before the head, in the order the window was written.
LastHeader(head) ==
  LET near == Headers \cap Straight(head)
      far  == Headers \cap Wrapped(head)
      highest(bs) == CHOOSE b \in bs : \A c \in bs : c <= b
  IN  IF near # {} THEN highest(near)
      ELSE IF far # {} THEN highest(far) ELSE None

\* It has to end at the head; None leaves the answer to the scan.
ByCycle ==
  LET head == HeadByCycle
      b    == LastHeader(head)
      end  == b + ring[b].len
  IN  IF head = None THEN None
      ELSE IF ~WindowHolds(head) \/ b = None THEN None
      ELSE IF (IF end > Total THEN end - Total ELSE end) = head THEN b ELSE None

\* scan_for_newest_record
NewestRecord == IF ByCycle # None THEN ByCycle ELSE WholeRing

\* Mutant: the ring begins again in the cycle it is in.
MutScannedHeadSameCycle ==
  LET b    == NewestRecord
      next == b + ring[b].len
  IN  IF b = None THEN [cycle |-> 1, block |-> 0]
      ELSE IF next > Total THEN None
      ELSE [cycle |-> ring[b].cycle, block |-> next % Total]

\* log::head: behind the newest record, in the next cycle at the end of the
\* ring; a record that ends past the end is refused.
ScannedHead ==
  LET b    == NewestRecord
      next == b + ring[b].len
  IN  IF b = None THEN [cycle |-> 1, block |-> 0]
      ELSE IF next > Total THEN None
      ELSE IF next = Total THEN [cycle |-> ring[b].cycle + 1, block |-> 0]
      ELSE [cycle |-> ring[b].cycle, block |-> next]

-----------------------------------------------------------------------------
(* Properties *)

\* scan_for_newest_record "The record with the greatest sequence number in
\* the ring": whatever a machine stopped in one record left in the log, the
\* bisection that trusts a few blocks answers as the scan that reads them all.
\* With several records in flight it may stop at the first block that did not
\* arrive, and then finds the last record before the machine stopped: never
\* one from among those in flight but for the greatest.  A log in which
\* every record arrived whole is never read through: the bisection answers.
FindsNewest ==
  /\ \/ NewestRecord = WholeRing
     \/ /\ state = "flight"
        /\ Where([cycle |-> 0, block |-> NewestRecord], ring[NewestRecord].len) = at.block
  /\ state = "whole" /\ First # 0 /\ Total >= 2 => ByCycle # None

\* log::head works out, from the newest header alone, the head the writer
\* had reached: commit_record may keep either, and does.
ScanFindsHead == state \notin {"cut", "flight"} /\ ScannedHead # None => ScannedHead = at
=============================================================================
