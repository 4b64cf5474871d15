----------------------------- MODULE MCJournal -----------------------------
(* Values for TLC. *)
EXTENDS Journal

CONSTANTS b1, b2

MCBlocks == {b1, b2}
MCUnmountShape == <<2>>

CleanAt(c, b) ==
  {[cycle |-> c, block |-> b, len |-> 2, tail |-> [cycle |-> c, block |-> b],
    kind |-> "unmount", ck |-> 0, first |-> TRUE, last |-> TRUE,
    writes |-> {}, whole |-> TRUE]}

\* One record of three blocks, or two of two.
SmallShapes == {<<3>>, <<2, 4>>}
\* A log never written to, and one a clean unmount left in mid ring.
SmallLogs == {{}, CleanAt(1, 2)}
\* The same logs, or one with its last record one block short of the end.
ShortLogs == {{}, CleanAt(1, 3)}
\* Two records of three blocks: needs more than the tail of the ring holds.
LargeShapes == {<<2>>, <<3, 6>>}
=============================================================================
