----------------------------- MODULE AtomicStore -----------------------------
(***************************************************************************)
(* What the journal promises: a store of blocks changed by numbered        *)
(* checkpoints, each of which happens whole or not at all, in order, and   *)
(* none of which is ever lost.  The one thing it may do instead is become  *)
(* unreadable, when a log write was cut short.                             *)
(***************************************************************************)
EXTENDS Naturals

CONSTANTS Blocks, Unreadable

VARIABLES content, n

Init == content = [b \in Blocks |-> 0] /\ n = 0

\* One checkpoint: some blocks take its number, the rest keep theirs.
Checkpoint ==
  /\ n' = n + 1
  /\ content # Unreadable
  /\ content' \in [Blocks -> 0 .. n + 1]
  /\ \A b \in Blocks : content'[b] \in {content[b], n + 1}

Tear == n' = n /\ content' = Unreadable

Next == Checkpoint \/ Tear

Spec == Init /\ [][Next]_<<content, n>>
=============================================================================
