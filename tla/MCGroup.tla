------------------------------ MODULE MCGroup ------------------------------
(* Values for TLC. *)
EXTENDS Group

CONSTANT First \* one of the data forks

\* Leaves small enough for a few runs to fill.
SmallLeaves == [t \in Trees |-> IF t = "rmap" THEN 7 ELSE IF t = "refc" THEN 1 ELSE 2]

\* A file with a free block behind it, of which the last block is
\* preallocated, and an attribute fork of one low block.
OneFile ==
  {[maps |-> [f \in Forks |-> IF f = First THEN LastBlock - 5 .. LastBlock - 1
                             ELSE IF f \in Attrs THEN {Lowest(Rest)} ELSE {}],
    unwritten |-> {LastBlock - 1}]}

\* Two files that share a run, so that a free in its middle makes two records.
TwoFiles ==
  {[maps |-> [f \in Forks |-> IF f = First THEN LastBlock - 4 .. LastBlock - 1
                             ELSE IF f \in Attrs THEN {} ELSE LastBlock - 3 .. LastBlock - 1],
    unwritten |-> {}]}

FilesAtFirst == OneFile \cup TwoFiles
=============================================================================
