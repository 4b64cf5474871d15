------------------------------ MODULE AgSpace ------------------------------
(***************************************************************************)
(* Runs of blocks in one allocation group, and how many blocks a tree of   *)
(* records takes (alloc_btree.rs, ag_btree.rs).                            *)
(***************************************************************************)
EXTENDS Integers, FiniteSets, Sequences

CONSTANTS
  LastBlock,    \* agf_length - 1: the blocks past the headers are 1 .. LastBlock
  NodeEntries   \* pointers a node of a tree holds

ASSUME AgSpaceAssumption == LastBlock \in Nat /\ NodeEntries \in Nat \ {0, 1}

Blocks == 1 .. LastBlock

Run(start, len) == start .. start + len - 1
RunStarts(S)    == {b \in S : b - 1 \notin S}
Lowest(S)       == CHOOSE b \in S : \A c \in S : b <= c
Highest(S)      == CHOOSE b \in S : \A c \in S : c <= b

\* The blocks of a set in order.
InOrder(S) == [i \in 1 .. Cardinality(S) |->
                 CHOOSE b \in S : Cardinality({c \in S : c < b}) = i - 1]

\* alloc_btree::longest
Longest(S) ==
  IF S = {} THEN 0
  ELSE Highest({len \in 1 .. LastBlock : \E b \in S : Run(b, len) \subseteq S})

\* Where a run of so many free blocks can start on a multiple of align.
Fits(S, want, align) == {b \in S : b % align = 0 /\ Run(b, want) \subseteq S}

CeilDiv(a, b) == (a + b - 1) \div b

\* ag_btree::plan: leaves, and then nodes over them up to one root.
Leaves(perLeaf, n) == IF n = 0 THEN 1 ELSE CeilDiv(n, perLeaf)
Over[n \in Nat \ {0}] ==
  IF n = 1 THEN [blocks |-> 1, levels |-> 1]
  ELSE LET above == Over[CeilDiv(n, NodeEntries)]
       IN  [blocks |-> n + above.blocks, levels |-> 1 + above.levels]
Plan(perLeaf, n) == Over[Leaves(perLeaf, n)]
=============================================================================
