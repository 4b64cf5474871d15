---------------------------- MODULE MCBlockReuse ----------------------------
(* Values for TLC. *)
EXTENDS BlockReuse, TLC

CONSTANTS x, y, z

MCBlocks == {x, y, z}
Symmetry == Permutations(MCBlocks)

EveryFree == {"data", "dir"}
=============================================================================
