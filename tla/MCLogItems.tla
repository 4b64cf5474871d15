----------------------------- MODULE MCLogItems -----------------------------
(***************************************************************************)
(* Checkpoints and their replay: one block of three chunks, two inodes, of *)
(* which one is in a chunk an icreate item makes, and records so small     *)
(* that most checkpoints take several.                                     *)
(***************************************************************************)
EXTENDS LogItems
=============================================================================
