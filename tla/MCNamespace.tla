----------------------------- MODULE MCNamespace -----------------------------
(* Values for TLC: a user who owns every other inode, and a project that    *)
(* owns all but the root and may have one inode fewer than there are.       *)
EXTENDS Namespace

MCIds    == {"user", "project"}
MCHardBlocks == [id \in MCIds |-> IF id = "user" THEN 3 ELSE 0]
MCHardInodes == [id \in MCIds |-> IF id = "project" THEN LastIno - 1 ELSE 0]
MCOwners == [i \in Inos |-> (IF i % 2 = 1 THEN {"user"} ELSE {})
                              \cup (IF i # Root THEN {"project"} ELSE {})]
=============================================================================
