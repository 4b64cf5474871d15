----------------------------- MODULE MCDirForms -----------------------------
(* Values for TLC: five names, two of one hash, one of the hash of `..`, and *)
(* one that takes two slots.                                                *)
EXTENDS DirForms

MCHash == [n \in Names \cup Dots |->
             CASE n = "." -> 2 [] n = ".." -> 4
               [] n = "a" -> 1 [] n = "b" -> 3 [] n = "c" -> 3
               [] n = "d" -> 4 [] n = "e" -> 5]
MCSize == [n \in Names |-> IF n = "b" THEN 2 ELSE 1]
MCIno  == [n \in Names |-> IF n = "c" THEN 3 ELSE IF n = "e" THEN 2 ELSE 1]
=============================================================================
