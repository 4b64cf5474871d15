---------------------------- MODULE MCHeadSearch ----------------------------
(* Values for TLC. *)
EXTENDS HeadSearch

ShortRecords == {2, 3}
=============================================================================
