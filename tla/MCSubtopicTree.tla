--------------------------- MODULE MCSubtopicTree ---------------------------
(***************************************************************************)
(* Instances of SubtopicTree for TLC.                                      *)
(***************************************************************************)
EXTENDS SubtopicTree

=============================================================================
