--------------------------- MODULE MCRunLifecycle ---------------------------
(***************************************************************************)
(* Instances of RunLifecycle for TLC.  Streams are interchangeable, and so *)
(* are approvals and cancels: the safety runs use that symmetry.           *)
(***************************************************************************)
EXTENDS RunLifecycle, TLC

Symmetry == Permutations(Streams) \cup Permutations(Approvals) \cup Permutations(Cancels)
=============================================================================
