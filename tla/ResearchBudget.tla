--------------------------- MODULE ResearchBudget ---------------------------
(***************************************************************************)
(* What bounds a research run: it gathers in rounds and writes in drafts.  *)
(* Every draft is judged before the next step is chosen; while revisions   *)
(* are left, the judgement may ask for another draft or for one round of   *)
(* gathering first.  Rounds are limited by MaxRounds, plus one for every   *)
(* revision that asked for evidence.                                       *)
(***************************************************************************)
EXTENDS Naturals

CONSTANTS MaxRounds, MaxIterations

VARIABLES phase, rounds, drafts

vars == <<phase, rounds, drafts>>

Revisions == IF drafts <= MaxIterations THEN drafts ELSE MaxIterations

Init == phase = "prepare" /\ rounds = 0 /\ drafts = 0

Begin ==
    /\ phase = "prepare"
    /\ phase' = "gather"
    /\ UNCHANGED <<rounds, drafts>>

Gather ==
    /\ phase = "gather"
    /\ rounds < MaxRounds + Revisions
    /\ rounds' = rounds + 1
    /\ \/ phase' = "gather" /\ rounds' < MaxRounds
       \/ phase' = "write"
    /\ UNCHANGED drafts

Judge ==
    /\ phase = "write"
    /\ drafts' = drafts + 1
    /\ \/ phase' = "over"
       \/ phase' \in {"write", "gather"} /\ drafts < MaxIterations
    /\ UNCHANGED rounds

Next == Begin \/ Gather \/ Judge

Spec == Init /\ [][Next]_vars
=============================================================================
