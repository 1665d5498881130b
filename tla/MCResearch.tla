------------------------------ MODULE MCResearch ------------------------------
(***************************************************************************)
(* What a run does to a question, for TLC: the way through the graph       *)
(* (ResearchGraph) and the rows behind its report (ReportRows).  They      *)
(* share no state here: a behaviour belongs to one of them.                *)
(*                                                                         *)
(* The presets of config.py have 4 to 18 topics, a ceiling of 40 and three *)
(* follow-ups at a time; the configuration scales these down and keeps     *)
(* what matters: rounds and iterations as they are, a ceiling that         *)
(* follow-ups can meet and overshoot.                                      *)
(***************************************************************************)
EXTENDS ResearchGraph, ReportRows, TLC

VARIABLE part

researchVars == <<part, graphVars, vars>>

\* Sources and sub-questions differ in nothing but what happens to them.
Likeness == Permutations(Sources) \cup Permutations(Subtopics)

ResearchInit ==
    /\ part \in {"graph", "rows"}
    /\ GraphInit
    /\ Init

ResearchNext ==
    \/ part = "graph" /\ GraphNext /\ UNCHANGED <<part, vars>>
    \/ part = "rows" /\ Next /\ UNCHANGED <<part, graphVars>>

ResearchSpec == ResearchInit /\ [][ResearchNext]_researchVars
=============================================================================
