----------------------------- MODULE RunPromise -----------------------------
(***************************************************************************)
(* What a research run promises its user, whoever executes it: it goes     *)
(* through its phases in order and never back; if approval was asked for,  *)
(* it passes the gate only once a decision has been submitted; it advances *)
(* only while somebody is active on it, and nobody becomes active on a run *)
(* that has been cancelled, except one who cannot find out that it has.    *)
(***************************************************************************)
CONSTANT Decisions

VARIABLES
    phase,      \* how far the run has come
    gated,      \* whether it waits for approval at the gate
    decisions,  \* decisions users have submitted
    flag,       \* the run has been cancelled
    active,     \* somebody may be executing it
    misled      \* who could not read the flag

vars == <<phase, gated, decisions, flag, active, misled>>

Init ==
    /\ phase = "new"
    /\ gated = FALSE
    /\ decisions = {}
    /\ flag = FALSE
    /\ active = FALSE
    /\ misled = FALSE

Start ==
    /\ ~active
    /\ active' = TRUE
    /\ misled' \in BOOLEAN
    /\ flag => misled'
    /\ UNCHANGED <<phase, gated, decisions, flag>>

\* Finished, failed, interrupted, disconnected or crashed.
Stop ==
    /\ active
    /\ active' = FALSE
    /\ misled' = FALSE
    /\ UNCHANGED <<phase, gated, decisions, flag>>

Advance(from, to) ==
    /\ active
    /\ phase = from
    /\ phase' = to
    /\ UNCHANGED <<decisions, flag, active, misled>>

Plan == Advance("new", "planning") /\ gated' \in BOOLEAN
Reach == Advance("planning", "gate") /\ UNCHANGED gated
Pass == Advance("gate", "working") /\ (gated => decisions # {}) /\ UNCHANGED gated
Complete == Advance("working", "over") /\ UNCHANGED gated

Submit(d) ==
    /\ decisions' = decisions \cup {d}
    /\ UNCHANGED <<phase, gated, flag, active, misled>>

Cancel ==
    /\ flag' = TRUE
    /\ UNCHANGED <<phase, gated, decisions, active, misled>>

Next ==
    \/ Start \/ Stop \/ Plan \/ Reach \/ Pass \/ Complete \/ Cancel
    \/ \E d \in Decisions : Submit(d)

Spec == Init /\ [][Next]_vars
=============================================================================
