----------------------------- MODULE AtomicStore -----------------------------
(***************************************************************************)
(* What db/database.py promises to those who call it: a call takes effect  *)
(* as a whole or not at all, once, and its answer says which.  A call that *)
(* a dying process leaves without an answer may have gone either way.      *)
(***************************************************************************)
CONSTANT Calls

VARIABLES
    applied,   \* the calls whose writes are in the database
    answer     \* of each call: "none", "ok", "error", or "gone" with its process

Init ==
    /\ applied = {}
    /\ answer = [c \in Calls |-> "none"]

Apply(c) ==
    /\ answer[c] = "none"
    /\ c \notin applied
    /\ applied' = applied \cup {c}
    /\ UNCHANGED answer

Answer(c) ==
    /\ answer[c] = "none"
    /\ answer' = [answer EXCEPT ![c] = IF c \in applied THEN "ok" ELSE "error"]
    /\ UNCHANGED applied

\* A commit and its answer may be one step for an observer.
ApplyAndAnswer(c) ==
    /\ answer[c] = "none"
    /\ c \notin applied
    /\ applied' = applied \cup {c}
    /\ answer' = [answer EXCEPT ![c] = "ok"]

Die ==
    /\ answer' \in [Calls -> {"none", "ok", "error", "gone"}]
    /\ \A c \in Calls : answer'[c] # answer[c] => answer[c] = "none" /\ answer'[c] = "gone"
    /\ UNCHANGED applied

Next == Die \/ \E c \in Calls : Apply(c) \/ Answer(c) \/ ApplyAndAnswer(c)

Spec == Init /\ [][Next]_<<applied, answer>>
=============================================================================
