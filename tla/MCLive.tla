-------------------------------- MODULE MCLive --------------------------------
(***************************************************************************)
(* What must come to an end, for TLC: the handlers of a run (RunLifecycle),*)
(* the calls on the database (WriteTx), the loops of the graph             *)
(* (ResearchGraph).  They share no state here: a behaviour belongs to one  *)
(* of them, and fairness is asked of that one.                             *)
(***************************************************************************)
EXTENDS RunLifecycle, WriteTx, ResearchGraph, TLC

CONSTANTS plain, replayed, reader

VARIABLE part

liveVars == <<part, vars, txVars, graphVars>>

\* A write through tx(), one of two statements through run_in_tx(), a read.
CallKinds == plain :> "tx" @@ replayed :> "run_in_tx" @@ reader :> "read"
BodySizes == plain :> 1 @@ replayed :> 2 @@ reader :> 1

LiveInit ==
    /\ part \in {"run", "store", "graph"}
    /\ Init
    /\ TxInit
    /\ GraphInit

\* The graph that has come to its end.
Rest == node = "end" /\ UNCHANGED liveVars

LiveNext ==
    \/ part = "run" /\ Next /\ UNCHANGED <<part, txVars, graphVars>>
    \/ part = "store" /\ TxNext /\ UNCHANGED <<part, vars, graphVars>>
    \/ part = "graph" /\ GraphNext /\ UNCHANGED <<part, vars, txVars>>
    \/ Rest

\* Fairness, TxFairness and that of GraphFairSpec, each in its own part.
RunFairness ==
    /\ \A s \in Streams : /\ WF_vars(part = "run" /\ Open(s))
                          /\ WF_vars(part = "run" /\ StreamStep(s))
    /\ \A a \in Approvals : WF_vars(part = "run" /\ ApproveStep(a))
    /\ \A c \in Cancels : WF_vars(part = "run" /\ CancelStep(c))
    /\ \A w \in Writes : WF_vars(part = "run" /\ Land(w))
StoreFairness == \A c \in Calls : WF_txVars(part = "store" /\ Continue(c))
GraphFairness == WF_graphVars(part = "graph" /\ (Step \/ OutOfSteps))

LiveSpec ==
    LiveInit /\ [][LiveNext]_liveVars /\ RunFairness /\ StoreFairness /\ GraphFairness
=============================================================================
