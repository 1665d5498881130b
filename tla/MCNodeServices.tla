---------------------------- MODULE MCNodeServices ----------------------------
(***************************************************************************)
(* What the nodes of the graph rest on, for TLC: the loop that scores and  *)
(* grades (Coverage), the evidence that is gathered (Evidence), the model  *)
(* (Provider) and the keys to it (Vault).  They share no state here: a     *)
(* behaviour belongs to one of them, and the others stay where they began. *)
(* A call and the settings page only read the settings, and are taken      *)
(* apart too.                                                              *)
(***************************************************************************)
EXTENDS Coverage, Evidence, MCProvider, Vault

VARIABLE part

servicesVars == <<part, vars, evVars, llmVars, vaultVars>>

\* Two works; the title of one is also that of the other.
SomeHits == {[work |-> "w1", title |-> "a"], [work |-> "w2", title |-> "a"]}

SomeSettings == CHOOSE s \in Offered : TRUE

ServicesInit ==
    /\ part \in {"coverage", "evidence", "model", "page", "vault"}
    /\ Init /\ (part # "coverage" => mode = "unloaded" /\ known = Topics)
    /\ EvInit
    /\ LlmInit
    /\ VaultInit
    /\ (part \notin {"model", "page"} => settings = SomeSettings /\ ~listed)
    /\ (part # "model" => how = "chat" /\ raw = "none")

ServicesNext ==
    \/ part = "coverage" /\ Next /\ UNCHANGED <<part, evVars, llmVars, vaultVars>>
    \/ part = "evidence" /\ EvNext /\ UNCHANGED <<part, vars, llmVars, vaultVars>>
    \/ part = "model" /\ (Proceed \/ Change) /\ UNCHANGED <<part, vars, evVars, vaultVars>>
    \/ part = "page" /\ (PageNext \/ Change) /\ UNCHANGED <<part, vars, evVars, vaultVars>>
    \/ part = "vault" /\ VaultNext /\ UNCHANGED <<part, vars, evVars, llmVars>>

ServicesSpec == ServicesInit /\ [][ServicesNext]_servicesVars
=============================================================================
