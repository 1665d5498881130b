---------------------------- MODULE SubtopicTree ----------------------------
(***************************************************************************)
(* The tree of sub-questions of one run, kept twice: as rows of the table  *)
(* subtopics and as state["subtopics"] in the checkpoint.                  *)
(*                                                                         *)
(* The planner, the moderator and the approval gate rebuild all rows       *)
(* (replace_subtopics) under new ids and then return the new tree; the gap *)
(* analysis appends rows (add_subtopics).  A node writes its rows before   *)
(* LangGraph checkpoints what it returned, and a disconnect, a cancel or a *)
(* crash may come between the two.  A stopped run resumes from its         *)
(* checkpoint once the user has approved again (runner.run_stream offers   *)
(* an approval wherever the run stands).                                   *)
(*                                                                         *)
(* A sub-question is identified by its origin, the id of its first row;    *)
(* its text, perspective, status and approval are left out.  0 stands for  *)
(* no parent and for no origin yet.                                        *)
(***************************************************************************)
EXTENDS Naturals, FiniteSets

CONSTANTS
    MaxPlan,         \* max_subtopics
    MaxDepth,        \* bound on the depths a model gives to its plan
    MaxAdds,         \* bound on the sub-questions a user adds at the gate
    MaxTotal,        \* _MAX_TOTAL_SUBTOPICS
    MaxNew,          \* _MAX_NEW_SUBTOPICS
    MaxOutline,      \* _MAX_OUTLINE_ADD
    MaxRounds,       \* max_research_rounds
    GateSettings,    \* values of require_approval
    Faults,          \* what may go wrong: "cut", "write"
    LastId           \* bound on the ids that are handed out

ASSUME TreeAssumption ==
    /\ {MaxPlan, MaxDepth, MaxAdds, MaxTotal, MaxNew, MaxOutline,
        MaxRounds, LastId} \subseteq Nat
    /\ GateSettings \subseteq BOOLEAN
    /\ Faults \subseteq {"cut", "write"}

VARIABLES
    gate,     \* require_approval, fixed when the run is created
    at,       \* the node to run next, or the point reached in gap_analyzer
    rows,     \* the rows of the project in subtopics
    nodes,    \* state["subtopics"] in the checkpoint
    added,    \* updated_subtopics, a local variable of gap_analyzer
    nextId,   \* sqlite_sequence: ids of deleted rows are not used again
    round,    \* research_round
    waiting,  \* the run stands still until an approval arrives
    decision, \* the decision that the gate will be resumed with
    forked    \* history: why the rows may differ from the checkpoint

vars == <<gate, at, rows, nodes, added, nextId, round, waiting, decision, forked>>

-----------------------------------------------------------------------------
Places == {"planner", "moderator", "approval", "research", "gap", "outline",
           "return", "end"}

Node == [id : Nat \ {0}, parent : Nat, origin : Nat \ {0},
         depth : Nat, ord : Nat]

\* What replace_subtopics and add_subtopics are given: temp_id and
\* parent_temp_id are keys of the list itself, or ids of the earlier rows.
Item == [temp : Nat, up : Nat, origin : Nat, depth : Nat, ord : Nat]

None == [kept |-> {}, adds |-> 0, given |-> FALSE]

IdsOf(N) == {n.id : n \in N}

\* The existing nodes as a rebuild is given them.
Seeds(N) ==
    {[temp |-> n.id, up |-> n.parent, origin |-> n.origin,
      depth |-> n.depth, ord |-> n.ord] : n \in N}

\* A new item: nobody's parent, because its temp_id is used by no other item.
Fresh(up, depth, ord) ==
    [temp |-> 0, up |-> up, origin |-> 0, depth |-> depth, ord |-> ord]

\* The key by which replace_subtopics sorts.
Before(m, n) == m.depth < n.depth \/ (m.depth = n.depth /\ m.ord < n.ord)

\* The ids a list of items can get: consecutive, in the order of insertion.
\* Items with equal keys keep the order of the list, which is left open.
Numberings(S) ==
    {f \in [S -> nextId .. nextId + Cardinality(S) - 1] :
        \A m, n \in S : /\ m # n => f[m] # f[n]
                        /\ Before(m, n) => f[m] < f[n]}

\* Mutant: parents are resolved after all rows have been inserted.
KnownAtLast(n, S, f) == {m \in S : m.temp = n.up /\ n.up # 0}

\* id_map knows the items inserted so far: a parent that comes later, or not
\* at all, is dropped.
Known(n, S, f) == {m \in S : m.temp = n.up /\ n.up # 0 /\ f[m] < f[n]}

ParentIn(n, S, f) ==
    IF Known(n, S, f) = {} THEN 0 ELSE f[CHOOSE m \in Known(n, S, f) : TRUE]

Inserted(S, f) ==
    {[id     |-> f[n],
      parent |-> ParentIn(n, S, f),
      origin |-> IF n.origin = 0 THEN f[n] ELSE n.origin,
      depth  |-> n.depth,
      ord    |-> n.ord] : n \in S}

\* There are ids left for k rows.
Room(k) == k \in 0 .. LastId + 1 - nextId

-----------------------------------------------------------------------------
Init ==
    /\ gate \in GateSettings
    /\ at = "planner"
    /\ rows = {}
    /\ nodes = {}
    /\ added = {}
    /\ nextId = 1
    /\ round = 0
    /\ waiting = FALSE
    /\ decision = None
    /\ forked = "no"

\* The node returns without a new tree.
Skip(next) ==
    /\ at' = next
    /\ UNCHANGED <<rows, nodes, nextId, waiting, forked>>

\* replace_subtopics, then the new tree goes into the checkpoint, or the
\* node is cut off before it does.
Rebuild(items, next) ==
    /\ Room(Cardinality(items))
    /\ \E f \in Numberings(items) :
        /\ rows' = Inserted(items, f)
        /\ nextId' = nextId + Cardinality(items)
        /\ \/ /\ nodes' = rows'
              /\ at' = next
              /\ forked' = "no"
              /\ UNCHANGED waiting
           \/ /\ "cut" \in Faults
              /\ waiting' = TRUE
              /\ forked' = "cut"
              /\ UNCHANGED <<nodes, at>>

\* The model's items, some of them unusable, name each other as parents and
\* have depths of the model's choice.  If the rows cannot be written the plan
\* stays empty.
PlanItems ==
    UNION {{{[temp |-> i, up |-> up[i], origin |-> 0,
              depth |-> depth[i], ord |-> i] : i \in I} :
                up \in [I -> 0 .. MaxPlan], depth \in [I -> 0 .. MaxDepth]} :
            I \in (SUBSET (1 .. MaxPlan)) \ {{}}}

Planner ==
    /\ at = "planner"
    /\ ~waiting
    /\ \/ \E items \in PlanItems : Rebuild(items, "moderator")
       \/ "write" \in Faults /\ Skip("moderator")
    /\ UNCHANGED <<added, round, decision>>

\* Up to three more angles, as far as there is room for them; no angle if the
\* model has none, fails, or the rows cannot be written.
Moderator ==
    /\ at = "moderator"
    /\ ~waiting
    /\ \/ Skip("approval")
       \/ \E k \in 1 .. 3 :
            /\ Cardinality(nodes) \in 1 .. MaxPlan - k
            /\ Rebuild(Seeds(nodes) \cup
                         {Fresh(0, 1, Cardinality(nodes) + j) : j \in 0 .. k - 1},
                       "approval")
    /\ UNCHANGED <<added, round, decision>>

-----------------------------------------------------------------------------
(***************************************************************************)
(* The gate                                                                *)
(***************************************************************************)
\* Without the gate the tree is approved as it is.
AutoApproval ==
    /\ at = "approval"
    /\ ~gate
    /\ ~waiting
    /\ Skip("research")
    /\ UNCHANGED <<added, round, decision>>

\* interrupt(): the run parks until it has a decision.
Park ==
    /\ at = "approval"
    /\ gate
    /\ ~waiting
    /\ ~decision.given
    /\ waiting' = TRUE
    /\ UNCHANGED <<at, rows, nodes, added, nextId, round, decision, forked>>

\* Mutant: the panel lists the kept nodes in any order.
PanelOrdersAny(kept, k) ==
    {f \in [kept -> 0 .. k - 1] : \A m, n \in kept : m # n => f[m] # f[n]}

\* The panel lists a parent above its children and numbers the k nodes kept.
PanelOrders(kept, k) ==
    {f \in [kept -> 0 .. k - 1] :
        \A m, n \in kept : /\ m # n => f[m] # f[n]
                           /\ n.parent = m.id => f[m] < f[n]}

\* Kept nodes keep their depth and their parent; added ones have no parent.
Edited(ord, adds, k) ==
    {[temp |-> n.id, up |-> n.parent, origin |-> n.origin,
      depth |-> n.depth, ord |-> ord[n]] : n \in DOMAIN ord}
    \cup {Fresh(0, 0, k + j) : j \in 0 .. adds - 1}

\* The gate resumes with the decision.  If nothing was kept the plan stays as
\* it was; if the rows cannot be written the old tree counts as approved.
HumanApproval ==
    /\ at = "approval"
    /\ gate
    /\ ~waiting
    /\ decision.given
    /\ \/ /\ decision.kept = {} /\ decision.adds = 0
          /\ Rebuild(Seeds(nodes), "research")
       \/ /\ decision.kept # {} \/ decision.adds # 0
          /\ \E k \in 0 .. LastId :
                /\ k = Cardinality(decision.kept)
                /\ \E ord \in PanelOrders(decision.kept, k) :
                        Rebuild(Edited(ord, decision.adds, k), "research")
       \/ "write" \in Faults /\ Skip("research")
    /\ decision' = None
    /\ UNCHANGED <<added, round>>

\* ON DELETE CASCADE: a row stays if it was not rejected and its parent stays.
Cascaded(rejected, K) ==
    \A r \in rows : r \in K <=>
        /\ r.id \notin rejected
        /\ r.parent = 0 \/ \E p \in K : p.id = r.parent

Reject(rejected) ==
    /\ \/ \E K \in SUBSET rows : Cascaded(IdsOf(rejected), K) /\ rows' = K
       \/ "write" \in Faults /\ rows' = rows
    /\ forked' = IF rows' = rows THEN forked ELSE "rejected"

\* The node that a resumed run starts with takes the decision.
Taken == at = "approval" /\ gate

\* approve(): rejected rows are deleted at once, and the deletion may fail; the
\* rest of the decision matters at the gate only, because no other node takes
\* one.  What a user does not keep is rejected or taken off the list.
Approve ==
    /\ waiting
    /\ \/ /\ Taken
          /\ \E kept \in SUBSET nodes, adds \in 0 .. MaxAdds :
                /\ \E rejected \in SUBSET (nodes \ kept) : Reject(rejected)
                /\ decision' = [kept |-> kept, adds |-> adds, given |-> TRUE]
       \/ /\ ~Taken
          /\ \E rejected \in SUBSET nodes : Reject(rejected)
          /\ UNCHANGED decision
    /\ waiting' = FALSE
    /\ UNCHANGED <<at, nodes, added, nextId, round>>

-----------------------------------------------------------------------------
(***************************************************************************)
(* The research rounds                                                     *)
(***************************************************************************)
Researcher ==
    /\ at = "research"
    /\ ~waiting
    /\ at' = "gap"
    /\ round' = IF round < MaxRounds THEN round + 1 ELSE round
    /\ UNCHANGED <<rows, nodes, added, nextId, waiting, decision, forked>>

Deepest(N) == {d \in {n.depth : n \in N} : \A n \in N : n.depth <= d}

\* Mutant: every follow-up goes to the top.
FollowUpDepthTop(up, deepest) == 0

\* max_depth + 1, or the top level.
FollowUpDepth(up, deepest) == IF up = 0 THEN 0 ELSE deepest + 1

\* The list that _persist_new_subtopics gives to add_subtopics: a follow-up is
\* put below the whole tree if it refines a node, at the top otherwise.
FollowUps(N, ups, deepest) ==
    [i \in DOMAIN ups |->
        Fresh(ups[i], FollowUpDepth(ups[i], deepest), Cardinality(N) + i - 1)]

\* Mutant: the new rows replace the old ones.
RowsReplaced(new) == new

\* add_subtopics leaves the existing rows alone.
RowsWith(new) == rows \cup new

\* add_subtopics: the parents are ids already, and the list is not sorted.
Append(items, k) ==
    /\ Room(k)
    /\ \A i \in 1 .. k : items[i].up \in {0} \cup IdsOf(rows)
    /\ LET new == {[id |-> nextId + i - 1, parent |-> items[i].up,
                    origin |-> nextId + i - 1,
                    depth |-> items[i].depth, ord |-> items[i].ord] : i \in 1 .. k}
       IN  /\ rows' = RowsWith(new)
           /\ added' = added \cup new
    /\ nextId' = nextId + k
    /\ UNCHANGED forked

\* The append failed, on a parent that has no row or otherwise: all rows are
\* rebuilt, but of the new ids only those of the follow-ups are returned.
FallBack(items, k) ==
    /\ "write" \in Faults \/ \E i \in 1 .. k : items[i].up \notin {0} \cup IdsOf(rows)
    /\ LET new == {items[i] : i \in 1 .. k}
           all == Seeds(nodes \cup added) \cup new
       IN  /\ Room(Cardinality(all))
           /\ \E f \in Numberings(all) :
                /\ rows' = Inserted(all, f)
                /\ added' = added \cup {r \in rows' : \E n \in new : r.id = f[n]}
                /\ nextId' = nextId + Cardinality(all)
    /\ forked' = "fallback"

Persist(items, k) ==
    \/ Append(items, k)
    \/ FallBack(items, k)
    \/ /\ "write" \in Faults
       /\ UNCHANGED <<rows, added, nextId, forked>>

Leaves == {n \in nodes : ~ \E m \in nodes : m.parent = n.id}

\* Follow-ups of under-covered leaves, below the cap on rounds and the ceiling.
GapAnalyzer ==
    /\ at = "gap"
    /\ ~waiting
    /\ \/ UNCHANGED <<rows, added, nextId, forked>>
       \/ /\ round < MaxRounds
          /\ Cardinality(nodes) \in 1 .. MaxTotal - 1
          /\ \E k \in 1 .. MaxNew, d \in Deepest(nodes) :
                \E ups \in [1 .. k -> {0} \cup IdsOf(Leaves)] :
                    Persist(FollowUps(nodes, ups, d), k)
    /\ at' = "outline"
    /\ UNCHANGED <<nodes, round, waiting, decision>>

\* Angles found in the sources, after the first round.
OutlineRevision ==
    /\ at = "outline"
    /\ ~waiting
    /\ \/ UNCHANGED <<rows, added, nextId, forked>>
       \/ /\ round = 1 /\ round < MaxRounds
          /\ Cardinality(nodes \cup added) \in 1 .. MaxTotal - 1
          /\ \E k \in 1 .. MaxOutline, d \in Deepest(nodes \cup added) :
                Persist(FollowUps(nodes \cup added, [i \in 1 .. k |-> 0], d), k)
    /\ at' = "return"
    /\ UNCHANGED <<nodes, round, waiting, decision>>

\* gap_analyzer returns, and its follow-ups reach the checkpoint; an exception
\* after they were stored ends the loop without them.  Where there are none,
\* snowballing or the verifier may still lead to another round.
GapReturn ==
    /\ at = "return"
    /\ ~waiting
    /\ \/ /\ nodes' = nodes \cup added
          /\ at' \in IF added # {} THEN {"research"} ELSE {"research", "end"}
       \/ /\ nodes' = nodes
          /\ at' \in {"research", "end"}
    /\ added' = {}
    /\ UNCHANGED <<rows, nextId, round, waiting, decision, forked>>

\* A disconnect, a cancel or a crash while a node is at work: local variables
\* and a decision already taken are gone, the checkpoint and the rows stay.
Cut ==
    /\ "cut" \in Faults
    /\ ~waiting
    /\ at # "end"
    /\ waiting' = TRUE
    /\ added' = {}
    /\ decision' = None
    /\ at' = IF at \in {"outline", "return"} THEN "gap" ELSE at
    /\ UNCHANGED <<rows, nodes, nextId, round, forked>>

-----------------------------------------------------------------------------
Next ==
    /\ \/ Planner \/ Moderator
       \/ AutoApproval \/ Park \/ HumanApproval \/ Approve
       \/ Researcher \/ GapAnalyzer \/ OutlineRevision \/ GapReturn
       \/ Cut
    /\ UNCHANGED gate

Spec == Init /\ [][Next]_vars

-----------------------------------------------------------------------------
TypeOK ==
    /\ gate \in GateSettings
    /\ at \in Places
    /\ {rows, nodes, added} \subseteq SUBSET Node
    /\ nextId \in Nat \ {0}
    /\ round \in 0 .. MaxRounds
    /\ waiting \in BOOLEAN
    /\ decision \in [kept : SUBSET nodes, adds : 0 .. MaxAdds, given : BOOLEAN]
    /\ forked \in {"no", "cut", "fallback", "rejected"}

\* Whatever parents a model names, and however often the tree is rebuilt, a
\* sub-question is younger than its parent: no cycle can hide sub-questions
\* from _build_tree, which shows only what hangs below a root.
ParentsOlder == \A n \in rows \cup nodes \cup added : n.parent < n.id

\* A parent in the checkpoint is always sorted before its children, so that the
\* next rebuild finds it in id_map.
ParentsFirst ==
    \A m, n \in nodes \cup added : n.parent = m.id => Before(m, n)

\* The tree the nodes work on is the tree of the rows, except after a rebuild
\* that was cut off before its checkpoint, a fallback of the gap analysis or a
\* rejection: a cut and repeated gap analysis leaves the earlier ids in place,
\* and a rebuild at the gate mends whatever happened before it.
NodesHaveRows == forked = "no" => nodes \cup added \subseteq rows

\* "so the SQLite db is the source of truth" and every node should "be resumable"
\* (graph/state.py): when research starts, the ids that it will store its
\* sources under exist, unless the user rejected rows or appending failed.
ResearchHasRows ==
    at = "research" /\ forked \in {"no", "cut"} => IdsOf(nodes) \subseteq IdsOf(rows)

\* The parent of a node, as an origin; 0 if it is not in the tree.
ParentOrigin(n, N) ==
    LET up == {m \in N : m.id = n.parent}
    IN  IF up = {} THEN 0 ELSE (CHOOSE m \in up : TRUE).origin

\* A rebuild renumbers the tree and never moves a sub-question: it stays below
\* the same parent, or becomes a root because the user dropped that parent.
TreeKept ==
    [][\A m \in nodes, n \in nodes' :
          m.origin = n.origin =>
            LET before == ParentOrigin(m, nodes)
            IN  ParentOrigin(n, nodes') =
                  IF before \in {k.origin : k \in nodes'} THEN before ELSE 0]_vars

=============================================================================
