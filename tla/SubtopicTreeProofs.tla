-------------------------- MODULE SubtopicTreeProofs --------------------------
(***************************************************************************)
(* Theorems about SubtopicTree, for plans, edits and follow-ups of any     *)
(* size, any gate setting and any of the faults.                           *)
(***************************************************************************)
EXTENDS SubtopicTree, Integers, TLAPS

-----------------------------------------------------------------------------
(***************************************************************************)
(* What a rebuild makes of a list of items                                 *)
(***************************************************************************)
LEMMA FreshIsItem ==
  ASSUME NEW up \in Nat, NEW depth \in Nat, NEW ord \in Nat
  PROVE  Fresh(up, depth, ord) \in Item
BY DEF Fresh, Item

LEMMA SeedsAreItems ==
  ASSUME NEW N \in SUBSET Node
  PROVE  Seeds(N) \in SUBSET Item
BY DEF Seeds, Node, Item

LEMMA PlanItemsAreItems ==
  ASSUME NEW items \in PlanItems
  PROVE  items \in SUBSET Item
<1>0. PICK I \in SUBSET (1 .. MaxPlan) :
         \E up \in [I -> 0 .. MaxPlan], depth \in [I -> 0 .. MaxDepth] :
           items = {[temp |-> i, up |-> up[i], origin |-> 0,
                     depth |-> depth[i], ord |-> i] : i \in I}
  BY DEF PlanItems
<1>1. PICK up \in [I -> 0 .. MaxPlan], depth \in [I -> 0 .. MaxDepth] :
         items = {[temp |-> i, up |-> up[i], origin |-> 0,
                   depth |-> depth[i], ord |-> i] : i \in I}
  BY <1>0
<1>2. \A i \in I : i \in Nat /\ up[i] \in Nat /\ depth[i] \in Nat
  BY TreeAssumption
<1> QED
  BY <1>1, <1>2 DEF Item

LEMMA EditedAreItems ==
  ASSUME NEW kept \in SUBSET Node, NEW k \in Nat, NEW adds \in Nat,
         NEW ord \in PanelOrders(kept, k)
  PROVE  Edited(ord, adds, k) \in SUBSET Item
<1>1. DOMAIN ord = kept /\ \A n \in kept : ord[n] \in Nat
  BY DEF PanelOrders
<1>2. \A n \in kept : [temp |-> n.id, up |-> n.parent, origin |-> n.origin,
                       depth |-> n.depth, ord |-> ord[n]] \in Item
  BY <1>1 DEF Node, Item
<1>3. \A j \in 0 .. adds - 1 : Fresh(0, 0, k + j) \in Item
  BY FreshIsItem
<1> QED
  BY <1>1, <1>2, <1>3 DEF Edited

\* The parent of an inserted row is 0 or the id of a row inserted before it.
LEMMA ParentInIsOlder ==
  ASSUME NEW S \in SUBSET Item, NEW n \in S,
         NEW a \in Nat \ {0}, NEW b \in Int, NEW f \in [S -> a .. b]
  PROVE  /\ ParentIn(n, S, f) \in Nat /\ ParentIn(n, S, f) < f[n]
         /\ ParentIn(n, S, f) = 0 \/ a <= ParentIn(n, S, f)
<1>1. CASE Known(n, S, f) = {}
  BY <1>1 DEF ParentIn
<1>2. CASE Known(n, S, f) # {}
  <2> DEFINE m == CHOOSE x \in Known(n, S, f) : TRUE
  <2>1. m \in Known(n, S, f)
    BY <1>2
  <2> HIDE DEF m
  <2>2. m \in S /\ f[m] < f[n]
    BY <2>1 DEF Known
  <2>3. ParentIn(n, S, f) = f[m]
    BY <1>2 DEF ParentIn, m
  <2> QED
    BY <2>2, <2>3
<1> QED
  BY <1>1, <1>2

LEMMA InsertedAreNodes ==
  ASSUME nextId \in Nat \ {0}, NEW S \in SUBSET Item, Room(Cardinality(S)),
         NEW f \in Numberings(S)
  PROVE  /\ Cardinality(S) \in Nat
         /\ Inserted(S, f) \in SUBSET Node
         /\ \A r \in Inserted(S, f) :
               /\ nextId <= r.id /\ r.id < nextId + Cardinality(S)
               /\ r.parent < r.id
               /\ r.parent = 0 \/ nextId <= r.parent
<1>1. Cardinality(S) \in Nat
  BY TreeAssumption DEF Room
<1>2. f \in [S -> nextId .. nextId + Cardinality(S) - 1]
  BY DEF Numberings
<1>3. \A n \in S : /\ f[n] \in Nat \ {0}
                   /\ nextId <= f[n] /\ f[n] < nextId + Cardinality(S)
  BY <1>1, <1>2
<1>4. \A n \in S : /\ ParentIn(n, S, f) \in Nat /\ ParentIn(n, S, f) < f[n]
                   /\ ParentIn(n, S, f) = 0 \/ nextId <= ParentIn(n, S, f)
  BY <1>1, <1>2, ParentInIsOlder
<1>5. \A n \in S : (IF n.origin = 0 THEN f[n] ELSE n.origin) \in Nat \ {0}
                   /\ n.depth \in Nat /\ n.ord \in Nat
  BY <1>3 DEF Item
<1> QED
  BY <1>1, <1>3, <1>4, <1>5 DEF Inserted, Node

-----------------------------------------------------------------------------
(***************************************************************************)
(* Types, and what the types rest on: ids handed out lie below nextId, a   *)
(* decision is held at the gate only, and what gap_analyzer has added is   *)
(* held while it runs.                                                     *)
(***************************************************************************)
IdsUsed == \A n \in rows \cup nodes \cup added : n.id < nextId

DecidedAtGate == ~Taken => decision = None

AddedInGap == added # {} => at \in {"outline", "return"} /\ ~waiting

Base == TypeOK /\ IdsUsed /\ DecidedAtGate /\ AddedInGap /\ ParentsOlder

\* A rebuild, committed or cut off.
LEMMA RebuildFacts ==
  ASSUME TypeOK, NEW items \in SUBSET Item, NEW next \in Places,
         Rebuild(items, next)
  PROVE  /\ rows' \in SUBSET Node
         /\ nextId' \in Nat \ {0} /\ nextId <= nextId'
         /\ \A r \in rows' : r.id < nextId' /\ r.parent < r.id
         /\ \/ nodes' = rows' /\ at' = next /\ forked' = "no" /\ waiting' = waiting
            \/ nodes' = nodes /\ at' = at /\ forked' = "cut" /\ waiting' = TRUE
<1>1. PICK f \in Numberings(items) :
        /\ rows' = Inserted(items, f)
        /\ nextId' = nextId + Cardinality(items)
  BY DEF Rebuild
<1>2. Room(Cardinality(items))
  BY DEF Rebuild
<1>3. nextId \in Nat \ {0}
  BY DEF TypeOK
<1>4. /\ Cardinality(items) \in Nat
      /\ Inserted(items, f) \in SUBSET Node
      /\ \A r \in Inserted(items, f) :
            r.id < nextId + Cardinality(items) /\ r.parent < r.id
  BY <1>2, <1>3, InsertedAreNodes
<1>5. \/ nodes' = rows' /\ at' = next /\ forked' = "no" /\ waiting' = waiting
      \/ nodes' = nodes /\ at' = at /\ forked' = "cut" /\ waiting' = TRUE
  BY DEF Rebuild
<1> QED
  BY <1>1, <1>3, <1>4, <1>5

\* Rows that are appended, or rebuilt because they could not be appended.
LEMMA PersistFacts ==
  ASSUME TypeOK, IdsUsed, ParentsOlder, NEW k \in Nat,
         NEW items, \A i \in 1 .. k : items[i] \in Item,
         Persist(items, k)
  PROVE  /\ rows' \in SUBSET Node
         /\ nextId' \in Nat \ {0} /\ nextId <= nextId'
         /\ \A r \in rows' : r.id < nextId' /\ r.parent < r.id
         /\ added \subseteq added' /\ added' \subseteq added \cup rows'
         /\ \/ rows \subseteq rows' /\ forked' = forked
            \/ forked' = "fallback"
<1>1. CASE Append(items, k)
  <2> DEFINE row(i) == [id |-> nextId + i - 1, parent |-> items[i].up,
                        origin |-> nextId + i - 1,
                        depth |-> items[i].depth, ord |-> items[i].ord]
             new == {row(i) : i \in 1 .. k}
  <2>1. rows' = rows \cup new /\ added' = added \cup new
        /\ nextId' = nextId + k /\ forked' = forked
    BY <1>1 DEF Append, RowsWith
  <2>2. \A i \in 1 .. k : items[i].up \in {0} \cup IdsOf(rows)
    BY <1>1 DEF Append
  <2>3. \A r \in rows : r.id \in Nat /\ r.id < nextId /\ r.parent < r.id
    BY DEF TypeOK, Node, IdsUsed, ParentsOlder
  <2>4. nextId \in Nat \ {0} /\ rows \in SUBSET Node
    BY DEF TypeOK
  <2>5. \A i \in 1 .. k : items[i].up \in Nat /\ items[i].up < nextId
    BY <2>2, <2>3, <2>4 DEF IdsOf
  <2>6. \A i \in 1 .. k : items[i].depth \in Nat /\ items[i].ord \in Nat
    BY DEF Item
  <2>7. \A i \in 1 .. k : /\ row(i) \in Node
                          /\ row(i).id < nextId + k /\ row(i).parent < row(i).id
    BY <2>4, <2>5, <2>6 DEF Node
  <2>8. \A r \in new : r \in Node /\ r.id < nextId + k /\ r.parent < r.id
    BY <2>7
  <2> HIDE DEF new
  <2>9. rows' \in SUBSET Node
    BY <2>1, <2>4, <2>8
  <2>10. nextId' \in Nat \ {0} /\ nextId <= nextId'
    BY <2>1, <2>4
  <2>11. \A r \in rows' : r.id < nextId' /\ r.parent < r.id
    BY <2>1, <2>3, <2>4, <2>8
  <2> QED
    BY <2>1, <2>9, <2>10, <2>11
<1>2. CASE FallBack(items, k)
  <2> DEFINE new == {items[i] : i \in 1 .. k}
             all == Seeds(nodes \cup added) \cup new
  <2>1. PICK f \in Numberings(all) :
          /\ rows' = Inserted(all, f)
          /\ added' = added \cup {r \in rows' : \E n \in new : r.id = f[n]}
          /\ nextId' = nextId + Cardinality(all)
    BY <1>2 DEF FallBack
  <2>2. Room(Cardinality(all)) /\ forked' = "fallback"
    BY <1>2 DEF FallBack
  <2>3. Seeds(nodes \cup added) \in SUBSET Item
    <3>1. nodes \cup added \in SUBSET Node
      BY DEF TypeOK
    <3> QED
      BY <3>1, SeedsAreItems
  <2>4. all \in SUBSET Item
    BY <2>3
  <2>5. nextId \in Nat \ {0}
    BY DEF TypeOK
  <2> HIDE DEF all, new
  <2>6. /\ Cardinality(all) \in Nat
        /\ Inserted(all, f) \in SUBSET Node
        /\ \A r \in Inserted(all, f) :
              r.id < nextId + Cardinality(all) /\ r.parent < r.id
    BY <2>2, <2>4, <2>5, InsertedAreNodes
  <2> QED
    BY <2>1, <2>2, <2>5, <2>6
<1>3. CASE UNCHANGED <<rows, added, nextId, forked>>
  <2>1. rows' \in SUBSET Node /\ nextId' \in Nat \ {0} /\ nextId <= nextId'
    BY <1>3 DEF TypeOK
  <2>2. \A r \in rows' : r.id < nextId' /\ r.parent < r.id
    BY <1>3 DEF IdsUsed, ParentsOlder
  <2> QED
    BY <1>3, <2>1, <2>2
<1> QED
  BY <1>1, <1>2, <1>3 DEF Persist

\* The follow-ups of one call are items.
LEMMA FollowUpsAreItems ==
  ASSUME NEW N \in SUBSET Node, NEW k \in Nat,
         NEW ups \in [1 .. k -> Nat], NEW d \in Deepest(N), NEW c \in Nat,
         c = Cardinality(N)
  PROVE  \A i \in 1 .. k : FollowUps(N, ups, d)[i] \in Item
<1>1. d \in Nat
  BY DEF Deepest, Node
<1>2. \A i \in 1 .. k : FollowUpDepth(ups[i], d) \in Nat
                        /\ Cardinality(N) + i - 1 \in Nat /\ ups[i] \in Nat
  BY <1>1 DEF FollowUpDepth
<1>3. \A i \in 1 .. k :
        FollowUps(N, ups, d)[i] =
          Fresh(ups[i], FollowUpDepth(ups[i], d), Cardinality(N) + i - 1)
  BY DEF FollowUps
<1> QED
  BY <1>2, <1>3, FreshIsItem

LEMMA NoneIsTyped ==
  None \in [kept : SUBSET nodes, adds : 0 .. MaxAdds, given : BOOLEAN]
BY TreeAssumption DEF None

LEMMA InitBase == Init => Base
<1> SUFFICES ASSUME Init PROVE Base
  OBVIOUS
<1>1. decision \in [kept : SUBSET nodes, adds : 0 .. MaxAdds, given : BOOLEAN]
  BY NoneIsTyped DEF Init
<1>2. at \in Places /\ round \in 0 .. MaxRounds /\ nextId \in Nat \ {0}
  BY TreeAssumption DEF Init, Places
<1>3. TypeOK
  BY <1>1, <1>2 DEF Init, TypeOK
<1> QED
  BY <1>3 DEF Init, Base, IdsUsed, DecidedAtGate, AddedInGap, ParentsOlder

\* A rebuild by a node that holds no decision afterwards.
LEMMA RebuildKeepsBase ==
  ASSUME Base, NEW items \in SUBSET Item, NEW next \in Places,
         Rebuild(items, next), UNCHANGED <<gate, added, round>>,
         decision' = None, at \notin {"outline", "return"}
  PROVE  Base'
<1>1. /\ rows' \in SUBSET Node
      /\ nextId' \in Nat \ {0} /\ nextId <= nextId'
      /\ \A r \in rows' : r.id < nextId' /\ r.parent < r.id
      /\ \/ nodes' = rows' /\ at' = next /\ forked' = "no" /\ waiting' = waiting
         \/ nodes' = nodes /\ at' = at /\ forked' = "cut" /\ waiting' = TRUE
  BY RebuildFacts DEF Base
<1>2. added = {}
  BY DEF Base, AddedInGap
<1>3. decision' \in [kept : SUBSET nodes', adds : 0 .. MaxAdds, given : BOOLEAN]
  BY TreeAssumption DEF None
<1>4. TypeOK'
  BY <1>1, <1>2, <1>3 DEF Base, TypeOK
<1>5. \A n \in nodes : n.id < nextId' /\ n.parent < n.id
  <2>1. \A n \in nodes : n.id \in Nat /\ n.id < nextId /\ n.parent < n.id
    BY DEF Base, TypeOK, Node, IdsUsed, ParentsOlder
  <2>2. nextId \in Nat
    BY DEF Base, TypeOK
  <2> QED
    BY <1>1, <2>1, <2>2
<1>6. IdsUsed' /\ ParentsOlder'
  BY <1>1, <1>2, <1>5 DEF IdsUsed, ParentsOlder
<1>7. DecidedAtGate' /\ AddedInGap'
  BY <1>2 DEF DecidedAtGate, AddedInGap
<1> QED
  BY <1>4, <1>6, <1>7 DEF Base

\* Steps that leave the trees and the ids alone.
LEMMA SkipKeepsBase ==
  ASSUME Base, UNCHANGED <<gate, rows, nodes, nextId, forked>>,
         added' = {} \/ UNCHANGED added, AddedInGap', DecidedAtGate',
         at' \in Places, waiting' \in BOOLEAN, round' \in 0 .. MaxRounds,
         decision' \in [kept : SUBSET nodes, adds : 0 .. MaxAdds, given : BOOLEAN]
  PROVE  Base'
<1>1. TypeOK'
  BY DEF Base, TypeOK
<1>2. IdsUsed' /\ ParentsOlder'
  BY DEF Base, IdsUsed, ParentsOlder
<1> QED
  BY <1>1, <1>2 DEF Base

\* A call of _persist_new_subtopics, and the end of its caller.
LEMMA PersistKeepsBase ==
  ASSUME Base, NEW k \in Nat, NEW items, \A i \in 1 .. k : items[i] \in Item,
         Persist(items, k), UNCHANGED <<gate, nodes, round, waiting, decision>>,
         ~waiting, at \in {"gap", "outline"}, at' \in {"outline", "return"}
  PROVE  Base'
<1>1. /\ rows' \in SUBSET Node
      /\ nextId' \in Nat \ {0} /\ nextId <= nextId'
      /\ \A r \in rows' : r.id < nextId' /\ r.parent < r.id
      /\ added \subseteq added' /\ added' \subseteq added \cup rows'
      /\ \/ rows \subseteq rows' /\ forked' = forked
         \/ forked' = "fallback"
  BY PersistFacts DEF Base
<1>2. TypeOK'
  BY <1>1 DEF Base, TypeOK, Places
<1>3. \A n \in nodes \cup added : n.id < nextId' /\ n.parent < n.id
  <2>1. \A n \in nodes \cup added : n.id \in Nat /\ n.id < nextId /\ n.parent < n.id
    BY DEF Base, TypeOK, Node, IdsUsed, ParentsOlder
  <2>2. nextId \in Nat
    BY DEF Base, TypeOK
  <2> QED
    BY <1>1, <2>1, <2>2
<1>4. IdsUsed' /\ ParentsOlder'
  BY <1>1, <1>3 DEF IdsUsed, ParentsOlder
<1>5. DecidedAtGate' /\ AddedInGap'
  BY DEF Base, DecidedAtGate, AddedInGap, Taken
<1> QED
  BY <1>2, <1>4, <1>5 DEF Base

\* The lists that the rebuilding nodes make.
LEMMA ModeratorItems ==
  ASSUME TypeOK, NEW k \in Nat, Cardinality(nodes) \in Nat
  PROVE  Seeds(nodes) \cup {Fresh(0, 1, Cardinality(nodes) + j) : j \in 0 .. k - 1}
           \in SUBSET Item
<1>1. nodes \in SUBSET Node
  BY DEF TypeOK
<1>2. \A j \in 0 .. k - 1 : Fresh(0, 1, Cardinality(nodes) + j) \in Item
  BY FreshIsItem
<1> QED
  BY <1>1, <1>2, SeedsAreItems

LEMMA EditItems ==
  ASSUME TypeOK, NEW k \in Nat, NEW ord \in PanelOrders(decision.kept, k)
  PROVE  Edited(ord, decision.adds, k) \in SUBSET Item
<1>1. decision.kept \in SUBSET Node /\ decision.adds \in Nat
  BY TreeAssumption DEF TypeOK
<1> QED
  BY <1>1, EditedAreItems

\* What the two callers of _persist_new_subtopics persist.
LEMMA GapItems ==
  ASSUME TypeOK, NEW k \in Nat, NEW d \in Deepest(nodes),
         NEW ups \in [1 .. k -> {0} \cup IdsOf(Leaves)], Cardinality(nodes) \in Nat
  PROVE  \A i \in 1 .. k : FollowUps(nodes, ups, d)[i] \in Item
<1>1. nodes \in SUBSET Node
  BY DEF TypeOK
<1>2. ups \in [1 .. k -> Nat]
  BY <1>1 DEF IdsOf, Leaves, Node
<1> QED
  BY <1>1, <1>2, FollowUpsAreItems

LEMMA OutlineItems ==
  ASSUME TypeOK, NEW k \in Nat, NEW d \in Deepest(nodes \cup added),
         Cardinality(nodes \cup added) \in Nat
  PROVE  \A i \in 1 .. k :
           FollowUps(nodes \cup added, [j \in 1 .. k |-> 0], d)[i] \in Item
<1>1. nodes \cup added \in SUBSET Node
  BY DEF TypeOK
<1>2. [j \in 1 .. k |-> 0] \in [1 .. k -> Nat]
  OBVIOUS
<1> QED
  BY <1>1, <1>2, FollowUpsAreItems

LEMMA BaseStep == Base /\ [Next]_vars => Base'
<1> SUFFICES ASSUME Base, [Next]_vars PROVE Base'
  OBVIOUS
<1>t. TypeOK
  BY DEF Base
<1>1. CASE Planner /\ UNCHANGED gate
  <2>1. decision = None
    BY <1>1 DEF Base, DecidedAtGate, Taken, Planner
  <2>2. ASSUME NEW items \in PlanItems, Rebuild(items, "moderator") PROVE Base'
    <3>1. items \in SUBSET Item
      BY PlanItemsAreItems
    <3>2. "moderator" \in Places
      BY DEF Places
    <3> QED
      BY <1>1, <2>1, <2>2, <3>1, <3>2, RebuildKeepsBase DEF Planner
  <2>3. CASE Skip("moderator")
    BY <1>1, <2>1, <2>3, NoneIsTyped, SkipKeepsBase
      DEF Base, TypeOK, Planner, Skip, AddedInGap, DecidedAtGate, Places
  <2> QED
    BY <1>1, <2>2, <2>3 DEF Planner
<1>2. CASE Moderator /\ UNCHANGED gate
  <2>1. decision = None
    BY <1>2 DEF Base, DecidedAtGate, Taken, Moderator
  <2>2. ASSUME NEW k \in 1 .. 3, Cardinality(nodes) \in 1 .. MaxPlan - k,
               Rebuild(Seeds(nodes) \cup
                         {Fresh(0, 1, Cardinality(nodes) + j) : j \in 0 .. k - 1},
                       "approval")
        PROVE  Base'
    <3> DEFINE items == Seeds(nodes) \cup
                          {Fresh(0, 1, Cardinality(nodes) + j) : j \in 0 .. k - 1}
    <3>1. items \in SUBSET Item
      BY <1>t, <2>2, ModeratorItems
    <3>2. "approval" \in Places
      BY DEF Places
    <3>3. Rebuild(items, "approval")
      BY <2>2
    <3> HIDE DEF items
    <3> QED
      BY <1>2, <2>1, <3>1, <3>2, <3>3, RebuildKeepsBase DEF Moderator
  <2>3. CASE Skip("approval")
    BY <1>2, <2>1, <2>3, NoneIsTyped, SkipKeepsBase
      DEF Base, TypeOK, Moderator, Skip, AddedInGap, DecidedAtGate, Places
  <2> QED
    BY <1>2, <2>2, <2>3 DEF Moderator
<1>3. CASE AutoApproval /\ UNCHANGED gate
  <2>1. decision = None
    BY <1>3 DEF Base, DecidedAtGate, Taken, AutoApproval
  <2> QED
    BY <1>3, <2>1, NoneIsTyped, SkipKeepsBase
      DEF Base, TypeOK, AutoApproval, Skip, AddedInGap, DecidedAtGate, Places
<1>4. CASE Park /\ UNCHANGED gate
  BY <1>4, SkipKeepsBase
    DEF Base, TypeOK, Park, AddedInGap, DecidedAtGate, Taken
<1>5. CASE HumanApproval /\ UNCHANGED gate
  <2>1. /\ decision' = None /\ "research" \in Places
        /\ UNCHANGED <<gate, added, round>> /\ at = "approval"
    BY <1>5 DEF HumanApproval, Places
  <2>2. CASE Rebuild(Seeds(nodes), "research")
    <3>1. Seeds(nodes) \in SUBSET Item
      BY <1>t, SeedsAreItems DEF TypeOK
    <3> QED
      BY <2>1, <2>2, <3>1, RebuildKeepsBase
  <2>3. ASSUME NEW k \in 0 .. LastId, NEW ord \in PanelOrders(decision.kept, k),
               Rebuild(Edited(ord, decision.adds, k), "research")
        PROVE  Base'
    <3>1. Edited(ord, decision.adds, k) \in SUBSET Item
      BY <1>t, EditItems, TreeAssumption
    <3> QED
      BY <2>1, <2>3, <3>1, RebuildKeepsBase
  <2>4. CASE Skip("research")
    BY <2>1, <2>4, NoneIsTyped, SkipKeepsBase
      DEF Base, TypeOK, Skip, AddedInGap, DecidedAtGate
  <2> QED
    BY <1>5, <2>2, <2>3, <2>4 DEF HumanApproval
<1>6. CASE Approve /\ UNCHANGED gate
  <2>1. /\ rows' \subseteq rows /\ forked' \in {forked, "rejected"}
        /\ waiting' = FALSE /\ waiting
        /\ UNCHANGED <<gate, at, nodes, added, nextId, round>>
    BY <1>6 DEF Approve, Reject
  <2>2. /\ decision' \in [kept : SUBSET nodes, adds : 0 .. MaxAdds, given : BOOLEAN]
        /\ DecidedAtGate'
    <3>1. CASE Taken
      <4>1. \E kept \in SUBSET nodes, adds \in 0 .. MaxAdds :
               decision' = [kept |-> kept, adds |-> adds, given |-> TRUE]
        BY <1>6, <3>1 DEF Approve
      <4>2. Taken'
        BY <2>1, <3>1 DEF Taken
      <4> QED
        BY <4>1, <4>2 DEF DecidedAtGate
    <3>2. CASE ~Taken
      BY <1>6, <2>1, <3>2 DEF Approve, DecidedAtGate, Taken, Base, TypeOK
    <3> QED
      BY <3>1, <3>2
  <2>3. TypeOK'
    BY <2>1, <2>2 DEF Base, TypeOK
  <2>4. IdsUsed' /\ ParentsOlder'
    BY <2>1 DEF Base, IdsUsed, ParentsOlder
  <2>5. AddedInGap'
    BY <2>1 DEF Base, AddedInGap
  <2> QED
    BY <2>2, <2>3, <2>4, <2>5 DEF Base
<1>7. CASE Researcher /\ UNCHANGED gate
  <2>1. round' \in 0 .. MaxRounds
    BY <1>7, TreeAssumption DEF Base, TypeOK, Researcher
  <2> QED
    BY <1>7, <2>1, SkipKeepsBase
      DEF Base, TypeOK, Researcher, AddedInGap, DecidedAtGate, Taken, Places
<1>8. CASE GapAnalyzer /\ UNCHANGED gate
  <2>1. CASE UNCHANGED <<rows, added, nextId, forked>>
    BY <1>8, <2>1, SkipKeepsBase
      DEF Base, TypeOK, GapAnalyzer, AddedInGap, DecidedAtGate, Taken, Places
  <2>2. ASSUME NEW k \in 1 .. MaxNew, NEW d \in Deepest(nodes),
               Cardinality(nodes) \in 1 .. MaxTotal - 1,
               NEW ups \in [1 .. k -> {0} \cup IdsOf(Leaves)],
               Persist(FollowUps(nodes, ups, d), k)
        PROVE  Base'
    <3> DEFINE items == FollowUps(nodes, ups, d)
    <3>1. k \in Nat /\ Cardinality(nodes) \in Nat
      BY <2>2, TreeAssumption
    <3>2. \A i \in 1 .. k : items[i] \in Item
      BY <1>t, <3>1, GapItems
    <3>3. Persist(items, k)
      BY <2>2
    <3> HIDE DEF items
    <3> QED
      BY <1>8, <3>1, <3>2, <3>3, PersistKeepsBase DEF GapAnalyzer
  <2> QED
    BY <1>8, <2>1, <2>2 DEF GapAnalyzer
<1>9. CASE OutlineRevision /\ UNCHANGED gate
  <2>1. CASE UNCHANGED <<rows, added, nextId, forked>>
    BY <1>9, <2>1, SkipKeepsBase
      DEF Base, TypeOK, OutlineRevision, AddedInGap, DecidedAtGate, Taken, Places
  <2>2. ASSUME NEW k \in 1 .. MaxOutline, NEW d \in Deepest(nodes \cup added),
               Cardinality(nodes \cup added) \in 1 .. MaxTotal - 1,
               Persist(FollowUps(nodes \cup added, [i \in 1 .. k |-> 0], d), k)
        PROVE  Base'
    <3> DEFINE items == FollowUps(nodes \cup added, [i \in 1 .. k |-> 0], d)
    <3>1. k \in Nat /\ Cardinality(nodes \cup added) \in Nat
      BY <2>2, TreeAssumption
    <3>2. \A i \in 1 .. k : items[i] \in Item
      BY <1>t, <3>1, OutlineItems
    <3>3. Persist(items, k)
      BY <2>2
    <3> HIDE DEF items
    <3> QED
      BY <1>9, <3>1, <3>2, <3>3, PersistKeepsBase DEF OutlineRevision
  <2> QED
    BY <1>9, <2>1, <2>2 DEF OutlineRevision
<1>10. CASE GapReturn /\ UNCHANGED gate
  <2>1. /\ nodes' \in {nodes, nodes \cup added} /\ added' = {} /\ at' \in Places
        /\ UNCHANGED <<gate, rows, nextId, round, waiting, decision, forked>>
        /\ at = "return" /\ at' # "approval"
    BY <1>10 DEF GapReturn, Places
  <2>2. decision' = None
    BY <2>1 DEF Base, DecidedAtGate, Taken
  <2>3. decision' \in [kept : SUBSET nodes', adds : 0 .. MaxAdds, given : BOOLEAN]
    BY <2>2, TreeAssumption DEF None
  <2>4. TypeOK'
    BY <2>1, <2>3 DEF Base, TypeOK
  <2>5. IdsUsed' /\ ParentsOlder'
    BY <2>1 DEF Base, IdsUsed, ParentsOlder
  <2>6. DecidedAtGate' /\ AddedInGap'
    BY <2>1, <2>2 DEF DecidedAtGate, AddedInGap
  <2> QED
    BY <2>4, <2>5, <2>6 DEF Base
<1>11. CASE Cut /\ UNCHANGED gate
  BY <1>11, NoneIsTyped, SkipKeepsBase
    DEF Base, TypeOK, Cut, AddedInGap, DecidedAtGate, Places
<1>12. CASE UNCHANGED vars
  BY <1>12
    DEF vars, Base, TypeOK, IdsUsed, DecidedAtGate, Taken, AddedInGap, ParentsOlder
<1> QED
  BY <1>1, <1>2, <1>3, <1>4, <1>5, <1>6, <1>7, <1>8, <1>9, <1>10, <1>11, <1>12
    DEF Next

\* Types, for every plan, edit, cut and failing write.
THEOREM TypeCorrect == Spec => []TypeOK
<1>1. Base => TypeOK
  BY DEF Base
<1> QED
  BY InitBase, BaseStep, <1>1, PTL DEF Spec

\* Whatever a model answers and however often rows are rebuilt, no cycle of
\* parents comes about, neither in the rows nor in the checkpoint.
THEOREM ParentsOlderHolds == Spec => []ParentsOlder
<1>1. Base => ParentsOlder
  BY DEF Base
<1> QED
  BY InitBase, BaseStep, <1>1, PTL DEF Spec

LEMMA BaseHolds == Spec => []Base
BY InitBase, BaseStep, PTL DEF Spec

-----------------------------------------------------------------------------
(***************************************************************************)
(* The checkpoint's tree and the rows                                      *)
(***************************************************************************)
LEMMA NodesHaveRowsStep == Base /\ NodesHaveRows /\ [Next]_vars => NodesHaveRows'
<1> SUFFICES ASSUME Base, NodesHaveRows, [Next]_vars PROVE NodesHaveRows'
  OBVIOUS
<1>r. ASSUME NEW items, NEW next, Rebuild(items, next), added' = added,
             at \notin {"outline", "return"}
      PROVE  NodesHaveRows'
  <2>1. added' = {}
    BY <1>r DEF Base, AddedInGap
  <2>2. nodes' = rows' \/ forked' = "cut"
    BY <1>r DEF Rebuild
  <2> QED
    BY <2>1, <2>2 DEF NodesHaveRows
<1>s. ASSUME UNCHANGED <<rows, nodes, forked>>, added' \subseteq added
      PROVE  NodesHaveRows'
  BY <1>s DEF NodesHaveRows
<1>p. ASSUME NEW items, NEW k \in Nat, Persist(items, k), nodes' = nodes
      PROVE  NodesHaveRows'
  <2>1. CASE Append(items, k)
    BY <1>p, <2>1 DEF Append, RowsWith, NodesHaveRows
  <2>2. CASE FallBack(items, k)
    BY <2>2 DEF FallBack, NodesHaveRows
  <2>3. CASE UNCHANGED <<rows, added, nextId, forked>>
    BY <1>p, <2>3 DEF NodesHaveRows
  <2> QED
    BY <1>p, <2>1, <2>2, <2>3 DEF Persist
<1>1. CASE Planner
  BY <1>1, <1>r, <1>s DEF Planner, Skip
<1>2. CASE Moderator
  BY <1>2, <1>r, <1>s DEF Moderator, Skip
<1>3. CASE AutoApproval \/ Park \/ Researcher \/ Cut
  BY <1>3, <1>s DEF AutoApproval, Skip, Park, Researcher, Cut
<1>4. CASE HumanApproval
  BY <1>4, <1>r, <1>s DEF HumanApproval, Skip
<1>5. CASE Approve
  BY <1>5 DEF Approve, Reject, NodesHaveRows
<1>6. CASE GapAnalyzer
  <2>1. CASE UNCHANGED <<rows, added, nextId, forked>>
    BY <1>6, <1>s, <2>1 DEF GapAnalyzer
  <2>2. CASE \E k \in 1 .. MaxNew, d \in Deepest(nodes) :
               \E ups \in [1 .. k -> {0} \cup IdsOf(Leaves)] :
                 Persist(FollowUps(nodes, ups, d), k)
    <3>1. PICK k \in 1 .. MaxNew, d \in Deepest(nodes) :
                 \E ups \in [1 .. k -> {0} \cup IdsOf(Leaves)] :
                   Persist(FollowUps(nodes, ups, d), k)
      BY <2>2
    <3>2. k \in Nat /\ nodes' = nodes
      BY <1>6, TreeAssumption DEF GapAnalyzer
    <3> QED
      BY <1>p, <3>1, <3>2
  <2> QED
    BY <1>6, <2>1, <2>2 DEF GapAnalyzer
<1>7. CASE OutlineRevision
  <2>1. CASE UNCHANGED <<rows, added, nextId, forked>>
    BY <1>7, <1>s, <2>1 DEF OutlineRevision
  <2>2. CASE \E k \in 1 .. MaxOutline, d \in Deepest(nodes \cup added) :
               Persist(FollowUps(nodes \cup added, [i \in 1 .. k |-> 0], d), k)
    <3>1. PICK k \in 1 .. MaxOutline, d \in Deepest(nodes \cup added) :
                 Persist(FollowUps(nodes \cup added, [i \in 1 .. k |-> 0], d), k)
      BY <2>2
    <3>2. k \in Nat /\ nodes' = nodes
      BY <1>7, TreeAssumption DEF OutlineRevision
    <3> QED
      BY <1>p, <3>1, <3>2
  <2> QED
    BY <1>7, <2>1, <2>2 DEF OutlineRevision
<1>8. CASE GapReturn
  BY <1>8 DEF GapReturn, NodesHaveRows
<1>9. CASE UNCHANGED vars
  BY <1>9, <1>s DEF vars
<1> QED
  BY <1>1, <1>2, <1>3, <1>4, <1>5, <1>6, <1>7, <1>8, <1>9 DEF Next

\* What the checkpoint calls a sub-question has its row, with the same parent
\* and depth, unless something rebuilt or deleted rows behind the checkpoint.
THEOREM NodesHaveRowsHolds == Spec => []NodesHaveRows
<1>1. Init => NodesHaveRows
  BY DEF Init, NodesHaveRows
<1> QED
  BY <1>1, NodesHaveRowsStep, BaseHolds, PTL DEF Spec

-----------------------------------------------------------------------------
(***************************************************************************)
(* Parents come first                                                      *)
(***************************************************************************)
\* The sort key orders every item and its parent.
Related(S) == \A m, n \in S :
    n.up # 0 /\ m.temp = n.up /\ m # n => Before(m, n) \/ Before(n, m)

\* It puts the parent first.
Ordered(S) == \A m, n \in S : n.up # 0 /\ m.temp = n.up => Before(m, n)

LEMMA OrderedIsRelated == ASSUME NEW S, Ordered(S) PROVE Related(S)
BY DEF Ordered, Related

LEMMA InsertedParentsFirst ==
  ASSUME nextId \in Nat \ {0}, NEW S \in SUBSET Item, Room(Cardinality(S)),
         Related(S), NEW f \in Numberings(S),
         NEW p \in Inserted(S, f), NEW q \in Inserted(S, f), q.parent = p.id
  PROVE  Before(p, q)
<1>1. Cardinality(S) \in Nat
  BY TreeAssumption DEF Room
<1>2. f \in [S -> nextId .. nextId + Cardinality(S) - 1]
  BY DEF Numberings
<1>3. PICK m \in S : p.id = f[m] /\ p.depth = m.depth /\ p.ord = m.ord
  BY DEF Inserted
<1>4. PICK n \in S : /\ q.parent = ParentIn(n, S, f)
                     /\ q.depth = n.depth /\ q.ord = n.ord
  BY DEF Inserted
<1>5. f[m] \in Nat /\ f[n] \in Nat /\ f[m] # 0
  BY <1>1, <1>2
<1>6. m \in Known(n, S, f)
  <2>1. Known(n, S, f) # {}
    BY <1>3, <1>4, <1>5 DEF ParentIn
  <2> DEFINE x == CHOOSE y \in Known(n, S, f) : TRUE
  <2>2. x \in Known(n, S, f)
    BY <2>1
  <2>3. ParentIn(n, S, f) = f[x]
    BY <2>1 DEF ParentIn
  <2> HIDE DEF x
  <2>4. x \in S /\ f[x] = f[m]
    BY <1>3, <1>4, <2>2, <2>3 DEF Known
  <2>5. x = m
    BY <2>4 DEF Numberings
  <2> QED
    BY <2>2, <2>5
<1>7. m.temp = n.up /\ n.up # 0 /\ f[m] < f[n]
  BY <1>6 DEF Known
<1>8. m # n
  BY <1>5, <1>7
<1>9. Before(m, n) \/ Before(n, m)
  BY <1>7, <1>8 DEF Related
<1>10. ~Before(n, m)
  BY <1>5, <1>7 DEF Numberings
<1> QED
  BY <1>3, <1>4, <1>9, <1>10 DEF Before

\* A model's plan: the position in the list orders any two items.
LEMMA PlanItemsRelated ==
  ASSUME NEW items \in PlanItems
  PROVE  Related(items)
<1>0. PICK I \in SUBSET (1 .. MaxPlan) :
         \E up \in [I -> 0 .. MaxPlan], depth \in [I -> 0 .. MaxDepth] :
           items = {[temp |-> i, up |-> up[i], origin |-> 0,
                     depth |-> depth[i], ord |-> i] : i \in I}
  BY DEF PlanItems
<1>1. PICK up \in [I -> 0 .. MaxPlan], depth \in [I -> 0 .. MaxDepth] :
         items = {[temp |-> i, up |-> up[i], origin |-> 0,
                   depth |-> depth[i], ord |-> i] : i \in I}
  BY <1>0
<1>2. SUFFICES ASSUME NEW m \in items, NEW n \in items, m # n
               PROVE  Before(m, n) \/ Before(n, m)
  BY DEF Related
<1>3. PICK i \in I : m = [temp |-> i, up |-> up[i], origin |-> 0,
                         depth |-> depth[i], ord |-> i]
  BY <1>1
<1>4. PICK j \in I : n = [temp |-> j, up |-> up[j], origin |-> 0,
                         depth |-> depth[j], ord |-> j]
  BY <1>1
<1>5. /\ m.ord \in Nat /\ n.ord \in Nat /\ m.depth \in Nat /\ n.depth \in Nat
      /\ m.ord # n.ord
  BY <1>2, <1>3, <1>4, TreeAssumption
<1> QED
  BY <1>5 DEF Before

\* A tree that is rebuilt, with new items whose parents lie above them.
LEMMA SeedsOrdered ==
  ASSUME TypeOK, ParentsFirst, NEW N \in SUBSET (nodes \cup added), NEW new,
         \A n \in new : n.temp = 0 /\ (n.up # 0 => \A m \in N : m.depth < n.depth)
  PROVE  Ordered(Seeds(N) \cup new)
<1> SUFFICES ASSUME NEW m \in Seeds(N) \cup new, NEW n \in Seeds(N) \cup new,
                    n.up # 0, m.temp = n.up
             PROVE  Before(m, n)
  BY DEF Ordered
<1>1. m \in Seeds(N)
  OBVIOUS
<1>2. PICK p \in N : m = [temp |-> p.id, up |-> p.parent, origin |-> p.origin,
                         depth |-> p.depth, ord |-> p.ord]
  BY <1>1 DEF Seeds
<1>3. CASE n \in Seeds(N)
  <2>1. PICK q \in N : n = [temp |-> q.id, up |-> q.parent, origin |-> q.origin,
                           depth |-> q.depth, ord |-> q.ord]
    BY <1>3 DEF Seeds
  <2>2. q.parent = p.id
    BY <1>2, <2>1
  <2>3. Before(p, q)
    BY <2>2 DEF ParentsFirst
  <2> QED
    BY <1>2, <2>1, <2>3 DEF Before
<1>4. CASE n \in new
  BY <1>2, <1>4 DEF Before
<1> QED
  BY <1>3, <1>4

\* The panel numbers a parent before its children, and depths stay.
LEMMA EditedOrdered ==
  ASSUME TypeOK, ParentsFirst, NEW k \in Nat, NEW ord \in PanelOrders(decision.kept, k)
  PROVE  Ordered(Edited(ord, decision.adds, k))
<1> SUFFICES ASSUME NEW m \in Edited(ord, decision.adds, k),
                    NEW n \in Edited(ord, decision.adds, k),
                    n.up # 0, m.temp = n.up
             PROVE  Before(m, n)
  BY DEF Ordered
<1>1. DOMAIN ord = decision.kept /\ decision.kept \in SUBSET nodes /\ nodes \in SUBSET Node
  BY DEF PanelOrders, TypeOK
<1>2. PICK q \in decision.kept : n = [temp |-> q.id, up |-> q.parent,
                  origin |-> q.origin, depth |-> q.depth, ord |-> ord[q]]
  BY <1>1 DEF Edited, Fresh
<1>3. PICK p \in decision.kept : m = [temp |-> p.id, up |-> p.parent,
                  origin |-> p.origin, depth |-> p.depth, ord |-> ord[p]]
  BY <1>1 DEF Edited, Fresh
<1>4. q.parent = p.id
  BY <1>2, <1>3
<1>5. Before(p, q)
  BY <1>1, <1>4 DEF ParentsFirst
<1>6. p.depth \in Nat /\ q.depth \in Nat /\ p.depth <= q.depth
  BY <1>1, <1>5 DEF Before, Node
<1>7. ord[p] < ord[q]
  BY <1>4 DEF PanelOrders
<1> QED
  BY <1>2, <1>3, <1>6, <1>7 DEF Before

\* A rebuild, committed or cut off.
LEMMA RebuildKeepsFirst ==
  ASSUME Base, ParentsFirst, NEW items \in SUBSET Item, Related(items), NEW next,
         Rebuild(items, next), added' = added, at \notin {"outline", "return"}
  PROVE  ParentsFirst'
<1>1. PICK f \in Numberings(items) : rows' = Inserted(items, f)
  BY DEF Rebuild
<1>2. Room(Cardinality(items)) /\ nextId \in Nat \ {0}
  BY DEF Rebuild, Base, TypeOK
<1>3. added' = {} /\ added = {}
  BY DEF Base, AddedInGap
<1>4. nodes' = rows' \/ nodes' = nodes
  BY DEF Rebuild
<1>5. ASSUME NEW m \in Inserted(items, f), NEW n \in Inserted(items, f), n.parent = m.id
      PROVE  Before(m, n)
  BY <1>2, <1>5, InsertedParentsFirst
<1>6. CASE nodes' = rows'
  BY <1>1, <1>3, <1>5, <1>6 DEF ParentsFirst
<1>7. CASE nodes' = nodes
  BY <1>3, <1>7 DEF ParentsFirst
<1> QED
  BY <1>4, <1>6, <1>7

\* Rows that come to the tree with ids not used before, each below the whole
\* tree, at the top, or ordered among themselves.
LEMMA GrownKeepsFirst ==
  ASSUME Base, ParentsFirst, NEW new, nodes' = nodes,
         added' \subseteq added \cup new,
         \A r \in new : r.id \in Nat /\ nextId <= r.id,
         \A r \in new, m \in nodes \cup added : r.parent = m.id => Before(m, r),
         \A r \in new, m \in new : r.parent = m.id => Before(m, r)
  PROVE  ParentsFirst'
<1>1. nextId \in Nat
  BY DEF Base, TypeOK
<1>2. \A n \in nodes \cup added : n.parent \in Nat /\ n.parent < nextId
  <2>1. \A n \in nodes \cup added : /\ n.id \in Nat /\ n.parent \in Nat
                                    /\ n.id < nextId /\ n.parent < n.id
    BY DEF Base, TypeOK, Node, IdsUsed, ParentsOlder
  <2> QED
    BY <1>1, <2>1
<1>3. \A n \in nodes \cup added, m \in new : n.parent # m.id
  BY <1>1, <1>2
<1>4. \A m, n \in nodes \cup added \cup new : n.parent = m.id => Before(m, n)
  BY <1>3 DEF ParentsFirst
<1> QED
  BY <1>4 DEF ParentsFirst

LEMMA PersistKeepsFirst ==
  ASSUME Base, ParentsFirst, NEW k \in Nat, NEW items,
         \A i \in 1 .. k :
            /\ items[i] \in Item
            /\ items[i].temp = 0
            /\ items[i].up < nextId
            /\ items[i].up # 0 => \A m \in nodes \cup added : m.depth < items[i].depth,
         Persist(items, k), nodes' = nodes
  PROVE  ParentsFirst'
<1>0. nextId \in Nat \ {0} /\ nodes \cup added \in SUBSET Node
  BY DEF Base, TypeOK
<1>1. CASE Append(items, k)
  <2> DEFINE row(i) == [id |-> nextId + i - 1, parent |-> items[i].up,
                        origin |-> nextId + i - 1,
                        depth |-> items[i].depth, ord |-> items[i].ord]
             new == {row(i) : i \in 1 .. k}
  <2>1. added' = added \cup new
    BY <1>1 DEF Append
  <2>2. \A i \in 1 .. k : row(i).id \in Nat /\ nextId <= row(i).id
    BY <1>0
  <2>3. ASSUME NEW i \in 1 .. k, NEW m \in nodes \cup added, row(i).parent = m.id
        PROVE  Before(m, row(i))
    <3>1. m.id # 0
      BY <1>0 DEF Node
    <3>2. m.depth < items[i].depth
      BY <2>3, <3>1
    <3> QED
      BY <3>2 DEF Before
  <2>4. \A i, j \in 1 .. k : row(i).parent # row(j).id
    <3>1. \A i \in 1 .. k : items[i].up \in Nat /\ items[i].up < nextId
      BY DEF Item
    <3> QED
      BY <1>0, <3>1
  <2>5. /\ \A r \in new : r.id \in Nat /\ nextId <= r.id
        /\ \A r \in new, m \in nodes \cup added : r.parent = m.id => Before(m, r)
        /\ \A r \in new, m \in new : r.parent = m.id => Before(m, r)
    BY <2>2, <2>3, <2>4
  <2> HIDE DEF new
  <2> QED
    BY <2>1, <2>5, GrownKeepsFirst
<1>2. CASE FallBack(items, k)
  <2> DEFINE new == {items[i] : i \in 1 .. k}
             all == Seeds(nodes \cup added) \cup new
  <2>1. PICK f \in Numberings(all) :
          /\ rows' = Inserted(all, f)
          /\ added' = added \cup {r \in rows' : \E n \in new : r.id = f[n]}
    BY <1>2 DEF FallBack
  <2>2. Room(Cardinality(all))
    BY <1>2 DEF FallBack
  <2>3. all \in SUBSET Item
    BY <1>0, SeedsAreItems
  <2>4. \A n \in new : n.temp = 0 /\ (n.up # 0 => \A m \in nodes \cup added : m.depth < n.depth)
    OBVIOUS
  <2>5. Related(all)
    <3> HIDE DEF new
    <3> QED
      BY <2>4, SeedsOrdered, OrderedIsRelated DEF Base
  <2> HIDE DEF all, new
  <2>6. \A r \in rows' : r.id \in Nat /\ nextId <= r.id
    BY <1>0, <2>1, <2>2, <2>3, InsertedAreNodes DEF Node
  <2>7. \A r, m \in rows' : r.parent = m.id => Before(m, r)
    BY <1>0, <2>1, <2>2, <2>3, <2>5, InsertedParentsFirst
  <2>8. \A r \in rows', m \in nodes \cup added : r.parent # m.id
    <3>1. \A m \in nodes \cup added : m.id \in Nat \ {0} /\ m.id < nextId
      BY <1>0 DEF Node, Base, IdsUsed
    <3>2. \A r \in rows' : r.parent = 0 \/ nextId <= r.parent
      BY <1>0, <2>1, <2>2, <2>3, InsertedAreNodes
    <3> QED
      BY <1>0, <3>1, <3>2
  <2>9. added' \subseteq added \cup rows'
    BY <2>1
  <2> QED
    BY <2>6, <2>7, <2>8, <2>9, GrownKeepsFirst
<1>3. CASE UNCHANGED <<rows, added, nextId, forked>>
  BY <1>3 DEF ParentsFirst
<1> QED
  BY <1>1, <1>2, <1>3 DEF Persist

\* Follow-ups are new, refine a node of the tree or nothing, and lie below it.
LEMMA FollowUpsBelow ==
  ASSUME Base, NEW N, N = nodes \cup added, NEW k \in Nat,
         NEW ups \in [1 .. k -> {0} \cup IdsOf(N)], NEW d \in Deepest(N)
  PROVE  \A i \in 1 .. k :
           /\ FollowUps(N, ups, d)[i].temp = 0
           /\ FollowUps(N, ups, d)[i].up < nextId
           /\ FollowUps(N, ups, d)[i].up # 0 =>
                \A m \in N : m.depth < FollowUps(N, ups, d)[i].depth
<1> SUFFICES ASSUME NEW i \in 1 .. k
             PROVE  /\ FollowUps(N, ups, d)[i].temp = 0
                    /\ FollowUps(N, ups, d)[i].up < nextId
                    /\ FollowUps(N, ups, d)[i].up # 0 =>
                         \A m \in N : m.depth < FollowUps(N, ups, d)[i].depth
  OBVIOUS
<1>1. /\ FollowUps(N, ups, d)[i].temp = 0
      /\ FollowUps(N, ups, d)[i].up = ups[i]
      /\ FollowUps(N, ups, d)[i].depth = FollowUpDepth(ups[i], d)
  BY DEF FollowUps, Fresh
<1>2. nextId \in Nat \ {0} /\ N \in SUBSET Node /\ \A n \in N : n.id < nextId
  BY DEF Base, TypeOK, IdsUsed
<1>3. ups[i] < nextId
  BY <1>2 DEF IdsOf
<1>4. \A m \in N : m.depth \in Nat /\ d \in Nat /\ m.depth <= d
  BY <1>2 DEF Deepest, Node
<1>5. ups[i] # 0 => \A m \in N : m.depth < FollowUpDepth(ups[i], d)
  BY <1>4 DEF FollowUpDepth
<1> QED
  BY <1>1, <1>3, <1>5

LEMMA ParentsFirstStep == Base /\ ParentsFirst /\ [Next]_vars => ParentsFirst'
<1> SUFFICES ASSUME Base, ParentsFirst, [Next]_vars PROVE ParentsFirst'
  OBVIOUS
<1>t. TypeOK /\ nodes \in SUBSET Node
  BY DEF Base, TypeOK
<1>s. ASSUME nodes' = nodes, added' \subseteq added PROVE ParentsFirst'
  BY <1>s DEF ParentsFirst
<1>1. CASE Planner
  <2>1. ASSUME NEW items \in PlanItems, Rebuild(items, "moderator")
        PROVE  ParentsFirst'
    BY <1>1, <2>1, PlanItemsAreItems, PlanItemsRelated, RebuildKeepsFirst DEF Planner
  <2> QED
    BY <1>1, <1>s, <2>1 DEF Planner, Skip
<1>2. CASE Moderator
  <2>1. ASSUME NEW k \in 1 .. 3, Cardinality(nodes) \in 1 .. MaxPlan - k,
               Rebuild(Seeds(nodes) \cup
                         {Fresh(0, 1, Cardinality(nodes) + j) : j \in 0 .. k - 1},
                       "approval")
        PROVE  ParentsFirst'
    <3> DEFINE new == {Fresh(0, 1, Cardinality(nodes) + j) : j \in 0 .. k - 1}
    <3>1. Seeds(nodes) \cup new \in SUBSET Item
      BY <1>t, <2>1, ModeratorItems
    <3>2. \A n \in new : n.temp = 0 /\ (n.up # 0 => \A m \in nodes : m.depth < n.depth)
      BY DEF Fresh
    <3>3. Rebuild(Seeds(nodes) \cup new, "approval")
      BY <2>1
    <3> HIDE DEF new
    <3>4. Related(Seeds(nodes) \cup new)
      BY <1>t, <3>2, SeedsOrdered, OrderedIsRelated
    <3> QED
      BY <1>2, <3>1, <3>3, <3>4, RebuildKeepsFirst DEF Moderator
  <2> QED
    BY <1>2, <1>s, <2>1 DEF Moderator, Skip
<1>3. CASE AutoApproval \/ Park \/ Approve \/ Researcher \/ Cut
  BY <1>3, <1>s DEF AutoApproval, Skip, Park, Approve, Reject, Researcher, Cut
<1>4. CASE HumanApproval
  <2>1. added' = added /\ at \notin {"outline", "return"}
    BY <1>4 DEF HumanApproval
  <2>2. CASE Rebuild(Seeds(nodes), "research")
    <3>1. Seeds(nodes) \in SUBSET Item /\ Seeds(nodes) = Seeds(nodes) \cup {}
      BY <1>t, SeedsAreItems
    <3>2. Related(Seeds(nodes) \cup {})
      BY <1>t, SeedsOrdered, OrderedIsRelated
    <3> QED
      BY <2>1, <2>2, <3>1, <3>2, RebuildKeepsFirst
  <2>3. ASSUME NEW k \in 0 .. LastId, NEW ord \in PanelOrders(decision.kept, k),
               Rebuild(Edited(ord, decision.adds, k), "research")
        PROVE  ParentsFirst'
    <3>1. k \in Nat
      BY TreeAssumption
    <3> QED
      BY <1>t, <2>1, <2>3, <3>1, EditItems, EditedOrdered, OrderedIsRelated, RebuildKeepsFirst
  <2> QED
    BY <1>4, <1>s, <2>2, <2>3 DEF HumanApproval, Skip
<1>5. CASE GapAnalyzer
  <2>1. ASSUME NEW k \in 1 .. MaxNew, NEW d \in Deepest(nodes),
               Cardinality(nodes) \in 1 .. MaxTotal - 1,
               NEW ups \in [1 .. k -> {0} \cup IdsOf(Leaves)],
               Persist(FollowUps(nodes, ups, d), k)
        PROVE  ParentsFirst'
    <3> DEFINE items == FollowUps(nodes, ups, d)
    <3>1. k \in Nat /\ Cardinality(nodes) \in Nat
      BY <2>1, TreeAssumption
    <3>2. \A i \in 1 .. k : items[i] \in Item
      BY <1>t, <3>1, GapItems
    <3>3. added = {} /\ nodes' = nodes
      BY <1>5 DEF GapAnalyzer, Base, AddedInGap
    <3>4. ups \in [1 .. k -> {0} \cup IdsOf(nodes)]
      BY DEF IdsOf, Leaves
    <3>5. nodes = nodes \cup added
      BY <3>3
    <3>6. \A i \in 1 .. k :
            /\ items[i].temp = 0
            /\ items[i].up < nextId
            /\ items[i].up # 0 => \A m \in nodes : m.depth < items[i].depth
      BY <3>1, <3>4, <3>5, FollowUpsBelow
    <3>7. Persist(items, k)
      BY <2>1
    <3> HIDE DEF items
    <3> QED
      BY <3>1, <3>2, <3>3, <3>5, <3>6, <3>7, PersistKeepsFirst
  <2> QED
    BY <1>5, <1>s, <2>1 DEF GapAnalyzer
<1>6. CASE OutlineRevision
  <2>1. ASSUME NEW k \in 1 .. MaxOutline, NEW d \in Deepest(nodes \cup added),
               Cardinality(nodes \cup added) \in 1 .. MaxTotal - 1,
               Persist(FollowUps(nodes \cup added, [i \in 1 .. k |-> 0], d), k)
        PROVE  ParentsFirst'
    <3> DEFINE items == FollowUps(nodes \cup added, [i \in 1 .. k |-> 0], d)
    <3>1. k \in Nat /\ Cardinality(nodes \cup added) \in Nat /\ nodes' = nodes
      BY <1>6, <2>1, TreeAssumption DEF OutlineRevision
    <3>2. \A i \in 1 .. k : items[i] \in Item
      BY <1>t, <3>1, OutlineItems
    <3>3. [i \in 1 .. k |-> 0] \in [1 .. k -> {0} \cup IdsOf(nodes \cup added)]
      OBVIOUS
    <3>4. \A i \in 1 .. k :
            /\ items[i].temp = 0
            /\ items[i].up < nextId
            /\ items[i].up # 0 => \A m \in nodes \cup added : m.depth < items[i].depth
      BY <3>1, <3>3, FollowUpsBelow
    <3>5. Persist(items, k)
      BY <2>1
    <3> HIDE DEF items
    <3> QED
      BY <3>1, <3>2, <3>4, <3>5, PersistKeepsFirst
  <2> QED
    BY <1>6, <1>s, <2>1 DEF OutlineRevision
<1>7. CASE GapReturn
  BY <1>7 DEF GapReturn, ParentsFirst
<1>8. CASE UNCHANGED vars
  BY <1>8, <1>s DEF vars
<1> QED
  BY <1>1, <1>2, <1>3, <1>4, <1>5, <1>6, <1>7, <1>8 DEF Next

\* Any rebuild finds a parent before its children, so it never drops one:
\* for every plan a model may return and every edit of a user.
THEOREM ParentsFirstHolds == Spec => []ParentsFirst
<1>1. Init => ParentsFirst
  BY DEF Init, ParentsFirst
<1> QED
  BY <1>1, ParentsFirstStep, BaseHolds, PTL DEF Spec

-----------------------------------------------------------------------------
(***************************************************************************)
(* Sub-questions stay where they are                                       *)
(*                                                                         *)
(* ids and origins name one node each, follow-ups are younger than the     *)
(* tree they are added to, and the planner starts from nothing.            *)
(***************************************************************************)
Distinct ==
    /\ \A m, n \in nodes \cup added :
          m.id = n.id \/ m.origin = n.origin => m = n
    /\ \A n \in nodes \cup added : n.origin < nextId
    /\ \A m \in nodes, a \in added : m.id < a.id
    /\ at = "planner" => nodes = {}

\* The items of a rebuild: new ones, and at most one for each node.
Redraws(S) ==
    /\ \A s \in S :
          \/ s.origin = 0 /\ s.temp = 0 /\ s.up = 0
          \/ \E p \in nodes : s.temp = p.id /\ s.up = p.parent /\ s.origin = p.origin
    /\ \A s, t \in S : s.origin # 0 /\ s.origin = t.origin => s = t

\* What a step may do to the places of sub-questions.
Stays ==
    \A m \in nodes, n \in nodes' :
       m.origin = n.origin =>
         LET before == ParentOrigin(m, nodes)
         IN  ParentOrigin(n, nodes') =
               IF before \in {k.origin : k \in nodes'} THEN before ELSE 0

\* The parent's origin, where ids name one node each.
LEMMA ParentOriginIs ==
  ASSUME NEW N, \A k, l \in N : k.id = l.id => k = l, NEW n, NEW p \in N, p.id = n.parent
  PROVE  ParentOrigin(n, N) = p.origin
<1>1. {m \in N : m.id = n.parent} = {p}
  OBVIOUS
<1> QED
  BY <1>1 DEF ParentOrigin

LEMMA NoParentOrigin ==
  ASSUME NEW N, NEW n, \A p \in N : p.id # n.parent
  PROVE  ParentOrigin(n, N) = 0
BY DEF ParentOrigin

\* The row of an item.
LEMMA InsertedRow ==
  ASSUME NEW S, NEW f, NEW s \in S
  PROVE  \E r \in Inserted(S, f) :
            /\ r.id = f[s] /\ r.parent = ParentIn(s, S, f)
            /\ r.origin = IF s.origin = 0 THEN f[s] ELSE s.origin
<1> DEFINE r == [id     |-> f[s],
                 parent |-> ParentIn(s, S, f),
                 origin |-> IF s.origin = 0 THEN f[s] ELSE s.origin,
                 depth  |-> s.depth,
                 ord    |-> s.ord]
<1>1. r \in Inserted(S, f)
  BY DEF Inserted
<1> QED
  BY <1>1

LEMMA InsertedFrom ==
  ASSUME NEW S, NEW f, NEW r \in Inserted(S, f)
  PROVE  \E s \in S :
            /\ r.id = f[s] /\ r.parent = ParentIn(s, S, f)
            /\ r.origin = IF s.origin = 0 THEN f[s] ELSE s.origin
            /\ r = [id     |-> f[s],
                    parent |-> ParentIn(s, S, f),
                    origin |-> IF s.origin = 0 THEN f[s] ELSE s.origin,
                    depth  |-> s.depth,
                    ord    |-> s.ord]
BY DEF Inserted

LEMMA NumberingFacts ==
  ASSUME nextId \in Nat \ {0}, NEW S \in SUBSET Item, Room(Cardinality(S)),
         NEW f \in Numberings(S)
  PROVE  /\ \A s \in S : /\ f[s] \in Nat \ {0} /\ nextId <= f[s]
                         /\ f[s] < nextId + Cardinality(S)
         /\ \A s, t \in S : f[s] = f[t] => s = t
         /\ \A s, t \in S : Before(s, t) => f[s] < f[t]
<1>1. Cardinality(S) \in Nat
  BY TreeAssumption DEF Room
<1>2. f \in [S -> nextId .. nextId + Cardinality(S) - 1]
  BY DEF Numberings
<1>3. \A s \in S : /\ f[s] \in Nat \ {0} /\ nextId <= f[s]
                   /\ f[s] < nextId + Cardinality(S)
  BY <1>1, <1>2
<1>4. \A s, t \in S : f[s] = f[t] => s = t
  BY DEF Numberings
<1>5. \A s, t \in S : Before(s, t) => f[s] < f[t]
  <2> SUFFICES ASSUME NEW s \in S, NEW t \in S, Before(s, t) PROVE f[s] < f[t]
    OBVIOUS
  <2>1. s # t
    <3>1. s.depth \in Nat /\ s.ord \in Nat
      BY DEF Item
    <3> QED
      BY <3>1 DEF Before
  <2> QED
    BY <2>1 DEF Numberings
<1> QED
  BY <1>3, <1>4, <1>5

\* New rows have ids and origins of their own.
LEMMA InsertedDistinct ==
  ASSUME nextId \in Nat \ {0}, NEW S \in SUBSET Item, Room(Cardinality(S)),
         NEW f \in Numberings(S),
         \A s \in S : s.origin < nextId,
         \A s, t \in S : s.origin # 0 /\ s.origin = t.origin => s = t
  PROVE  /\ \A m, n \in Inserted(S, f) : m.id = n.id \/ m.origin = n.origin => m = n
         /\ \A n \in Inserted(S, f) : n.origin < nextId + Cardinality(S)
<1>1. /\ \A s \in S : /\ f[s] \in Nat \ {0} /\ nextId <= f[s]
                      /\ f[s] < nextId + Cardinality(S)
      /\ \A s, t \in S : f[s] = f[t] => s = t
  BY NumberingFacts
<1>2. \A s \in S : s.origin \in Nat /\ Cardinality(S) \in Nat
  BY TreeAssumption DEF Item, Room
<1>3. ASSUME NEW m \in Inserted(S, f), NEW n \in Inserted(S, f),
             m.id = n.id \/ m.origin = n.origin
      PROVE  m = n
  <2>1. PICK s \in S :
            /\ m.id = f[s]
            /\ m.origin = IF s.origin = 0 THEN f[s] ELSE s.origin
            /\ m = [id     |-> f[s],
                    parent |-> ParentIn(s, S, f),
                    origin |-> IF s.origin = 0 THEN f[s] ELSE s.origin,
                    depth  |-> s.depth,
                    ord    |-> s.ord]
    BY InsertedFrom
  <2>2. PICK t \in S :
            /\ n.id = f[t]
            /\ n.origin = IF t.origin = 0 THEN f[t] ELSE t.origin
            /\ n = [id     |-> f[t],
                    parent |-> ParentIn(t, S, f),
                    origin |-> IF t.origin = 0 THEN f[t] ELSE t.origin,
                    depth  |-> t.depth,
                    ord    |-> t.ord]
    BY InsertedFrom
  <2>3. s = t
    <3>1. f[s] = f[t] => s = t
      BY <1>1
    <3>2. s.origin # 0 /\ s.origin = t.origin => s = t
      OBVIOUS
    <3>3. /\ f[s] \in Nat /\ f[t] \in Nat /\ nextId <= f[s] /\ nextId <= f[t]
          /\ s.origin < nextId /\ t.origin < nextId
          /\ s.origin \in Nat /\ t.origin \in Nat
      BY <1>1, <1>2
    <3> QED
      BY <1>3, <2>1, <2>2, <3>1, <3>2, <3>3
  <2> QED
    BY <2>1, <2>2, <2>3
<1>4. ASSUME NEW n \in Inserted(S, f) PROVE n.origin < nextId + Cardinality(S)
  <2>1. PICK s \in S : n.origin = IF s.origin = 0 THEN f[s] ELSE s.origin
    BY InsertedFrom
  <2>2. /\ f[s] < nextId + Cardinality(S) /\ s.origin \in Nat
        /\ s.origin < nextId /\ Cardinality(S) \in Nat
    BY <1>1, <1>2
  <2> QED
    BY <2>1, <2>2
<1> QED
  BY <1>3, <1>4

\* The heart of it: a node's item is inserted after its parent's, which is
\* then the only one under that temp_id.
LEMMA RedrawnStays ==
  ASSUME Base, Distinct, NEW S \in SUBSET Item, Room(Cardinality(S)),
         Redraws(S), Ordered(S), NEW f \in Numberings(S),
         NEW m \in nodes, NEW n \in Inserted(S, f), m.origin = n.origin
  PROVE  ParentOrigin(n, Inserted(S, f)) =
           IF ParentOrigin(m, nodes) \in {k.origin : k \in Inserted(S, f)}
           THEN ParentOrigin(m, nodes) ELSE 0
<1> DEFINE R == Inserted(S, f)
<1>1. nextId \in Nat \ {0} /\ nodes \in SUBSET Node
  BY DEF Base, TypeOK
<1>2. /\ \A s \in S : f[s] \in Nat \ {0} /\ nextId <= f[s]
      /\ \A s, t \in S : f[s] = f[t] => s = t
      /\ \A s, t \in S : Before(s, t) => f[s] < f[t]
  BY <1>1, NumberingFacts
<1>3. /\ \A p, q \in nodes : p.id = q.id \/ p.origin = q.origin => p = q
      /\ \A p \in nodes : p.origin < nextId
  BY DEF Distinct
<1>4. \A p \in nodes : /\ p.id \in Nat \ {0} /\ p.origin \in Nat \ {0}
                       /\ p.parent \in Nat
  BY <1>1 DEF Node
<1>5. PICK s \in S : /\ n.id = f[s] /\ n.parent = ParentIn(s, S, f)
                     /\ n.origin = IF s.origin = 0 THEN f[s] ELSE s.origin
  BY InsertedFrom
<1>6. \A t \in S :
         \/ t.origin = 0 /\ t.temp = 0 /\ t.up = 0
         \/ \E p \in nodes : t.temp = p.id /\ t.up = p.parent /\ t.origin = p.origin
  BY DEF Redraws
<1>7. s.origin = m.origin
  BY <1>1, <1>2, <1>3, <1>4, <1>5
<1>8. s.temp = m.id /\ s.up = m.parent
  <2>1. s.origin # 0
    BY <1>4, <1>7
  <2>2. PICK p \in nodes : s.temp = p.id /\ s.up = p.parent /\ s.origin = p.origin
    BY <1>6, <2>1
  <2>3. p = m
    BY <1>3, <1>7, <2>2
  <2> QED
    BY <2>2, <2>3
<1>9. \A r \in R : r.id \in Nat \ {0} /\ r.origin # 0
  <2>1. R \in SUBSET Node
    BY <1>1, InsertedAreNodes
  <2> QED
    BY <2>1 DEF Node
<1>10. \A t \in Known(s, S, f) : t \in S /\ t.temp = m.parent /\ m.parent # 0 /\ f[t] < f[s]
  BY <1>8 DEF Known
\* A node that is known as the parent is the parent's.
<1>11. ASSUME NEW t \in S, t.temp = m.parent, m.parent # 0
       PROVE  \E p \in nodes : p.id = m.parent /\ t.origin = p.origin
  BY <1>6, <1>11
<1>12. CASE \A p \in nodes : p.id # m.parent
  <2>1. ParentOrigin(m, nodes) = 0
    BY <1>12, NoParentOrigin
  <2>2. Known(s, S, f) = {}
    BY <1>10, <1>11, <1>12
  <2>3. n.parent = 0
    BY <1>5, <2>2 DEF ParentIn
  <2>4. ParentOrigin(n, R) = 0
    BY <1>9, <2>3, NoParentOrigin
  <2> QED
    BY <2>1, <2>4
<1>13. ASSUME NEW q \in nodes, q.id = m.parent
       PROVE  ParentOrigin(n, R) =
                IF ParentOrigin(m, nodes) \in {k.origin : k \in R}
                THEN ParentOrigin(m, nodes) ELSE 0
  <2>1. ParentOrigin(m, nodes) = q.origin
    BY <1>3, <1>13, ParentOriginIs
  <2>2. \A t \in S : t.temp = m.parent /\ m.parent # 0 => t.origin = q.origin
    BY <1>3, <1>11, <1>13
  <2>3. CASE \A t \in S : t.origin # q.origin
    <3>1. Known(s, S, f) = {}
      BY <1>10, <2>2, <2>3
    <3>2. n.parent = 0
      BY <1>5, <3>1 DEF ParentIn
    <3>3. ParentOrigin(n, R) = 0
      BY <1>9, <3>2, NoParentOrigin
    <3>4. ASSUME NEW k \in R, k.origin = q.origin PROVE FALSE
      <4>1. PICK t \in S : k.origin = IF t.origin = 0 THEN f[t] ELSE t.origin
        BY InsertedFrom
      <4>2. /\ f[t] \in Nat /\ nextId <= f[t] /\ q.origin < nextId
            /\ q.origin \in Nat /\ t.origin # q.origin
        BY <1>2, <1>3, <1>4, <2>3
      <4> QED
        BY <1>1, <3>4, <4>1, <4>2
    <3> HIDE DEF R
    <3> QED
      BY <2>1, <3>3, <3>4
  <2>4. ASSUME NEW t \in S, t.origin = q.origin
        PROVE  ParentOrigin(n, R) = q.origin /\ \E k \in R : k.origin = q.origin
    <3>1. t.temp = q.id /\ t.temp = m.parent
      <4>1. t.origin # 0
        BY <1>4, <2>4
      <4>2. PICK p \in nodes : t.temp = p.id /\ t.origin = p.origin
        BY <1>6, <4>1
      <4>3. p = q
        BY <1>3, <2>4, <4>2
      <4> QED
        BY <1>13, <4>2, <4>3
    <3>2. m.parent # 0
      BY <1>4, <1>13
    <3>3. Before(t, s)
      BY <1>8, <3>1, <3>2 DEF Ordered
    <3>4. f[t] < f[s]
      BY <1>2, <3>3
    <3>5. Known(s, S, f) = {t}
      <4>1. t \in Known(s, S, f)
        BY <1>8, <3>1, <3>2, <3>4 DEF Known
      <4>2. ASSUME NEW x \in Known(s, S, f) PROVE x = t
        <5>1. x \in S /\ x.origin = q.origin
          BY <1>10, <2>2
        <5>2. x.origin # 0 /\ x.origin = t.origin
          BY <1>4, <2>4, <5>1
        <5> QED
          BY <5>1, <5>2 DEF Redraws
      <4> QED
        BY <4>1, <4>2
    <3>6. n.parent = f[t]
      BY <1>5, <3>5 DEF ParentIn
    <3>7. PICK r \in R : r.id = f[t] /\ r.origin = IF t.origin = 0 THEN f[t] ELSE t.origin
      BY InsertedRow
    <3>8. r.origin = q.origin
      BY <1>4, <2>4, <3>7
    <3>9. \A k, l \in R : k.id = l.id => k = l
      <4> SUFFICES ASSUME NEW k \in R, NEW l \in R, k.id = l.id PROVE k = l
        OBVIOUS
      <4>1. PICK x \in S : /\ k.id = f[x]
                           /\ k = [id     |-> f[x],
                                   parent |-> ParentIn(x, S, f),
                                   origin |-> IF x.origin = 0 THEN f[x] ELSE x.origin,
                                   depth  |-> x.depth,
                                   ord    |-> x.ord]
        BY InsertedFrom
      <4>2. PICK y \in S : /\ l.id = f[y]
                           /\ l = [id     |-> f[y],
                                   parent |-> ParentIn(y, S, f),
                                   origin |-> IF y.origin = 0 THEN f[y] ELSE y.origin,
                                   depth  |-> y.depth,
                                   ord    |-> y.ord]
        BY InsertedFrom
      <4>3. x = y
        BY <1>2, <4>1, <4>2
      <4> QED
        BY <4>1, <4>2, <4>3
    <3> HIDE DEF R
    <3>10. ParentOrigin(n, R) = r.origin
      BY <3>6, <3>7, <3>9, ParentOriginIs
    <3> QED
      BY <3>8, <3>10
  <2> HIDE DEF R
  <2> QED
    BY <2>1, <2>3, <2>4
<1> QED
  BY <1>12, <1>13

\* A tree that does not change, or grows by follow-ups.
LEMMA GrownStays ==
  ASSUME Base, Distinct, nodes' \in {nodes, nodes \cup added}
  PROVE  Stays
<1> SUFFICES ASSUME NEW m \in nodes, NEW n \in nodes', m.origin = n.origin
             PROVE  ParentOrigin(n, nodes') =
                      IF ParentOrigin(m, nodes) \in {k.origin : k \in nodes'}
                      THEN ParentOrigin(m, nodes) ELSE 0
  BY DEF Stays
<1>1. \A k, l \in nodes \cup added : k.id = l.id \/ k.origin = l.origin => k = l
  BY DEF Distinct
<1>2. n = m
  BY <1>1
<1>3. \A k, l \in nodes : k.id = l.id => k = l
  BY <1>1
<1>4. \A k, l \in nodes' : k.id = l.id => k = l
  BY <1>1
<1>5. CASE \A p \in nodes' : p.id # m.parent
  <2>1. \A p \in nodes : p.id # m.parent
    BY <1>5
  <2> QED
    BY <1>2, <1>5, <2>1, NoParentOrigin
<1>6. ASSUME NEW p \in nodes', p.id = m.parent
      PROVE  ParentOrigin(n, nodes') =
                      IF ParentOrigin(m, nodes) \in {k.origin : k \in nodes'}
                      THEN ParentOrigin(m, nodes) ELSE 0
  <2>1. m.id \in Nat /\ p.id \in Nat /\ m.parent \in Nat /\ m.parent < m.id
    BY DEF Base, TypeOK, Node, ParentsOlder
  <2>2. p \in nodes
    BY <1>6, <2>1 DEF Distinct
  <2>3. ParentOrigin(m, nodes) = p.origin
    BY <1>3, <1>6, <2>2, ParentOriginIs
  <2>4. ParentOrigin(n, nodes') = p.origin
    BY <1>2, <1>4, <1>6, ParentOriginIs
  <2> QED
    BY <2>3, <2>4
<1> QED
  BY <1>5, <1>6

\* A rebuild, committed or cut off.
LEMMA RebuildStays ==
  ASSUME Base, Distinct, NEW items \in SUBSET Item, Redraws(items), Ordered(items),
         NEW next, Rebuild(items, next)
  PROVE  Stays
<1>1. PICK f \in Numberings(items) : rows' = Inserted(items, f)
  BY DEF Rebuild
<1>2. Room(Cardinality(items))
  BY DEF Rebuild
<1>3. CASE nodes' = nodes
  BY <1>3, GrownStays
<1>4. CASE nodes' = rows'
  <2> SUFFICES ASSUME NEW m \in nodes, NEW n \in nodes', m.origin = n.origin
               PROVE  ParentOrigin(n, nodes') =
                        IF ParentOrigin(m, nodes) \in {k.origin : k \in nodes'}
                        THEN ParentOrigin(m, nodes) ELSE 0
    BY DEF Stays
  <2>1. nodes' = Inserted(items, f)
    BY <1>1, <1>4
  <2> QED
    BY <1>2, <2>1, RedrawnStays
<1> QED
  BY <1>3, <1>4 DEF Rebuild

\* The items of each rebuilding node.
LEMMA SeedsRedraw ==
  ASSUME Distinct, NEW new,
         \A s \in new : s.origin = 0 /\ s.temp = 0 /\ s.up = 0
  PROVE  Redraws(Seeds(nodes) \cup new)
<1>1. \A s \in Seeds(nodes) : \E p \in nodes :
         /\ s.temp = p.id /\ s.up = p.parent /\ s.origin = p.origin
         /\ s = [temp |-> p.id, up |-> p.parent, origin |-> p.origin,
                 depth |-> p.depth, ord |-> p.ord]
  BY DEF Seeds
<1>2. ASSUME NEW s \in Seeds(nodes) \cup new, NEW t \in Seeds(nodes) \cup new,
             s.origin # 0, s.origin = t.origin
      PROVE  s = t
  <2>1. s \in Seeds(nodes) /\ t \in Seeds(nodes)
    BY <1>2
  <2>2. PICK p \in nodes : s = [temp |-> p.id, up |-> p.parent, origin |-> p.origin,
                               depth |-> p.depth, ord |-> p.ord]
    BY <1>1, <2>1
  <2>3. PICK q \in nodes : t = [temp |-> q.id, up |-> q.parent, origin |-> q.origin,
                               depth |-> q.depth, ord |-> q.ord]
    BY <1>1, <2>1
  <2>4. p = q
    BY <1>2, <2>2, <2>3 DEF Distinct
  <2> QED
    BY <2>2, <2>3, <2>4
<1> QED
  BY <1>1, <1>2 DEF Redraws

LEMMA EditedRedraw ==
  ASSUME TypeOK, Distinct, NEW k \in Nat, NEW ord \in PanelOrders(decision.kept, k)
  PROVE  Redraws(Edited(ord, decision.adds, k))
<1>1. DOMAIN ord = decision.kept /\ decision.kept \in SUBSET nodes
  BY DEF PanelOrders, TypeOK
<1> DEFINE kept == {[temp |-> n.id, up |-> n.parent, origin |-> n.origin,
                     depth |-> n.depth, ord |-> ord[n]] : n \in DOMAIN ord}
           new == {Fresh(0, 0, k + j) : j \in 0 .. decision.adds - 1}
<1>2. Edited(ord, decision.adds, k) = kept \cup new
  BY DEF Edited
<1>3. \A s \in new : s.origin = 0 /\ s.temp = 0 /\ s.up = 0
  BY DEF Fresh
<1>4. \A s \in kept : \E p \in nodes :
         /\ s.temp = p.id /\ s.up = p.parent /\ s.origin = p.origin
         /\ s = [temp |-> p.id, up |-> p.parent, origin |-> p.origin,
                 depth |-> p.depth, ord |-> ord[p]]
  BY <1>1
<1> HIDE DEF kept, new
<1>5. ASSUME NEW s \in kept \cup new, NEW t \in kept \cup new,
             s.origin # 0, s.origin = t.origin
      PROVE  s = t
  <2>1. s \in kept /\ t \in kept
    BY <1>3, <1>5
  <2>2. PICK p \in nodes : s = [temp |-> p.id, up |-> p.parent, origin |-> p.origin,
                               depth |-> p.depth, ord |-> ord[p]]
    BY <1>4, <2>1
  <2>3. PICK q \in nodes : t = [temp |-> q.id, up |-> q.parent, origin |-> q.origin,
                               depth |-> q.depth, ord |-> ord[q]]
    BY <1>4, <2>1
  <2>4. p = q
    BY <1>5, <2>2, <2>3 DEF Distinct
  <2> QED
    BY <2>2, <2>3, <2>4
<1> QED
  BY <1>2, <1>3, <1>4, <1>5 DEF Redraws

\* A step that rebuilds the tree from it and new items.
LEMMA RebuildKeepsDistinct ==
  ASSUME Base, Distinct, NEW items \in SUBSET Item,
         \A s \in items : s.origin < nextId,
         \A s, t \in items : s.origin # 0 /\ s.origin = t.origin => s = t,
         NEW next, next # "planner", Rebuild(items, next),
         added' = added, at \notin {"outline", "return"}
  PROVE  Distinct'
<1>0. nextId \in Nat \ {0} /\ added = {} /\ nodes \in SUBSET Node
  BY DEF Base, TypeOK, AddedInGap
<1>1. PICK f \in Numberings(items) :
        rows' = Inserted(items, f) /\ nextId' = nextId + Cardinality(items)
  BY DEF Rebuild
<1>2. Room(Cardinality(items))
  BY DEF Rebuild
<1>3. /\ \A m, n \in rows' : m.id = n.id \/ m.origin = n.origin => m = n
      /\ \A n \in rows' : n.origin < nextId'
  BY <1>0, <1>1, <1>2, InsertedDistinct
<1>4. CASE nodes' = rows' /\ at' = next
  BY <1>0, <1>3, <1>4 DEF Distinct
<1>5. CASE nodes' = nodes /\ at' = at
  <2>1. Cardinality(items) \in Nat
    BY <1>2, TreeAssumption DEF Room
  <2>2. \A n \in nodes : n.origin < nextId'
    <3>1. \A n \in nodes : n.origin \in Nat /\ n.origin < nextId
      BY <1>0 DEF Distinct, Node
    <3> QED
      BY <1>0, <1>1, <2>1, <3>1
  <2> QED
    BY <1>0, <1>5, <2>2 DEF Distinct
<1> QED
  BY <1>4, <1>5 DEF Rebuild

\* A call of _persist_new_subtopics gives ids and origins not used before.
LEMMA PersistKeepsDistinct ==
  ASSUME Base, Distinct, NEW k \in Nat, NEW items,
         \A i \in 1 .. k : items[i] \in Item /\ items[i].origin = 0,
         Persist(items, k), nodes' = nodes, at' # "planner"
  PROVE  Distinct'
<1>0. /\ nextId \in Nat \ {0} /\ nodes \in SUBSET Node /\ added \in SUBSET Node
      /\ \A n \in nodes \cup added : n.id < nextId /\ n.origin < nextId
  BY DEF Base, TypeOK, IdsUsed, Distinct
<1>n. ASSUME NEW new, added' = added \cup new, nextId' \in Nat, nextId <= nextId',
             \A r \in new : /\ r.id \in Nat /\ nextId <= r.id
                            /\ r.origin = r.id /\ r.id < nextId',
             \A r, m \in new : r.id = m.id => r = m
      PROVE  Distinct'
  <2>1. \A n \in nodes \cup added : n.id \in Nat /\ n.origin \in Nat
    BY <1>0 DEF Node
  <2>2. \A n \in nodes \cup added, r \in new :
           n.id < r.id /\ n.id # r.id /\ n.origin # r.origin
    BY <1>0, <1>n, <2>1
  <2>3. \A n \in nodes \cup added \cup new : n.origin < nextId'
    BY <1>0, <1>n, <2>1
  <2>4. \A m, n \in nodes \cup added : m.id = n.id \/ m.origin = n.origin => m = n
    BY DEF Distinct
  <2>5. \A m, n \in new : m.id = n.id \/ m.origin = n.origin => m = n
    BY <1>n
  <2>6. \A m, n \in nodes \cup added \cup new : m.id = n.id \/ m.origin = n.origin => m = n
    BY <2>2, <2>4, <2>5
  <2>7. \A m \in nodes, a \in added \cup new : m.id < a.id
    BY <2>2 DEF Distinct
  <2>8. nodes' \cup added' = nodes \cup added \cup new
    BY <1>n
  <2> QED
    BY <1>n, <2>3, <2>6, <2>7, <2>8 DEF Distinct
<1>1. CASE Append(items, k)
  <2> DEFINE row(i) == [id |-> nextId + i - 1, parent |-> items[i].up,
                        origin |-> nextId + i - 1,
                        depth |-> items[i].depth, ord |-> items[i].ord]
             new == {row(i) : i \in 1 .. k}
  <2>1. added' = added \cup new /\ nextId' = nextId + k
    BY <1>1 DEF Append
  <2>2. \A i \in 1 .. k : /\ row(i).id \in Nat /\ nextId <= row(i).id
                          /\ row(i).origin = row(i).id /\ row(i).id < nextId + k
    BY <1>0
  <2>3. \A i, j \in 1 .. k : row(i).id = row(j).id => row(i) = row(j)
    <3> SUFFICES ASSUME NEW i \in 1 .. k, NEW j \in 1 .. k, row(i).id = row(j).id
                 PROVE  i = j
      OBVIOUS
    <3> QED
      BY <1>0
  <2>4. /\ \A r \in new : /\ r.id \in Nat /\ nextId <= r.id
                          /\ r.origin = r.id /\ r.id < nextId + k
        /\ \A r, m \in new : r.id = m.id => r = m
    BY <2>2, <2>3
  <2>5. nextId + k \in Nat /\ nextId <= nextId + k
    BY <1>0
  <2> HIDE DEF new
  <2> QED
    BY <1>n, <2>1, <2>4, <2>5
<1>2. CASE FallBack(items, k)
  <2> DEFINE new == {items[i] : i \in 1 .. k}
             all == Seeds(nodes \cup added) \cup new
  <2>1. PICK f \in Numberings(all) :
          /\ rows' = Inserted(all, f)
          /\ added' = added \cup {r \in rows' : \E n \in new : r.id = f[n]}
          /\ nextId' = nextId + Cardinality(all)
    BY <1>2 DEF FallBack
  <2>2. Room(Cardinality(all))
    BY <1>2 DEF FallBack
  <2>3. all \in SUBSET Item
    BY <1>0, SeedsAreItems
  <2>4. new \subseteq all /\ \A s \in new : s.origin = 0
    OBVIOUS
  <2>5. Cardinality(all) \in Nat
    BY <2>2, TreeAssumption DEF Room
  <2> HIDE DEF all, new
  <2>6. /\ \A s \in all : /\ f[s] \in Nat \ {0} /\ nextId <= f[s]
                          /\ f[s] < nextId + Cardinality(all)
        /\ \A s, t \in all : f[s] = f[t] => s = t
    BY <1>0, <2>2, <2>3, NumberingFacts
  <2> DEFINE fresh == {r \in rows' : \E n \in new : r.id = f[n]}
  <2>7. ASSUME NEW r \in fresh
        PROVE  \E s \in new :
                  /\ r.id = f[s] /\ r.origin = f[s]
                  /\ r = [id     |-> f[s],
                          parent |-> ParentIn(s, all, f),
                          origin |-> f[s],
                          depth  |-> s.depth,
                          ord    |-> s.ord]
    <3>1. PICK n \in new : r.id = f[n]
      OBVIOUS
    <3>2. r \in Inserted(all, f)
      BY <2>1
    <3>3. PICK s \in all :
            /\ r.id = f[s]
            /\ r.origin = IF s.origin = 0 THEN f[s] ELSE s.origin
            /\ r = [id     |-> f[s],
                    parent |-> ParentIn(s, all, f),
                    origin |-> IF s.origin = 0 THEN f[s] ELSE s.origin,
                    depth  |-> s.depth,
                    ord    |-> s.ord]
      BY <3>2, InsertedFrom
    <3>4. s = n
      BY <2>4, <2>6, <3>1, <3>3
    <3>5. s \in new /\ s.origin = 0
      BY <2>4, <3>4
    <3> QED
      BY <3>3, <3>5
  <2>8. \A r \in fresh : /\ r.id \in Nat /\ nextId <= r.id
                         /\ r.origin = r.id /\ r.id < nextId'
    BY <2>1, <2>4, <2>6, <2>7
  <2>9. ASSUME NEW r \in fresh, NEW m \in fresh, r.id = m.id PROVE r = m
    <3>1. PICK s \in new :
                  /\ r.id = f[s]
                  /\ r = [id     |-> f[s],
                          parent |-> ParentIn(s, all, f),
                          origin |-> f[s],
                          depth  |-> s.depth,
                          ord    |-> s.ord]
      BY <2>7
    <3>2. PICK t \in new :
                  /\ m.id = f[t]
                  /\ m = [id     |-> f[t],
                          parent |-> ParentIn(t, all, f),
                          origin |-> f[t],
                          depth  |-> t.depth,
                          ord    |-> t.ord]
      BY <2>7
    <3>3. s = t
      BY <2>4, <2>6, <2>9, <3>1, <3>2
    <3> QED
      BY <3>1, <3>2, <3>3
  <2>10. added' = added \cup fresh /\ nextId' \in Nat /\ nextId <= nextId'
    BY <1>0, <2>1, <2>5
  <2> HIDE DEF fresh
  <2> QED
    BY <1>n, <2>8, <2>9, <2>10
<1>3. CASE UNCHANGED <<rows, added, nextId, forked>>
  BY <1>3 DEF Distinct
<1> QED
  BY <1>1, <1>2, <1>3 DEF Persist

\* What the loop persists starts new sub-questions.
LEMMA FollowUpsAreNew ==
  ASSUME NEW N, NEW k \in Nat, NEW ups \in [1 .. k -> Nat], NEW d
  PROVE  \A i \in 1 .. k : FollowUps(N, ups, d)[i].origin = 0
BY DEF FollowUps, Fresh

LEMMA KeptStep ==
  Base /\ Distinct /\ ParentsFirst /\ [Next]_vars => Distinct' /\ Stays
<1> SUFFICES ASSUME Base, Distinct, ParentsFirst, [Next]_vars PROVE Distinct' /\ Stays
  OBVIOUS
<1>t. TypeOK /\ nodes \in SUBSET Node /\ nextId \in Nat \ {0}
  BY DEF Base, TypeOK
<1>s. ASSUME UNCHANGED <<nodes, nextId>>, added' \subseteq added,
             at' = "planner" => at = "planner"
      PROVE  Distinct' /\ Stays
  <2>1. Distinct'
    BY <1>s DEF Distinct
  <2> QED
    BY <1>s, <2>1, GrownStays
<1>r. ASSUME NEW items \in SUBSET Item, Redraws(items), Ordered(items), NEW next,
             next # "planner", Rebuild(items, next), added' = added,
             at \notin {"outline", "return"}
      PROVE  Distinct' /\ Stays
  <2>1. ASSUME NEW s \in items PROVE s.origin < nextId
    <3>1. s.origin = 0 \/ \E p \in nodes : s.origin = p.origin
      BY <1>r DEF Redraws
    <3> QED
      BY <1>t, <3>1 DEF Distinct
  <2>2. \A s, t \in items : s.origin # 0 /\ s.origin = t.origin => s = t
    BY <1>r DEF Redraws
  <2>3. Distinct'
    BY <1>r, <2>1, <2>2, RebuildKeepsDistinct
  <2> QED
    BY <1>r, <2>3, RebuildStays
<1>1. CASE Planner
  <2>1. ASSUME NEW items \in PlanItems, Rebuild(items, "moderator")
        PROVE  Distinct' /\ Stays
    <3>1. PICK I \in SUBSET (1 .. MaxPlan) :
             \E up \in [I -> 0 .. MaxPlan], depth \in [I -> 0 .. MaxDepth] :
               items = {[temp |-> i, up |-> up[i], origin |-> 0,
                         depth |-> depth[i], ord |-> i] : i \in I}
      BY DEF PlanItems
    <3>2. \A s \in items : s.origin = 0
      BY <3>1
    <3>3. items \in SUBSET Item
      BY PlanItemsAreItems
    <3>4. nodes = {} /\ added' = added /\ at = "planner"
      BY <1>1 DEF Planner, Distinct
    <3>5. Distinct'
      BY <1>t, <2>1, <3>2, <3>3, <3>4, RebuildKeepsDistinct
    <3>6. Stays
      BY <3>4 DEF Stays
    <3> QED
      BY <3>5, <3>6
  <2> QED
    BY <1>1, <1>s, <2>1 DEF Planner, Skip
<1>2. CASE Moderator
  <2>1. ASSUME NEW k \in 1 .. 3, Cardinality(nodes) \in 1 .. MaxPlan - k,
               Rebuild(Seeds(nodes) \cup
                         {Fresh(0, 1, Cardinality(nodes) + j) : j \in 0 .. k - 1},
                       "approval")
        PROVE  Distinct' /\ Stays
    <3> DEFINE new == {Fresh(0, 1, Cardinality(nodes) + j) : j \in 0 .. k - 1}
    <3>1. Seeds(nodes) \cup new \in SUBSET Item
      BY <1>t, <2>1, ModeratorItems
    <3>2. \A n \in new : n.origin = 0 /\ n.temp = 0 /\ n.up = 0
      BY DEF Fresh
    <3>3. Rebuild(Seeds(nodes) \cup new, "approval")
      BY <2>1
    <3> HIDE DEF new
    <3>4. Ordered(Seeds(nodes) \cup new)
      BY <1>t, <3>2, SeedsOrdered
    <3>5. Redraws(Seeds(nodes) \cup new)
      BY <3>2, SeedsRedraw
    <3> QED
      BY <1>2, <1>r, <3>1, <3>3, <3>4, <3>5 DEF Moderator
  <2> QED
    BY <1>2, <1>s, <2>1 DEF Moderator, Skip
<1>3. CASE AutoApproval \/ Park \/ Approve \/ Researcher \/ Cut
  BY <1>3, <1>s DEF AutoApproval, Skip, Park, Approve, Reject, Researcher, Cut
<1>4. CASE HumanApproval
  <2>1. added' = added /\ at \notin {"outline", "return"}
    BY <1>4 DEF HumanApproval
  <2>2. CASE Rebuild(Seeds(nodes), "research")
    <3>1. Seeds(nodes) \in SUBSET Item /\ Seeds(nodes) = Seeds(nodes) \cup {}
      BY <1>t, SeedsAreItems
    <3>2. Ordered(Seeds(nodes) \cup {}) /\ Redraws(Seeds(nodes) \cup {})
      BY <1>t, SeedsOrdered, SeedsRedraw
    <3> QED
      BY <1>r, <2>1, <2>2, <3>1, <3>2
  <2>3. ASSUME NEW k \in 0 .. LastId, NEW ord \in PanelOrders(decision.kept, k),
               Rebuild(Edited(ord, decision.adds, k), "research")
        PROVE  Distinct' /\ Stays
    <3>1. k \in Nat
      BY TreeAssumption
    <3>2. /\ Edited(ord, decision.adds, k) \in SUBSET Item
          /\ Ordered(Edited(ord, decision.adds, k))
          /\ Redraws(Edited(ord, decision.adds, k))
      BY <1>t, <3>1, EditItems, EditedOrdered, EditedRedraw
    <3> QED
      BY <1>r, <2>1, <2>3, <3>2
  <2> QED
    BY <1>4, <1>s, <2>2, <2>3 DEF HumanApproval, Skip
<1>5. CASE GapAnalyzer
  <2>1. ASSUME NEW k \in 1 .. MaxNew, NEW d \in Deepest(nodes),
               Cardinality(nodes) \in 1 .. MaxTotal - 1,
               NEW ups \in [1 .. k -> {0} \cup IdsOf(Leaves)],
               Persist(FollowUps(nodes, ups, d), k)
        PROVE  Distinct' /\ Stays
    <3> DEFINE items == FollowUps(nodes, ups, d)
    <3>1. k \in Nat /\ Cardinality(nodes) \in Nat
      BY <2>1, TreeAssumption
    <3>2. nodes' = nodes /\ at' # "planner"
      BY <1>5 DEF GapAnalyzer
    <3>3. ups \in [1 .. k -> Nat]
      BY <1>t DEF IdsOf, Leaves, Node
    <3>4. \A i \in 1 .. k : items[i] \in Item /\ items[i].origin = 0
      BY <1>t, <3>1, <3>3, GapItems, FollowUpsAreNew
    <3>5. Persist(items, k)
      BY <2>1
    <3> HIDE DEF items
    <3> QED
      BY <3>1, <3>2, <3>4, <3>5, PersistKeepsDistinct, GrownStays
  <2> QED
    BY <1>5, <1>s, <2>1 DEF GapAnalyzer
<1>6. CASE OutlineRevision
  <2>1. ASSUME NEW k \in 1 .. MaxOutline, NEW d \in Deepest(nodes \cup added),
               Cardinality(nodes \cup added) \in 1 .. MaxTotal - 1,
               Persist(FollowUps(nodes \cup added, [i \in 1 .. k |-> 0], d), k)
        PROVE  Distinct' /\ Stays
    <3> DEFINE items == FollowUps(nodes \cup added, [i \in 1 .. k |-> 0], d)
    <3>1. k \in Nat /\ Cardinality(nodes \cup added) \in Nat
      BY <2>1, TreeAssumption
    <3>2. nodes' = nodes /\ at' # "planner"
      BY <1>6 DEF OutlineRevision
    <3>3. [i \in 1 .. k |-> 0] \in [1 .. k -> Nat]
      OBVIOUS
    <3>o. \A i \in 1 .. k : items[i].origin = 0
      BY <3>1, <3>3, FollowUpsAreNew
    <3>p. \A i \in 1 .. k : items[i] \in Item
      BY <1>t, <3>1, OutlineItems
    <3>4. \A i \in 1 .. k : items[i] \in Item /\ items[i].origin = 0
      BY <3>o, <3>p
    <3>5. Persist(items, k)
      BY <2>1
    <3> HIDE DEF items
    <3> QED
      BY <3>1, <3>2, <3>4, <3>5, PersistKeepsDistinct, GrownStays
  <2> QED
    BY <1>6, <1>s, <2>1 DEF OutlineRevision
<1>7. CASE GapReturn
  <2>1. /\ nodes' \in {nodes, nodes \cup added} /\ added' = {} /\ nextId' = nextId
        /\ at' # "planner"
    BY <1>7 DEF GapReturn
  <2>2. Distinct'
    BY <2>1 DEF Distinct
  <2> QED
    BY <2>1, <2>2, GrownStays
<1>8. CASE UNCHANGED vars
  BY <1>8, <1>s DEF vars
<1> QED
  BY <1>1, <1>2, <1>3, <1>4, <1>5, <1>6, <1>7, <1>8 DEF Next

\* However often a tree is rebuilt, and whatever is edited, appended or lost on
\* the way, a sub-question keeps its parent or loses it for good.
THEOREM TreeKeptHolds == Spec => TreeKept
<1>1. Init => Distinct
  BY DEF Init, Distinct
<1>2. Init => ParentsFirst
  BY DEF Init, ParentsFirst
<1>3. Spec => [][Stays]_vars
  BY <1>1, <1>2, KeptStep, ParentsFirstStep, BaseHolds, PTL DEF Spec
<1> QED
  BY <1>3 DEF TreeKept, Stays

=============================================================================
