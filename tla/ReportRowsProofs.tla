-------------------------- MODULE ReportRowsProofs --------------------------
(***************************************************************************)
(* Theorems about ReportRows, for any sources, languages and limits, and   *)
(* any number of cuts, failing writes and failing model calls.             *)
(***************************************************************************)
EXTENDS ReportRows, SequenceTheorems, FiniteSetTheorems, TLAPS

-----------------------------------------------------------------------------
(***************************************************************************)
(* The inductive invariant                                                 *)
(***************************************************************************)
Writing == pc \in {"delete", "insert"}
Verifying == pc \in {"check", "stamp", "score", "judge"}

\* What a node at work knows of the rows: the writer's numbers are those of the
\* ranking, an open claim is the last row; the verifier's claims are the rows it
\* read, or none because reading failed.
SameClaims(seen, cs) ==
    /\ Len(seen) = Len(cs)
    /\ \A a \in 1 .. Len(cs) : /\ seen[a].draft = cs[a].draft
                               /\ Len(seen[a].cites) = Len(cs[a].cites)

AtWork ==
    /\ Writing =>
          /\ ckpt.next = "synthesizer"
          /\ work.left \in Seq(SUBSET Numbers)
          /\ work.lang <= NLangs
          /\ pc = "delete" => work.lang = 0
          /\ work.open => pc = "insert" /\ work.left # <<>> /\ claims # <<>>
    /\ Verifying =>
          /\ ckpt.next = "verifier"
          /\ SameClaims(work.seen, claims) \/ (work.seen = <<>> /\ work.noted)
          /\ work.i >= 1 /\ work.j >= 1

\* The writer's draft so far: no older claim, no verdict, and the languages that
\* have had their turn.
Unverified(c) == \A k \in 1 .. Len(c.cites) : c.cites[k] = NewCitation(c.cites[k].src)

Drafting ==
    pc = "insert" /\ ~work.noted =>
        /\ \A a \in 1 .. Len(claims) : claims[a].draft = work.draft /\ Unverified(claims[a])
        /\ \A l \in Langs : l < work.lang =>
              reports[l] = NewReport(work.draft, ckpt.ranked)

\* Until an error is noted, all rows that the verifier finds are of one draft.
OneDraft ==
    ~ckpt.noted /\ ckpt.next \in {"verifier", "finalizer"} =>
        /\ \A l \in Langs : reports[l] # None /\ reports[l].draft = ckpt.draft
        /\ \A a \in 1 .. Len(claims) : claims[a].draft = ckpt.draft

\* The sources of a ranking.
Ranked(q) == {q[n] : n \in 1 .. Len(q)}

-----------------------------------------------------------------------------
\* Citations by their places; a pass takes them in this order.
Places(cs) == UNION {{<<a, b>> : b \in 1 .. Len(cs[a].cites)} : a \in 1 .. Len(cs)}
Earlier(p, q) == p[1] < q[1] \/ (p[1] = q[1] /\ p[2] < q[2])
At(cs, p) == cs[p[1]].cites[p[2]]

\* The citations that have had their turn in this pass, and in any pass over the
\* rows that are there.
Turned(cs, i, j) == {p \in Places(cs) : Earlier(p, <<i, j>>)}
CheckedPlaces == {p \in Places(claims) : At(claims, p).alive # None}

\* Passes that were cut off leave the first few citations checked, at most as
\* many as a pass may check.
Prefix ==
    /\ \A p \in CheckedPlaces, q \in Places(claims) : Earlier(q, p) => q \in CheckedPlaces
    /\ Cardinality(CheckedPlaces) <= CheckCap
    /\ \A p \in Places(claims) : At(claims, p).support # None => p \in CheckedPlaces
    /\ \A l \in Langs : reports[l].grounding # None => Graded(claims) # {}

\* What this pass has found so far is in the rows, and nothing else is in its hands.
InRows ==
    \A p \in Places(work.seen) :
       /\ At(work.seen, p).support # None => At(claims, p).support # None
       /\ pc # "check" /\ ~work.noted => At(work.seen, p).support = At(claims, p).support

Passing ==
    pc = "check" =>
        /\ work.checked = Cardinality(Turned(work.seen, work.i, work.j))
        /\ \A p \in Turned(work.seen, work.i, work.j) :
              /\ p \in CheckedPlaces
              /\ ~work.noted => At(work.seen, p).support = At(claims, p).support
        /\ \A p \in Places(work.seen) \ Turned(work.seen, work.i, work.j) :
              At(work.seen, p).support = None

StampFits == \A l \in Langs :
    reports[l].grounding = IF Graded(claims) = {} THEN None ELSE CountsOf(claims)
ScoreFits == \A l \in Langs : reports[l].quality = Scorecard(claims)

Counting ==
    ~ckpt.noted /\ ~lost =>
       /\ ckpt.next = "verifier" =>
             /\ Prefix
             /\ Verifying => InRows
             /\ Passing
             /\ pc \in {"score", "judge"} /\ ~work.noted => StampFits
             /\ pc = "judge" /\ ~work.noted => ScoreFits
       /\ ckpt.next = "finalizer" => StampFits /\ ScoreFits

IInv == TypeOK /\ AtWork /\ Drafting /\ OneDraft /\ GroundingOfItsDraft /\ Counting

-----------------------------------------------------------------------------
(***************************************************************************)
(* Sequences, places, and what is counted over claims                      *)
(***************************************************************************)
LEMMA FunctionIsSeq ==
  ASSUME NEW S, NEW n \in Nat, NEW f \in [1 .. n -> S]
  PROVE  f \in Seq(S) /\ Len(f) = n /\ DOMAIN f = 1 .. n
OBVIOUS

LEMMA ClaimSeq ==
  ASSUME NEW cs \in Seq(Claim)
  PROVE  /\ Len(cs) \in Nat /\ DOMAIN cs = 1 .. Len(cs)
         /\ \A a \in 1 .. Len(cs) :
               /\ cs[a] \in Claim /\ cs[a].draft \in Nat /\ cs[a].dead \in BOOLEAN
               /\ cs[a].cites \in Seq(Cite)
               /\ Len(cs[a].cites) \in Nat /\ DOMAIN cs[a].cites = 1 .. Len(cs[a].cites)
               /\ \A b \in 1 .. Len(cs[a].cites) : cs[a].cites[b] \in Cite
<1>1. \A a \in 1 .. Len(cs) : cs[a] \in Claim
  OBVIOUS
<1>2. \A c \in Claim : /\ c.draft \in Nat /\ c.dead \in BOOLEAN /\ c.cites \in Seq(Cite)
                       /\ Len(c.cites) \in Nat /\ DOMAIN c.cites = 1 .. Len(c.cites)
                       /\ \A b \in 1 .. Len(c.cites) : c.cites[b] \in Cite
  BY DEF Claim
<1> QED
  BY <1>1, <1>2

LEMMA PlacesAre ==
  ASSUME NEW cs, NEW p
  PROVE  p \in Places(cs) <=>
           \E a \in 1 .. Len(cs) : \E b \in 1 .. Len(cs[a].cites) : p = <<a, b>>
BY DEF Places

LEMMA PlacesFinite ==
  ASSUME NEW cs \in Seq(Claim)
  PROVE  IsFiniteSet(Places(cs))
<1> DEFINE In(a) == {<<a, b>> : b \in 1 .. Len(cs[a].cites)}
           f == [a \in 1 .. Len(cs) |-> In(a)]
           T == {In(a) : a \in 1 .. Len(cs)}
<1>1. Len(cs) \in Nat /\ \A a \in 1 .. Len(cs) : Len(cs[a].cites) \in Nat
  BY ClaimSeq
<1>2. ASSUME NEW a \in 1 .. Len(cs) PROVE IsFiniteSet(In(a))
  <2>0. Len(cs[a].cites) \in Int
    BY <1>1
  <2>s. IsFiniteSet({a})
    BY FS_Singleton
  <2>i. IsFiniteSet(1 .. Len(cs[a].cites))
    <3> DEFINE n == Len(cs[a].cites)
    <3>1. n \in Int
      BY <2>0
    <3> HIDE DEF n
    <3>2. IsFiniteSet(1 .. n)
      BY <3>1, FS_Interval
    <3> QED
      BY <3>2 DEF n
  <2>1. IsFiniteSet({a}) /\ IsFiniteSet(1 .. Len(cs[a].cites))
    BY <2>s, <2>i
  <2>2. IsFiniteSet({a} \X (1 .. Len(cs[a].cites)))
    BY <2>1, FS_Product
  <2>3. In(a) = {a} \X (1 .. Len(cs[a].cites))
    OBVIOUS
  <2> QED
    BY <2>2, <2>3
<1>3. IsFiniteSet(1 .. Len(cs))
  BY <1>1, FS_Interval
<1>4. f \in Surjection(1 .. Len(cs), T)
  BY DEF Surjection
<1>5. IsFiniteSet(T)
  BY <1>3, <1>4, FS_Surjection
<1>6. \A R \in T : IsFiniteSet(R)
  BY <1>2
<1>7. Places(cs) = UNION T
  BY DEF Places
<1> HIDE DEF T
<1> QED
  BY <1>5, <1>6, <1>7, FS_UNION

\* Before the first place nothing has had its turn; one more citation is one
\* more turn; the next claim begins with the turns of the last one's end.
LEMMA NoTurnYet ==
  ASSUME NEW cs \in Seq(Claim)
  PROVE  Turned(cs, 1, 1) = {} /\ Cardinality(Turned(cs, 1, 1)) = 0
<1>1. \A p \in Places(cs) : ~Earlier(p, <<1, 1>>)
  <2> SUFFICES ASSUME NEW p \in Places(cs) PROVE ~Earlier(p, <<1, 1>>)
    OBVIOUS
  <2>1a. PICK a \in 1 .. Len(cs) : \E b \in 1 .. Len(cs[a].cites) : p = <<a, b>>
    BY PlacesAre
  <2>1. PICK b \in 1 .. Len(cs[a].cites) : p = <<a, b>>
    BY <2>1a
  <2>2. a \in Nat /\ b \in Nat /\ 1 <= a /\ 1 <= b
    BY ClaimSeq
  <2> QED
    BY <2>1, <2>2 DEF Earlier
<1> QED
  BY <1>1, FS_EmptySet DEF Turned

LEMMA OneMoreTurn ==
  ASSUME NEW cs \in Seq(Claim), NEW i \in 1 .. Len(cs), NEW j \in 1 .. Len(cs[i].cites)
  PROVE  /\ Turned(cs, i, j + 1) = Turned(cs, i, j) \cup {<<i, j>>}
         /\ <<i, j>> \notin Turned(cs, i, j)
         /\ <<i, j>> \in Places(cs)
<1>1. <<i, j>> \in Places(cs)
  BY PlacesAre
<1>2. i \in Nat /\ j \in Nat
  BY ClaimSeq
<1>3. ~Earlier(<<i, j>>, <<i, j>>)
  BY <1>2 DEF Earlier
<1>4. \A p \in Places(cs) : Earlier(p, <<i, j + 1>>) <=> Earlier(p, <<i, j>>) \/ p = <<i, j>>
  <2> SUFFICES ASSUME NEW p \in Places(cs)
               PROVE  Earlier(p, <<i, j + 1>>) <=> Earlier(p, <<i, j>>) \/ p = <<i, j>>
    OBVIOUS
  <2>1a. PICK a \in 1 .. Len(cs) : \E b \in 1 .. Len(cs[a].cites) : p = <<a, b>>
    BY PlacesAre
  <2>1. PICK b \in 1 .. Len(cs[a].cites) : p = <<a, b>>
    BY <2>1a
  <2>2. a \in Nat /\ b \in Nat
    BY ClaimSeq
  <2> QED
    BY <1>2, <2>1, <2>2 DEF Earlier
<1> QED
  BY <1>1, <1>3, <1>4 DEF Turned

LEMMA NextClaimTurn ==
  ASSUME NEW cs \in Seq(Claim), NEW i \in 1 .. Len(cs), NEW j \in Nat, j > Len(cs[i].cites)
  PROVE  Turned(cs, i + 1, 1) = Turned(cs, i, j)
<1>1. \A p \in Places(cs) : Earlier(p, <<i + 1, 1>>) <=> Earlier(p, <<i, j>>)
  <2> SUFFICES ASSUME NEW p \in Places(cs)
               PROVE  Earlier(p, <<i + 1, 1>>) <=> Earlier(p, <<i, j>>)
    OBVIOUS
  <2>1a. PICK a \in 1 .. Len(cs) : \E b \in 1 .. Len(cs[a].cites) : p = <<a, b>>
    BY PlacesAre
  <2>1. PICK b \in 1 .. Len(cs[a].cites) : p = <<a, b>>
    BY <2>1a
  <2>2. a \in Nat /\ b \in Nat /\ 1 <= b /\ i \in Nat /\ b <= Len(cs[a].cites)
        /\ Len(cs[i].cites) \in Nat
    BY ClaimSeq
  <2> QED
    BY <2>1, <2>2 DEF Earlier
<1> QED
  BY <1>1 DEF Turned

LEMMA AllTurned ==
  ASSUME NEW cs \in Seq(Claim), NEW i \in Nat, NEW j \in Nat, i > Len(cs)
  PROVE  Turned(cs, i, j) = Places(cs)
<1>1. \A p \in Places(cs) : Earlier(p, <<i, j>>)
  <2> SUFFICES ASSUME NEW p \in Places(cs) PROVE Earlier(p, <<i, j>>)
    OBVIOUS
  <2>1a. PICK a \in 1 .. Len(cs) : \E b \in 1 .. Len(cs[a].cites) : p = <<a, b>>
    BY PlacesAre
  <2>1. PICK b \in 1 .. Len(cs[a].cites) : p = <<a, b>>
    BY <2>1a
  <2>2. a \in Nat /\ a <= Len(cs) /\ Len(cs) \in Nat
    BY ClaimSeq
  <2> QED
    BY <2>1, <2>2 DEF Earlier
<1> QED
  BY <1>1 DEF Turned

\* Two places are ordered.
LEMMA PlacesOrdered ==
  ASSUME NEW cs \in Seq(Claim), NEW p \in Places(cs), NEW q \in Places(cs)
  PROVE  Earlier(p, q) \/ Earlier(q, p) \/ p = q
<1>1a. PICK a \in 1 .. Len(cs) : \E b \in 1 .. Len(cs[a].cites) : p = <<a, b>>
  BY PlacesAre
<1>1. PICK b \in 1 .. Len(cs[a].cites) : p = <<a, b>>
  BY <1>1a
<1>2a. PICK c \in 1 .. Len(cs) : \E d \in 1 .. Len(cs[c].cites) : q = <<c, d>>
  BY PlacesAre
<1>2. PICK d \in 1 .. Len(cs[c].cites) : q = <<c, d>>
  BY <1>2a
<1>3. a \in Nat /\ b \in Nat /\ c \in Nat /\ d \in Nat
  BY ClaimSeq
<1> QED
  BY <1>1, <1>2, <1>3 DEF Earlier

LEMMA SamePlaces ==
  ASSUME NEW cs, NEW ds, SameClaims(cs, ds)
  PROVE  Places(cs) = Places(ds)
BY DEF SameClaims, Places

\* Counting needs the drafts and the verdicts only.
LEMMA GradedAre ==
  ASSUME NEW cs \in Seq(Claim)
  PROVE  /\ Graded(cs) = {a \in 1 .. Len(cs) :
                            \E b \in 1 .. Len(cs[a].cites) : cs[a].cites[b].support # None}
         /\ Graded(cs) # {} <=> \E p \in Places(cs) : At(cs, p).support # None
<1>1. Graded(cs) = {a \in 1 .. Len(cs) :
                      \E b \in 1 .. Len(cs[a].cites) : cs[a].cites[b].support # None}
  <2>1. \A a \in 1 .. Len(cs) :
          VerdictsOn(cs[a]) # {} <=>
            \E b \in 1 .. Len(cs[a].cites) : cs[a].cites[b].support # None
    BY ClaimSeq DEF VerdictsOn
  <2> QED
    BY <2>1, ClaimSeq DEF Graded
<1>2. \A a \in 1 .. Len(cs) : \A b \in 1 .. Len(cs[a].cites) :
        <<a, b>> \in Places(cs) /\ At(cs, <<a, b>>) = cs[a].cites[b]
  BY PlacesAre DEF At
<1>3. \A p \in Places(cs) : \E a \in 1 .. Len(cs) : \E b \in 1 .. Len(cs[a].cites) : p = <<a, b>>
  BY PlacesAre
<1>4. ASSUME Graded(cs) # {} PROVE \E p \in Places(cs) : At(cs, p).support # None
  <2>1. PICK a \in 1 .. Len(cs) : \E b \in 1 .. Len(cs[a].cites) : cs[a].cites[b].support # None
    BY <1>1, <1>4
  <2>2. PICK b \in 1 .. Len(cs[a].cites) : cs[a].cites[b].support # None
    BY <2>1
  <2> QED
    BY <1>2, <2>2
<1>5. ASSUME NEW p \in Places(cs), At(cs, p).support # None PROVE Graded(cs) # {}
  <2>1. PICK a \in 1 .. Len(cs) : \E b \in 1 .. Len(cs[a].cites) : p = <<a, b>>
    BY <1>3
  <2>2. PICK b \in 1 .. Len(cs[a].cites) : p = <<a, b>>
    BY <2>1
  <2>3. cs[a].cites[b].support # None
    BY <1>2, <1>5, <2>2
  <2>4. a \in Graded(cs)
    BY <1>1, <2>3
  <2> QED
    BY <2>4
<1> QED
  BY <1>1, <1>4, <1>5

LEMMA CountsAreCounts ==
  ASSUME NEW cs \in Seq(Claim)
  PROVE  CountsOf(cs) \in Grounding
<1>1. Len(cs) \in Nat /\ DOMAIN cs = 1 .. Len(cs) /\ \A a \in 1 .. Len(cs) : cs[a].draft \in Nat
  BY ClaimSeq
<1>2. IsFiniteSet(1 .. Len(cs))
  BY <1>1, FS_Interval
<1>3. Graded(cs) \in SUBSET (1 .. Len(cs)) /\ Grounded(cs) \in SUBSET (1 .. Len(cs))
  BY <1>1 DEF Graded, Grounded
<1>4. IsFiniteSet(Graded(cs)) /\ IsFiniteSet(Grounded(cs))
  BY <1>2, <1>3, FS_Subset
<1>5. Cardinality(Graded(cs)) \in Nat /\ Cardinality(Grounded(cs)) \in Nat
  BY <1>4, FS_CardinalityType
<1>6. {cs[a].draft : a \in Graded(cs)} \in SUBSET Nat
  BY <1>1, <1>3
<1> QED
  BY <1>5, <1>6 DEF CountsOf, Grounding

LEMMA SameCounts ==
  ASSUME NEW cs \in Seq(Claim), NEW ds \in Seq(Claim), SameClaims(cs, ds),
         \A p \in Places(cs) : At(cs, p).support = At(ds, p).support
  PROVE  Graded(cs) = Graded(ds) /\ CountsOf(cs) = CountsOf(ds)
<1>1. /\ Len(cs) = Len(ds) /\ Len(cs) \in Nat
      /\ DOMAIN cs = 1 .. Len(cs) /\ DOMAIN ds = 1 .. Len(cs)
  BY ClaimSeq DEF SameClaims
<1>2. \A a \in 1 .. Len(cs) : VerdictsOn(cs[a]) = VerdictsOn(ds[a])
  <2> SUFFICES ASSUME NEW a \in 1 .. Len(cs) PROVE VerdictsOn(cs[a]) = VerdictsOn(ds[a])
    OBVIOUS
  <2>1. \A b \in 1 .. Len(cs[a].cites) : cs[a].cites[b].support = ds[a].cites[b].support
    <3>1. \A b \in 1 .. Len(cs[a].cites) : <<a, b>> \in Places(cs)
      BY PlacesAre
    <3> QED
      BY <3>1 DEF At
  <2>2. DOMAIN cs[a].cites = 1 .. Len(cs[a].cites) /\ DOMAIN ds[a].cites = 1 .. Len(cs[a].cites)
    BY <1>1, ClaimSeq DEF SameClaims
  <2> QED
    BY <2>1, <2>2 DEF VerdictsOn
<1>3. Graded(cs) = Graded(ds)
  BY <1>1, <1>2 DEF Graded
<1>4. Graded(cs) \subseteq 1 .. Len(cs)
  BY <1>1 DEF Graded
<1>5. Grounded(cs) = Grounded(ds)
  BY <1>2, <1>3, <1>4 DEF Grounded
<1>6. \A a \in Graded(cs) : cs[a].draft = ds[a].draft
  BY <1>1, <1>4 DEF SameClaims
<1>7. {cs[a].draft : a \in Graded(cs)} = {ds[a].draft : a \in Graded(ds)}
  BY <1>3, <1>6
<1> QED
  BY <1>3, <1>5, <1>7 DEF CountsOf

\* One citation replaced.
Put(cs, i, j, c) == [cs EXCEPT ![i].cites[j] = c]

LEMMA PutFacts ==
  ASSUME NEW cs \in Seq(Claim), NEW i \in 1 .. Len(cs),
         NEW j \in 1 .. Len(cs[i].cites), NEW c \in Cite
  PROVE  /\ Put(cs, i, j, c) \in Seq(Claim)
         /\ SameClaims(Put(cs, i, j, c), cs)
         /\ At(Put(cs, i, j, c), <<i, j>>) = c
         /\ \A p \in Places(cs) : p # <<i, j>> => At(Put(cs, i, j, c), p) = At(cs, p)
<1> DEFINE row == [cs[i] EXCEPT !.cites = [cs[i].cites EXCEPT ![j] = c]]
<1>1. /\ cs[i] \in Claim /\ cs[i].cites \in Seq(Cite)
      /\ Len(cs) \in Nat
  BY ClaimSeq
<1>2. /\ [cs[i].cites EXCEPT ![j] = c] \in Seq(Cite)
      /\ Len([cs[i].cites EXCEPT ![j] = c]) = Len(cs[i].cites)
      /\ \A b \in 1 .. Len(cs[i].cites) :
            [cs[i].cites EXCEPT ![j] = c][b] = IF b = j THEN c ELSE cs[i].cites[b]
  BY <1>1, ExceptSeq
<1>3. /\ row \in Claim /\ row.draft = cs[i].draft
      /\ row.cites = [cs[i].cites EXCEPT ![j] = c]
  BY <1>1, <1>2 DEF Claim
<1>4. Put(cs, i, j, c) = [cs EXCEPT ![i] = row]
  BY DEF Put
<1> HIDE DEF row
<1>5. /\ [cs EXCEPT ![i] = row] \in Seq(Claim)
      /\ Len([cs EXCEPT ![i] = row]) = Len(cs)
      /\ \A a \in 1 .. Len(cs) : [cs EXCEPT ![i] = row][a] = IF a = i THEN row ELSE cs[a]
  BY <1>3, ExceptSeq
<1>6. SameClaims(Put(cs, i, j, c), cs)
  BY <1>2, <1>3, <1>4, <1>5 DEF SameClaims
<1>7. At(Put(cs, i, j, c), <<i, j>>) = c
  BY <1>2, <1>3, <1>4, <1>5 DEF At
<1>8. ASSUME NEW p \in Places(cs), p # <<i, j>>
      PROVE  At(Put(cs, i, j, c), p) = At(cs, p)
  <2>1a. PICK a \in 1 .. Len(cs) : \E b \in 1 .. Len(cs[a].cites) : p = <<a, b>>
    BY PlacesAre
  <2>1. PICK b \in 1 .. Len(cs[a].cites) : p = <<a, b>>
    BY <2>1a
  <2>2. CASE a = i
    BY <1>2, <1>3, <1>4, <1>5, <1>8, <2>1, <2>2 DEF At
  <2>3. CASE a # i
    BY <1>4, <1>5, <2>1, <2>3 DEF At
  <2> QED
    BY <2>2, <2>3
<1> QED
  BY <1>4, <1>5, <1>6, <1>7, <1>8

-----------------------------------------------------------------------------
(***************************************************************************)
(* Types                                                                   *)
(***************************************************************************)
Work == [draft : Nat, left : Seq(SUBSET Nat), open : BOOLEAN, lang : Nat,
         seen : Seq(Claim), i : Nat, j : Nat, checked : Nat, noted : BOOLEAN]

LEMMA IdleIsWork == Idle \in Work
BY DEF Idle, Work

LEMMA LangsAre == NLangs \in Nat /\ NLangs # 0 /\ \A l \in Langs : l \in Nat /\ l < NLangs
BY ReportRowsAssumption DEF Langs

\* What is counted stays below its bound.
LEMMA CountBound ==
  ASSUME TypeOK, NEW ok \in BOOLEAN, ok \/ faults < MaxFaults, Count(ok)
  PROVE  faults' \in 0 .. MaxFaults
<1>1. MaxFaults \in Nat /\ faults \in 0 .. MaxFaults
  BY ReportRowsAssumption DEF TypeOK
<1>2. CASE ok
  BY <1>1, <1>2 DEF Count
<1>3. CASE ~ok
  BY <1>1, <1>3 DEF Count
<1> QED
  BY <1>2, <1>3

LEMMA OutcomeBound ==
  ASSUME TypeOK, NEW ok \in Outcomes
  PROVE  ok \in BOOLEAN /\ (ok \/ faults < MaxFaults)
<1>1. MaxFaults \in Nat /\ faults \in 0 .. MaxFaults
  BY ReportRowsAssumption DEF TypeOK
<1>2. ok = TRUE \/ ok = (faults = MaxFaults)
  BY DEF Outcomes
<1>3. faults = MaxFaults \/ faults < MaxFaults
  BY <1>1
<1>4. (faults = MaxFaults) \in BOOLEAN
  OBVIOUS
<1> QED
  BY <1>2, <1>3, <1>4

LEMMA NewRowsTyped ==
  ASSUME NEW draft \in Nat, NEW refs \in Seq(Sources)
  PROVE  /\ NewClaim(draft) \in Claim /\ Len(NewClaim(draft).cites) = 0
         /\ NewClaim(draft).draft = draft
         /\ \A s \in Sources : NewCitation(s) \in Cite
         /\ NewReport(draft, refs) \in Row /\ NewReport(draft, refs) # None
<1>1. NewClaim(draft) \in Claim /\ Len(NewClaim(draft).cites) = 0 /\ NewClaim(draft).draft = draft
  BY EmptySeq DEF NewClaim, Claim
<1>2. \A s \in Sources : NewCitation(s) \in Cite
  BY DEF NewCitation, Cite
<1>3. NewReport(draft, refs) \in Row
  BY DEF NewReport, Row
<1> QED
  BY <1>1, <1>2, <1>3, ReportRowsAssumption

\* Stamps and scores go on rows and change nothing else of them.
LEMMA StampedFacts ==
  ASSUME TypeOK, NEW counts \in Grounding
  PROVE  /\ Stamped(counts) \in [Langs -> Row \cup {None}]
         /\ \A l \in Langs : reports[l] = None => Stamped(counts)[l] = None
         /\ \A l \in Langs : reports[l] # None =>
               /\ Stamped(counts)[l] # None
               /\ Stamped(counts)[l].draft = reports[l].draft
               /\ Stamped(counts)[l].refs = reports[l].refs
               /\ Stamped(counts)[l].grounding = counts
               /\ Stamped(counts)[l].quality = reports[l].quality
<1>1. \A l \in Langs : reports[l] # None => reports[l] \in Row
  BY DEF TypeOK
<1>2. ASSUME NEW r \in Row, NEW s, s = [r EXCEPT !.grounding = counts]
      PROVE  /\ s \in Row /\ s.draft = r.draft /\ s.refs = r.refs
             /\ s.grounding = counts /\ s.quality = r.quality
  BY <1>2 DEF Row
<1>3. None \notin Row
  BY ReportRowsAssumption
<1>4. \A l \in Langs :
        /\ reports[l] = None => Stamped(counts)[l] = None
        /\ reports[l] # None => Stamped(counts)[l] = [reports[l] EXCEPT !.grounding = counts]
  BY DEF Stamped, Written
<1>5. \A l \in Langs : reports[l] # None =>
               /\ Stamped(counts)[l] \in Row
               /\ Stamped(counts)[l].draft = reports[l].draft
               /\ Stamped(counts)[l].refs = reports[l].refs
               /\ Stamped(counts)[l].grounding = counts
               /\ Stamped(counts)[l].quality = reports[l].quality
  BY <1>1, <1>2, <1>4
<1>6. \A l \in Langs : Stamped(counts)[l] \in Row \cup {None}
  BY <1>4, <1>5
<1>7. Stamped(counts) \in [Langs -> Row \cup {None}]
  BY <1>6 DEF Stamped
<1> QED
  BY <1>3, <1>4, <1>5, <1>7

LEMMA ScoredFacts ==
  ASSUME TypeOK, NEW card \in Grounding
  PROVE  /\ Scored(card) \in [Langs -> Row \cup {None}]
         /\ \A l \in Langs : reports[l] = None => Scored(card)[l] = None
         /\ \A l \in Langs : reports[l] # None =>
               /\ Scored(card)[l] # None
               /\ Scored(card)[l].draft = reports[l].draft
               /\ Scored(card)[l].refs = reports[l].refs
               /\ Scored(card)[l].grounding = reports[l].grounding
               /\ Scored(card)[l].quality = card
<1>1. \A l \in Langs : reports[l] # None => reports[l] \in Row
  BY DEF TypeOK
<1>2. ASSUME NEW r \in Row, NEW s, s = [r EXCEPT !.quality = card]
      PROVE  /\ s \in Row /\ s.draft = r.draft /\ s.refs = r.refs
             /\ s.grounding = r.grounding /\ s.quality = card
  BY <1>2 DEF Row
<1>3. None \notin Row
  BY ReportRowsAssumption
<1>4. \A l \in Langs :
        /\ reports[l] = None => Scored(card)[l] = None
        /\ reports[l] # None => Scored(card)[l] = [reports[l] EXCEPT !.quality = card]
  BY DEF Scored, Written
<1>5. \A l \in Langs : reports[l] # None =>
               /\ Scored(card)[l] \in Row
               /\ Scored(card)[l].draft = reports[l].draft
               /\ Scored(card)[l].refs = reports[l].refs
               /\ Scored(card)[l].grounding = reports[l].grounding
               /\ Scored(card)[l].quality = card
  BY <1>1, <1>2, <1>4
<1>6. \A l \in Langs : Scored(card)[l] \in Row \cup {None}
  BY <1>4, <1>5
<1>7. Scored(card) \in [Langs -> Row \cup {None}]
  BY <1>6 DEF Scored
<1> QED
  BY <1>3, <1>4, <1>5, <1>7

\* The claims as they are loaded: the rows without their verdicts.
LEMMA BlankFacts ==
  ASSUME NEW cs \in Seq(Claim)
  PROVE  LET seen == [a \in DOMAIN cs |-> Blank(cs[a])]
         IN  /\ seen \in Seq(Claim)
             /\ SameClaims(seen, cs)
             /\ \A p \in Places(seen) : At(seen, p).support = None
<1> DEFINE seen == [a \in DOMAIN cs |-> Blank(cs[a])]
<1>1. /\ Len(cs) \in Nat /\ DOMAIN cs = 1 .. Len(cs)
      /\ \A a \in 1 .. Len(cs) : cs[a] \in Claim
  BY ClaimSeq
<1>2. \A c \in Claim : /\ Blank(c) \in Claim /\ Blank(c).draft = c.draft
                       /\ Len(Blank(c).cites) = Len(c.cites)
                       /\ \A b \in 1 .. Len(c.cites) : Blank(c).cites[b].support = None
  <2> SUFFICES ASSUME NEW c \in Claim
               PROVE  /\ Blank(c) \in Claim /\ Blank(c).draft = c.draft
                      /\ Len(Blank(c).cites) = Len(c.cites)
                      /\ \A b \in 1 .. Len(c.cites) : Blank(c).cites[b].support = None
    OBVIOUS
  <2> DEFINE new(k) == [c.cites[k] EXCEPT !.alive = None, !.support = None]
             cites == [k \in DOMAIN c.cites |-> new(k)]
  <2>1. /\ c.cites \in Seq(Cite) /\ Len(c.cites) \in Nat /\ DOMAIN c.cites = 1 .. Len(c.cites)
        /\ \A k \in 1 .. Len(c.cites) : c.cites[k] \in Cite
    BY DEF Claim
  <2>2. \A k \in 1 .. Len(c.cites) : new(k) \in Cite /\ new(k).support = None
    BY <2>1 DEF Cite
  <2>3. cites \in [1 .. Len(c.cites) -> Cite]
    BY <2>1, <2>2
  <2>4. cites \in Seq(Cite) /\ Len(cites) = Len(c.cites)
    BY <2>1, <2>3, FunctionIsSeq
  <2>5. \A k \in 1 .. Len(c.cites) : cites[k].support = None
    BY <2>1, <2>2
  <2>6. Blank(c) = [c EXCEPT !.cites = cites]
    BY DEF Blank
  <2> HIDE DEF cites
  <2>7. Blank(c) \in Claim /\ Blank(c).draft = c.draft /\ Blank(c).cites = cites
    BY <2>4, <2>6 DEF Claim
  <2> QED
    BY <2>4, <2>5, <2>7
<1>3. seen \in [1 .. Len(cs) -> Claim]
  BY <1>1, <1>2
<1>4. seen \in Seq(Claim) /\ Len(seen) = Len(cs)
  BY <1>1, <1>3, FunctionIsSeq
<1>5. \A a \in 1 .. Len(cs) : seen[a] = Blank(cs[a])
  BY <1>1
<1> HIDE DEF seen
<1>6. SameClaims(seen, cs)
  BY <1>1, <1>2, <1>4, <1>5 DEF SameClaims
<1>7. \A p \in Places(seen) : At(seen, p).support = None
  <2> SUFFICES ASSUME NEW p \in Places(seen) PROVE At(seen, p).support = None
    OBVIOUS
  <2>1a. PICK a \in 1 .. Len(seen) : \E b \in 1 .. Len(seen[a].cites) : p = <<a, b>>
    BY PlacesAre
  <2>1. PICK b \in 1 .. Len(seen[a].cites) : p = <<a, b>>
    BY <2>1a
  <2>2. a \in 1 .. Len(cs) /\ b \in 1 .. Len(cs[a].cites)
    BY <1>4, <1>6 DEF SameClaims
  <2> QED
    BY <1>1, <1>2, <1>5, <2>1, <2>2 DEF At
<1> QED
  BY <1>4, <1>6, <1>7 DEF seen

\* Marking dead claims leaves their drafts and citations.
LEMMA MarkedFacts ==
  ASSUME NEW cs \in Seq(Claim), NEW marked
  PROVE  LET new == [a \in DOMAIN cs |-> [cs[a] EXCEPT !.dead = @ \/ a \in marked]]
         IN  /\ new \in Seq(Claim)
             /\ Len(new) = Len(cs)
             /\ \A a \in 1 .. Len(cs) : new[a].draft = cs[a].draft /\ new[a].cites = cs[a].cites
<1> DEFINE row(a) == [cs[a] EXCEPT !.dead = @ \/ a \in marked]
           new == [a \in DOMAIN cs |-> row(a)]
<1>1. /\ Len(cs) \in Nat /\ DOMAIN cs = 1 .. Len(cs)
      /\ \A a \in 1 .. Len(cs) : cs[a] \in Claim
  BY ClaimSeq
<1>2. ASSUME NEW a \in 1 .. Len(cs)
      PROVE  row(a) \in Claim /\ row(a).draft = cs[a].draft /\ row(a).cites = cs[a].cites
  <2> DEFINE dead == cs[a].dead \/ a \in marked
  <2>1. cs[a] \in Claim /\ dead \in BOOLEAN
    BY <1>1
  <2>2. row(a) = [cs[a] EXCEPT !.dead = dead]
    BY <2>1 DEF Claim
  <2> HIDE DEF dead
  <2> QED
    BY <2>1, <2>2 DEF Claim
<1>3. new \in [1 .. Len(cs) -> Claim]
  BY <1>1, <1>2
<1>4. new \in Seq(Claim) /\ Len(new) = Len(cs)
  BY <1>1, <1>3, FunctionIsSeq
<1>5. \A a \in 1 .. Len(cs) : new[a].draft = cs[a].draft /\ new[a].cites = cs[a].cites
  BY <1>1, <1>2
<1> QED
  BY <1>4, <1>5

LEMMA WiderSeq ==
  ASSUME NEW S, NEW T, S \subseteq T, NEW q \in Seq(S)
  PROVE  q \in Seq(T)
OBVIOUS

\* The writer's list of claims: its first one goes, or loses a citation.
LEMMA LeftFacts ==
  ASSUME NEW S, NEW left \in Seq(SUBSET S), left # <<>>
  PROVE  /\ Len(left) \in Nat /\ Len(left) >= 1
         /\ Head(left) \subseteq S
         /\ Tail(left) \in Seq(SUBSET S)
         /\ \A n : /\ [left EXCEPT ![1] = @ \ {n}] \in Seq(SUBSET S)
                   /\ [left EXCEPT ![1] = @ \ {n}] # <<>>
<1>1. Len(left) \in Nat /\ Len(left) >= 1 /\ left[1] \in SUBSET S /\ Head(left) = left[1]
  OBVIOUS
<1>2. Tail(left) \in Seq(SUBSET S)
  OBVIOUS
<1>3. ASSUME NEW n
      PROVE  /\ [left EXCEPT ![1] = @ \ {n}] \in Seq(SUBSET S)
             /\ [left EXCEPT ![1] = @ \ {n}] # <<>>
  <2>1. left[1] \ {n} \in SUBSET S
    BY <1>1
  <2>2. 1 \in 1 .. Len(left)
    BY <1>1
  <2>3. /\ [left EXCEPT ![1] = left[1] \ {n}] \in Seq(SUBSET S)
        /\ Len([left EXCEPT ![1] = left[1] \ {n}]) = Len(left)
    BY <2>1, <2>2, ExceptSeq
  <2> DEFINE new == [left EXCEPT ![1] = left[1] \ {n}]
  <2>4. new = [left EXCEPT ![1] = @ \ {n}]
    OBVIOUS
  <2> HIDE DEF new
  <2>5. new \in Seq(SUBSET S) /\ Len(new) >= 1
    BY <1>1, <2>3 DEF new
  <2>6. new # <<>>
    BY <2>5
  <2> QED
    BY <2>4, <2>5, <2>6
<1> QED
  BY <1>1, <1>2, <1>3

\* A citation more for the last claim.
Cited(cs, c) == [cs EXCEPT ![Len(cs)].cites = Append(@, c)]

LEMMA CitedFacts ==
  ASSUME NEW cs \in Seq(Claim), cs # <<>>, NEW c \in Cite
  PROVE  /\ Cited(cs, c) \in Seq(Claim)
         /\ Len(Cited(cs, c)) = Len(cs)
         /\ Cited(cs, c) # <<>>
         /\ \A a \in 1 .. Len(cs) :
               /\ Cited(cs, c)[a].draft = cs[a].draft
               /\ Cited(cs, c)[a].cites = IF a = Len(cs) THEN Append(cs[a].cites, c)
                                                         ELSE cs[a].cites
<1> DEFINE n == Len(cs)
           row == [cs[n] EXCEPT !.cites = Append(cs[n].cites, c)]
<1>1. Len(cs) \in Nat /\ n >= 1 /\ n \in 1 .. Len(cs)
  OBVIOUS
<1>2. cs[n] \in Claim /\ cs[n].cites \in Seq(Cite)
  BY <1>1, ClaimSeq
<1>3. Append(cs[n].cites, c) \in Seq(Cite)
  BY <1>2
<1>4. row \in Claim /\ row.draft = cs[n].draft /\ row.cites = Append(cs[n].cites, c)
  BY <1>2, <1>3 DEF Claim
<1>5. Cited(cs, c) = [cs EXCEPT ![n] = row]
  BY DEF Cited
<1> HIDE DEF row, n
<1>6. /\ [cs EXCEPT ![n] = row] \in Seq(Claim)
      /\ Len([cs EXCEPT ![n] = row]) = Len(cs)
      /\ \A a \in 1 .. Len(cs) : [cs EXCEPT ![n] = row][a] = IF a = n THEN row ELSE cs[a]
  BY <1>1, <1>4, ExceptSeq
<1>7. \A a \in 1 .. Len(cs) :
               /\ Cited(cs, c)[a].draft = cs[a].draft
               /\ Cited(cs, c)[a].cites = IF a = Len(cs) THEN Append(cs[a].cites, c)
                                                         ELSE cs[a].cites
  BY <1>4, <1>5, <1>6 DEF n
<1>8. Cited(cs, c) \in Seq(Claim) /\ Len(Cited(cs, c)) = Len(cs)
  BY <1>5, <1>6
<1> QED
  BY <1>1, <1>7, <1>8 DEF n

\* The verdicts that a check leaves, in the pass's hands and in the row.
Given(cite, alive, support) == [cite EXCEPT !.alive = alive, !.support = support]

LEMMA CheckedCite ==
  ASSUME NEW c \in Cite, NEW alive \in BOOLEAN, NEW support \in Verdicts \cup {None}
  PROVE  /\ Given(c, alive, support) \in Cite /\ Checked(c, alive, support) \in Cite
         /\ Given(c, alive, support).alive = alive /\ Checked(c, alive, support).alive = alive
         /\ Given(c, alive, support).support = support
         /\ support # None => Checked(c, alive, support).support = support
         /\ support = None => Checked(c, alive, support).support = c.support
BY DEF Given, Checked, Cite

\* What the check of a citation does.
LEMMA CheckEffect ==
  ASSUME TypeOK, AtWork, CheckCitation
  PROVE  \E ok \in BOOLEAN, noted \in BOOLEAN, alive \in BOOLEAN, support \in Verdicts \cup {None} :
         /\ pc = "check" /\ pc' = "check" /\ work.checked < CheckCap
         /\ work.i \in 1 .. Len(work.seen) /\ work.j \in 1 .. Len(work.seen[work.i].cites)
         /\ work.i \in 1 .. Len(claims) /\ work.j \in 1 .. Len(claims[work.i].cites)
         /\ SameClaims(work.seen, claims)
         /\ support = None \/ work.noted => noted
         /\ work' = [work EXCEPT !.seen = Put(work.seen, work.i, work.j,
                                              Given(work.seen[work.i].cites[work.j], alive, support)),
                                 !.j = work.j + 1, !.checked = work.checked + 1, !.noted = noted]
         /\ claims' = IF ok THEN Put(claims, work.i, work.j,
                                     Checked(claims[work.i].cites[work.j], alive, support))
                            ELSE claims
         /\ lost' = (lost \/ ~ok)
         /\ faults' \in 0 .. MaxFaults
<1>1. PICK ok \in Outcomes, reached \in Outcomes, alive \in BOOLEAN, support \in Judgements \cup {None} :
          /\ support = None => faults < MaxFaults
          /\ alive => reached
          /\ work' = [work EXCEPT !.seen[work.i].cites[work.j] =
                                     [@ EXCEPT !.alive = alive, !.support = support],
                                  !.j = @ + 1, !.checked = @ + 1,
                                  !.noted = @ \/ support = None \/ ~reached]
          /\ claims' = IF ok THEN [claims EXCEPT ![work.i].cites[work.j] = Checked(@, alive, support)]
                             ELSE claims
          /\ lost' = (lost \/ ~ok)
          /\ Count(ok /\ reached /\ support # None)
  BY Zenon DEF CheckCitation
<1>2. /\ ok \in BOOLEAN /\ (ok \/ faults < MaxFaults)
      /\ reached \in BOOLEAN /\ (reached \/ faults < MaxFaults)
  BY OutcomeBound
<1> DEFINE fine == ok /\ reached /\ support # None
           noted == work.noted \/ support = None \/ ~reached
<1>3. fine \in BOOLEAN /\ (fine \/ faults < MaxFaults) /\ Count(fine)
  BY <1>1, <1>2
<1> HIDE DEF fine
<1>4. faults' \in 0 .. MaxFaults
  BY <1>3, CountBound
<1>5. support \in Verdicts \cup {None}
  BY ReportRowsAssumption
<1>6. work \in Work
  BY DEF TypeOK, Work
<1>7. work.i \in Nat /\ work.j \in Nat /\ work.i >= 1 /\ work.j >= 1 /\ pc = "check"
      /\ work.seen \in Seq(Claim) /\ work.noted \in BOOLEAN /\ claims \in Seq(Claim)
      /\ work.i <= Len(work.seen) /\ work.checked < CheckCap
      /\ work.j <= Len(work.seen[work.i].cites)
  BY <1>6 DEF CheckCitation, Checking, AtWork, Verifying, Work, TypeOK
<1>8. work.i \in 1 .. Len(work.seen)
  BY <1>7
<1>9. Len(work.seen[work.i].cites) \in Nat
  BY <1>7, <1>8, ClaimSeq
<1>10. work.j \in 1 .. Len(work.seen[work.i].cites)
  BY <1>7, <1>9
<1>11. SameClaims(work.seen, claims)
  <2>1. work.seen # <<>>
    BY <1>8
  <2> QED
    BY <1>7, <2>1 DEF AtWork, Verifying
<1>12. work.i \in 1 .. Len(claims) /\ work.j \in 1 .. Len(claims[work.i].cites)
  BY <1>8, <1>10, <1>11 DEF SameClaims
<1>13. work' = [work EXCEPT !.seen = Put(work.seen, work.i, work.j,
                                          Given(work.seen[work.i].cites[work.j], alive, support)),
                            !.j = work.j + 1, !.checked = work.checked + 1, !.noted = noted]
  BY <1>1 DEF Put, Given
<1>14. claims' = IF ok THEN Put(claims, work.i, work.j,
                                Checked(claims[work.i].cites[work.j], alive, support))
                       ELSE claims
  BY <1>1 DEF Put
<1>15. noted \in BOOLEAN /\ (support = None \/ work.noted => noted)
  BY <1>7
<1>16. lost' = (lost \/ ~ok) /\ pc' = "check"
  BY <1>1, <1>7 DEF CheckCitation
<1> HIDE DEF noted
<1> QED
  BY <1>2, <1>4, <1>5, <1>7, <1>8, <1>10, <1>11, <1>12, <1>13, <1>14, <1>15, <1>16

LEMMA Typed ==
  ASSUME TypeOK
  PROVE  /\ ckpt.ranked \in Seq(Sources) /\ Len(ckpt.ranked) \in Nat
         /\ ckpt.draft \in Nat /\ ckpt.iteration \in Nat
         /\ ckpt.noted \in BOOLEAN /\ ckpt.retried \in SUBSET Subtopics
         /\ claims \in Seq(Claim) /\ Len(claims) \in Nat
         /\ work \in Work /\ drafts \in Nat /\ lost \in BOOLEAN
         /\ work.draft \in Nat /\ work.left \in Seq(SUBSET Nat) /\ work.open \in BOOLEAN
         /\ work.lang \in Nat /\ work.seen \in Seq(Claim) /\ work.i \in Nat /\ work.j \in Nat
         /\ work.checked \in Nat /\ work.noted \in BOOLEAN
         /\ reports \in [Langs -> Row \cup {None}] /\ faults \in 0 .. MaxFaults
BY DEF TypeOK, Work

\* What a node's step leaves of its local variables.
LEMMA WorkWith ==
  ASSUME NEW w \in Work, NEW noted \in BOOLEAN
  PROVE  /\ \A lang \in Nat : [w EXCEPT !.lang = lang, !.noted = noted] \in Work
         /\ \A draft \in Nat, left \in Seq(SUBSET Nat) :
               [w EXCEPT !.draft = draft, !.left = left, !.noted = noted] \in Work
         /\ \A seen \in Seq(Claim) : [w EXCEPT !.seen = seen, !.noted = noted] \in Work
         /\ \A seen \in Seq(Claim), j \in Nat, checked \in Nat :
               [w EXCEPT !.seen = seen, !.j = j, !.checked = checked, !.noted = noted] \in Work
         /\ \A i \in Nat : [w EXCEPT !.i = i, !.j = 1] \in Work
<1>1. \A lang \in Nat : [w EXCEPT !.lang = lang, !.noted = noted] \in Work
  BY DEF Work
<1>2. \A draft \in Nat, left \in Seq(SUBSET Nat) :
        [w EXCEPT !.draft = draft, !.left = left, !.noted = noted] \in Work
  BY DEF Work
<1>3. \A seen \in Seq(Claim) : [w EXCEPT !.seen = seen, !.noted = noted] \in Work
  BY DEF Work
<1>4. \A seen \in Seq(Claim), j \in Nat, checked \in Nat :
        [w EXCEPT !.seen = seen, !.j = j, !.checked = checked, !.noted = noted] \in Work
  BY DEF Work
<1>5. \A i \in Nat : [w EXCEPT !.i = i, !.j = 1] \in Work
  BY DEF Work
<1> QED
  BY <1>1, <1>2, <1>3, <1>4, <1>5

\* An order of the kept sources is a ranking.
LEMMA RankingTyped ==
  ASSUME NEW keep \in SUBSET Sources, NEW order \in Orders(keep)
  PROVE  order \in Seq(Sources)
<1>1. IsFiniteSet(keep)
  BY ReportRowsAssumption, FS_Subset
<1>2. Cardinality(keep) \in Nat
  BY <1>1, FS_CardinalityType
<1>3. order \in [1 .. Cardinality(keep) -> keep]
  BY DEF Orders
<1> DEFINE n == Cardinality(keep)
<1>4. n \in Nat /\ order \in [1 .. n -> Sources]
  BY <1>2, <1>3
<1> HIDE DEF n
<1> QED
  BY <1>4, FunctionIsSeq

LEMMA RankerTyped ==
  ASSUME TypeOK, Rank
  PROVE  TypeOK'
<1>1. PICK fine \in Outcomes :
       \E ok \in (IF fine THEN {Sources} ELSE SUBSET Sources) :
       \E stored \in (IF fine THEN {ok} ELSE SUBSET ok) :
       \E keep \in SUBSET ok :
       \E order \in Orders(keep) :
          /\ kept' = [s \in Sources |-> IF s \in stored THEN s \in keep ELSE kept[s]]
          /\ ckpt' = [ckpt EXCEPT !.next = "synthesizer", !.ranked = order,
                                  !.noted = @ \/ ok # Sources]
          /\ Count(fine)
  BY Zenon DEF Rank
<1>2. PICK ok \in (IF fine THEN {Sources} ELSE SUBSET Sources) :
       \E stored \in (IF fine THEN {ok} ELSE SUBSET ok) :
       \E keep \in SUBSET ok :
       \E order \in Orders(keep) :
          /\ kept' = [s \in Sources |-> IF s \in stored THEN s \in keep ELSE kept[s]]
          /\ ckpt' = [ckpt EXCEPT !.next = "synthesizer", !.ranked = order,
                                  !.noted = @ \/ ok # Sources]
          /\ Count(fine)
  BY <1>1, Zenon
<1>3. PICK stored \in (IF fine THEN {ok} ELSE SUBSET ok), keep \in SUBSET ok :
       \E order \in Orders(keep) :
          /\ kept' = [s \in Sources |-> IF s \in stored THEN s \in keep ELSE kept[s]]
          /\ ckpt' = [ckpt EXCEPT !.next = "synthesizer", !.ranked = order,
                                  !.noted = @ \/ ok # Sources]
          /\ Count(fine)
  BY <1>2, Zenon
<1>4. PICK order \in Orders(keep) :
          /\ kept' = [s \in Sources |-> IF s \in stored THEN s \in keep ELSE kept[s]]
          /\ ckpt' = [ckpt EXCEPT !.next = "synthesizer", !.ranked = order,
                                  !.noted = @ \/ ok # Sources]
          /\ Count(fine)
  BY <1>3, Zenon
<1>5. ok \in SUBSET Sources
  BY <1>2
<1>6. keep \in SUBSET Sources
  BY <1>5
<1>7. order \in Seq(Sources)
  BY <1>6, RankingTyped
<1>8. fine \in BOOLEAN /\ (fine \/ faults < MaxFaults)
  BY OutcomeBound
<1>9. faults' \in 0 .. MaxFaults
  BY <1>4, <1>8, CountBound
<1>10. kept' \in [Sources -> BOOLEAN \cup {None}]
  <2>1. kept \in [Sources -> BOOLEAN \cup {None}]
    BY DEF TypeOK
  <2>2. \A s \in Sources :
          (IF s \in stored THEN s \in keep ELSE kept[s]) \in BOOLEAN \cup {None}
    BY <2>1
  <2> QED
    BY <1>4, <2>2
<1>11. ckpt' \in [next : {"ranker", "synthesizer", "verifier", "finalizer"},
                  ranked : Seq(Sources), draft : Nat, iteration : Nat,
                  retried : SUBSET Subtopics, noted : BOOLEAN]
  BY <1>4, <1>7 DEF TypeOK
<1> QED
  BY <1>9, <1>10, <1>11 DEF TypeOK, Rank

LEMMA WriterTyped ==
  ASSUME TypeOK, AtWork,
         Write \/ DeleteClaims \/ InsertClaim \/ InsertCitation \/ CloseClaim
         \/ SaveReport \/ SynthesizerReturns
  PROVE  TypeOK'
<1>1. CASE Write
  <2>1. PICK left \in Extracted : \E ok \in (IF left = <<>> THEN Outcomes ELSE {TRUE}) :
          /\ work' = [Idle EXCEPT !.draft = drafts + 1, !.left = left, !.noted = ~ok]
          /\ Count(ok)
    BY <1>1, Zenon DEF Write
  <2>2. PICK ok \in (IF left = <<>> THEN Outcomes ELSE {TRUE}) :
          /\ work' = [Idle EXCEPT !.draft = drafts + 1, !.left = left, !.noted = ~ok]
          /\ Count(ok)
    BY <2>1, Zenon
  <2>3. ok \in BOOLEAN /\ (ok \/ faults < MaxFaults)
    <3>1. ok \in Outcomes \/ ok = TRUE
      BY <2>2
    <3> QED
      BY <3>1, OutcomeBound
  <2>4. faults' \in 0 .. MaxFaults
    BY <2>2, <2>3, CountBound
  <2>5. left \in Seq(SUBSET Nat)
    <3>1. PICK n \in 0 .. MaxClaims : left \in [1 .. n -> SUBSET Numbers]
      BY DEF Extracted
    <3>2. n \in Nat
      BY ReportRowsAssumption
    <3>3. SUBSET Numbers \subseteq SUBSET Nat
      BY DEF Numbers
    <3>4. left \in [1 .. n -> SUBSET Nat]
      BY <3>1, <3>3
    <3> QED
      BY <3>2, <3>4, FunctionIsSeq
  <2>6. work' \in Work
    <3> DEFINE draft == drafts + 1
               noted == ~ok
    <3>1. draft \in Nat /\ noted \in BOOLEAN
      BY Typed
    <3>2. work' = [Idle EXCEPT !.draft = draft, !.left = left, !.noted = noted]
      BY <2>2
    <3> HIDE DEF draft, noted
    <3> QED
      BY <2>5, <3>1, <3>2, IdleIsWork, WorkWith
  <2> QED
    BY <1>1, <2>4, <2>6 DEF TypeOK, Write, Work, rows
<1>2. CASE DeleteClaims
  <2>1. PICK ok \in Outcomes :
          /\ claims' = IF ok THEN <<>> ELSE claims
          /\ work' = [work EXCEPT !.noted = @ \/ ~ok]
          /\ Count(ok)
    BY <1>2, Zenon DEF DeleteClaims
  <2>2. faults' \in 0 .. MaxFaults
    BY <2>1, OutcomeBound, CountBound
  <2>3. work' \in Work
    BY <2>1, Typed DEF Work
  <2>4. claims' \in Seq(Claim)
    BY <2>1, Typed
  <2> QED
    BY <1>2, <2>2, <2>3, <2>4 DEF TypeOK, DeleteClaims, Work
<1>3. CASE InsertClaim
  <2>1. PICK ok \in Outcomes :
          /\ claims' = IF ok THEN Append(claims, NewClaim(work.draft)) ELSE claims
          /\ work' = IF ok THEN [work EXCEPT !.open = TRUE] ELSE [work EXCEPT !.left = Tail(@)]
          /\ lost' = (lost \/ ~ok)
          /\ Count(ok)
    BY <1>3, Zenon DEF InsertClaim
  <2>2. ok \in BOOLEAN /\ faults' \in 0 .. MaxFaults
    BY <2>1, OutcomeBound, CountBound
  <2>3. Tail(work.left) \in Seq(SUBSET Nat)
    BY <1>3, Typed, LeftFacts DEF InsertClaim
  <2>4. work' \in Work
    BY <2>1, <2>3, Typed DEF Work
  <2>5. NewClaim(work.draft) \in Claim
    BY Typed, EmptySeq, NewRowsTyped
  <2>6. claims' \in Seq(Claim)
    BY <2>1, <2>5, Typed
  <2>7. lost' \in BOOLEAN
    BY <2>1
  <2> QED
    BY <1>3, <2>2, <2>4, <2>6, <2>7 DEF TypeOK, InsertClaim, Work
<1>4. CASE InsertCitation
  <2>0. /\ pc = "insert" /\ work.open
        /\ claims # <<>> /\ work.left # <<>> /\ work.left \in Seq(SUBSET Numbers)
    BY <1>4 DEF InsertCitation, AtWork, Writing
  <2>1. PICK n \in Head(work.left) : \E ok \in Outcomes :
          /\ claims' = IF ok THEN Cited(claims, NewCitation(ckpt.ranked[n])) ELSE claims
          /\ work' = [work EXCEPT !.left[1] = @ \ {n}]
          /\ lost' = (lost \/ ~ok)
          /\ Count(ok)
    BY <1>4, Zenon DEF InsertCitation, Cited
  <2>2. PICK ok \in Outcomes :
          /\ claims' = IF ok THEN Cited(claims, NewCitation(ckpt.ranked[n])) ELSE claims
          /\ work' = [work EXCEPT !.left[1] = @ \ {n}]
          /\ lost' = (lost \/ ~ok)
          /\ Count(ok)
    BY <2>1, Zenon
  <2>3. ok \in BOOLEAN /\ faults' \in 0 .. MaxFaults
    BY <2>2, OutcomeBound, CountBound
  <2>4. n \in Numbers
    BY <2>0, LeftFacts
  <2>5. ckpt.ranked[n] \in Sources
    BY <2>4, Typed DEF Numbers
  <2>6. NewCitation(ckpt.ranked[n]) \in Cite
    BY <2>5 DEF NewCitation, Cite
  <2>7. claims' \in Seq(Claim)
    BY <2>0, <2>2, <2>6, Typed, CitedFacts
  <2>8. [work.left EXCEPT ![1] = @ \ {n}] \in Seq(SUBSET Nat)
    BY <2>0, Typed, LeftFacts
  <2>9. work' = [work EXCEPT !.left = [work.left EXCEPT ![1] = @ \ {n}]]
    BY <2>2, Zenon
  <2> DEFINE new == [work.left EXCEPT ![1] = @ \ {n}]
  <2>10. new \in Seq(SUBSET Nat) /\ work' = [work EXCEPT !.left = new]
    BY <2>8, <2>9
  <2> HIDE DEF new
  <2>11. work' \in Work
    BY <2>10, Typed DEF Work
  <2>12. lost' \in BOOLEAN
    BY <2>2
  <2> QED
    BY <1>4, <2>3, <2>7, <2>11, <2>12 DEF TypeOK, InsertCitation, Work
<1>5. CASE CloseClaim
  <2>1. work.left # <<>>
    BY <1>5 DEF CloseClaim, AtWork, Writing
  <2>2. Tail(work.left) \in Seq(SUBSET Nat)
    BY <2>1, Typed, LeftFacts
  <2>3. work' \in Work
    BY <1>5, <2>2, Typed DEF CloseClaim, Work
  <2> QED
    BY <1>5, <2>3 DEF TypeOK, CloseClaim, Work, rows
<1>6. CASE SaveReport
  <2>1. PICK ok \in Outcomes :
          /\ reports' = IF ok THEN [reports EXCEPT ![work.lang] = NewReport(work.draft, ckpt.ranked)]
                              ELSE reports
          /\ work' = [work EXCEPT !.lang = @ + 1, !.noted = @ \/ ~ok]
          /\ Count(ok)
    BY <1>6, Zenon DEF SaveReport
  <2>2. faults' \in 0 .. MaxFaults
    BY <2>1, OutcomeBound, CountBound
  <2>3. work' \in Work
    <3> DEFINE lang == work.lang + 1
               noted == work.noted \/ ~ok
    <3>1. lang \in Nat /\ noted \in BOOLEAN
      BY Typed
    <3>2. work' = [work EXCEPT !.lang = lang, !.noted = noted]
      BY <2>1
    <3> HIDE DEF lang, noted
    <3> QED
      BY <3>1, <3>2, Typed, WorkWith
  <2>4. NewReport(work.draft, ckpt.ranked) \in Row
    BY Typed, NewRowsTyped
  <2>5. reports' \in [Langs -> Row \cup {None}]
    BY <2>1, <2>4, Typed
  <2> QED
    BY <1>6, <2>2, <2>3, <2>5 DEF TypeOK, SaveReport, Work
<1>7. CASE SynthesizerReturns
  <2>1. ckpt' \in [next : {"ranker", "synthesizer", "verifier", "finalizer"},
                   ranked : Seq(Sources), draft : Nat, iteration : Nat,
                   retried : SUBSET Subtopics, noted : BOOLEAN]
    BY <1>7, Typed DEF TypeOK, SynthesizerReturns
  <2>2. work' \in Work
    BY <1>7, IdleIsWork DEF SynthesizerReturns
  <2> QED
    BY <1>7, <2>1, <2>2 DEF TypeOK, SynthesizerReturns, Work, rows
<1> QED
  BY <1>1, <1>2, <1>3, <1>4, <1>5, <1>6, <1>7

\* Where the judgement sends the run.
LEMMA JudgeEffect ==
  ASSUME TypeOK, JudgeDraft
  PROVE  \E next \in {"synthesizer", "ranker", "finalizer"}, retried \in SUBSET Subtopics :
          ckpt' = [ckpt EXCEPT !.next = next, !.retried = retried,
                               !.iteration = ckpt.iteration + 1, !.noted = ckpt.noted \/ work.noted]
<1>1. PICK again \in SUBSET (Subtopics \ ckpt.retried) :
         LET left == ckpt.iteration < MaxReturns
             fatal == DeadClaims # {} /\ left
             evidence == again # {} /\ ~fatal /\ left
         IN  /\ Cardinality(again) <= RetryCap
             /\ Cardinality(again) <= Cardinality(Refuted(work.seen))
             /\ ckpt' = [ckpt EXCEPT !.next = IF fatal THEN "synthesizer"
                                              ELSE IF evidence THEN "ranker" ELSE "finalizer",
                                     !.retried = IF evidence THEN @ \cup again ELSE @,
                                     !.iteration = @ + 1, !.noted = @ \/ work.noted]
  BY Zenon DEF JudgeDraft
<1> DEFINE left == ckpt.iteration < MaxReturns
           fatal == DeadClaims # {} /\ left
           evidence == again # {} /\ ~fatal /\ left
           next == IF fatal THEN "synthesizer" ELSE IF evidence THEN "ranker" ELSE "finalizer"
           retried == IF evidence THEN ckpt.retried \cup again ELSE ckpt.retried
<1>2. ckpt' = [ckpt EXCEPT !.next = next, !.retried = retried,
                           !.iteration = ckpt.iteration + 1, !.noted = ckpt.noted \/ work.noted]
  BY <1>1, Zenon
<1>3. next \in {"synthesizer", "ranker", "finalizer"}
  OBVIOUS
<1>4. retried \in SUBSET Subtopics
  BY Typed
<1> HIDE DEF next, retried
<1> QED
  BY <1>2, <1>3, <1>4

LEMMA VerifierTyped ==
  ASSUME TypeOK, AtWork,
         LoadClaims \/ CheckCitation \/ NextClaim \/ MarkDead \/ Stamp \/ ScoreQuality \/ JudgeDraft
         \/ Cut
  PROVE  TypeOK'
<1>1. CASE LoadClaims
  <2>1. PICK ok \in Outcomes :
          /\ work' = [Idle EXCEPT !.seen = IF ok THEN [i \in DOMAIN claims |-> Blank(claims[i])] ELSE <<>>,
                                  !.noted = ~ok]
          /\ Count(ok)
    BY <1>1, Zenon DEF LoadClaims
  <2>2. ok \in BOOLEAN /\ faults' \in 0 .. MaxFaults
    BY <2>1, OutcomeBound, CountBound
  <2> DEFINE seen == IF ok THEN [i \in DOMAIN claims |-> Blank(claims[i])] ELSE <<>>
  <2>3. seen \in Seq(Claim)
    <3>1. [i \in DOMAIN claims |-> Blank(claims[i])] \in Seq(Claim)
      BY Typed, BlankFacts, Zenon
    <3> QED
      BY <3>1
  <2>4. work' = [Idle EXCEPT !.seen = seen, !.noted = ~ok]
    BY <2>1
  <2> HIDE DEF seen
  <2>5. work' \in Work
    BY <2>2, <2>3, <2>4, IdleIsWork, WorkWith
  <2> QED
    BY <1>1, <2>2, <2>5 DEF TypeOK, LoadClaims, Work, rows
<1>2. CASE CheckCitation
  <2>1. PICK ok \in BOOLEAN, noted \in BOOLEAN, alive \in BOOLEAN, support \in Verdicts \cup {None} :
         /\ work.i \in 1 .. Len(work.seen) /\ work.j \in 1 .. Len(work.seen[work.i].cites)
         /\ work.i \in 1 .. Len(claims) /\ work.j \in 1 .. Len(claims[work.i].cites)
         /\ work' = [work EXCEPT !.seen = Put(work.seen, work.i, work.j,
                                              Given(work.seen[work.i].cites[work.j], alive, support)),
                                 !.j = work.j + 1, !.checked = work.checked + 1, !.noted = noted]
         /\ claims' = IF ok THEN Put(claims, work.i, work.j,
                                     Checked(claims[work.i].cites[work.j], alive, support))
                            ELSE claims
         /\ lost' = (lost \/ ~ok)
         /\ faults' \in 0 .. MaxFaults
    BY <1>2, CheckEffect, Zenon
  <2>2. work.seen[work.i].cites[work.j] \in Cite /\ claims[work.i].cites[work.j] \in Cite
    BY <2>1, Typed, ClaimSeq
  <2>3. /\ Given(work.seen[work.i].cites[work.j], alive, support) \in Cite
        /\ Checked(claims[work.i].cites[work.j], alive, support) \in Cite
    BY <2>2, CheckedCite
  <2>4. claims' \in Seq(Claim)
    BY <2>1, <2>3, Typed, PutFacts
  <2> DEFINE seen == Put(work.seen, work.i, work.j,
                         Given(work.seen[work.i].cites[work.j], alive, support))
  <2>5. seen \in Seq(Claim)
    BY <2>1, <2>3, Typed, PutFacts
  <2>6. work' = [work EXCEPT !.seen = seen, !.j = work.j + 1,
                             !.checked = work.checked + 1, !.noted = noted]
    BY <2>1
  <2> HIDE DEF seen
  <2>7. work' \in Work
    <3> DEFINE j == work.j + 1
               checked == work.checked + 1
    <3>1. j \in Nat /\ checked \in Nat
      BY Typed
    <3>2. work' = [work EXCEPT !.seen = seen, !.j = j, !.checked = checked, !.noted = noted]
      BY <2>6
    <3> HIDE DEF j, checked
    <3> QED
      BY <2>5, <3>1, <3>2, Typed, WorkWith
  <2>8. lost' \in BOOLEAN
    BY <2>1
  <2> QED
    BY <1>2, <2>1, <2>4, <2>7, <2>8 DEF TypeOK, CheckCitation, Work
<1>3. CASE NextClaim
  <2>1. work' \in Work
    <3> DEFINE i == work.i + 1
    <3>1. i \in Nat
      BY Typed
    <3>2. work' = [work EXCEPT !.i = i, !.j = 1]
      BY <1>3 DEF NextClaim
    <3> HIDE DEF i
    <3> QED
      BY <3>1, <3>2, Typed, WorkWith
  <2> QED
    BY <1>3, <2>1 DEF TypeOK, NextClaim, Work, rows
<1>4. CASE MarkDead
  <2>1. PICK ok \in Outcomes : \E marked :
          /\ claims' = [i \in DOMAIN claims |-> [claims[i] EXCEPT !.dead = @ \/ i \in marked]]
          /\ Count(ok)
    BY <1>4, Zenon DEF MarkDead
  <2>2. PICK marked :
          /\ claims' = [i \in DOMAIN claims |-> [claims[i] EXCEPT !.dead = @ \/ i \in marked]]
          /\ Count(ok)
    BY <2>1, Zenon
  <2>3. faults' \in 0 .. MaxFaults
    BY <2>2, OutcomeBound, CountBound
  <2>4. claims' \in Seq(Claim)
    BY <2>2, Typed, MarkedFacts, Zenon
  <2> QED
    BY <1>4, <2>3, <2>4 DEF TypeOK, MarkDead
<1>5. CASE Stamp
  <2>1. PICK ok \in (IF Graded(work.seen) # {} THEN Outcomes ELSE {TRUE}) :
          /\ reports' = IF ok /\ Graded(work.seen) # {} THEN Stamped(CountsOf(work.seen)) ELSE reports
          /\ work' = [work EXCEPT !.noted = @ \/ ~ok]
          /\ Count(ok)
    BY <1>5, Zenon DEF Stamp
  <2>2. ok \in BOOLEAN /\ (ok \/ faults < MaxFaults)
    <3>1. ok \in Outcomes \/ ok = TRUE
      BY <2>1
    <3> QED
      BY <3>1, OutcomeBound
  <2>3. faults' \in 0 .. MaxFaults
    BY <2>1, <2>2, CountBound
  <2>4. Stamped(CountsOf(work.seen)) \in [Langs -> Row \cup {None}]
    <3>1. CountsOf(work.seen) \in Grounding
      BY Typed, CountsAreCounts
    <3> QED
      BY <3>1, StampedFacts
  <2>5. work' \in Work
    BY <2>1, Typed DEF Work
  <2> QED
    BY <1>5, <2>1, <2>3, <2>4, <2>5 DEF TypeOK, Stamp, Work
<1>6. CASE ScoreQuality
  <2>1. PICK ok \in Outcomes :
          /\ reports' = IF ok THEN Scored(Scorecard(work.seen)) ELSE reports
          /\ work' = [work EXCEPT !.noted = @ \/ ~ok]
          /\ Count(ok)
    BY <1>6, Zenon DEF ScoreQuality
  <2>2. faults' \in 0 .. MaxFaults
    BY <2>1, OutcomeBound, CountBound
  <2>3. Scored(Scorecard(work.seen)) \in [Langs -> Row \cup {None}]
    <3>1. Scorecard(work.seen) \in Grounding
      BY Typed, CountsAreCounts DEF Scorecard
    <3> QED
      BY <3>1, ScoredFacts
  <2>4. work' \in Work
    BY <2>1, Typed DEF Work
  <2> QED
    BY <1>6, <2>1, <2>2, <2>3, <2>4 DEF TypeOK, ScoreQuality, Work
<1>7. CASE JudgeDraft
  <2>1. PICK next \in {"synthesizer", "ranker", "finalizer"}, retried \in SUBSET Subtopics :
          ckpt' = [ckpt EXCEPT !.next = next, !.retried = retried,
                               !.iteration = ckpt.iteration + 1, !.noted = ckpt.noted \/ work.noted]
    BY <1>7, JudgeEffect
  <2>2. ckpt' \in [next : {"ranker", "synthesizer", "verifier", "finalizer"},
                   ranked : Seq(Sources), draft : Nat, iteration : Nat,
                   retried : SUBSET Subtopics, noted : BOOLEAN]
    <3> DEFINE iteration == ckpt.iteration + 1
               noted == ckpt.noted \/ work.noted
    <3>1. iteration \in Nat /\ noted \in BOOLEAN
      BY Typed
    <3>2. ckpt' = [ckpt EXCEPT !.next = next, !.retried = retried,
                               !.iteration = iteration, !.noted = noted]
      BY <2>1
    <3> HIDE DEF iteration, noted
    <3> QED
      BY <3>1, <3>2 DEF TypeOK
  <2>3. work' \in Work
    BY <1>7, IdleIsWork DEF JudgeDraft
  <2> QED
    BY <1>7, <2>2, <2>3 DEF TypeOK, JudgeDraft, Work, rows
<1>8. CASE Cut
  <2>1. work' \in Work
    BY <1>8, IdleIsWork DEF Cut
  <2>2. faults' \in 0 .. MaxFaults
    BY <1>8, ReportRowsAssumption DEF Cut, TypeOK
  <2> QED
    BY <1>8, <2>1, <2>2 DEF TypeOK, Cut, Work, rows
<1> QED
  BY <1>1, <1>2, <1>3, <1>4, <1>5, <1>6, <1>7, <1>8

LEMMA TypeStep ==
  ASSUME TypeOK, AtWork, [Next]_vars
  PROVE  TypeOK'
<1>1. CASE Next
  BY <1>1, RankerTyped, WriterTyped, VerifierTyped, Zenon DEF Next
<1>2. CASE UNCHANGED vars
  BY <1>2 DEF TypeOK, vars, rows
<1> QED
  BY <1>1, <1>2

-----------------------------------------------------------------------------
(***************************************************************************)
(* What the steps do to the rows                                           *)
(***************************************************************************)
LEMMA SameClaimsChain ==
  ASSUME NEW a, NEW b, NEW c, NEW d, SameClaims(a, b), SameClaims(b, c), SameClaims(d, c)
  PROVE  SameClaims(a, d)
BY DEF SameClaims

LEMMA CitationEffect ==
  ASSUME TypeOK, AtWork, InsertCitation
  PROVE  /\ pc = "insert" /\ pc' = "insert" /\ work.open /\ claims # <<>>
         /\ UNCHANGED <<ckpt, kept, reports, drafts>>
         /\ \E ok \in BOOLEAN, left \in Seq(SUBSET Numbers), c \in Cite :
               /\ left # <<>> /\ c = NewCitation(c.src) /\ c.src \in Ranked(ckpt.ranked)
               /\ claims' = IF ok THEN Cited(claims, c) ELSE claims
               /\ work' = [work EXCEPT !.left = left]
               /\ lost' = (lost \/ ~ok)
               /\ faults' \in 0 .. MaxFaults
<1>0. /\ pc = "insert" /\ pc' = "insert" /\ work.open
      /\ claims # <<>> /\ work.left # <<>> /\ work.left \in Seq(SUBSET Numbers)
      /\ UNCHANGED <<ckpt, kept, reports, drafts>>
  BY DEF InsertCitation, AtWork, Writing
<1>1. PICK n \in Head(work.left) : \E ok \in Outcomes :
          /\ claims' = IF ok THEN Cited(claims, NewCitation(ckpt.ranked[n])) ELSE claims
          /\ work' = [work EXCEPT !.left[1] = @ \ {n}]
          /\ lost' = (lost \/ ~ok)
          /\ Count(ok)
  BY Zenon DEF InsertCitation, Cited
<1>2. PICK ok \in Outcomes :
          /\ claims' = IF ok THEN Cited(claims, NewCitation(ckpt.ranked[n])) ELSE claims
          /\ work' = [work EXCEPT !.left[1] = @ \ {n}]
          /\ lost' = (lost \/ ~ok)
          /\ Count(ok)
  BY <1>1, Zenon
<1>3. ok \in BOOLEAN /\ faults' \in 0 .. MaxFaults
  BY <1>2, OutcomeBound, CountBound
<1>4. n \in Numbers
  BY <1>0, LeftFacts
<1>5. ckpt.ranked[n] \in Sources
  BY <1>4, Typed DEF Numbers
<1> DEFINE c == NewCitation(ckpt.ranked[n])
<1>6. c \in Cite /\ c = NewCitation(c.src) /\ c.src \in Ranked(ckpt.ranked)
  BY <1>4, <1>5 DEF NewCitation, Cite, Ranked, Numbers
<1> DEFINE left == [work.left EXCEPT ![1] = @ \ {n}]
<1>7. left \in Seq(SUBSET Numbers) /\ left # <<>>
  BY <1>0, LeftFacts
<1>8. work' = [work EXCEPT !.left = left]
  BY <1>2, Zenon
<1>9. claims' = IF ok THEN Cited(claims, c) ELSE claims
  BY <1>2
<1> HIDE DEF c, left
<1> QED
  BY <1>0, <1>2, <1>3, <1>6, <1>7, <1>8, <1>9

LEMMA MarkEffect ==
  ASSUME TypeOK, MarkDead
  PROVE  /\ pc = "check" /\ pc' = "stamp" /\ ~Checking
         /\ UNCHANGED <<ckpt, kept, reports, work, drafts, lost>>
         /\ faults' \in 0 .. MaxFaults
         /\ claims' \in Seq(Claim)
         /\ Len(claims') = Len(claims)
         /\ \A a \in 1 .. Len(claims) :
               claims'[a].draft = claims[a].draft /\ claims'[a].cites = claims[a].cites
<1>1. PICK ok \in Outcomes : \E marked :
          /\ claims' = [i \in DOMAIN claims |-> [claims[i] EXCEPT !.dead = @ \/ i \in marked]]
          /\ Count(ok)
  BY Zenon DEF MarkDead
<1>2. PICK marked :
          /\ claims' = [i \in DOMAIN claims |-> [claims[i] EXCEPT !.dead = @ \/ i \in marked]]
          /\ Count(ok)
  BY <1>1, Zenon
<1>3. faults' \in 0 .. MaxFaults
  BY <1>2, OutcomeBound, CountBound
<1> DEFINE new == [i \in DOMAIN claims |-> [claims[i] EXCEPT !.dead = @ \/ i \in marked]]
<1>4. /\ new \in Seq(Claim)
      /\ Len(new) = Len(claims)
      /\ \A a \in 1 .. Len(claims) :
            new[a].draft = claims[a].draft /\ new[a].cites = claims[a].cites
  <2>1. claims \in Seq(Claim)
    BY Typed
  <2> QED
    BY <2>1, MarkedFacts, Zenon
<1>5. claims' = new
  BY <1>2
<1> HIDE DEF new
<1> QED
  BY <1>3, <1>4, <1>5 DEF MarkDead

LEMMA LoadEffect ==
  ASSUME TypeOK, LoadClaims
  PROVE  /\ pc' = "check" /\ ckpt.next = "verifier"
         /\ UNCHANGED <<ckpt, kept, claims, reports, drafts, lost>>
         /\ faults' \in 0 .. MaxFaults
         /\ work'.i = 1 /\ work'.j = 1 /\ work'.checked = 0
         /\ work'.seen \in Seq(Claim)
         /\ SameClaims(work'.seen, claims) \/ (work'.seen = <<>> /\ work'.noted)
         /\ \A p \in Places(work'.seen) : At(work'.seen, p).support = None
<1>1. PICK ok \in Outcomes :
          /\ work' = [Idle EXCEPT !.seen = IF ok THEN [i \in DOMAIN claims |-> Blank(claims[i])] ELSE <<>>,
                                  !.noted = ~ok]
          /\ Count(ok)
  BY Zenon DEF LoadClaims
<1>2. ok \in BOOLEAN /\ faults' \in 0 .. MaxFaults
  BY <1>1, OutcomeBound, CountBound
<1> DEFINE read == [i \in DOMAIN claims |-> Blank(claims[i])]
           seen == IF ok THEN read ELSE <<>>
<1>3. /\ read \in Seq(Claim)
      /\ SameClaims(read, claims)
      /\ \A p \in Places(read) : At(read, p).support = None
  BY Typed, BlankFacts, Zenon
<1>4. work' = [Idle EXCEPT !.seen = seen, !.noted = ~ok]
  BY <1>1
<1> HIDE DEF read
<1>5. /\ seen \in Seq(Claim)
      /\ SameClaims(seen, claims) \/ (seen = <<>> /\ ~ok)
  BY <1>2, <1>3
<1>6. \A p \in Places(seen) : At(seen, p).support = None
  BY <1>3 DEF Places
<1> HIDE DEF seen
<1>7. /\ work'.seen = seen /\ work'.noted = ~ok
      /\ work'.i = 1 /\ work'.j = 1 /\ work'.checked = 0
  BY <1>4 DEF Idle
<1> QED
  BY <1>2, <1>5, <1>6, <1>7 DEF LoadClaims, rows

LEMMA StampEffect ==
  ASSUME TypeOK, Stamp
  PROVE  /\ pc = "stamp" /\ pc' = "score"
         /\ UNCHANGED <<ckpt, kept, claims, drafts, lost>>
         /\ \E ok \in BOOLEAN :
               /\ reports' = IF ok /\ Graded(work.seen) # {} THEN Stamped(CountsOf(work.seen))
                                                            ELSE reports
               /\ work' = [work EXCEPT !.noted = work.noted \/ ~ok]
<1>1. PICK ok \in (IF Graded(work.seen) # {} THEN Outcomes ELSE {TRUE}) :
          /\ reports' = IF ok /\ Graded(work.seen) # {} THEN Stamped(CountsOf(work.seen)) ELSE reports
          /\ work' = [work EXCEPT !.noted = @ \/ ~ok]
          /\ Count(ok)
  BY Zenon DEF Stamp
<1>2. ok \in BOOLEAN
  <2>1. ok \in Outcomes \/ ok = TRUE
    BY <1>1
  <2> QED
    BY <2>1, OutcomeBound
<1> QED
  BY <1>1, <1>2, Zenon DEF Stamp

LEMMA ScoreEffect ==
  ASSUME TypeOK, ScoreQuality
  PROVE  /\ pc = "score" /\ pc' = "judge"
         /\ UNCHANGED <<ckpt, kept, claims, drafts, lost>>
         /\ \E ok \in BOOLEAN :
               /\ reports' = IF ok THEN Scored(Scorecard(work.seen)) ELSE reports
               /\ work' = [work EXCEPT !.noted = work.noted \/ ~ok]
<1>1. PICK ok \in Outcomes :
          /\ reports' = IF ok THEN Scored(Scorecard(work.seen)) ELSE reports
          /\ work' = [work EXCEPT !.noted = @ \/ ~ok]
          /\ Count(ok)
  BY Zenon DEF ScoreQuality
<1>2. ok \in BOOLEAN
  BY OutcomeBound
<1> QED
  BY <1>1, <1>2, Zenon DEF ScoreQuality

-----------------------------------------------------------------------------
(***************************************************************************)
(* The invariant, part by part                                             *)
(***************************************************************************)
LEMMA AtWorkStep ==
  ASSUME TypeOK, AtWork, [Next]_vars
  PROVE  AtWork'
<1> USE DEF Writing, Verifying
<1>1. CASE Rank
  BY <1>1 DEF AtWork, Rank
<1>2. CASE Write
  <2>1. PICK left \in Extracted : \E ok \in (IF left = <<>> THEN Outcomes ELSE {TRUE}) :
          /\ work' = [Idle EXCEPT !.draft = drafts + 1, !.left = left, !.noted = ~ok]
          /\ Count(ok)
    BY <1>2, Zenon DEF Write
  <2>2. left \in Seq(SUBSET Numbers)
    <3>1. PICK n \in 0 .. MaxClaims : left \in [1 .. n -> SUBSET Numbers]
      BY DEF Extracted
    <3>2. n \in Nat
      BY ReportRowsAssumption
    <3> QED
      BY <3>1, <3>2, FunctionIsSeq
  <2>3. work'.left = left /\ work'.lang = 0 /\ work'.open = FALSE
    BY <2>1 DEF Idle
  <2>4. pc' = "delete" /\ ckpt' = ckpt /\ ckpt.next = "synthesizer"
    BY <1>2 DEF Write
  <2>5. 0 <= NLangs
    BY LangsAre
  <2> QED
    BY <2>2, <2>3, <2>4, <2>5 DEF AtWork, Numbers
<1>3. CASE DeleteClaims
  <2>1. PICK ok \in Outcomes : work' = [work EXCEPT !.noted = @ \/ ~ok]
    BY <1>3, Zenon DEF DeleteClaims
  <2>2. /\ work'.left = work.left /\ work'.lang = work.lang /\ work'.open = work.open
    BY <2>1, Typed DEF Work
  <2>3. pc = "delete" /\ pc' = "insert" /\ ckpt' = ckpt
    BY <1>3 DEF DeleteClaims
  <2> QED
    BY <2>2, <2>3, Typed DEF AtWork, Numbers
<1>4. CASE InsertClaim
  <2>1. PICK ok \in Outcomes :
          /\ claims' = IF ok THEN Append(claims, NewClaim(work.draft)) ELSE claims
          /\ work' = IF ok THEN [work EXCEPT !.open = TRUE] ELSE [work EXCEPT !.left = Tail(@)]
    BY <1>4, Zenon DEF InsertClaim
  <2>2. /\ pc = "insert" /\ pc' = "insert" /\ ckpt' = ckpt /\ ~work.open /\ work.left # <<>>
        /\ work.left \in Seq(SUBSET Numbers) /\ work.lang <= NLangs /\ ckpt.next = "synthesizer"
    BY <1>4 DEF InsertClaim, AtWork
  <2>3. CASE ok
    <3>1. /\ work'.left = work.left /\ work'.lang = work.lang
      BY <2>1, <2>3, Typed DEF Work
    <3>2. claims' # <<>>
      BY <2>1, <2>3, Typed
    <3> QED
      BY <2>2, <3>1, <3>2 DEF AtWork, Numbers
  <2>4. CASE ~ok
    <3>1. /\ work'.left = Tail(work.left) /\ work'.lang = work.lang /\ work'.open = work.open
      BY <2>1, <2>4, Typed DEF Work
    <3>2. Tail(work.left) \in Seq(SUBSET Numbers)
      BY <2>2, LeftFacts
    <3> QED
      BY <2>2, <3>1, <3>2 DEF AtWork, Numbers
  <2> QED
    BY <2>3, <2>4
<1>5. CASE InsertCitation
  <2>1. PICK ok \in BOOLEAN, left \in Seq(SUBSET Numbers), c \in Cite :
               /\ left # <<>>
               /\ claims' = IF ok THEN Cited(claims, c) ELSE claims
               /\ work' = [work EXCEPT !.left = left]
    BY <1>5, CitationEffect, Zenon
  <2>2. /\ pc = "insert" /\ pc' = "insert" /\ ckpt' = ckpt /\ claims # <<>>
        /\ work.lang <= NLangs /\ ckpt.next = "synthesizer"
    BY <1>5, CitationEffect DEF AtWork
  <2>3. work'.left = left /\ work'.lang = work.lang
    BY <2>1, Typed DEF Work
  <2>4. claims' # <<>>
    BY <2>1, <2>2, Typed, CitedFacts
  <2> QED
    BY <2>1, <2>2, <2>3, <2>4 DEF AtWork, Numbers
<1>6. CASE CloseClaim
  <2>1. /\ pc = "insert" /\ pc' = "insert" /\ ckpt' = ckpt /\ work.left # <<>>
        /\ work.left \in Seq(SUBSET Numbers) /\ work.lang <= NLangs /\ ckpt.next = "synthesizer"
    BY <1>6 DEF CloseClaim, AtWork
  <2>2. /\ work'.left = Tail(work.left) /\ work'.lang = work.lang /\ work'.open = FALSE
    BY <1>6, Typed DEF CloseClaim, Work
  <2>3. Tail(work.left) \in Seq(SUBSET Numbers)
    BY <2>1, LeftFacts
  <2> QED
    BY <2>1, <2>2, <2>3 DEF AtWork, Numbers
<1>7. CASE SaveReport
  <2>1. PICK ok \in Outcomes : work' = [work EXCEPT !.lang = @ + 1, !.noted = @ \/ ~ok]
    BY <1>7, Zenon DEF SaveReport
  <2>2. /\ pc = "insert" /\ pc' = "insert" /\ ckpt' = ckpt /\ work.left = <<>> /\ work.lang \in Langs
        /\ work.left \in Seq(SUBSET Numbers) /\ ~work.open /\ ckpt.next = "synthesizer"
    BY <1>7 DEF SaveReport, AtWork
  <2>3. /\ work'.left = work.left /\ work'.lang = work.lang + 1 /\ work'.open = work.open
    BY <2>1, Typed DEF Work
  <2>4. work.lang + 1 <= NLangs
    BY <2>2, Typed, LangsAre
  <2> QED
    BY <2>2, <2>3, <2>4 DEF AtWork, Numbers
<1>8. CASE SynthesizerReturns
  BY <1>8 DEF AtWork, SynthesizerReturns
<1>9. CASE LoadClaims
  <2>1. /\ pc' = "check" /\ ckpt' = ckpt /\ ckpt.next = "verifier" /\ claims' = claims
        /\ work'.i = 1 /\ work'.j = 1
        /\ SameClaims(work'.seen, claims) \/ (work'.seen = <<>> /\ work'.noted)
    BY <1>9, LoadEffect
  <2> QED
    BY <2>1 DEF AtWork
<1>10. CASE CheckCitation
  <2>1. PICK ok \in BOOLEAN, noted \in BOOLEAN, alive \in BOOLEAN, support \in Verdicts \cup {None} :
         /\ pc = "check" /\ pc' = "check"
         /\ work.i \in 1 .. Len(work.seen) /\ work.j \in 1 .. Len(work.seen[work.i].cites)
         /\ work.i \in 1 .. Len(claims) /\ work.j \in 1 .. Len(claims[work.i].cites)
         /\ SameClaims(work.seen, claims)
         /\ work' = [work EXCEPT !.seen = Put(work.seen, work.i, work.j,
                                              Given(work.seen[work.i].cites[work.j], alive, support)),
                                 !.j = work.j + 1, !.checked = work.checked + 1, !.noted = noted]
         /\ claims' = IF ok THEN Put(claims, work.i, work.j,
                                     Checked(claims[work.i].cites[work.j], alive, support))
                            ELSE claims
    BY <1>10, CheckEffect, Zenon
  <2>2. work.seen[work.i].cites[work.j] \in Cite /\ claims[work.i].cites[work.j] \in Cite
    BY <2>1, Typed, ClaimSeq
  <2>3. /\ Given(work.seen[work.i].cites[work.j], alive, support) \in Cite
        /\ Checked(claims[work.i].cites[work.j], alive, support) \in Cite
    BY <2>2, CheckedCite
  <2> DEFINE seen == Put(work.seen, work.i, work.j,
                         Given(work.seen[work.i].cites[work.j], alive, support))
  <2>4. SameClaims(seen, work.seen)
    BY <2>1, <2>3, Typed, PutFacts
  <2>5. SameClaims(claims', claims)
    <3>1. SameClaims(claims, claims)
      BY DEF SameClaims
    <3> QED
      BY <2>1, <2>3, <3>1, Typed, PutFacts
  <2>6. SameClaims(seen, claims')
    BY <2>1, <2>4, <2>5, SameClaimsChain
  <2>7. work' = [work EXCEPT !.seen = seen, !.j = work.j + 1,
                             !.checked = work.checked + 1, !.noted = noted]
    BY <2>1
  <2> HIDE DEF seen
  <2>8. work'.seen = seen /\ work'.i = work.i /\ work'.j = work.j + 1
    BY <2>7, Typed DEF Work
  <2>9. ckpt' = ckpt /\ ckpt.next = "verifier" /\ work.i >= 1 /\ work.j + 1 >= 1
    BY <1>10, <2>1, Typed DEF CheckCitation, AtWork
  <2> QED
    BY <2>1, <2>6, <2>8, <2>9 DEF AtWork
<1>11. CASE NextClaim
  <2>1. /\ work'.seen = work.seen /\ work'.i = work.i + 1 /\ work'.j = 1
        /\ work'.noted = work.noted
    BY <1>11, Typed DEF NextClaim, Work
  <2>2. work.i + 1 >= 1
    BY Typed
  <2> QED
    BY <1>11, <2>1, <2>2 DEF AtWork, NextClaim, Checking, rows
<1>12. CASE MarkDead
  <2>1. SameClaims(work.seen, claims) => SameClaims(work.seen, claims')
    BY <1>12, MarkEffect DEF SameClaims
  <2> QED
    BY <1>12, <2>1, MarkEffect DEF AtWork
<1>13. CASE Stamp
  <2>1. PICK ok \in BOOLEAN : work' = [work EXCEPT !.noted = work.noted \/ ~ok]
    BY <1>13, StampEffect, Zenon
  <2>2. /\ work'.seen = work.seen /\ work'.i = work.i /\ work'.j = work.j
        /\ work.noted => work'.noted
    BY <2>1, Typed DEF Work
  <2> QED
    BY <1>13, <2>2, StampEffect DEF AtWork
<1>14. CASE ScoreQuality
  <2>1. PICK ok \in BOOLEAN : work' = [work EXCEPT !.noted = work.noted \/ ~ok]
    BY <1>14, ScoreEffect, Zenon
  <2>2. /\ work'.seen = work.seen /\ work'.i = work.i /\ work'.j = work.j
        /\ work.noted => work'.noted
    BY <2>1, Typed DEF Work
  <2> QED
    BY <1>14, <2>2, ScoreEffect DEF AtWork
<1>15. CASE JudgeDraft
  BY <1>15 DEF AtWork, JudgeDraft
<1>16. CASE Cut
  BY <1>16 DEF AtWork, Cut
<1>17. CASE UNCHANGED vars
  BY <1>17 DEF AtWork, vars, rows, Numbers
<1> QED
  BY <1>1, <1>2, <1>3, <1>4, <1>5, <1>6, <1>7, <1>8, <1>9, <1>10, <1>11, <1>12, <1>13, <1>14,
     <1>15, <1>16, <1>17, Zenon DEF Next

\* An error that the checkpoint holds stays in it.
LEMMA NotedStays ==
  ASSUME TypeOK, [Next]_vars
  PROVE  ckpt.noted => ckpt'.noted
<1>1. CASE Rank
  <2>1. PICK fine \in Outcomes :
       \E ok \in (IF fine THEN {Sources} ELSE SUBSET Sources) :
       \E stored \in (IF fine THEN {ok} ELSE SUBSET ok) :
       \E keep \in SUBSET ok :
       \E order \in Orders(keep) :
          ckpt' = [ckpt EXCEPT !.next = "synthesizer", !.ranked = order, !.noted = @ \/ ok # Sources]
    BY <1>1, Zenon DEF Rank
  <2>2. PICK ok, order :
          ckpt' = [ckpt EXCEPT !.next = "synthesizer", !.ranked = order, !.noted = @ \/ ok # Sources]
    BY <2>1, Zenon
  <2> QED
    BY <2>2 DEF TypeOK
<1>2. CASE SynthesizerReturns
  BY <1>2, Typed DEF TypeOK, SynthesizerReturns
<1>3. CASE JudgeDraft
  <2>1. PICK next \in {"synthesizer", "ranker", "finalizer"}, retried \in SUBSET Subtopics :
          ckpt' = [ckpt EXCEPT !.next = next, !.retried = retried,
                               !.iteration = ckpt.iteration + 1, !.noted = ckpt.noted \/ work.noted]
    BY <1>3, JudgeEffect
  <2> DEFINE iteration == ckpt.iteration + 1
  <2>2. ckpt' = [ckpt EXCEPT !.next = next, !.retried = retried,
                             !.iteration = iteration, !.noted = ckpt.noted \/ work.noted]
    BY <2>1
  <2> HIDE DEF iteration
  <2> QED
    BY <2>2 DEF TypeOK
<1>4. CASE Write \/ DeleteClaims \/ InsertClaim \/ InsertCitation \/ CloseClaim
  BY <1>4 DEF Write, DeleteClaims, InsertClaim, InsertCitation, CloseClaim
<1>5. CASE SaveReport \/ LoadClaims \/ CheckCitation \/ NextClaim \/ MarkDead
  <2>1. ckpt' = ckpt
    BY <1>5, Zenon DEF SaveReport, LoadClaims, CheckCitation, NextClaim, MarkDead
  <2> QED
    BY <2>1
<1>6. CASE Stamp \/ ScoreQuality \/ Cut \/ UNCHANGED vars
  BY <1>6 DEF Stamp, ScoreQuality, Cut, vars
<1> QED
  BY <1>1, <1>2, <1>3, <1>4, <1>5, <1>6, Zenon DEF Next

LEMMA DraftingStep ==
  ASSUME TypeOK, AtWork, Drafting, [Next]_vars
  PROVE  Drafting'
<1>1. CASE DeleteClaims
  <2>1. PICK ok \in Outcomes :
          /\ claims' = IF ok THEN <<>> ELSE claims
          /\ work' = [work EXCEPT !.noted = @ \/ ~ok]
    BY <1>1, Zenon DEF DeleteClaims
  <2>2. work'.lang = work.lang /\ (~work'.noted => ok)
    BY <2>1, OutcomeBound, Typed DEF Work
  <2>3. work.lang = 0
    BY <1>1 DEF DeleteClaims, AtWork, Writing
  <2>4. \A l \in Langs : ~(l < 0)
    BY LangsAre
  <2>5. ~work'.noted => claims' = <<>>
    BY <2>1, <2>2
  <2>6. 1 .. Len(<<>>) = {}
    OBVIOUS
  <2> QED
    BY <2>2, <2>3, <2>4, <2>5, <2>6 DEF Drafting
<1>2. CASE InsertClaim
  <2>1. PICK ok \in Outcomes :
          /\ claims' = IF ok THEN Append(claims, NewClaim(work.draft)) ELSE claims
          /\ work' = IF ok THEN [work EXCEPT !.open = TRUE] ELSE [work EXCEPT !.left = Tail(@)]
    BY <1>2, Zenon DEF InsertClaim
  <2>2. pc = "insert" /\ pc' = "insert" /\ ckpt' = ckpt /\ reports' = reports
    BY <1>2 DEF InsertClaim
  <2>3. work'.draft = work.draft /\ work'.lang = work.lang /\ work'.noted = work.noted
    BY <2>1, Typed DEF Work
  <2>4. ASSUME ~work.noted, NEW a \in 1 .. Len(claims')
        PROVE  claims'[a].draft = work.draft /\ Unverified(claims'[a])
    <3>1. CASE ok /\ a = Len(claims) + 1
      <4>1. claims'[a] = NewClaim(work.draft)
        BY <2>1, <3>1, Typed
      <4>2. Len(NewClaim(work.draft).cites) = 0 /\ NewClaim(work.draft).draft = work.draft
        BY Typed, EmptySeq, NewRowsTyped
      <4> QED
        BY <4>1, <4>2 DEF Unverified
    <3>2. CASE ~(ok /\ a = Len(claims) + 1)
      <4>1. a \in 1 .. Len(claims) /\ claims'[a] = claims[a]
        BY <2>1, <2>4, <3>2, Typed
      <4> QED
        BY <2>2, <2>4, <4>1 DEF Drafting
    <3> QED
      BY <3>1, <3>2
  <2>5. ~work.noted => \A l \in Langs : l < work.lang => reports[l] = NewReport(work.draft, ckpt.ranked)
    BY <2>2 DEF Drafting
  <2> QED
    BY <2>2, <2>3, <2>4, <2>5 DEF Drafting
<1>3. CASE InsertCitation
  <2>1. PICK ok \in BOOLEAN, left \in Seq(SUBSET Numbers), c \in Cite :
               /\ c = NewCitation(c.src)
               /\ claims' = IF ok THEN Cited(claims, c) ELSE claims
               /\ work' = [work EXCEPT !.left = left]
    BY <1>3, CitationEffect, Zenon
  <2>2. /\ pc = "insert" /\ pc' = "insert" /\ ckpt' = ckpt /\ reports' = reports /\ claims # <<>>
    BY <1>3, CitationEffect
  <2>3. work'.draft = work.draft /\ work'.lang = work.lang /\ work'.noted = work.noted
    BY <2>1, Typed DEF Work
  <2>4. ASSUME ~work.noted
        PROVE  \A a \in 1 .. Len(claims') : claims'[a].draft = work.draft /\ Unverified(claims'[a])
    <3>1. \A a \in 1 .. Len(claims) : claims[a].draft = work.draft /\ Unverified(claims[a])
      BY <2>2, <2>4 DEF Drafting
    <3>2. CASE ~ok
      BY <2>1, <3>1, <3>2
    <3>3. CASE ok
      <4>1. /\ Len(claims') = Len(claims)
            /\ \A a \in 1 .. Len(claims) :
                  /\ claims'[a].draft = claims[a].draft
                  /\ claims'[a].cites = IF a = Len(claims) THEN Append(claims[a].cites, c)
                                                           ELSE claims[a].cites
        BY <2>1, <2>2, <3>3, Typed, CitedFacts
      <4>2. ASSUME NEW a \in 1 .. Len(claims) PROVE Unverified(claims'[a])
        <5>1. CASE a # Len(claims)
          BY <3>1, <4>1, <5>1 DEF Unverified
        <5>2. CASE a = Len(claims)
          <6>1. claims'[a].cites = Append(claims[a].cites, c)
            BY <4>1, <5>2
          <6>2. claims[a].cites \in Seq(Cite) /\ Len(claims[a].cites) \in Nat
            BY Typed, ClaimSeq
          <6>3. \A k \in 1 .. Len(claims[a].cites) :
                   claims[a].cites[k] = NewCitation(claims[a].cites[k].src)
            BY <3>1 DEF Unverified
          <6> DEFINE q == claims[a].cites
          <6>4. /\ q \in Seq(Cite) /\ Len(q) \in Nat
                /\ \A k \in 1 .. Len(q) : q[k] = NewCitation(q[k].src)
            BY <6>2, <6>3
          <6>5. claims'[a].cites = Append(q, c)
            BY <6>1
          <6> HIDE DEF q
          <6>6. \A k \in 1 .. Len(Append(q, c)) :
                   \/ k \in 1 .. Len(q) /\ Append(q, c)[k] = q[k]
                   \/ Append(q, c)[k] = c
            BY <6>4
          <6>7. \A k \in 1 .. Len(Append(q, c)) :
                   Append(q, c)[k] = NewCitation(Append(q, c)[k].src)
            BY <2>1, <6>4, <6>6
          <6> QED
            BY <6>5, <6>7 DEF Unverified
        <5> QED
          BY <5>1, <5>2
      <4> QED
        BY <3>1, <4>1, <4>2
    <3> QED
      BY <3>2, <3>3
  <2>5. ~work.noted => \A l \in Langs : l < work.lang => reports[l] = NewReport(work.draft, ckpt.ranked)
    BY <2>2 DEF Drafting
  <2> QED
    BY <2>2, <2>3, <2>4, <2>5 DEF Drafting
<1>4. CASE CloseClaim
  <2>1. work'.draft = work.draft /\ work'.lang = work.lang /\ work'.noted = work.noted
    BY <1>4, Typed DEF CloseClaim, Work
  <2> QED
    BY <1>4, <2>1 DEF Drafting, CloseClaim, rows
<1>5. CASE SaveReport
  <2>1. PICK ok \in Outcomes :
          /\ reports' = IF ok THEN [reports EXCEPT ![work.lang] = NewReport(work.draft, ckpt.ranked)]
                              ELSE reports
          /\ work' = [work EXCEPT !.lang = @ + 1, !.noted = @ \/ ~ok]
    BY <1>5, Zenon DEF SaveReport
  <2>2. /\ work'.draft = work.draft /\ work'.lang = work.lang + 1
        /\ ~work'.noted => ok /\ ~work.noted
    BY <2>1, OutcomeBound, Typed DEF Work
  <2>3. pc = "insert" /\ ckpt' = ckpt /\ claims' = claims /\ work.lang \in Langs
    BY <1>5 DEF SaveReport
  <2>4. ASSUME ~work'.noted, NEW l \in Langs, l < work.lang + 1
        PROVE  reports'[l] = NewReport(work.draft, ckpt.ranked)
    <3>1. reports' = [reports EXCEPT ![work.lang] = NewReport(work.draft, ckpt.ranked)]
      BY <2>1, <2>2, <2>4
    <3>2. l = work.lang \/ l < work.lang
      BY <2>4, LangsAre, Typed
    <3>3. l < work.lang => reports[l] = NewReport(work.draft, ckpt.ranked)
      BY <2>2, <2>3, <2>4 DEF Drafting
    <3>4. reports'[l] = IF l = work.lang THEN NewReport(work.draft, ckpt.ranked) ELSE reports[l]
      BY <3>1, Typed
    <3> QED
      BY <3>2, <3>3, <3>4
  <2>5. ~work.noted => \A a \in 1 .. Len(claims) :
                          claims[a].draft = work.draft /\ Unverified(claims[a])
    BY <2>3 DEF Drafting
  <2> QED
    BY <2>2, <2>3, <2>4, <2>5 DEF Drafting
<1>6. CASE Rank \/ Write \/ SynthesizerReturns \/ LoadClaims \/ JudgeDraft \/ Cut
  <2>1. pc' # "insert"
    BY <1>6, Zenon DEF Rank, Write, SynthesizerReturns, LoadClaims, JudgeDraft, Cut
  <2> QED
    BY <2>1 DEF Drafting
<1>7. CASE CheckCitation \/ NextClaim \/ MarkDead \/ Stamp \/ ScoreQuality
  <2>1. pc' # "insert"
    BY <1>7 DEF CheckCitation, NextClaim, MarkDead, Stamp, ScoreQuality, Checking
  <2> QED
    BY <2>1 DEF Drafting
<1>8. CASE UNCHANGED vars
  BY <1>8 DEF Drafting, vars, rows
<1> QED
  BY <1>1, <1>2, <1>3, <1>4, <1>5, <1>6, <1>7, <1>8, Zenon DEF Next

LEMMA OneDraftStep ==
  ASSUME TypeOK, AtWork, Drafting, OneDraft, [Next]_vars
  PROVE  OneDraft'
<1>n. ckpt.noted => ckpt'.noted
  BY NotedStays
<1>1. CASE SynthesizerReturns
  <2>1. /\ pc = "insert" /\ ckpt'.draft = work.draft /\ (~ckpt'.noted => ~work.noted)
        /\ claims' = claims /\ reports' = reports /\ work.lang \notin Langs
    BY <1>1, Typed DEF SynthesizerReturns, TypeOK, rows
  <2>2. \A l \in Langs : l < work.lang
    BY <2>1, Typed, LangsAre DEF Langs
  <2>3. ASSUME ~work.noted, NEW l \in Langs
        PROVE  reports[l] # None /\ reports[l].draft = work.draft
    <3>1. reports[l] = NewReport(work.draft, ckpt.ranked)
      BY <2>1, <2>2, <2>3 DEF Drafting
    <3>2. NewReport(work.draft, ckpt.ranked) # None
      BY Typed, NewRowsTyped
    <3> QED
      BY <3>1, <3>2 DEF NewReport
  <2>4. ~work.noted => \A a \in 1 .. Len(claims) : claims[a].draft = work.draft
    BY <2>1 DEF Drafting
  <2> QED
    BY <2>1, <2>3, <2>4 DEF OneDraft
<1>2. CASE CheckCitation
  <2>1. PICK ok \in BOOLEAN, alive \in BOOLEAN, support \in Verdicts \cup {None} :
         /\ work.i \in 1 .. Len(claims) /\ work.j \in 1 .. Len(claims[work.i].cites)
         /\ claims' = IF ok THEN Put(claims, work.i, work.j,
                                     Checked(claims[work.i].cites[work.j], alive, support))
                            ELSE claims
    BY <1>2, CheckEffect, Zenon
  <2>2. claims[work.i].cites[work.j] \in Cite
    BY <2>1, Typed, ClaimSeq
  <2>3. Checked(claims[work.i].cites[work.j], alive, support) \in Cite
    BY <2>2, CheckedCite
  <2>4. SameClaims(claims', claims)
    <3>1. SameClaims(claims, claims)
      BY DEF SameClaims
    <3> QED
      BY <2>1, <2>3, <3>1, Typed, PutFacts
  <2>5. Len(claims') = Len(claims) /\ \A a \in 1 .. Len(claims) : claims'[a].draft = claims[a].draft
    BY <2>4 DEF SameClaims
  <2>6. ckpt' = ckpt /\ reports' = reports
    BY <1>2 DEF CheckCitation
  <2> QED
    BY <2>5, <2>6 DEF OneDraft
<1>3. CASE MarkDead
  BY <1>3, MarkEffect DEF OneDraft
<1>4. CASE Stamp
  <2>1. PICK ok \in BOOLEAN :
          reports' = IF ok /\ Graded(work.seen) # {} THEN Stamped(CountsOf(work.seen)) ELSE reports
    BY <1>4, StampEffect, Zenon
  <2>2. CountsOf(work.seen) \in Grounding
    BY Typed, CountsAreCounts
  <2>3. \A l \in Langs : reports[l] # None => reports'[l] # None /\ reports'[l].draft = reports[l].draft
    BY <2>1, <2>2, StampedFacts
  <2>4. ckpt' = ckpt /\ claims' = claims
    BY <1>4, StampEffect
  <2> QED
    BY <2>3, <2>4 DEF OneDraft
<1>5. CASE ScoreQuality
  <2>1. PICK ok \in BOOLEAN : reports' = IF ok THEN Scored(Scorecard(work.seen)) ELSE reports
    BY <1>5, ScoreEffect, Zenon
  <2>2. Scorecard(work.seen) \in Grounding
    BY Typed, CountsAreCounts DEF Scorecard
  <2>3. \A l \in Langs : reports[l] # None => reports'[l] # None /\ reports'[l].draft = reports[l].draft
    BY <2>1, <2>2, ScoredFacts
  <2>4. ckpt' = ckpt /\ claims' = claims
    BY <1>5, ScoreEffect
  <2> QED
    BY <2>3, <2>4 DEF OneDraft
<1>6. CASE JudgeDraft
  <2>1. PICK next \in {"synthesizer", "ranker", "finalizer"}, retried \in SUBSET Subtopics :
          ckpt' = [ckpt EXCEPT !.next = next, !.retried = retried,
                               !.iteration = ckpt.iteration + 1, !.noted = ckpt.noted \/ work.noted]
    BY <1>6, JudgeEffect
  <2> DEFINE iteration == ckpt.iteration + 1
  <2>2. ckpt' = [ckpt EXCEPT !.next = next, !.retried = retried,
                             !.iteration = iteration, !.noted = ckpt.noted \/ work.noted]
    BY <2>1
  <2> HIDE DEF iteration
  <2>3. ckpt'.draft = ckpt.draft
    BY <2>2 DEF TypeOK
  <2>4. claims' = claims /\ reports' = reports
    BY <1>6 DEF JudgeDraft, rows
  <2>5. ckpt.next = "verifier"
    BY <1>6 DEF JudgeDraft, AtWork, Verifying
  <2> QED
    BY <1>n, <2>3, <2>4, <2>5 DEF OneDraft
<1>7. CASE Rank \/ Write
  <2>1. CASE Rank
    <3>1. \E ok, order :
            ckpt' = [ckpt EXCEPT !.next = "synthesizer", !.ranked = order, !.noted = @ \/ ok # Sources]
      BY <2>1, Zenon DEF Rank
    <3>2. ckpt'.next = "synthesizer"
      BY <3>1 DEF TypeOK
    <3> QED
      BY <3>2 DEF OneDraft
  <2>2. CASE Write
    BY <2>2 DEF OneDraft, Write
  <2> QED
    BY <1>7, <2>1, <2>2
<1>8. CASE DeleteClaims \/ InsertClaim \/ InsertCitation \/ CloseClaim \/ SaveReport
  <2>1. ckpt' = ckpt
    BY <1>8, Zenon DEF DeleteClaims, InsertClaim, InsertCitation, CloseClaim, SaveReport
  <2>2. ckpt.next = "synthesizer"
    <3>1. pc \in {"delete", "insert"}
      BY <1>8, Zenon DEF DeleteClaims, InsertClaim, InsertCitation, CloseClaim, SaveReport
    <3> QED
      BY <3>1 DEF AtWork, Writing
  <2> QED
    BY <2>1, <2>2 DEF OneDraft
<1>9. CASE LoadClaims \/ NextClaim \/ Cut \/ UNCHANGED vars
  BY <1>9 DEF OneDraft, LoadClaims, NextClaim, Cut, vars, rows
<1> QED
  BY <1>1, <1>2, <1>3, <1>4, <1>5, <1>6, <1>7, <1>8, <1>9, Zenon DEF Next

\* The claims in a pass's hands are those of the draft.
LEMMA SeenDraft ==
  ASSUME TypeOK, AtWork, OneDraft, Verifying, ~ckpt.noted
  PROVE  CountsOf(work.seen).of \subseteq {ckpt.draft}
<1>1. ckpt.next = "verifier" /\ (SameClaims(work.seen, claims) \/ work.seen = <<>>)
  BY DEF AtWork
<1>2. \A a \in 1 .. Len(claims) : claims[a].draft = ckpt.draft
  BY <1>1 DEF OneDraft
<1>3. \A a \in 1 .. Len(work.seen) : work.seen[a].draft = ckpt.draft
  <2>1. CASE SameClaims(work.seen, claims)
    BY <1>2, <2>1 DEF SameClaims
  <2>2. CASE work.seen = <<>>
    BY <2>2
  <2> QED
    BY <1>1, <2>1, <2>2
<1>4. Graded(work.seen) \subseteq 1 .. Len(work.seen)
  BY Typed, ClaimSeq DEF Graded
<1> QED
  BY <1>3, <1>4 DEF CountsOf

LEMMA GroundingStep ==
  ASSUME TypeOK, AtWork, OneDraft, GroundingOfItsDraft, [Next]_vars
  PROVE  GroundingOfItsDraft'
<1>n. ckpt.noted => ckpt'.noted
  BY NotedStays
<1>1. CASE SaveReport
  <2>1. PICK ok \in Outcomes :
          reports' = IF ok THEN [reports EXCEPT ![work.lang] = NewReport(work.draft, ckpt.ranked)]
                           ELSE reports
    BY <1>1, Zenon DEF SaveReport
  <2>2. ASSUME ~ckpt'.noted, NEW l \in Langs, reports'[l] # None,
               NEW stamp \in {reports'[l].grounding, reports'[l].quality}, stamp # None
        PROVE  stamp.of \subseteq {reports'[l].draft}
    <3>1. CASE reports'[l] = reports[l]
      BY <1>n, <2>2, <3>1 DEF GroundingOfItsDraft, Written
    <3>2. CASE reports'[l] # reports[l]
      <4>1. reports'[l] = NewReport(work.draft, ckpt.ranked)
        BY <2>1, <3>2, Typed
      <4> QED
        BY <2>2, <4>1 DEF NewReport
    <3> QED
      BY <3>1, <3>2
  <2> QED
    BY <2>2 DEF GroundingOfItsDraft, Written
<1>2. CASE Stamp
  <2>1. PICK ok \in BOOLEAN :
          reports' = IF ok /\ Graded(work.seen) # {} THEN Stamped(CountsOf(work.seen)) ELSE reports
    BY <1>2, StampEffect, Zenon
  <2>2. CountsOf(work.seen) \in Grounding
    BY Typed, CountsAreCounts
  <2>3. pc = "stamp" /\ ckpt' = ckpt /\ ckpt.next = "verifier"
    BY <1>2, StampEffect DEF AtWork, Verifying
  <2>4. ASSUME ~ckpt.noted, NEW l \in Langs, reports'[l] # None,
               NEW stamp \in {reports'[l].grounding, reports'[l].quality}, stamp # None
        PROVE  stamp.of \subseteq {reports'[l].draft}
    <3>1. CASE reports' = reports
      BY <2>4, <3>1 DEF GroundingOfItsDraft, Written
    <3>2. CASE reports' = Stamped(CountsOf(work.seen))
      <4>1. reports[l] # None
        BY <2>2, <2>4, <3>2, StampedFacts
      <4>2. /\ reports'[l].draft = reports[l].draft
            /\ reports'[l].grounding = CountsOf(work.seen)
            /\ reports'[l].quality = reports[l].quality
        BY <2>2, <3>2, <4>1, StampedFacts
      <4>3. reports[l].draft = ckpt.draft
        BY <2>3, <2>4 DEF OneDraft
      <4>4. CountsOf(work.seen).of \subseteq {ckpt.draft}
        BY <2>3, <2>4, SeenDraft DEF Verifying
      <4>5. reports[l].quality # None => reports[l].quality.of \subseteq {reports[l].draft}
        BY <2>4, <4>1 DEF GroundingOfItsDraft, Written
      <4> QED
        BY <2>4, <4>2, <4>3, <4>4, <4>5
    <3> QED
      BY <2>1, <3>1, <3>2
  <2> QED
    BY <2>3, <2>4 DEF GroundingOfItsDraft, Written
<1>3. CASE ScoreQuality
  <2>1. PICK ok \in BOOLEAN : reports' = IF ok THEN Scored(Scorecard(work.seen)) ELSE reports
    BY <1>3, ScoreEffect, Zenon
  <2>2. Scorecard(work.seen) \in Grounding
    BY Typed, CountsAreCounts DEF Scorecard
  <2>3. pc = "score" /\ ckpt' = ckpt /\ ckpt.next = "verifier"
    BY <1>3, ScoreEffect DEF AtWork, Verifying
  <2>4. ASSUME ~ckpt.noted, NEW l \in Langs, reports'[l] # None,
               NEW stamp \in {reports'[l].grounding, reports'[l].quality}, stamp # None
        PROVE  stamp.of \subseteq {reports'[l].draft}
    <3>1. CASE reports' = reports
      BY <2>4, <3>1 DEF GroundingOfItsDraft, Written
    <3>2. CASE reports' = Scored(Scorecard(work.seen))
      <4>1. reports[l] # None
        BY <2>2, <2>4, <3>2, ScoredFacts
      <4>2. /\ reports'[l].draft = reports[l].draft
            /\ reports'[l].quality = Scorecard(work.seen)
            /\ reports'[l].grounding = reports[l].grounding
        BY <2>2, <3>2, <4>1, ScoredFacts
      <4>3. reports[l].draft = ckpt.draft
        BY <2>3, <2>4 DEF OneDraft
      <4>4. Scorecard(work.seen).of \subseteq {ckpt.draft}
        BY <2>3, <2>4, SeenDraft DEF Verifying, Scorecard
      <4>5. reports[l].grounding # None => reports[l].grounding.of \subseteq {reports[l].draft}
        BY <2>4, <4>1 DEF GroundingOfItsDraft, Written
      <4> QED
        BY <2>4, <4>2, <4>3, <4>4, <4>5
    <3> QED
      BY <2>1, <3>1, <3>2
  <2> QED
    BY <2>3, <2>4 DEF GroundingOfItsDraft, Written
<1>4. CASE ~(SaveReport \/ Stamp \/ ScoreQuality)
  <2>1. reports' = reports
    BY <1>4, Zenon DEF Next, vars, rows, Rank, Write, DeleteClaims, InsertClaim, InsertCitation,
       CloseClaim, SynthesizerReturns, LoadClaims, CheckCitation, NextClaim, MarkDead, JudgeDraft, Cut
  <2> QED
    BY <1>n, <2>1 DEF GroundingOfItsDraft, Written
<1> QED
  BY <1>1, <1>2, <1>3, <1>4

-----------------------------------------------------------------------------
(***************************************************************************)
(* Counting, action by action                                              *)
(***************************************************************************)
\* What the counts rest on when the verifier's turn comes.
LEMMA CountingParts ==
  ASSUME Counting, ~ckpt.noted, ~lost, ckpt.next = "verifier"
  PROVE  Prefix /\ (Verifying => InRows) /\ Passing
         /\ (pc \in {"score", "judge"} /\ ~work.noted => StampFits)
         /\ (pc = "judge" /\ ~work.noted => ScoreFits)
BY Zenon DEF Counting

\* Prefix needs the places, the verdicts and the stamps only.
LEMMA PrefixSame ==
  ASSUME Prefix, Places(claims') = Places(claims),
         \A p \in Places(claims) : At(claims', p) = At(claims, p),
         Graded(claims) # {} => Graded(claims') # {},
         \A l \in Langs : reports'[l].grounding # None =>
            Graded(claims) # {} \/ reports[l].grounding # None
  PROVE  Prefix'
<1>1. CheckedPlaces' = CheckedPlaces
  BY DEF CheckedPlaces
<1> QED
  BY <1>1 DEF Prefix

\* A fresh draft: nothing has been checked.
LEMMA CountingFresh ==
  ASSUME TypeOK, AtWork, Drafting, SynthesizerReturns
  PROVE  Counting'
<1>1. /\ pc = "insert" /\ pc' = "idle" /\ (~ckpt'.noted => ~work.noted)
      /\ ckpt'.next = "verifier" /\ claims' = claims /\ reports' = reports /\ work.lang \notin Langs
  BY Typed DEF SynthesizerReturns, TypeOK, rows
<1>2. \A l \in Langs : l < work.lang
  BY <1>1, Typed, LangsAre DEF Langs
<1>3. ASSUME ~work.noted, NEW p \in Places(claims)
      PROVE  At(claims, p).alive = None /\ At(claims, p).support = None
  <2>1. PICK a \in 1 .. Len(claims) : \E b \in 1 .. Len(claims[a].cites) : p = <<a, b>>
    BY PlacesAre
  <2>2. PICK b \in 1 .. Len(claims[a].cites) : p = <<a, b>>
    BY <2>1
  <2>3. claims[a].cites[b] = NewCitation(claims[a].cites[b].src)
    BY <1>1, <1>3 DEF Drafting, Unverified
  <2> QED
    BY <2>2, <2>3 DEF At, NewCitation
<1>4. ASSUME ~work.noted, NEW l \in Langs PROVE reports[l].grounding = None
  <2>1. reports[l] = NewReport(work.draft, ckpt.ranked)
    BY <1>1, <1>2, <1>4 DEF Drafting
  <2> QED
    BY <2>1 DEF NewReport
<1>5. ASSUME ~work.noted PROVE Prefix'
  <2>1. CheckedPlaces' = {}
    BY <1>1, <1>3, <1>5 DEF CheckedPlaces
  <2>2. Cardinality(CheckedPlaces') <= CheckCap
    BY <2>1, FS_EmptySet, ReportRowsAssumption
  <2> QED
    BY <1>1, <1>3, <1>4, <1>5, <2>1, <2>2 DEF Prefix
<1> QED
  BY <1>1, <1>5 DEF Counting, Verifying, Passing

LEMMA CountingLoad ==
  ASSUME TypeOK, Counting, LoadClaims
  PROVE  Counting'
<1>1. /\ pc' = "check" /\ ckpt.next = "verifier"
      /\ ckpt' = ckpt /\ claims' = claims /\ reports' = reports /\ lost' = lost
      /\ work'.i = 1 /\ work'.j = 1 /\ work'.checked = 0
      /\ work'.seen \in Seq(Claim)
      /\ \A p \in Places(work'.seen) : At(work'.seen, p).support = None
  BY LoadEffect
<1>2. ASSUME ~ckpt.noted, ~lost PROVE Prefix'
  <2>1. Prefix
    BY <1>1, <1>2, CountingParts
  <2> QED
    BY <1>1, <2>1, PrefixSame
<1>3. InRows'
  BY <1>1 DEF InRows
<1>4. Passing'
  <2>1. Turned(work'.seen, 1, 1) = {} /\ Cardinality(Turned(work'.seen, 1, 1)) = 0
    BY <1>1, NoTurnYet
  <2> QED
    BY <1>1, <2>1 DEF Passing
<1> QED
  BY <1>1, <1>2, <1>3, <1>4 DEF Counting

LEMMA CountingNextClaim ==
  ASSUME TypeOK, AtWork, Counting, NextClaim
  PROVE  Counting'
<1>1. /\ pc = "check" /\ pc' = "check" /\ ckpt.next = "verifier"
      /\ ckpt' = ckpt /\ claims' = claims /\ reports' = reports /\ lost' = lost
      /\ work.i <= Len(work.seen) /\ work.j > Len(work.seen[work.i].cites) /\ work.i >= 1
  BY DEF NextClaim, Checking, AtWork, Verifying, rows
<1>2. /\ work'.seen = work.seen /\ work'.i = work.i + 1 /\ work'.j = 1
      /\ work'.noted = work.noted /\ work'.checked = work.checked
  BY Typed DEF NextClaim, Work
<1>3. ASSUME ~ckpt.noted, ~lost PROVE Prefix /\ InRows /\ Passing
  BY <1>1, <1>3, CountingParts DEF Verifying
<1>4. Turned(work.seen, work.i + 1, 1) = Turned(work.seen, work.i, work.j)
  <2>1. work.i \in 1 .. Len(work.seen)
    BY <1>1, Typed
  <2> QED
    BY <1>1, <2>1, Typed, NextClaimTurn
<1>5. ASSUME ~ckpt.noted, ~lost PROVE Prefix'
  BY <1>1, <1>3, <1>5, PrefixSame
<1>6. ASSUME ~ckpt.noted, ~lost PROVE InRows'
  BY <1>1, <1>2, <1>3, <1>6 DEF InRows
<1>7. ASSUME ~ckpt.noted, ~lost PROVE Passing'
  <2>1. CheckedPlaces' = CheckedPlaces
    BY <1>1 DEF CheckedPlaces
  <2> QED
    BY <1>1, <1>2, <1>3, <1>4, <1>7, <2>1 DEF Passing
<1> QED
  BY <1>1, <1>5, <1>6, <1>7 DEF Counting

LEMMA CountingMark ==
  ASSUME TypeOK, AtWork, Counting, MarkDead
  PROVE  Counting'
<1>1. /\ pc = "check" /\ pc' = "stamp" /\ ~Checking
      /\ ckpt' = ckpt /\ reports' = reports /\ work' = work /\ lost' = lost
      /\ claims' \in Seq(Claim) /\ Len(claims') = Len(claims)
      /\ \A a \in 1 .. Len(claims) :
            claims'[a].draft = claims[a].draft /\ claims'[a].cites = claims[a].cites
  BY MarkEffect
<1>2. ckpt.next = "verifier"
  BY <1>1 DEF AtWork, Verifying
<1>3. ASSUME ~ckpt.noted, ~lost PROVE Prefix /\ InRows /\ Passing
  BY <1>1, <1>2, <1>3, CountingParts DEF Verifying
<1>4. /\ Places(claims') = Places(claims)
      /\ \A p \in Places(claims) : At(claims', p) = At(claims, p)
  <2>1. SameClaims(claims', claims)
    BY <1>1 DEF SameClaims
  <2>2. ASSUME NEW p \in Places(claims) PROVE At(claims', p) = At(claims, p)
    <3>1. PICK a \in 1 .. Len(claims) : \E b \in 1 .. Len(claims[a].cites) : p = <<a, b>>
      BY PlacesAre
    <3>2. PICK b \in 1 .. Len(claims[a].cites) : p = <<a, b>>
      BY <3>1
    <3> QED
      BY <1>1, <3>2 DEF At
  <2> QED
    BY <2>1, <2>2, SamePlaces
<1>5. Graded(claims) # {} => Graded(claims') # {}
  <2>1. ASSUME Graded(claims) # {} PROVE \E p \in Places(claims) : At(claims, p).support # None
    BY <2>1, Typed, GradedAre
  <2>2. (\E p \in Places(claims') : At(claims', p).support # None) => Graded(claims') # {}
    BY <1>1, GradedAre
  <2> QED
    BY <1>4, <2>1, <2>2
<1>6. ASSUME ~ckpt.noted, ~lost PROVE Prefix'
  BY <1>1, <1>3, <1>4, <1>5, <1>6, PrefixSame
<1> DEFINE turned == Turned(work.seen, work.i, work.j)
\* Either all citations have had their turn, or as many as may be checked.
<1>7. ASSUME ~ckpt.noted, ~lost, ~work.noted, NEW p \in Places(work.seen)
      PROVE  At(work.seen, p).support = At(claims, p).support
  <2>1. Prefix /\ Passing
    BY <1>3, <1>7
  <2>2. /\ work.checked = Cardinality(turned)
        /\ turned \subseteq CheckedPlaces
        /\ \A q \in turned : At(work.seen, q).support = At(claims, q).support
        /\ \A q \in Places(work.seen) \ turned : At(work.seen, q).support = None
    BY <1>1, <1>7, <2>1 DEF Passing
  <2>3. CASE p \in turned
    BY <2>2, <2>3
  <2>4. CASE p \notin turned
    <3>1. ~(work.i > Len(work.seen))
      <4>1. work.i > Len(work.seen) => turned = Places(work.seen)
        BY Typed, AllTurned
      <4> QED
        BY <1>7, <2>4, <4>1
    <3>2. Len(work.seen) \in Nat
      BY Typed, ClaimSeq
    <3>3. work.checked >= CheckCap
      BY <1>1, <3>1, <3>2, Typed, ReportRowsAssumption DEF Checking
    <3>4. IsFiniteSet(CheckedPlaces)
      <4>1. IsFiniteSet(Places(claims))
        BY Typed, PlacesFinite
      <4> QED
        BY <4>1, FS_Subset DEF CheckedPlaces
    <3>5. Cardinality(CheckedPlaces) \in Nat /\ Cardinality(turned) \in Nat
      BY <2>2, <3>4, FS_Subset, FS_CardinalityType
    <3>6. Cardinality(CheckedPlaces) <= CheckCap
      BY <2>1 DEF Prefix
    <3>7. Cardinality(turned) = Cardinality(CheckedPlaces)
      <4>1. Cardinality(turned) <= Cardinality(CheckedPlaces)
        BY <2>2, <3>4, FS_Subset
      <4> QED
        BY <2>2, <3>3, <3>5, <3>6, <4>1, ReportRowsAssumption
    <3>8. turned = CheckedPlaces
      <4> HIDE DEF turned
      <4> QED
        BY <2>2, <3>4, <3>7, FS_Subset
    <3>9. p \in Places(claims)
      <4>1. SameClaims(work.seen, claims)
        BY <1>1, <1>7 DEF AtWork, Verifying
      <4> QED
        BY <1>7, <4>1, SamePlaces
    <3>10. At(claims, p).support = None
      BY <2>1, <2>4, <3>8, <3>9 DEF Prefix
    <3> QED
      BY <1>7, <2>2, <2>4, <3>10
  <2> QED
    BY <2>3, <2>4
<1>8. ASSUME ~ckpt.noted, ~lost PROVE InRows'
  <2>1. \A p \in Places(work.seen) : p \in Places(claims)
    <3>1. SameClaims(work.seen, claims) \/ work.seen = <<>>
      BY <1>1 DEF AtWork, Verifying
    <3>2. Places(<<>>) = {}
      BY DEF Places
    <3> QED
      BY <3>1, <3>2, SamePlaces
  <2> QED
    BY <1>1, <1>3, <1>4, <1>7, <1>8, <2>1 DEF InRows
<1> QED
  BY <1>1, <1>2, <1>6, <1>8 DEF Counting, Passing

\* One more citation is checked: the row gets the verdict that the pass keeps.
LEMMA CountingCheck ==
  ASSUME TypeOK, AtWork, Counting, CheckCitation
  PROVE  Counting'
<1> DEFINE i == work.i
           j == work.j
           here == <<i, j>>
           turned == Turned(work.seen, i, j)
<1>1. PICK ok \in BOOLEAN, noted \in BOOLEAN, alive \in BOOLEAN, support \in Verdicts \cup {None} :
         /\ pc = "check" /\ pc' = "check" /\ work.checked < CheckCap
         /\ i \in 1 .. Len(work.seen) /\ j \in 1 .. Len(work.seen[i].cites)
         /\ i \in 1 .. Len(claims) /\ j \in 1 .. Len(claims[i].cites)
         /\ SameClaims(work.seen, claims)
         /\ support = None \/ work.noted => noted
         /\ work' = [work EXCEPT !.seen = Put(work.seen, i, j,
                                              Given(work.seen[i].cites[j], alive, support)),
                                 !.j = j + 1, !.checked = work.checked + 1, !.noted = noted]
         /\ claims' = IF ok THEN Put(claims, i, j, Checked(claims[i].cites[j], alive, support))
                            ELSE claims
         /\ lost' = (lost \/ ~ok)
  BY CheckEffect, Zenon
<1>2. ckpt' = ckpt /\ reports' = reports /\ ckpt.next = "verifier"
  BY <1>1 DEF CheckCitation, AtWork, Verifying
<1> SUFFICES ASSUME ~ckpt.noted, ~lost, ok
             PROVE  Prefix' /\ InRows' /\ Passing'
  BY <1>1, <1>2 DEF Counting
<1>3. Prefix /\ InRows /\ Passing
  BY <1>1, <1>2, CountingParts DEF Verifying
<1> DEFINE given == Given(work.seen[i].cites[j], alive, support)
           row == Checked(claims[i].cites[j], alive, support)
           seen == Put(work.seen, i, j, given)
<1>4. work.seen[i].cites[j] \in Cite /\ claims[i].cites[j] \in Cite
  BY <1>1, Typed, ClaimSeq
<1>5. /\ given \in Cite /\ given.support = support
      /\ row \in Cite /\ row.alive = alive
      /\ support # None => row.support = support
      /\ support = None => row.support = claims[i].cites[j].support
  <2> DEFINE c == work.seen[i].cites[j]
             d == claims[i].cites[j]
  <2>1. c \in Cite /\ d \in Cite
    BY <1>4
  <2>2. given = Given(c, alive, support) /\ row = Checked(d, alive, support)
    OBVIOUS
  <2> HIDE DEF c, d, given, row
  <2>3. /\ given \in Cite /\ given.support = support
        /\ row \in Cite /\ row.alive = alive
        /\ support # None => row.support = support
        /\ support = None => row.support = d.support
    BY <2>1, <2>2, CheckedCite
  <2> QED
    BY <2>3 DEF d
<1>6. claims' = Put(claims, i, j, row)
  BY <1>1
<1>7. work' = [work EXCEPT !.seen = seen, !.j = j + 1, !.checked = work.checked + 1, !.noted = noted]
  BY <1>1
<1> HIDE DEF given, row
<1>8. /\ claims' \in Seq(Claim) /\ SameClaims(claims', claims)
      /\ At(claims', here) = row
      /\ \A p \in Places(claims) : p # here => At(claims', p) = At(claims, p)
  BY <1>1, <1>5, <1>6, Typed, PutFacts
<1>9. /\ seen \in Seq(Claim) /\ SameClaims(seen, work.seen)
      /\ At(seen, here) = given
      /\ \A p \in Places(work.seen) : p # here => At(seen, p) = At(work.seen, p)
  BY <1>1, <1>5, Typed, PutFacts
<1> HIDE DEF seen
<1>10. /\ work'.seen = seen /\ work'.i = i /\ work'.j = j + 1
       /\ work'.checked = work.checked + 1 /\ work'.noted = noted
  BY <1>7, Typed DEF Work
<1>11. /\ Places(claims') = Places(claims) /\ Places(seen) = Places(work.seen)
       /\ Places(work.seen) = Places(claims)
  BY <1>1, <1>8, <1>9, SamePlaces
<1>12. /\ Turned(work.seen, i, j + 1) = turned \cup {here}
       /\ here \notin turned /\ here \in Places(work.seen)
  BY <1>1, Typed, OneMoreTurn
<1>13. Turned(seen, i, j + 1) = turned \cup {here}
  BY <1>11, <1>12 DEF Turned
<1>14. /\ work.checked = Cardinality(turned)
       /\ turned \subseteq CheckedPlaces
       /\ ~work.noted => \A p \in turned : At(work.seen, p).support = At(claims, p).support
       /\ \A p \in Places(work.seen) \ turned : At(work.seen, p).support = None
  BY <1>1, <1>3 DEF Passing
<1>15. \A p \in Places(claims) : Earlier(p, here) => p \in turned
  BY <1>11 DEF Turned
<1>16. CheckedPlaces \subseteq Places(claims) /\ IsFiniteSet(CheckedPlaces)
  <2>1. IsFiniteSet(Places(claims))
    BY Typed, PlacesFinite
  <2>2. CheckedPlaces \subseteq Places(claims)
    BY DEF CheckedPlaces
  <2> QED
    BY <2>1, <2>2, FS_Subset
<1>17. IsFiniteSet(turned) /\ Cardinality(turned) \in Nat /\ Cardinality(turned \cup {here}) = Cardinality(turned) + 1
  <2>1. IsFiniteSet(turned)
    BY <1>14, <1>16, FS_Subset
  <2> HIDE DEF turned, here
  <2> QED
    BY <1>12, <2>1, FS_AddElement, FS_CardinalityType
<1> HIDE DEF turned, here
<1>18. CheckedPlaces' = CheckedPlaces \cup {here}
  <2>1. alive # None
    BY ReportRowsAssumption
  <2>2. CheckedPlaces' = {p \in Places(claims) : At(claims', p).alive # None}
    BY <1>11 DEF CheckedPlaces
  <2>3. here \in Places(claims)
    BY <1>11, <1>12
  <2>4. \A p \in Places(claims) : At(claims', p).alive # None <=> p \in CheckedPlaces \/ p = here
    BY <1>5, <1>8, <2>1 DEF CheckedPlaces
  <2> QED
    BY <1>16, <2>2, <2>3, <2>4
<1>19. Cardinality(CheckedPlaces') <= CheckCap
  <2>1. CASE here \in CheckedPlaces
    <3>1. CheckedPlaces' = CheckedPlaces
      BY <1>18, <2>1
    <3> QED
      BY <1>3, <3>1 DEF Prefix
  <2>2. CASE here \notin CheckedPlaces
    <3>1. ASSUME NEW p \in CheckedPlaces PROVE p \in turned
      <4>1. p \in Places(claims) /\ here \in Places(claims) /\ p # here
        BY <1>11, <1>12, <1>16, <2>2, <3>1
      <4>2. ~Earlier(here, p)
        BY <1>3, <2>2, <4>1 DEF Prefix
      <4>3. Earlier(p, here)
        BY <4>1, <4>2, Typed, PlacesOrdered
      <4> QED
        BY <1>15, <4>1, <4>3
    <3>2. CheckedPlaces' = turned \cup {here}
      BY <1>14, <1>18, <3>1
    <3>3. Cardinality(turned) < CheckCap
      BY <1>1, <1>14
    <3> QED
      BY <1>17, <3>2, <3>3, ReportRowsAssumption
  <2> QED
    BY <2>1, <2>2
<1>20. \A p \in Places(claims) : At(claims', p).support # None => p \in CheckedPlaces'
  BY <1>3, <1>8, <1>18 DEF Prefix
<1>21. Graded(claims) # {} => Graded(claims') # {}
  <2> SUFFICES ASSUME Graded(claims) # {} PROVE Graded(claims') # {}
    OBVIOUS
  <2>1. PICK p \in Places(claims) : At(claims, p).support # None
    BY Typed, GradedAre
  <2>2. At(claims', p).support # None
    <3>1. CASE p = here
      <4>1. At(claims, here) = claims[i].cites[j]
        BY DEF At, here
      <4> QED
        BY <1>5, <1>8, <2>1, <3>1, <4>1
    <3>2. CASE p # here
      BY <1>8, <2>1, <3>2
    <3> QED
      BY <3>1, <3>2
  <2> QED
    BY <1>8, <1>11, <2>2, GradedAre
<1>22. Prefix'
  <2>1. ASSUME NEW p \in CheckedPlaces', NEW q \in Places(claims), Earlier(q, p)
        PROVE  q \in CheckedPlaces'
    <3>1. CASE p = here
      BY <1>14, <1>15, <1>18, <2>1, <3>1
    <3>2. CASE p \in CheckedPlaces
      BY <1>3, <1>18, <2>1, <3>2 DEF Prefix
    <3> QED
      BY <1>18, <2>1, <3>1, <3>2
  <2>2. \A l \in Langs : reports'[l].grounding # None => Graded(claims') # {}
    BY <1>2, <1>3, <1>21 DEF Prefix
  <2> QED
    BY <1>11, <1>19, <1>20, <2>1, <2>2 DEF Prefix
<1>23. InRows'
  <2>1. ASSUME NEW p \in Places(work.seen), At(seen, p).support # None
        PROVE  At(claims', p).support # None
    <3>1. CASE p = here
      BY <1>5, <1>8, <1>9, <2>1, <3>1
    <3>2. CASE p # here
      BY <1>3, <1>8, <1>9, <1>11, <2>1, <3>2 DEF InRows
    <3> QED
      BY <3>1, <3>2
  <2> QED
    BY <1>1, <1>10, <1>11, <2>1 DEF InRows
<1>24. Passing'
  <2>1. work'.checked = Cardinality(Turned(work'.seen, work'.i, work'.j))
    BY <1>10, <1>13, <1>14, <1>17
  <2>2. Turned(work'.seen, work'.i, work'.j) = turned \cup {here}
    BY <1>10, <1>13
  <2>3. \A p \in turned \cup {here} : p \in CheckedPlaces'
    BY <1>14, <1>18
  <2>4. ASSUME ~work'.noted, NEW p \in turned \cup {here}
        PROVE  At(seen, p).support = At(claims', p).support
    <3>1. support # None /\ ~work.noted
      BY <1>1, <1>10, <2>4
    <3>2. CASE p = here
      BY <1>5, <1>8, <1>9, <3>1, <3>2
    <3>3. CASE p # here
      <4>1. p \in turned /\ p \in Places(claims)
        BY <1>14, <1>16, <2>4, <3>3
      <4> QED
        BY <1>8, <1>9, <1>11, <1>14, <3>1, <3>3, <4>1
    <3> QED
      BY <3>2, <3>3
  <2>5. ASSUME NEW p \in Places(seen) \ (turned \cup {here})
        PROVE  At(seen, p).support = None
    BY <1>9, <1>11, <1>14, <2>5
  <2> QED
    BY <1>10, <2>1, <2>2, <2>3, <2>4, <2>5 DEF Passing
<1> QED
  BY <1>22, <1>23, <1>24

LEMMA CountingStamp ==
  ASSUME TypeOK, AtWork, OneDraft, Counting, Stamp
  PROVE  Counting'
<1>1. PICK ok \in BOOLEAN :
         /\ reports' = IF ok /\ Graded(work.seen) # {} THEN Stamped(CountsOf(work.seen)) ELSE reports
         /\ work' = [work EXCEPT !.noted = work.noted \/ ~ok]
  BY StampEffect, Zenon
<1>2. /\ pc = "stamp" /\ pc' = "score" /\ ckpt' = ckpt /\ claims' = claims /\ lost' = lost
      /\ ckpt.next = "verifier"
      /\ SameClaims(work.seen, claims) \/ (work.seen = <<>> /\ work.noted)
  BY StampEffect DEF AtWork, Verifying
<1>3. work'.seen = work.seen /\ (~work'.noted => ok /\ ~work.noted)
  BY <1>1, Typed DEF Work
<1> SUFFICES ASSUME ~ckpt.noted, ~lost
             PROVE  Prefix' /\ InRows' /\ (~work'.noted => StampFits')
  BY <1>2 DEF Counting, Passing
<1>4. Prefix /\ InRows
  BY <1>2, CountingParts DEF Verifying
<1>5. CountsOf(work.seen) \in Grounding
  BY Typed, CountsAreCounts
<1>6. Places(work.seen) = Places(claims) \/ work.seen = <<>>
  BY <1>2, SamePlaces
<1>7. Graded(work.seen) # {} => Graded(claims) # {}
  <2> SUFFICES ASSUME Graded(work.seen) # {} PROVE Graded(claims) # {}
    OBVIOUS
  <2>1. PICK p \in Places(work.seen) : At(work.seen, p).support # None
    BY Typed, GradedAre
  <2>2. p \in Places(claims)
    <3>1. Places(<<>>) = {}
      BY DEF Places
    <3> QED
      BY <1>6, <2>1, <3>1
  <2> QED
    BY <1>4, <2>1, <2>2, Typed, GradedAre DEF InRows
<1>8. Prefix'
  <2>1. ASSUME NEW l \in Langs, reports'[l].grounding # None
        PROVE  Graded(claims) # {} \/ reports[l].grounding # None
    BY <1>1, <1>7, <2>1
  <2> QED
    BY <1>2, <1>4, <2>1, PrefixSame
<1>9. InRows'
  <2>1. pc \notin {"check"} /\ pc' \notin {"check"}
    BY <1>2
  <2> QED
    BY <1>2, <1>3, <1>4, <2>1 DEF InRows
<1>10. ASSUME ~work'.noted PROVE StampFits'
  <2>1. SameClaims(work.seen, claims) /\ ok /\ ~work.noted
    BY <1>2, <1>3, <1>10
  <2>2. \A p \in Places(work.seen) : At(work.seen, p).support = At(claims, p).support
    BY <1>2, <1>4, <2>1 DEF InRows
  <2>3. Graded(work.seen) = Graded(claims) /\ CountsOf(work.seen) = CountsOf(claims)
    BY <2>1, <2>2, Typed, SameCounts
  <2>4. CASE Graded(claims) = {}
    <3>1. reports' = reports /\ \A l \in Langs : reports[l].grounding = None
      BY <1>1, <1>4, <2>3, <2>4 DEF Prefix
    <3> QED
      BY <1>2, <2>4, <3>1 DEF StampFits
  <2>5. CASE Graded(claims) # {}
    <3>1. reports' = Stamped(CountsOf(work.seen))
      BY <1>1, <2>1, <2>3, <2>5
    <3>2. \A l \in Langs : reports[l] # None
      BY <1>2 DEF OneDraft
    <3>3. \A l \in Langs : reports'[l].grounding = CountsOf(claims)
      BY <1>5, <2>3, <3>1, <3>2, StampedFacts
    <3> QED
      BY <1>2, <2>5, <3>3 DEF StampFits
  <2> QED
    BY <2>4, <2>5
<1> QED
  BY <1>8, <1>9, <1>10

LEMMA CountingScore ==
  ASSUME TypeOK, AtWork, OneDraft, Counting, ScoreQuality
  PROVE  Counting'
<1>1. PICK ok \in BOOLEAN :
         /\ reports' = IF ok THEN Scored(Scorecard(work.seen)) ELSE reports
         /\ work' = [work EXCEPT !.noted = work.noted \/ ~ok]
  BY ScoreEffect, Zenon
<1>2. /\ pc = "score" /\ pc' = "judge" /\ ckpt' = ckpt /\ claims' = claims /\ lost' = lost
      /\ ckpt.next = "verifier"
      /\ SameClaims(work.seen, claims) \/ (work.seen = <<>> /\ work.noted)
  BY ScoreEffect DEF AtWork, Verifying
<1>3. work'.seen = work.seen /\ (~work'.noted => ok /\ ~work.noted)
  BY <1>1, Typed DEF Work
<1> SUFFICES ASSUME ~ckpt.noted, ~lost
             PROVE  Prefix' /\ InRows' /\ (~work'.noted => StampFits' /\ ScoreFits')
  BY <1>2 DEF Counting, Passing
<1>4. Prefix /\ InRows /\ (~work.noted => StampFits)
  BY <1>2, CountingParts DEF Verifying
<1>5. Scorecard(work.seen) \in Grounding
  BY Typed, CountsAreCounts DEF Scorecard
<1>6. \A l \in Langs : reports[l] # None
  BY <1>2 DEF OneDraft
<1>7. \A l \in Langs : reports'[l].grounding = reports[l].grounding
  BY <1>1, <1>5, <1>6, ScoredFacts
<1>8. Prefix'
  BY <1>2, <1>4, <1>7, PrefixSame
<1>9. InRows'
  <2>1. pc \notin {"check"} /\ pc' \notin {"check"}
    BY <1>2
  <2> QED
    BY <1>2, <1>3, <1>4, <2>1 DEF InRows
<1>10. ASSUME ~work'.noted PROVE StampFits' /\ ScoreFits'
  <2>1. SameClaims(work.seen, claims) /\ ok /\ ~work.noted
    BY <1>2, <1>3, <1>10
  <2>2. \A p \in Places(work.seen) : At(work.seen, p).support = At(claims, p).support
    BY <1>2, <1>4, <2>1 DEF InRows
  <2>3. CountsOf(work.seen) = CountsOf(claims)
    BY <2>1, <2>2, Typed, SameCounts
  <2>4. \A l \in Langs : reports'[l].quality = Scorecard(claims)
    BY <1>1, <1>5, <1>6, <2>1, <2>3, ScoredFacts DEF Scorecard
  <2>5. StampFits'
    BY <1>2, <1>4, <1>7, <2>1 DEF StampFits
  <2> QED
    BY <1>2, <2>4, <2>5 DEF ScoreFits
<1> QED
  BY <1>8, <1>9, <1>10

LEMMA CountingJudge ==
  ASSUME TypeOK, AtWork, Counting, JudgeDraft
  PROVE  Counting'
<1>1. PICK next \in {"synthesizer", "ranker", "finalizer"}, retried \in SUBSET Subtopics :
          ckpt' = [ckpt EXCEPT !.next = next, !.retried = retried,
                               !.iteration = ckpt.iteration + 1, !.noted = ckpt.noted \/ work.noted]
  BY JudgeEffect
<1> DEFINE iteration == ckpt.iteration + 1
<1>2. ckpt' = [ckpt EXCEPT !.next = next, !.retried = retried,
                           !.iteration = iteration, !.noted = ckpt.noted \/ work.noted]
  BY <1>1
<1> HIDE DEF iteration
<1>3. ckpt'.next # "verifier" /\ (~ckpt'.noted => ~ckpt.noted /\ ~work.noted)
  BY <1>2 DEF TypeOK
<1>4. /\ pc = "judge" /\ claims' = claims /\ reports' = reports /\ lost' = lost
      /\ ckpt.next = "verifier"
  BY DEF JudgeDraft, AtWork, Verifying, rows
<1>5. ASSUME ~ckpt.noted, ~lost, ~work.noted PROVE StampFits' /\ ScoreFits'
  <2>1. StampFits /\ ScoreFits
    BY <1>4, <1>5, CountingParts
  <2> QED
    BY <1>4, <2>1 DEF StampFits, ScoreFits
<1> QED
  BY <1>3, <1>4, <1>5 DEF Counting

LEMMA CountingCut ==
  ASSUME TypeOK, AtWork, Counting, Cut \/ UNCHANGED vars
  PROVE  Counting'
<1>1. CASE Cut
  <2>1. /\ pc # "idle" /\ pc' = "idle" /\ ckpt' = ckpt
        /\ claims' = claims /\ reports' = reports /\ lost' = lost
    BY <1>1 DEF Cut, rows
  <2>2. ckpt.next \in {"synthesizer", "verifier"}
    BY <2>1 DEF AtWork, Writing, Verifying, TypeOK
  <2>3. ASSUME ~ckpt.noted, ~lost, ckpt.next = "verifier" PROVE Prefix'
    BY <2>1, <2>3, CountingParts, PrefixSame
  <2> QED
    BY <2>1, <2>2, <2>3 DEF Counting, Verifying, Passing
<1>2. CASE UNCHANGED vars
  <2>1. /\ ckpt' = ckpt /\ claims' = claims /\ reports' = reports /\ lost' = lost
        /\ pc' = pc /\ work' = work
    BY <1>2 DEF vars, rows
  <2>2. CheckedPlaces' = CheckedPlaces /\ (InRows' <=> InRows)
    BY <2>1 DEF CheckedPlaces, InRows
  <2>3. (Prefix' <=> Prefix) /\ (Passing' <=> Passing) /\ (StampFits' <=> StampFits)
        /\ (ScoreFits' <=> ScoreFits)
    BY <2>1, <2>2 DEF Prefix, Passing, StampFits, ScoreFits
  <2> QED
    BY <2>1, <2>2, <2>3 DEF Counting, Verifying
<1> QED
  BY <1>1, <1>2

\* The ranker and the writer leave the verifier's part to its turn.
LEMMA CountingBefore ==
  ASSUME TypeOK, AtWork,
         Rank \/ Write \/ DeleteClaims \/ InsertClaim \/ InsertCitation \/ CloseClaim \/ SaveReport
  PROVE  Counting'
<1>1. ckpt'.next = "synthesizer"
  <2>1. CASE Rank
    <3>1. \E ok, order :
            ckpt' = [ckpt EXCEPT !.next = "synthesizer", !.ranked = order, !.noted = @ \/ ok # Sources]
      BY <2>1, Zenon DEF Rank
    <3> QED
      BY <3>1 DEF TypeOK
  <2>2. CASE Write
    BY <2>2 DEF Write
  <2>3. CASE DeleteClaims \/ InsertClaim \/ InsertCitation \/ CloseClaim \/ SaveReport
    <3>1. ckpt' = ckpt
      BY <2>3, Zenon DEF DeleteClaims, InsertClaim, InsertCitation, CloseClaim, SaveReport
    <3>2. pc \in {"delete", "insert"}
      BY <2>3, Zenon DEF DeleteClaims, InsertClaim, InsertCitation, CloseClaim, SaveReport
    <3> QED
      BY <3>1, <3>2 DEF AtWork, Writing
  <2> QED
    BY <2>1, <2>2, <2>3
<1> QED
  BY <1>1 DEF Counting

LEMMA CountingStep ==
  ASSUME TypeOK, AtWork, Drafting, OneDraft, Counting, [Next]_vars
  PROVE  Counting'
BY CountingFresh, CountingLoad, CountingNextClaim, CountingMark, CountingCheck, CountingStamp,
   CountingScore, CountingJudge, CountingCut, CountingBefore, Zenon DEF Next

-----------------------------------------------------------------------------
(***************************************************************************)
(* The theorems                                                            *)
(***************************************************************************)
LEMMA IInvInit ==
  ASSUME Init
  PROVE  IInv
<1>1. /\ ckpt = [next |-> "ranker", ranked |-> <<>>, draft |-> 0, iteration |-> 0,
                 retried |-> {}, noted |-> FALSE]
      /\ claims = <<>> /\ pc = "idle" /\ work = Idle /\ reports = [l \in Langs |-> None]
  BY DEF Init
<1>2. TypeOK
  <2>1. Idle \in Work
    BY IdleIsWork
  <2>2. 0 \in 0 .. MaxFaults
    BY ReportRowsAssumption
  <2>3. <<>> \in Seq(Sources) /\ <<>> \in Seq(Claim)
    OBVIOUS
  <2> QED
    BY <2>1, <2>2, <2>3 DEF Init, TypeOK, Work
<1>3. AtWork /\ Drafting
  BY <1>1 DEF AtWork, Drafting, Writing, Verifying
<1>4. OneDraft
  BY <1>1 DEF OneDraft
<1>5. GroundingOfItsDraft
  BY <1>1 DEF GroundingOfItsDraft, Written
<1>6. Counting
  BY <1>1 DEF Counting
<1> QED
  BY <1>2, <1>3, <1>4, <1>5, <1>6 DEF IInv

LEMMA IInvStep ==
  ASSUME IInv, [Next]_vars
  PROVE  IInv'
<1>1. TypeOK /\ AtWork /\ Drafting /\ OneDraft /\ GroundingOfItsDraft /\ Counting
  BY DEF IInv
<1>2. TypeOK'
  BY <1>1, TypeStep
<1>3. AtWork'
  BY <1>1, AtWorkStep
<1>4. Drafting'
  BY <1>1, DraftingStep
<1>5. OneDraft'
  BY <1>1, OneDraftStep
<1>6. GroundingOfItsDraft'
  BY <1>1, GroundingStep
<1>7. Counting'
  BY <1>1, CountingStep
<1> QED
  BY <1>2, <1>3, <1>4, <1>5, <1>6, <1>7 DEF IInv

LEMMA IInvAlways == Spec => []IInv
BY IInvInit, IInvStep, PTL DEF Spec

\* Every variable keeps to its type, for any number of claims, drafts and faults.
THEOREM TypeCorrect == Spec => []TypeOK
<1>1. IInv => TypeOK
  BY DEF IInv
<1> QED
  BY <1>1, IInvAlways, PTL

\* verifier_node stamps the rows of all languages with what it counted: until the
\* run notes an error, that is a count over the claims of the draft on the row.
THEOREM GroundingOfItsDraftHolds == Spec => []GroundingOfItsDraft
<1>1. IInv => GroundingOfItsDraft
  BY DEF IInv
<1> QED
  BY <1>1, IInvAlways, PTL

\* delete_claims and one save_report per language: a run that ends without having
\* noted an error shows one draft in all languages and in the list of claims.
THEOREM OneDraftAtEndHolds == Spec => []OneDraftAtEnd
<1>1. IInv => OneDraftAtEnd
  <2>1. ASSUME TypeOK PROVE DOMAIN claims = 1 .. Len(claims)
    BY <2>1 DEF TypeOK
  <2> QED
    BY <2>1 DEF IInv, OneDraft, OneDraftAtEnd, Settled, Written
<1> QED
  BY <1>1, IInvAlways, PTL

\* update_report_grounding and update_report_quality: at the end they agree with
\* the verdicts in the rows, whatever passes were cut off before, unless an error
\* was noted or a write that the code passes over has failed.
THEOREM CountsAgreeHolds == Spec => []CountsAgree
<1>1. IInv => CountsAgree
  BY DEF IInv, Counting, StampFits, ScoreFits, CountsAgree, Settled, Written
<1> QED
  BY <1>1, IInvAlways, PTL
-----------------------------------------------------------------------------
(***************************************************************************)
(* Claims and the numbers of their report                                  *)
(***************************************************************************)
\* The sources that a claim cites.
Cites(c, S) == \A k \in 1 .. Len(c.cites) : c.cites[k].src \in S

\* Drafts are numbered as they come.  What is written of the present one is
\* written with the present ranking, and what is left of each draft fits.
Numbered ==
    /\ work.draft <= drafts
    /\ \A a \in 1 .. Len(claims) : claims[a].draft <= drafts
    /\ \A l \in Langs : reports[l] # None => reports[l].draft <= drafts
    /\ Writing => work.draft = drafts
    /\ pc = "delete" =>
          /\ \A a \in 1 .. Len(claims) : claims[a].draft < drafts
          /\ \A l \in Langs : reports[l] # None => reports[l].draft < drafts
    /\ pc = "insert" =>
          /\ \A a \in 1 .. Len(claims) :
                claims[a].draft = drafts => Cites(claims[a], Ranked(ckpt.ranked))
          /\ \A l \in Langs : reports[l] # None /\ reports[l].draft = drafts =>
                reports[l].refs = ckpt.ranked
          /\ work.open => claims # <<>> /\ claims[Len(claims)].draft = drafts

Resolved ==
    \A l \in Langs : reports[l] # None =>
        \A a \in 1 .. Len(claims) :
            claims[a].draft = reports[l].draft => Cites(claims[a], Ranked(reports[l].refs))

LEMMA ResolvedLists == TypeOK /\ Resolved => CitedIsListed
<1> SUFFICES ASSUME TypeOK, Resolved, NEW l \in Written, NEW a \in DOMAIN claims,
                    claims[a].draft = reports[l].draft, NEW k \in DOMAIN claims[a].cites
             PROVE  \E n \in NumberedRefs(reports[l]) : reports[l].refs[n] = claims[a].cites[k].src
  BY DEF CitedIsListed
<1>1. a \in 1 .. Len(claims) /\ k \in 1 .. Len(claims[a].cites)
  BY Typed, ClaimSeq
<1>2. l \in Langs /\ reports[l] # None /\ reports[l] \in Row
  BY Typed DEF Written
<1>3. PICK n \in 1 .. Len(reports[l].refs) : reports[l].refs[n] = claims[a].cites[k].src
  BY <1>1, <1>2 DEF Resolved, Cites, Ranked
<1>4. /\ reports[l].refs \in Seq(Sources) /\ DOMAIN reports[l].refs = 1 .. Len(reports[l].refs)
      /\ reports[l].refs # <<>> /\ reports[l].refs[n] \in Sources
  BY <1>2, <1>3 DEF Row
<1>5. n \in NumberedRefs(reports[l])
  BY <1>3, <1>4 DEF NumberedRefs, Listed, UseAllSources
<1> QED
  BY <1>3, <1>5

\* Rows that keep their drafts, sources and numbers resolve as before.
LEMMA SameNumbers ==
  ASSUME TypeOK, TypeOK', Numbered, Resolved,
         drafts' = drafts, work'.draft \in {work.draft, 0},
         pc' = pc \/ ~Writing',
         Writing' => UNCHANGED ckpt /\ work'.draft = work.draft
                       /\ (work'.open => work.open),
         Len(claims') = Len(claims),
         \A a \in 1 .. Len(claims) :
            /\ claims'[a].draft = claims[a].draft
            /\ Len(claims'[a].cites) = Len(claims[a].cites)
            /\ \A k \in 1 .. Len(claims[a].cites) :
                  claims'[a].cites[k].src = claims[a].cites[k].src,
         \A l \in Langs : reports'[l] # None =>
            /\ reports[l] # None /\ reports'[l].draft = reports[l].draft
            /\ reports'[l].refs = reports[l].refs
  PROVE  Numbered' /\ Resolved'
<1>1. \A a \in 1 .. Len(claims) : \A S : Cites(claims[a], S) => Cites(claims'[a], S)
  BY DEF Cites
<1>2. Resolved'
  BY <1>1 DEF Resolved
<1>3. work'.draft <= drafts'
  BY Typed DEF Numbered
<1>4. /\ \A a \in 1 .. Len(claims') : claims'[a].draft <= drafts'
      /\ \A l \in Langs : reports'[l] # None => reports'[l].draft <= drafts'
  BY DEF Numbered
<1>5. Writing' => Writing /\ pc' = pc /\ work'.draft = drafts'
  BY DEF Numbered, Writing
<1>6. pc' = "delete" =>
          /\ \A a \in 1 .. Len(claims') : claims'[a].draft < drafts'
          /\ \A l \in Langs : reports'[l] # None => reports'[l].draft < drafts'
  BY <1>5 DEF Numbered, Writing
<1>7. ASSUME pc' = "insert"
      PROVE  /\ \A a \in 1 .. Len(claims') :
                   claims'[a].draft = drafts' => Cites(claims'[a], Ranked(ckpt'.ranked))
             /\ \A l \in Langs : reports'[l] # None /\ reports'[l].draft = drafts' =>
                   reports'[l].refs = ckpt'.ranked
             /\ work'.open => claims' # <<>> /\ claims'[Len(claims')].draft = drafts'
  <2>1. pc = "insert" /\ ckpt' = ckpt /\ (work'.open => work.open)
    BY <1>5, <1>7 DEF Writing
  <2>2. work.open => Len(claims) \in 1 .. Len(claims)
    BY <2>1, Typed DEF Numbered
  <2>3. claims' \in Seq(Claim) /\ (Len(claims') # 0 => claims' # <<>>)
    BY DEF TypeOK
  <2>4. work'.open => claims' # <<>> /\ claims'[Len(claims')].draft = drafts'
    BY <2>1, <2>2, <2>3 DEF Numbered
  <2> QED
    BY <1>1, <2>1, <2>4 DEF Numbered
<1> QED
  BY <1>2, <1>3, <1>4, <1>5, <1>6, <1>7 DEF Numbered

\* Rows that are as they were, between nodes or in the verifier.
LEMMA NumbersStay ==
  ASSUME TypeOK, TypeOK', Numbered, Resolved, UNCHANGED <<claims, reports, drafts>>,
         work'.draft \in {work.draft, 0}, ~Writing'
  PROVE  Numbered' /\ Resolved'
BY SameNumbers

LEMMA NumberedWrite ==
  ASSUME TypeOK, TypeOK', AtWork, Numbered, Resolved, Write
  PROVE  Numbered' /\ Resolved'
<1>1. PICK left \in Extracted : \E ok \in (IF left = <<>> THEN Outcomes ELSE {TRUE}) :
          /\ work' = [Idle EXCEPT !.draft = drafts + 1, !.left = left, !.noted = ~ok]
          /\ Count(ok)
  BY Zenon DEF Write
<1>2. work'.draft = drafts + 1 /\ work'.open = FALSE
  BY <1>1 DEF Idle
<1>3. pc' = "delete" /\ drafts' = drafts + 1 /\ claims' = claims /\ reports' = reports
  BY DEF Write, rows
<1>4. /\ \A a \in 1 .. Len(claims) : claims[a].draft <= drafts + 1 /\ claims[a].draft < drafts + 1
      /\ \A l \in Langs : reports[l] # None =>
            reports[l].draft <= drafts + 1 /\ reports[l].draft < drafts + 1
  <2>1. \A d \in Nat : d <= drafts => d <= drafts + 1 /\ d < drafts + 1
    BY Typed
  <2>2. \A a \in 1 .. Len(claims) : claims[a].draft \in Nat /\ claims[a].draft <= drafts
    BY Typed, ClaimSeq DEF Claim, Numbered
  <2>3. \A l \in Langs : reports[l] # None => reports[l].draft \in Nat /\ reports[l].draft <= drafts
    BY Typed DEF Row, Numbered
  <2> QED
    BY <2>1, <2>2, <2>3
<1>5. Resolved'
  BY <1>3 DEF Resolved
<1>6. drafts + 1 <= drafts + 1
  BY Typed
<1> QED
  BY <1>2, <1>3, <1>4, <1>5, <1>6 DEF Numbered

LEMMA NumberedDelete ==
  ASSUME TypeOK, TypeOK', AtWork, Numbered, Resolved, DeleteClaims
  PROVE  Numbered' /\ Resolved'
<1>1. PICK ok \in Outcomes :
          /\ claims' = IF ok THEN <<>> ELSE claims
          /\ work' = [work EXCEPT !.noted = @ \/ ~ok]
  BY Zenon DEF DeleteClaims
<1>2. work'.draft = work.draft /\ work'.open = work.open
  BY <1>1, Typed DEF Work
<1>3. /\ pc = "delete" /\ pc' = "insert" /\ ckpt' = ckpt /\ reports' = reports /\ drafts' = drafts
      /\ ~work.open /\ work.draft = drafts
  BY DEF DeleteClaims, AtWork, Writing, Numbered
<1>4. \A a \in 1 .. Len(claims') : a \in 1 .. Len(claims) /\ claims'[a] = claims[a]
  BY <1>1
<1>5. Resolved'
  BY <1>3, <1>4 DEF Resolved
<1>6. /\ \A a \in 1 .. Len(claims') : claims'[a].draft < drafts
      /\ \A l \in Langs : reports[l] # None => reports[l].draft < drafts
  BY <1>3, <1>4 DEF Numbered
<1>7. /\ \A a \in 1 .. Len(claims') : claims'[a].draft # drafts /\ claims'[a].draft <= drafts
      /\ \A l \in Langs : reports[l] # None => reports[l].draft # drafts
  <2>1. \A a \in 1 .. Len(claims) : claims[a].draft \in Nat
    BY Typed, ClaimSeq DEF Claim
  <2>2. \A l \in Langs : reports[l] # None => reports[l].draft \in Nat
    BY Typed DEF Row
  <2> QED
    BY <1>4, <1>6, <2>1, <2>2, Typed
<1> QED
  BY <1>2, <1>3, <1>5, <1>7, Typed DEF Numbered, Writing

LEMMA NumberedInsert ==
  ASSUME TypeOK, TypeOK', AtWork, Numbered, Resolved, InsertClaim
  PROVE  Numbered' /\ Resolved'
<1>1. PICK ok \in Outcomes :
          /\ claims' = IF ok THEN Append(claims, NewClaim(work.draft)) ELSE claims
          /\ work' = IF ok THEN [work EXCEPT !.open = TRUE] ELSE [work EXCEPT !.left = Tail(@)]
  BY Zenon DEF InsertClaim
<1>2. work'.draft = work.draft /\ work'.open = (ok \/ work.open)
  BY <1>1, OutcomeBound, Typed DEF Work
<1>3. /\ pc = "insert" /\ pc' = "insert" /\ ckpt' = ckpt /\ reports' = reports /\ drafts' = drafts
      /\ ~work.open /\ work.draft = drafts
  BY DEF InsertClaim, Writing, Numbered
<1>4. CASE ~ok
  BY <1>1, <1>2, <1>3, <1>4, SameNumbers
<1>5. CASE ok
  <2>1. claims' = Append(claims, NewClaim(drafts)) /\ claims' # <<>> /\ Len(claims') = Len(claims) + 1
    BY <1>1, <1>3, <1>5, Typed
  <2>2. NewClaim(drafts).draft = drafts /\ \A S : Cites(NewClaim(drafts), S)
    <3>1. Len(NewClaim(drafts).cites) = 0 /\ NewClaim(drafts).draft = drafts
      BY Typed, EmptySeq, NewRowsTyped
    <3> QED
      BY <3>1 DEF Cites
  <2>3. \A a \in 1 .. Len(claims') : \/ a \in 1 .. Len(claims) /\ claims'[a] = claims[a]
                                     \/ a = Len(claims') /\ claims'[a] = NewClaim(drafts)
    BY <2>1, Typed
  <2>4. Resolved'
    BY <1>3, <2>2, <2>3 DEF Resolved
  <2>5. claims'[Len(claims')].draft = drafts
    BY <2>1, <2>2, Typed
  <2>6. \A a \in 1 .. Len(claims') :
           /\ claims'[a].draft <= drafts
           /\ claims'[a].draft = drafts => Cites(claims'[a], Ranked(ckpt.ranked))
    BY <1>3, <2>2, <2>3, Typed DEF Numbered
  <2> QED
    BY <1>2, <1>3, <2>1, <2>4, <2>5, <2>6, Typed DEF Numbered, Writing
<1> QED
  BY <1>4, <1>5, OutcomeBound

LEMMA NumberedCite ==
  ASSUME TypeOK, TypeOK', AtWork, Numbered, Resolved, InsertCitation
  PROVE  Numbered' /\ Resolved'
<1>1. PICK ok \in BOOLEAN, left \in Seq(SUBSET Numbers), c \in Cite :
               /\ c.src \in Ranked(ckpt.ranked)
               /\ claims' = IF ok THEN Cited(claims, c) ELSE claims
               /\ work' = [work EXCEPT !.left = left]
  BY CitationEffect, Zenon
<1>2. /\ pc = "insert" /\ pc' = "insert" /\ work.open /\ claims # <<>>
      /\ ckpt' = ckpt /\ reports' = reports /\ drafts' = drafts
      /\ work.draft = drafts /\ claims[Len(claims)].draft = drafts
  BY CitationEffect DEF Numbered, Writing
<1>3. work'.draft = work.draft /\ work'.open = work.open
  BY <1>1, Typed DEF Work
<1>4. CASE ~ok
  BY <1>1, <1>2, <1>3, <1>4, SameNumbers
<1>5. CASE ok
  <2>1. /\ Len(claims') = Len(claims) /\ Len(claims) \in 1 .. Len(claims)
        /\ \A a \in 1 .. Len(claims) :
              /\ claims'[a].draft = claims[a].draft
              /\ claims'[a].cites = IF a = Len(claims) THEN Append(claims[a].cites, c)
                                                       ELSE claims[a].cites
    BY <1>1, <1>2, <1>5, Typed, CitedFacts
  <2>2. ASSUME NEW a \in 1 .. Len(claims), NEW S, Cites(claims[a], S),
               a = Len(claims) => c.src \in S
        PROVE  Cites(claims'[a], S)
    <3> DEFINE q == claims[a].cites
    <3>1. /\ q \in Seq(Cite) /\ Len(q) \in Nat /\ \A k \in 1 .. Len(q) : q[k].src \in S
      BY <2>2, Typed, ClaimSeq DEF Cites
    <3>2. claims'[a].cites = IF a = Len(claims) THEN Append(q, c) ELSE q
      BY <2>1
    <3> HIDE DEF q
    <3>3. \A k \in 1 .. Len(Append(q, c)) : \/ k \in 1 .. Len(q) /\ Append(q, c)[k] = q[k]
                                            \/ Append(q, c)[k] = c
      BY <3>1
    <3> QED
      BY <2>2, <3>1, <3>2, <3>3 DEF Cites
  <2>3. \A l \in Langs : reports[l] # None /\ reports[l].draft = drafts =>
                            reports[l].refs = ckpt.ranked
    BY <1>2 DEF Numbered
  <2>4. ASSUME NEW l \in Langs, reports[l] # None, NEW a \in 1 .. Len(claims),
               claims[a].draft = reports[l].draft
        PROVE  Cites(claims'[a], Ranked(reports[l].refs))
    <3>1. Cites(claims[a], Ranked(reports[l].refs))
      BY <2>4 DEF Resolved
    <3>2. a = Len(claims) => c.src \in Ranked(reports[l].refs)
      BY <1>1, <1>2, <2>3, <2>4
    <3> QED
      BY <2>2, <3>1, <3>2
  <2>5. Resolved'
    BY <1>2, <2>1, <2>4 DEF Resolved
  <2>6. ASSUME NEW a \in 1 .. Len(claims), claims[a].draft = drafts
        PROVE  Cites(claims'[a], Ranked(ckpt.ranked))
    <3>1. Cites(claims[a], Ranked(ckpt.ranked))
      BY <1>2, <2>6 DEF Numbered
    <3> QED
      BY <1>1, <2>2, <3>1
  <2>7. claims' # <<>> /\ claims'[Len(claims')].draft = drafts
    BY <1>2, <2>1, Typed
  <2> QED
    BY <1>2, <1>3, <2>1, <2>3, <2>5, <2>6, <2>7 DEF Numbered, Writing
<1> QED
  BY <1>4, <1>5

LEMMA NumberedSave ==
  ASSUME TypeOK, TypeOK', AtWork, Numbered, Resolved, SaveReport
  PROVE  Numbered' /\ Resolved'
<1>1. PICK ok \in Outcomes :
          /\ reports' = IF ok THEN [reports EXCEPT ![work.lang] = NewReport(work.draft, ckpt.ranked)]
                              ELSE reports
          /\ work' = [work EXCEPT !.lang = @ + 1, !.noted = @ \/ ~ok]
  BY Zenon DEF SaveReport
<1>2. work'.draft = work.draft /\ work'.open = work.open
  BY <1>1, Typed DEF Work
<1>3. /\ pc = "insert" /\ pc' = "insert" /\ ckpt' = ckpt /\ claims' = claims /\ drafts' = drafts
      /\ work.draft = drafts
  BY DEF SaveReport, Writing, Numbered
<1>4. CASE ~ok
  BY <1>1, <1>2, <1>3, <1>4, SameNumbers
<1>5. CASE ok
  <2>1. \A l \in Langs : reports'[l] = reports[l] \/ reports'[l] = NewReport(drafts, ckpt.ranked)
    BY <1>1, <1>3, <1>5, Typed
  <2>2. NewReport(drafts, ckpt.ranked).draft = drafts /\ NewReport(drafts, ckpt.ranked).refs = ckpt.ranked
    BY DEF NewReport
  <2>3. \A a \in 1 .. Len(claims) :
           claims[a].draft = drafts => Cites(claims[a], Ranked(ckpt.ranked))
    BY <1>3 DEF Numbered
  <2>4. Resolved'
    BY <1>3, <2>1, <2>2, <2>3 DEF Resolved
  <2>5. \A l \in Langs : reports'[l] # None =>
           /\ reports'[l].draft <= drafts
           /\ reports'[l].draft = drafts => reports'[l].refs = ckpt.ranked
    BY <1>3, <2>1, <2>2, Typed DEF Numbered
  <2> QED
    BY <1>2, <1>3, <2>4, <2>5 DEF Numbered, Writing
<1> QED
  BY <1>4, <1>5, OutcomeBound

LEMMA NumberedCheck ==
  ASSUME TypeOK, TypeOK', AtWork, Numbered, Resolved, CheckCitation
  PROVE  Numbered' /\ Resolved'
<1>1. PICK ok \in BOOLEAN, noted \in BOOLEAN, alive \in BOOLEAN, support \in Verdicts \cup {None} :
         /\ pc = "check" /\ pc' = "check"
         /\ work.i \in 1 .. Len(claims) /\ work.j \in 1 .. Len(claims[work.i].cites)
         /\ work' = [work EXCEPT !.seen = Put(work.seen, work.i, work.j,
                                              Given(work.seen[work.i].cites[work.j], alive, support)),
                                 !.j = work.j + 1, !.checked = work.checked + 1, !.noted = noted]
         /\ claims' = IF ok THEN Put(claims, work.i, work.j,
                                     Checked(claims[work.i].cites[work.j], alive, support))
                            ELSE claims
  BY CheckEffect, Zenon
<1>2. work'.draft = work.draft
  BY <1>1, Typed DEF Work
<1>3. UNCHANGED <<ckpt, reports, drafts>>
  BY DEF CheckCitation
<1>4. CASE ~ok
  BY <1>1, <1>2, <1>3, <1>4, NumbersStay DEF Writing
<1>5. CASE ok
  <2> DEFINE old == claims[work.i].cites[work.j]
             new == Checked(old, alive, support)
  <2>1. old \in Cite
    BY <1>1, Typed, ClaimSeq
  <2>2. new \in Cite /\ new.src = old.src
    BY <2>1, CheckedCite DEF Checked, Cite
  <2>3. claims' = Put(claims, work.i, work.j, new)
    BY <1>1, <1>5
  <2> HIDE DEF new
  <2>4. /\ SameClaims(claims', claims)
        /\ At(claims', <<work.i, work.j>>) = new
        /\ \A p \in Places(claims) : p # <<work.i, work.j>> => At(claims', p) = At(claims, p)
    BY <1>1, <2>2, <2>3, Typed, PutFacts
  <2>5. ASSUME NEW a \in 1 .. Len(claims), NEW k \in 1 .. Len(claims[a].cites)
        PROVE  claims'[a].cites[k].src = claims[a].cites[k].src
    <3>1. <<a, k>> \in Places(claims)
      BY PlacesAre
    <3>2. CASE <<a, k>> = <<work.i, work.j>>
      BY <2>2, <2>4, <3>2 DEF At
    <3>3. CASE <<a, k>> # <<work.i, work.j>>
      BY <2>4, <3>1, <3>3 DEF At
    <3> QED
      BY <3>2, <3>3
  <2> QED
    BY <1>1, <1>2, <1>3, <2>4, <2>5, SameNumbers DEF SameClaims, Writing
<1> QED
  BY <1>4, <1>5

LEMMA NumberedStep ==
  ASSUME TypeOK, TypeOK', AtWork, Numbered, Resolved, [Next]_vars
  PROVE  Numbered' /\ Resolved'
<1>1. CASE Rank
  <2>1. UNCHANGED <<claims, reports, drafts, work>> /\ pc' = "idle"
    BY <1>1 DEF Rank
  <2> QED
    BY <2>1, NumbersStay DEF Writing
<1>2. CASE SynthesizerReturns \/ JudgeDraft \/ Cut
  <2>1. UNCHANGED <<claims, reports, drafts>> /\ pc' = "idle" /\ work' = Idle
    BY <1>2, Zenon DEF SynthesizerReturns, JudgeDraft, Cut, rows
  <2>2. work'.draft = 0
    BY <2>1 DEF Idle
  <2> QED
    BY <2>1, <2>2, NumbersStay DEF Writing
<1>3. CASE CloseClaim
  <2>1. work'.draft = work.draft /\ (work'.open => work.open)
    BY <1>3, Typed DEF CloseClaim, Work
  <2>2. UNCHANGED <<claims, reports, drafts, ckpt, pc>>
    BY <1>3 DEF CloseClaim, rows
  <2> QED
    BY <2>1, <2>2, SameNumbers
<1>4. CASE LoadClaims
  <2>1. PICK ok \in Outcomes :
          work' = [Idle EXCEPT !.seen = IF ok THEN [i \in DOMAIN claims |-> Blank(claims[i])] ELSE <<>>,
                               !.noted = ~ok]
    BY <1>4, Zenon DEF LoadClaims
  <2>2. work'.draft = 0
    BY <2>1 DEF Idle
  <2>3. UNCHANGED <<claims, reports, drafts>> /\ pc' = "check"
    BY <1>4 DEF LoadClaims, rows
  <2> QED
    BY <2>2, <2>3, NumbersStay DEF Writing
<1>5. CASE NextClaim
  <2>1. work'.draft = work.draft
    BY <1>5, Typed DEF NextClaim, Work
  <2>2. UNCHANGED <<claims, reports, drafts>> /\ pc' = "check"
    BY <1>5 DEF NextClaim, Checking, rows
  <2> QED
    BY <2>1, <2>2, NumbersStay DEF Writing
<1>6. CASE MarkDead
  <2>1. UNCHANGED <<work, reports, drafts>> /\ pc' = "stamp" /\ Len(claims') = Len(claims)
    BY <1>6, MarkEffect
  <2>2. \A a \in 1 .. Len(claims) :
           claims'[a].draft = claims[a].draft /\ claims'[a].cites = claims[a].cites
    BY <1>6, MarkEffect
  <2> QED
    BY <2>1, <2>2, SameNumbers DEF Writing
<1>7. CASE Stamp
  <2>1. PICK ok \in BOOLEAN :
               /\ reports' = IF ok /\ Graded(work.seen) # {} THEN Stamped(CountsOf(work.seen))
                                                            ELSE reports
               /\ work' = [work EXCEPT !.noted = work.noted \/ ~ok]
    BY <1>7, StampEffect, Zenon
  <2>2. UNCHANGED <<claims, drafts>> /\ pc' = "score"
    BY <1>7, StampEffect
  <2>3. work'.draft = work.draft
    BY <2>1, Typed DEF Work
  <2>4. CountsOf(work.seen) \in Grounding
    BY Typed, CountsAreCounts
  <2>5. \A l \in Langs : reports'[l] # None =>
            /\ reports[l] # None /\ reports'[l].draft = reports[l].draft
            /\ reports'[l].refs = reports[l].refs
    BY <2>1, <2>4, StampedFacts
  <2> QED
    BY <2>2, <2>3, <2>5, SameNumbers DEF Writing
<1>8. CASE ScoreQuality
  <2>1. PICK ok \in BOOLEAN :
               /\ reports' = IF ok THEN Scored(Scorecard(work.seen)) ELSE reports
               /\ work' = [work EXCEPT !.noted = work.noted \/ ~ok]
    BY <1>8, ScoreEffect, Zenon
  <2>2. UNCHANGED <<claims, drafts>> /\ pc' = "judge"
    BY <1>8, ScoreEffect
  <2>3. work'.draft = work.draft
    BY <2>1, Typed DEF Work
  <2>4. Scorecard(work.seen) \in Grounding
    BY Typed, CountsAreCounts DEF Scorecard
  <2>5. \A l \in Langs : reports'[l] # None =>
            /\ reports[l] # None /\ reports'[l].draft = reports[l].draft
            /\ reports'[l].refs = reports[l].refs
    BY <2>1, <2>4, ScoredFacts
  <2> QED
    BY <2>2, <2>3, <2>5, SameNumbers DEF Writing
<1>9. CASE UNCHANGED vars
  BY <1>9, SameNumbers DEF vars, rows
<1> QED
  BY <1>1, <1>2, <1>3, <1>4, <1>5, <1>6, <1>7, <1>8, <1>9, NumberedWrite, NumberedDelete,
     NumberedInsert, NumberedCite, NumberedSave, NumberedCheck, Zenon DEF Next

LEMMA NumberedInit == Init => Numbered /\ Resolved
<1> SUFFICES ASSUME Init PROVE Numbered /\ Resolved
  OBVIOUS
<1>1. work.draft = 0 /\ drafts = 0 /\ claims = <<>> /\ pc = "idle"
      /\ \A l \in Langs : reports[l] = None
  BY DEF Init, Idle
<1> QED
  BY <1>1 DEF Numbered, Resolved, Writing

\* export.py and the synthesizer: what a claim of a draft rests on is in the numbered
\* list of each of that draft's reports, whatever is ranked, rewritten, cut off or
\* fails between the claim's row, the report's row and the export.
THEOREM CitedIsListedHolds == Spec => []CitedIsListed
<1> DEFINE Inv == IInv /\ Numbered /\ Resolved
<1>1. Init => Inv
  BY IInvInit, NumberedInit
<1>2. Inv /\ [Next]_vars => Inv'
  <2>1. IInv /\ [Next]_vars => IInv'
    BY IInvStep
  <2> QED
    BY <2>1, NumberedStep DEF IInv
<1>3. Inv => CitedIsListed
  BY ResolvedLists DEF IInv
<1> QED
  BY <1>1, <1>2, <1>3, PTL DEF Spec
=============================================================================
