------------------------------ MODULE ReportRows ------------------------------
(***************************************************************************)
(* The rows behind a report: what the ranker, the synthesizer and the      *)
(* verifier write, draft after draft, and what a reader of the database is *)
(* shown (graph/nodes/{ranker,synthesizer,verifier}.py,                    *)
(* db/repositories.py, export.py).                                         *)
(*                                                                         *)
(* A draft is one execution of the synthesizer.  It numbers the ranked     *)
(* sources, writes one report per language and takes claims and citations  *)
(* from the primary one.  The verifier reads the claims back, gives every  *)
(* citation a verdict and stamps what it counted on every report row.  A   *)
(* node's rows are committed one by one, its result is checkpointed when   *)
(* it returns: a node that is cut off in between starts again, with the    *)
(* rows of the first attempt in place.                                     *)
(*                                                                         *)
(* Texts are reduced to the draft they belong to; a language is its place  *)
(* in the list of languages, which is also its column ord.                 *)
(***************************************************************************)
EXTENDS Integers, Sequences, FiniteSets

CONSTANTS
    Sources,        \* ids of the run's sources
    NLangs,         \* report languages
    MaxClaims,      \* bound on the claims of a draft
    MaxDrafts,      \* bound on the executions of the synthesizer
    MaxReturns,     \* verifier_max_iterations
    Subtopics,      \* the run's sub-questions
    RetryCap,       \* _MAX_RERESEARCH
    CheckCap,       \* _MAX_CITATIONS
    Judgements,     \* the verdicts on a citation that may occur
    MaxFaults,      \* bound on cuts, failing writes and failing model calls
    None            \* SQL NULL

Verdicts == {"supported", "partial", "unsupported", "unverifiable"}
Grounding == [of : SUBSET Nat, graded : Nat, grounded : Nat]
Row == [draft : Nat, refs : Seq(Sources),
        grounding : Grounding \cup {None}, quality : Grounding \cup {None}]

ASSUME ReportRowsAssumption ==
    /\ NLangs \in Nat \ {0}
    /\ {MaxClaims, MaxDrafts, MaxReturns, RetryCap, CheckCap, MaxFaults} \subseteq Nat
    /\ IsFiniteSet(Sources)
    /\ Judgements \subseteq Verdicts
    /\ None \notin Verdicts /\ None \notin BOOLEAN /\ None \notin Grounding \cup Row

VARIABLES
    ckpt,      \* the checkpoint: next node, and the keys of ResearchState used here
    kept,      \* source_scores.kept
    claims,    \* claims with their citations, in the order of their ids
    reports,   \* the newest row of each language: no reader looks at older ones
    pc,        \* the running node's position, "idle" between nodes
    work,      \* its local variables
    drafts,    \* history: executions of the synthesizer so far
    lost,      \* history: a write that the code passes over has failed for these claims
    faults     \* history: cuts and failures so far

rows == <<kept, claims, reports>>
vars == <<ckpt, rows, pc, work, drafts, lost, faults>>

-----------------------------------------------------------------------------
Langs == 0 .. NLangs - 1

\* get_reports: the newest row of each language; the primary one comes first.
Written == {l \in Langs : reports[l] # None}

\* insert_claim, insert_citation and save_report make these rows.
NewClaim(draft) == [draft |-> draft, dead |-> FALSE, cites |-> <<>>]
NewCitation(source) == [src |-> source, alive |-> None, support |-> None]
NewReport(draft, refs) == [draft |-> draft, refs |-> refs, grounding |-> None, quality |-> None]

\* update_citation_verdict: a check that gave no verdict leaves the one that is
\* there (COALESCE).
Checked(cite, alive, support) ==
    [cite EXCEPT !.alive = alive, !.support = IF support = None THEN @ ELSE support]

\* update_report_grounding and update_report_quality: the rows of all languages,
\* whatever draft they hold.
Stamped(counts) ==
    [l \in Langs |-> IF l \in Written THEN [reports[l] EXCEPT !.grounding = counts] ELSE None]
Scored(card) ==
    [l \in Langs |-> IF l \in Written THEN [reports[l] EXCEPT !.quality = card] ELSE None]

\* All orders of a set.
Orders(S) ==
    LET n == Cardinality(S)
    IN  {q \in [1 .. n -> S] : \A s \in S : \E i \in 1 .. n : q[i] = s}

\* draft: the one being written.  left: the citations, by number, of the claims
\* still to be inserted; open: the first of them has its row.  lang: the next
\* report to save.  seen: what get_claims returned, with the verdicts of this
\* pass; i, j: the next citation; checked: how many had their turn.
Idle == [draft |-> 0, left |-> <<>>, open |-> FALSE, lang |-> 0,
         seen |-> <<>>, i |-> 1, j |-> 1, checked |-> 0, noted |-> FALSE]

Init ==
    /\ ckpt = [next |-> "ranker", ranked |-> <<>>, draft |-> 0, iteration |-> 0,
               retried |-> {}, noted |-> FALSE]
    /\ kept = [s \in Sources |-> None]
    /\ claims = <<>>
    /\ reports = [l \in Langs |-> None]
    /\ pc = "idle"
    /\ work = Idle
    /\ drafts = 0
    /\ lost = FALSE
    /\ faults = 0

\* How a write or a model call may end.
Outcomes == {TRUE, faults = MaxFaults}
Count(ok) == faults' = IF ok THEN faults ELSE faults + 1

-----------------------------------------------------------------------------
(***************************************************************************)
(* ranker                                                                  *)
(***************************************************************************)
\* The scoring of a group of sources may fail, which is noted; a score that
\* cannot be stored is passed over.
Rank ==
    /\ pc = "idle"
    /\ ckpt.next = "ranker"
    /\ \E fine \in Outcomes :
       \E ok \in (IF fine THEN {Sources} ELSE SUBSET Sources) :
       \E stored \in (IF fine THEN {ok} ELSE SUBSET ok) :
       \E keep \in SUBSET ok :
       \E order \in Orders(keep) :
          /\ kept' = [s \in Sources |-> IF s \in stored THEN s \in keep ELSE kept[s]]
          /\ ckpt' = [ckpt EXCEPT !.next = "synthesizer", !.ranked = order,
                                  !.noted = @ \/ ok # Sources]
          /\ Count(fine)
    /\ UNCHANGED <<claims, reports, pc, work, drafts, lost>>

-----------------------------------------------------------------------------
(***************************************************************************)
(* synthesizer                                                             *)
(***************************************************************************)
\* The ranked sources are numbered from 1.
Numbers == 1 .. Len(ckpt.ranked)

\* What may be taken from a report as its claims: each cites some of the numbers.
\* (Twice the same number, or another order than theirs, makes no difference.)
Extracted == UNION {[1 .. n -> SUBSET Numbers] : n \in 0 .. MaxClaims}

\* Writes the reports, revises them, and extracts the claims of the primary one.
\* Extraction may fail, which leaves none.
Write ==
    /\ pc = "idle"
    /\ ckpt.next = "synthesizer"
    /\ drafts < MaxDrafts
    /\ drafts' = drafts + 1
    /\ \E left \in Extracted :
       \E ok \in (IF left = <<>> THEN Outcomes ELSE {TRUE}) :
          /\ work' = [Idle EXCEPT !.draft = drafts + 1, !.left = left, !.noted = ~ok]
          /\ Count(ok)
    /\ pc' = "delete"
    /\ UNCHANGED <<ckpt, rows, lost>>

\* Mutant: the claims of earlier drafts stay.
DeleteClaimsOmitted ==
    /\ pc = "delete"
    /\ pc' = "insert"
    /\ \E ok \in Outcomes :
          /\ claims' = claims
          /\ work' = [work EXCEPT !.noted = @ \/ ~ok]
          /\ Count(ok)
    /\ lost' = FALSE
    /\ UNCHANGED <<ckpt, kept, reports, drafts>>

\* delete_claims takes the claims of all earlier drafts and, by the cascade,
\* their citations.
DeleteClaims ==
    /\ pc = "delete"
    /\ pc' = "insert"
    /\ \E ok \in Outcomes :
          /\ claims' = IF ok THEN <<>> ELSE claims
          /\ work' = [work EXCEPT !.noted = @ \/ ~ok]
          /\ Count(ok)
    /\ lost' = FALSE
    /\ UNCHANGED <<ckpt, kept, reports, drafts>>

\* A claim whose row cannot be inserted is skipped with its citations.
InsertClaim ==
    /\ pc = "insert"
    /\ work.left # <<>>
    /\ ~work.open
    /\ \E ok \in Outcomes :
          /\ claims' = IF ok THEN Append(claims, NewClaim(work.draft))
                             ELSE claims
          /\ work' = IF ok THEN [work EXCEPT !.open = TRUE] ELSE [work EXCEPT !.left = Tail(@)]
          /\ lost' = (lost \/ ~ok)
          /\ Count(ok)
    /\ UNCHANGED <<ckpt, kept, reports, pc, drafts>>

\* The citations of the open claim, by their numbers.
InsertCitation ==
    /\ pc = "insert"
    /\ work.open
    /\ \E n \in Head(work.left) : \E ok \in Outcomes :
          /\ \A m \in Head(work.left) : n <= m
          /\ claims' = IF ok THEN [claims EXCEPT ![Len(claims)].cites =
                                                Append(@, NewCitation(ckpt.ranked[n]))]
                             ELSE claims
          /\ work' = [work EXCEPT !.left[1] = @ \ {n}]
          /\ lost' = (lost \/ ~ok)
          /\ Count(ok)
    /\ UNCHANGED <<ckpt, kept, reports, pc, drafts>>

CloseClaim ==
    /\ pc = "insert"
    /\ work.open
    /\ Head(work.left) = {}
    /\ work' = [work EXCEPT !.left = Tail(@), !.open = FALSE]
    /\ UNCHANGED <<ckpt, rows, pc, drafts, lost, faults>>

\* Mutant: a language that has a report keeps it.
SaveReportOnce ==
    /\ pc = "insert"
    /\ work.left = <<>>
    /\ work.lang \in Langs
    /\ \E ok \in Outcomes :
          /\ reports' = IF ok /\ work.lang \notin Written
                        THEN [reports EXCEPT ![work.lang] = NewReport(work.draft, ckpt.ranked)]
                        ELSE reports
          /\ work' = [work EXCEPT !.lang = @ + 1, !.noted = @ \/ ~ok]
          /\ Count(ok)
    /\ UNCHANGED <<ckpt, kept, claims, pc, drafts, lost>>

\* Mutant: the row keeps the numbers that were given to an earlier draft.
SaveReportOldRefs ==
    /\ pc = "insert"
    /\ work.left = <<>>
    /\ work.lang \in Langs
    /\ \E ok \in Outcomes :
          /\ LET refs == IF work.lang \in Written THEN reports[work.lang].refs ELSE ckpt.ranked
             IN  reports' = IF ok THEN [reports EXCEPT ![work.lang] = NewReport(work.draft, refs)]
                            ELSE reports
          /\ work' = [work EXCEPT !.lang = @ + 1, !.noted = @ \/ ~ok]
          /\ Count(ok)
    /\ UNCHANGED <<ckpt, kept, claims, pc, drafts, lost>>

\* One row per language, each in a transaction of its own, primary first; a
\* failure is noted and the loop goes on.
SaveReport ==
    /\ pc = "insert"
    /\ work.left = <<>>
    /\ work.lang \in Langs
    /\ \E ok \in Outcomes :
          /\ reports' = IF ok THEN [reports EXCEPT ![work.lang] = NewReport(work.draft, ckpt.ranked)]
                              ELSE reports
          /\ work' = [work EXCEPT !.lang = @ + 1, !.noted = @ \/ ~ok]
          /\ Count(ok)
    /\ UNCHANGED <<ckpt, kept, claims, pc, drafts, lost>>

SynthesizerReturns ==
    /\ pc = "insert"
    /\ work.left = <<>>
    /\ work.lang \notin Langs
    /\ ckpt' = [ckpt EXCEPT !.next = "verifier", !.draft = work.draft, !.noted = @ \/ work.noted]
    /\ pc' = "idle"
    /\ work' = Idle
    /\ UNCHANGED <<rows, drafts, lost, faults>>

-----------------------------------------------------------------------------
(***************************************************************************)
(* verifier                                                                *)
(***************************************************************************)
\* The claims as a pass starts with them: no verdict of its own yet.
Blank(c) ==
    [c EXCEPT !.cites = [k \in DOMAIN c.cites |->
                            [c.cites[k] EXCEPT !.alive = None, !.support = None]]]

LoadClaims ==
    /\ pc = "idle"
    /\ ckpt.next = "verifier"
    /\ pc' = "check"
    /\ \E ok \in Outcomes :
          /\ work' = [Idle EXCEPT !.seen = IF ok THEN [i \in DOMAIN claims |-> Blank(claims[i])] ELSE <<>>,
                                  !.noted = ~ok]
          /\ Count(ok)
    /\ UNCHANGED <<ckpt, rows, drafts, lost>>

Checking == pc = "check" /\ work.i <= Len(work.seen) /\ work.checked < CheckCap

\* Is the link alive, and does the source back the claim?  Either check may fail,
\* which is noted; a link that could not be checked counts as dead.
CheckCitation ==
    /\ Checking
    /\ work.j <= Len(work.seen[work.i].cites)
    /\ \E ok \in Outcomes, reached \in Outcomes,
          alive \in BOOLEAN, support \in Judgements \cup {None} :
          /\ support = None => faults < MaxFaults
          /\ alive => reached
          /\ work' = [work EXCEPT !.seen[work.i].cites[work.j] =
                                     [@ EXCEPT !.alive = alive, !.support = support],
                                  !.j = @ + 1, !.checked = @ + 1,
                                  !.noted = @ \/ support = None \/ ~reached]
          /\ claims' = IF ok THEN [claims EXCEPT ![work.i].cites[work.j] = Checked(@, alive, support)]
                             ELSE claims
          /\ lost' = (lost \/ ~ok)
          /\ Count(ok /\ reached /\ support # None)
    /\ UNCHANGED <<ckpt, kept, reports, pc, drafts>>

NextClaim ==
    /\ Checking
    /\ work.j > Len(work.seen[work.i].cites)
    /\ work' = [work EXCEPT !.i = @ + 1, !.j = 1]
    /\ UNCHANGED <<ckpt, rows, pc, drafts, lost, faults>>

\* A claim is dead when the citations that had their turn all are.
CheckedOf(c) == {k \in DOMAIN c.cites : c.cites[k].alive # None}
DeadClaim(c) == CheckedOf(c) # {} /\ \A k \in CheckedOf(c) : ~c.cites[k].alive
DeadClaims == {i \in DOMAIN work.seen : DeadClaim(work.seen[i])}

\* set_claim_status for each of them; one that fails is passed over.
MarkDead ==
    /\ pc = "check"
    /\ ~Checking
    /\ pc' = "stamp"
    /\ \E ok \in Outcomes : \E marked \in (IF ok THEN {DeadClaims} ELSE SUBSET DeadClaims) :
          /\ claims' = [i \in DOMAIN claims |-> [claims[i] EXCEPT !.dead = @ \/ i \in marked]]
          /\ Count(ok)
    /\ UNCHANGED <<ckpt, kept, reports, work, drafts, lost>>

\* A claim is as good as the best verdict on its citations.
Backed == {"supported", "partial"}
VerdictsOn(c) == {c.cites[k].support : k \in DOMAIN c.cites} \ {None}
Graded(cs) == {i \in DOMAIN cs : VerdictsOn(cs[i]) # {}}
Grounded(cs) == {i \in Graded(cs) : VerdictsOn(cs[i]) \cap Backed # {}}
Refuted(cs) == {i \in Graded(cs) : VerdictsOn(cs[i]) = {"unsupported"}}

CountsOf(cs) == [of |-> {cs[i].draft : i \in Graded(cs)},
                 graded |-> Cardinality(Graded(cs)), grounded |-> Cardinality(Grounded(cs))]

\* Mutant: a share of zero is taken for no share.
StampUnlessZero ==
    /\ pc = "stamp"
    /\ pc' = "score"
    /\ \E ok \in (IF Grounded(work.seen) # {} THEN Outcomes ELSE {TRUE}) :
          /\ reports' = IF ok /\ Grounded(work.seen) # {} THEN Stamped(CountsOf(work.seen)) ELSE reports
          /\ work' = [work EXCEPT !.noted = @ \/ ~ok]
          /\ Count(ok)
    /\ UNCHANGED <<ckpt, kept, claims, drafts, lost>>

\* Only if some claim was graded.
Stamp ==
    /\ pc = "stamp"
    /\ pc' = "score"
    /\ \E ok \in (IF Graded(work.seen) # {} THEN Outcomes ELSE {TRUE}) :
          /\ reports' = IF ok /\ Graded(work.seen) # {} THEN Stamped(CountsOf(work.seen)) ELSE reports
          /\ work' = [work EXCEPT !.noted = @ \/ ~ok]
          /\ Count(ok)
    /\ UNCHANGED <<ckpt, kept, claims, drafts, lost>>

\* The scorecard.  It has the grounded share in it, and of its metrics only that
\* one is kept here.
Scorecard(cs) == CountsOf(cs)

\* It goes on every row after every pass, whether the share was stored or not.
ScoreQuality ==
    /\ pc = "score"
    /\ pc' = "judge"
    /\ \E ok \in Outcomes :
          /\ reports' = IF ok THEN Scored(Scorecard(work.seen)) ELSE reports
          /\ work' = [work EXCEPT !.noted = @ \/ ~ok]
          /\ Count(ok)
    /\ UNCHANGED <<ckpt, kept, claims, drafts, lost>>

\* Dead claims send the report back to the writer; refuted ones back to the
\* search, a few sub-questions at a time that have not been retried.
JudgeDraft ==
    /\ pc = "judge"
    /\ \E again \in SUBSET (Subtopics \ ckpt.retried) :
         LET left == ckpt.iteration < MaxReturns
             fatal == DeadClaims # {} /\ left
             evidence == again # {} /\ ~fatal /\ left
         IN  /\ Cardinality(again) <= RetryCap
             /\ Cardinality(again) <= Cardinality(Refuted(work.seen))
             /\ ckpt' = [ckpt EXCEPT !.next = IF fatal THEN "synthesizer"
                                              ELSE IF evidence THEN "ranker" ELSE "finalizer",
                                     !.retried = IF evidence THEN @ \cup again ELSE @,
                                     !.iteration = @ + 1, !.noted = @ \/ work.noted]
    /\ pc' = "idle"
    /\ work' = Idle
    /\ UNCHANGED <<rows, drafts, lost, faults>>

-----------------------------------------------------------------------------
\* A stream that closes, a cancel or a crash ends the node where it stands.
Cut ==
    /\ faults < MaxFaults
    /\ faults' = faults + 1
    /\ pc # "idle"
    /\ pc' = "idle"
    /\ work' = Idle
    /\ UNCHANGED <<ckpt, rows, drafts, lost>>

Next ==
    \/ Rank
    \/ Write \/ DeleteClaims \/ InsertClaim \/ InsertCitation \/ CloseClaim
    \/ SaveReport \/ SynthesizerReturns
    \/ LoadClaims \/ CheckCitation \/ NextClaim \/ MarkDead \/ Stamp \/ ScoreQuality \/ JudgeDraft
    \/ Cut

Spec == Init /\ [][Next]_vars

-----------------------------------------------------------------------------
(***************************************************************************)
(* What a reader is shown                                                  *)
(***************************************************************************)
\* The numbered list of an export: with a mapping every source of the run is
\* looked up, without one the kept sources are counted.
UseAllSources(r) == r.refs # <<>>
Listed(r) == {s \in Sources : UseAllSources(r) \/ kept[s] # FALSE}
NumberedRefs(r) == {n \in DOMAIN r.refs : r.refs[n] \in Listed(r)}

-----------------------------------------------------------------------------
Cite == [src : Sources, alive : BOOLEAN \cup {None}, support : Verdicts \cup {None}]
Claim == [draft : Nat, dead : BOOLEAN, cites : Seq(Cite)]

TypeOK ==
    /\ ckpt \in [next : {"ranker", "synthesizer", "verifier", "finalizer"},
                 ranked : Seq(Sources), draft : Nat, iteration : Nat,
                 retried : SUBSET Subtopics, noted : BOOLEAN]
    /\ kept \in [Sources -> BOOLEAN \cup {None}]
    /\ claims \in Seq(Claim)
    /\ reports \in [Langs -> Row \cup {None}]
    /\ pc \in {"idle", "delete", "insert", "check", "stamp", "score", "judge"}
    /\ work \in [draft : Nat, left : Seq(SUBSET Nat), open : BOOLEAN, lang : Nat,
                 seen : Seq(Claim), i : Nat, j : Nat, checked : Nat, noted : BOOLEAN]
    /\ drafts \in Nat
    /\ lost \in BOOLEAN
    /\ faults \in 0 .. MaxFaults

Settled == pc = "idle" /\ ckpt.next = "finalizer"

\* The share of grounded claims next to a shown report was counted over the
\* claims of that report alone, however often it was rewritten, cut off or
\* checked before; unless the run has noted an error.
GroundingOfItsDraft ==
    ~ckpt.noted => \A l \in Written : \A stamp \in {reports[l].grounding, reports[l].quality} :
        stamp # None => stamp.of \subseteq {reports[l].draft}

\* When the run ends without having noted an error, all languages show the
\* draft that the state holds, and so do the claims listed beside them.
OneDraftAtEnd ==
    Settled /\ ~ckpt.noted =>
        /\ Written = Langs
        /\ \A l \in Langs : reports[l].draft = ckpt.draft
        /\ \A i \in DOMAIN claims : claims[i].draft = ckpt.draft

\* At the end the share and the scorecard on every report are those of the
\* verdicts in the rows, unless an error was noted or a write failed that the
\* code passes over.
CountsAgree ==
    Settled /\ ~ckpt.noted /\ ~lost =>
        \A l \in Written :
            /\ reports[l].quality = Scorecard(claims)
            /\ reports[l].grounding = IF Graded(claims) = {} THEN None ELSE CountsOf(claims)

\* A source that a claim of the shown draft rests on has its number in the
\* export of each of that draft's reports, whatever is ranked, dropped, rewritten
\* or cut off between the writing of the claim, of the report and the export.
CitedIsListed ==
    \A l \in Written : \A i \in DOMAIN claims :
        claims[i].draft = reports[l].draft =>
            \A k \in DOMAIN claims[i].cites :
                \E n \in NumberedRefs(reports[l]) : reports[l].refs[n] = claims[i].cites[k].src
=============================================================================
