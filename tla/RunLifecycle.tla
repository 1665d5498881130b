---------------------------- MODULE RunLifecycle ----------------------------
(***************************************************************************)
(* The life of ONE research run, as graph/runner.py drives it.             *)
(*                                                                         *)
(* Three kinds of request handlers interleave at every await:              *)
(*   Streams    GET  /runs/{id}/stream  -> run_stream                      *)
(*   Approvals  POST /runs/{id}/approve -> approve                         *)
(*   Cancels    POST /runs/{id}/cancel  -> cancel                          *)
(* They share the run's database row and settings, the graph checkpoint    *)
(* and two process-wide dictionaries.  The browser's EventSource reopens a *)
(* closed stream by itself, so a stream slot is opened again and again.    *)
(* The graph is seen here as a line of stages; ResearchGraph opens up what *)
(* happens inside them.                                                    *)
(***************************************************************************)
EXTENDS Naturals, FiniteSets

CONSTANTS
    Streams,       \* concurrent stream requests (tabs, reconnects)
    Approvals,     \* approve requests; each carries its own decision
    Cancels,       \* cancel requests
    GateSettings,  \* values `require_approval` may have when a run starts
    Faults,        \* which of FaultKinds the environment may inject
    MaxMisreads,   \* bound on the readings of the flag that fail
    NoStream,
    NoDecision

FaultKinds == {"disconnect", "crash", "nodeError"}

ASSUME LifecycleAssumption ==
    /\ NoStream \notin Streams
    /\ NoDecision \notin Approvals
    /\ GateSettings \in SUBSET BOOLEAN
    /\ Faults \in SUBSET FaultKinds
    /\ MaxMisreads \in Nat

VARIABLES
    \* durable: survives a restart of the process
    status,        \* runs.status
    project,       \* projects.status, as far as the runner and finalizer go
    cancelFlag,    \* setting cancel:{run}
    pendingDb,     \* setting pending_approval:{run}
    ckpt,          \* the graph's last saved checkpoint
    \* memory of the process
    pendingMem,    \* _PENDING_DECISIONS[run]
    registry,      \* _CANCEL_EVENTS[run]: the stream whose event is registered
    orphans,       \* database writes left in worker threads by dead coroutines
    \* one per stream: its program position and local variables
    pc, held, at, woken,
    \* ... and a history: at which positions it has read the flag wrong
    misread,
    \* program positions of the other handlers
    pcA, pcC,
    \* history: an approval panel was shown, decisions the graph was resumed
    \* with, streams opened after the cancel flag was set, readings of the set
    \* flag that failed
    offered, resumed, late, misreads

durable == <<status, project, cancelFlag, pendingDb, ckpt>>
memory  == <<pendingMem, registry, orphans>>
locals  == <<pc, held, at, woken, misread>>
posts   == <<pcA, pcC>>
history == <<offered, resumed, late, misreads>>
vars    == <<durable, memory, locals, posts, history>>

-----------------------------------------------------------------------------
Statuses == {"running", "awaiting_approval", "done", "error", "cancelled"}

\* Where the graph stands: nothing saved; the planner (and moderator) next;
\* the approval node next; parked at its interrupt; the research loop next;
\* the finalizer next; at END.
Stages == {"none", "planner", "approval", "parked", "research", "finalizer", "end"}

Checkpoint == [stage : Stages, gate : BOOLEAN]
NoCheckpoint == [stage |-> "none", gate |-> FALSE]

\* snap.next is truthy: something is left to execute.
HasNext(c) == c.stage \notin {"none", "end"}

\* Stages beyond the human gate.
Beyond == {"research", "finalizer", "end"}

\* Positions of a stream in which the graph is being executed.
Running == {"begin", "pull", "finProject", "finSave"}

StreamPcs == Running \cup
    {"idle", "flagCheck", "sayCancelled", "loadSnap", "freshStatus",
     "popPending", "readPending", "clearPending", "popAgain", "resumeStatus",
     "register", "recheck", "failWrite", "closeFailed", "closeCancelled",
     "closeEnded", "cancelWrite", "finalFlag", "finalSnap", "parkWrite"}

Writes == Statuses \cup {"clearPending", "projectDone"}

Init ==
    /\ status = "running"                 \* create_run
    /\ project = "planning"               \* create_project_endpoint
    /\ cancelFlag = FALSE
    /\ pendingDb = NoDecision
    /\ ckpt = NoCheckpoint
    /\ pendingMem = NoDecision
    /\ registry = NoStream
    /\ orphans = {}
    /\ pc = [s \in Streams |-> "idle"]
    /\ held = [s \in Streams |-> NoDecision]
    /\ at = [s \in Streams |-> NoCheckpoint]
    /\ woken = [s \in Streams |-> FALSE]
    /\ pcA = [a \in Approvals |-> "idle"]
    /\ pcC = [c \in Cancels |-> "idle"]
    /\ offered = FALSE
    /\ resumed = {}
    /\ late = {}
    /\ misreads = 0
    /\ misread = [s \in Streams |-> {}]

-----------------------------------------------------------------------------
(***************************************************************************)
(* run_stream: from the request to the start of the graph                  *)
(***************************************************************************)
Goto(s, there) == pc' = [pc EXCEPT ![s] = there]

\* The stream's task is over: its locals are gone.
Finish(s) ==
    /\ pc' = [pc EXCEPT ![s] = "idle"]
    /\ held' = [held EXCEPT ![s] = NoDecision]
    /\ at' = [at EXCEPT ![s] = NoCheckpoint]
    /\ woken' = [woken EXCEPT ![s] = FALSE]
    /\ misread' = [misread EXCEPT ![s] = {}]

\* The request arrives and reads the run's row; a cancelled row short-circuits
\* the `or` that would read the flag.
Open(s) ==
    /\ pc[s] = "idle"
    /\ Goto(s, IF status = "cancelled" THEN "sayCancelled" ELSE "flagCheck")
    /\ late' = IF cancelFlag THEN late \cup {s} ELSE late \ {s}
    /\ UNCHANGED <<durable, memory, held, at, woken, misread, posts, offered, resumed,
                   misreads>>

\* is_cancelled: a reading of the flag that fails is taken for "not cancelled".
Answers == {cancelFlag} \cup (IF misreads < MaxMisreads THEN {FALSE} ELSE {})
Count(answer) == misreads' = IF answer = cancelFlag THEN misreads ELSE misreads + 1
Note(s, answer) ==
    misread' = [misread EXCEPT ![s] = IF answer = cancelFlag THEN @ ELSE @ \cup {pc[s]}]

\* Mutant: trusts the row's status alone.
FlagCheckSkipped(s) ==
    /\ pc[s] = "flagCheck"
    /\ Goto(s, "loadSnap")
    /\ UNCHANGED <<durable, memory, held, at, woken, misread, posts, history>>

FlagCheck(s) ==
    /\ pc[s] = "flagCheck"
    /\ \E answer \in Answers :
          /\ Goto(s, IF answer THEN "sayCancelled" ELSE "loadSnap")
          /\ Note(s, answer)
          /\ Count(answer)
    /\ UNCHANGED <<durable, memory, held, at, woken, posts, offered, resumed, late>>

\* "A cancelled run is terminal": rewrite the status, report it and stop.
SayCancelled(s) ==
    /\ pc[s] = "sayCancelled"
    /\ status' = "cancelled"
    /\ Finish(s)
    /\ UNCHANGED <<project, cancelFlag, pendingDb, ckpt, memory, posts, history>>

\* Mutant: takes every unfinished checkpoint for a fresh run.
LoadSnapRestarts(s) ==
    /\ pc[s] = "loadSnap"
    /\ IF ckpt.stage = "end"
         THEN Finish(s)
         ELSE Goto(s, "freshStatus") /\ UNCHANGED <<held, at, woken, misread>>
    /\ UNCHANGED <<durable, memory, posts, history>>

\* aget_state chooses between FRESH, PAUSED and DONE.
LoadSnap(s) ==
    /\ pc[s] = "loadSnap"
    /\ IF ckpt.stage = "end"
         THEN Finish(s)
         ELSE /\ Goto(s, IF HasNext(ckpt) THEN "popPending" ELSE "freshStatus")
              /\ UNCHANGED <<held, at, woken, misread>>
    /\ UNCHANGED <<durable, memory, posts, history>>

FreshStatus(s) ==
    /\ pc[s] = "freshStatus"
    /\ status' = "running"
    /\ Goto(s, "register")
    /\ UNCHANGED <<project, cancelFlag, pendingDb, ckpt, memory, held, at, woken, misread,
                   posts, history>>

\* PAUSED: prefer the in-memory decision ...
PopPending(s) ==
    /\ pc[s] = "popPending"
    /\ held' = [held EXCEPT ![s] = pendingMem]
    /\ pendingMem' = NoDecision
    /\ Goto(s, IF pendingMem = NoDecision THEN "readPending" ELSE "clearPending")
    /\ UNCHANGED <<durable, registry, orphans, at, woken, misread, posts, history>>

\* ... fall back to the persisted one ...
ReadPending(s) ==
    /\ pc[s] = "readPending"
    /\ pendingDb # NoDecision
    /\ held' = [held EXCEPT ![s] = pendingDb]
    /\ Goto(s, "clearPending")
    /\ UNCHANGED <<durable, memory, at, woken, misread, posts, history>>

\* ... and with neither, emit awaiting_approval again and stop.
OfferAgain(s) ==
    /\ pc[s] = "readPending"
    /\ pendingDb = NoDecision
    /\ offered' = TRUE
    /\ Finish(s)
    /\ UNCHANGED <<durable, memory, posts, resumed, late, misreads>>

\* Consume the decision: the persisted copy, then any copy in memory.
ClearPending(s) ==
    /\ pc[s] = "clearPending"
    /\ pendingDb' = NoDecision
    /\ Goto(s, "popAgain")
    /\ UNCHANGED <<status, project, cancelFlag, ckpt, memory, held, at, woken, misread,
                   posts, history>>

\* Mutant: the second pop overwrites the decision.
PopAgainOverwrites(s) ==
    /\ pc[s] = "popAgain"
    /\ held' = [held EXCEPT ![s] = pendingMem]
    /\ pendingMem' = NoDecision
    /\ Goto(s, "resumeStatus")
    /\ UNCHANGED <<durable, registry, orphans, at, woken, misread, posts, history>>

PopAgain(s) ==
    /\ pc[s] = "popAgain"
    /\ pendingMem' = NoDecision
    /\ Goto(s, "resumeStatus")
    /\ UNCHANGED <<durable, registry, orphans, held, at, woken, misread, posts, history>>

ResumeStatus(s) ==
    /\ pc[s] = "resumeStatus"
    /\ status' = "running"
    /\ Goto(s, "register")
    /\ UNCHANGED <<project, cancelFlag, pendingDb, ckpt, memory, held, at, woken, misread,
                   posts, history>>

\* Put a fresh cancel event in the registry, over whatever was there ...
Register(s) ==
    /\ pc[s] = "register"
    /\ registry' = s
    /\ Goto(s, "recheck")
    /\ UNCHANGED <<durable, pendingMem, orphans, held, at, woken, misread, posts, history>>

\* Mutant: no look at the flag after registering.
RecheckOmitted(s) ==
    /\ pc[s] = "recheck"
    /\ Goto(s, "begin")
    /\ UNCHANGED <<durable, memory, held, at, woken, misread, posts, history>>

\* ... and only then look for a cancel that raced in before.
Recheck(s) ==
    /\ pc[s] = "recheck"
    /\ \E answer \in Answers :
          /\ woken' = [woken EXCEPT ![s] = @ \/ answer]
          /\ Note(s, answer)
          /\ Count(answer)
    /\ Goto(s, "begin")
    /\ UNCHANGED <<durable, memory, held, at, posts, offered, resumed, late>>

-----------------------------------------------------------------------------
(***************************************************************************)
(* Executing the graph.  at[s] is the checkpoint the executor works on in  *)
(* memory; it saves it after every node and never reads it back.           *)
(***************************************************************************)
Save(s, stage) ==
    /\ at' = [at EXCEPT ![s].stage = stage]
    /\ ckpt' = [at[s] EXCEPT !.stage = stage]

\* astream(initial_state): the input overwrites whatever the thread held.
BeginFresh(s) ==
    /\ pc[s] = "begin"
    /\ held[s] = NoDecision
    /\ \E g \in GateSettings :
         LET c == [stage |-> "planner", gate |-> g]
         IN  ckpt' = c /\ at' = [at EXCEPT ![s] = c]
    /\ Goto(s, "pull")
    /\ UNCHANGED <<status, project, cancelFlag, pendingDb, memory, held, woken, misread,
                   posts, history>>

\* astream(Command(resume)): continue from the checkpoint as it is now.
BeginResume(s) ==
    /\ pc[s] = "begin"
    /\ held[s] # NoDecision
    /\ at' = [at EXCEPT ![s] = ckpt]
    /\ resumed' = resumed \cup {held[s]}
    /\ Goto(s, "pull")
    /\ UNCHANGED <<durable, memory, held, woken, misread, posts, offered, late, misreads>>

\* Planner and moderator finish.  A resume value is offered to the first node
\* of an invocation only, so whatever this invocation held is spent.
PlannerDone(s) ==
    /\ pc[s] = "pull"
    /\ at[s].stage = "planner"
    /\ Save(s, "approval")
    /\ held' = [held EXCEPT ![s] = NoDecision]
    /\ UNCHANGED <<status, project, cancelFlag, pendingDb, memory, pc, woken, misread,
                   posts, history>>

\* Mutant: the approval node goes on without a decision.
ApprovalPassUngated(s) ==
    /\ pc[s] = "pull"
    /\ at[s].stage \in {"approval", "parked"}
    /\ Save(s, "research")
    /\ held' = [held EXCEPT ![s] = NoDecision]
    /\ UNCHANGED <<status, project, cancelFlag, pendingDb, memory, pc, woken, misread,
                   posts, history>>

\* The approval node: auto-approve, or apply the decision it is resumed with.
ApprovalPass(s) ==
    /\ pc[s] = "pull"
    /\ at[s].stage \in {"approval", "parked"}
    /\ at[s].gate => held[s] # NoDecision
    /\ Save(s, "research")
    /\ held' = [held EXCEPT ![s] = NoDecision]
    /\ UNCHANGED <<status, project, cancelFlag, pendingDb, memory, pc, woken, misread,
                   posts, history>>

\* The approval node with no decision: show the tree, interrupt the graph.
ApprovalPark(s) ==
    /\ pc[s] = "pull"
    /\ at[s].stage \in {"approval", "parked"}
    /\ at[s].gate
    /\ held[s] = NoDecision
    /\ Save(s, "parked")
    /\ offered' = TRUE
    /\ Goto(s, "closeEnded")
    /\ UNCHANGED <<status, project, cancelFlag, pendingDb, memory, held, woken, misread,
                   posts, resumed, late, misreads>>

\* The research / ranking / gap / synthesis / verification loop finishes.
ResearchDone(s) ==
    /\ pc[s] = "pull"
    /\ at[s].stage = "research"
    /\ Save(s, "finalizer")
    /\ held' = [held EXCEPT ![s] = NoDecision]
    /\ UNCHANGED <<status, project, cancelFlag, pendingDb, memory, pc, woken, misread,
                   posts, history>>

\* The finalizer: run done, project done, then the node's checkpoint.
FinalizeRun(s) ==
    /\ pc[s] = "pull"
    /\ at[s].stage = "finalizer"
    /\ status' = "done"
    /\ Goto(s, "finProject")
    /\ UNCHANGED <<project, cancelFlag, pendingDb, ckpt, memory, held, at, woken, misread,
                   posts, history>>

FinalizeProject(s) ==
    /\ pc[s] = "finProject"
    /\ project' = "done"
    /\ Goto(s, "finSave")
    /\ UNCHANGED <<status, cancelFlag, pendingDb, ckpt, memory, held, at, woken, misread,
                   posts, history>>

FinalizeSave(s) ==
    /\ pc[s] = "finSave"
    /\ Save(s, "end")
    /\ Goto(s, "pull")
    /\ UNCHANGED <<status, project, cancelFlag, pendingDb, memory, held, woken, misread,
                   posts, history>>

\* StopAsyncIteration.
GraphEnds(s) ==
    /\ pc[s] = "pull"
    /\ at[s].stage = "end"
    /\ Goto(s, "closeEnded")
    /\ UNCHANGED <<durable, memory, held, at, woken, misread, posts, history>>

-----------------------------------------------------------------------------
(***************************************************************************)
(* Ways out of the execution, and what run_stream does after its loop      *)
(***************************************************************************)
\* A write the stream may already have handed to a worker thread: cancelling
\* the coroutine does not stop the thread, and the write lands later.
InFlight(s) ==
    CASE pc[s] \in {"sayCancelled", "cancelWrite"} -> {"cancelled"}
      [] pc[s] \in {"freshStatus", "resumeStatus"} -> {"running"}
      [] pc[s] = "clearPending"                    -> {"clearPending"}
      [] pc[s] = "failWrite"                       -> {"error"}
      [] pc[s] = "parkWrite"                       -> {"awaiting_approval"}
      [] pc[s] = "finProject"                      -> {"projectDone"}
      [] pc[s] = "pull" /\ at[s].stage = "finalizer" -> {"done"}
      [] OTHER                                     -> {}

MayOrphan(s) == \E W \in SUBSET InFlight(s) : orphans' = orphans \cup W

\* The cancel event wins the race against the graph's next frame.
Abort(s) ==
    /\ pc[s] \in Running
    /\ woken[s]
    /\ Goto(s, "closeCancelled")
    /\ MayOrphan(s)
    /\ UNCHANGED <<durable, pendingMem, registry, held, at, woken, misread, posts, history>>

\* A node raises (or the recursion limit is hit, or a checkpoint cannot be saved).
NodeError(s) ==
    /\ "nodeError" \in Faults
    /\ pc[s] = "pull"
    /\ at[s].stage # "end"
    /\ Goto(s, "failWrite")
    /\ UNCHANGED <<durable, memory, held, at, woken, misread, posts, history>>

FailWrite(s) ==
    /\ pc[s] = "failWrite"
    /\ status' = "error"
    /\ Goto(s, "closeFailed")
    /\ UNCHANGED <<project, cancelFlag, pendingDb, ckpt, memory, held, at, woken, misread,
                   posts, history>>

\* The finally block pops the registered event only if it is this stream's.
Deregister(s) == registry' = IF registry = s THEN NoStream ELSE registry

CloseFailed(s) ==
    /\ pc[s] = "closeFailed"
    /\ Deregister(s)
    /\ Finish(s)
    /\ UNCHANGED <<durable, pendingMem, orphans, posts, history>>

Close(s) ==
    /\ \/ pc[s] = "closeCancelled" /\ Goto(s, "cancelWrite")
       \/ pc[s] = "closeEnded" /\ Goto(s, "finalFlag")
    /\ Deregister(s)
    /\ UNCHANGED <<durable, pendingMem, orphans, held, at, woken, misread, posts, history>>

CancelWrite(s) ==
    /\ pc[s] = "cancelWrite"
    /\ status' = "cancelled"
    /\ Finish(s)
    /\ UNCHANGED <<project, cancelFlag, pendingDb, ckpt, memory, posts, history>>

\* A cancel may have arrived after the last frame.
FinalFlag(s) ==
    /\ pc[s] = "finalFlag"
    /\ \E answer \in Answers :
          /\ Goto(s, IF answer THEN "cancelWrite" ELSE "finalSnap")
          /\ Count(answer)
    /\ UNCHANGED <<durable, memory, held, at, woken, misread, posts, offered, resumed, late>>

\* Anything left to execute counts as the approval interrupt.
FinalSnap(s) ==
    /\ pc[s] = "finalSnap"
    /\ IF HasNext(ckpt)
         THEN Goto(s, "parkWrite") /\ UNCHANGED <<held, at, woken, misread>>
         ELSE Finish(s)
    /\ UNCHANGED <<durable, memory, posts, history>>

\* Mutant: marks a run done whenever its loop has ended.
ParkWriteDone(s) ==
    /\ pc[s] = "parkWrite"
    /\ status' = "done"
    /\ Finish(s)
    /\ UNCHANGED <<project, cancelFlag, pendingDb, ckpt, memory, posts, history>>

ParkWrite(s) ==
    /\ pc[s] = "parkWrite"
    /\ status' = "awaiting_approval"
    /\ Finish(s)
    /\ UNCHANGED <<project, cancelFlag, pendingDb, ckpt, memory, posts, history>>

-----------------------------------------------------------------------------
(***************************************************************************)
(* approve.  The panel stays on the screen once shown, in every tab, so a  *)
(* decision may come at any later time.  Pruning the stored subtopics is   *)
(* left to SubtopicTree.                                                   *)
(***************************************************************************)
Stash(a) ==
    /\ pcA[a] = "idle"
    /\ offered
    /\ pendingMem' = a
    /\ pcA' = [pcA EXCEPT ![a] = "persist"]
    /\ UNCHANGED <<durable, registry, orphans, locals, pcC, history>>

Persist(a) ==
    /\ pcA[a] = "persist"
    /\ pendingDb' = a
    /\ pcA' = [pcA EXCEPT ![a] = "markRunning"]
    /\ UNCHANGED <<status, project, cancelFlag, ckpt, memory, locals, pcC, history>>

MarkRunning(a) ==
    /\ pcA[a] = "markRunning"
    /\ status' = "running"
    /\ pcA' = [pcA EXCEPT ![a] = "done"]
    /\ UNCHANGED <<project, cancelFlag, pendingDb, ckpt, memory, locals, pcC, history>>

(***************************************************************************)
(* cancel: the flag, the status, then the event of the registered stream.  *)
(***************************************************************************)
SetFlag(c) ==
    /\ pcC[c] = "idle"
    /\ cancelFlag' = TRUE
    /\ pcC' = [pcC EXCEPT ![c] = "setStatus"]
    /\ UNCHANGED <<status, project, pendingDb, ckpt, memory, locals, pcA, history>>

SetCancelled(c) ==
    /\ pcC[c] = "setStatus"
    /\ status' = "cancelled"
    /\ pcC' = [pcC EXCEPT ![c] = "fire"]
    /\ UNCHANGED <<project, cancelFlag, pendingDb, ckpt, memory, locals, pcA, history>>

\* Mutant: cancel relies on the flag alone and wakes nobody.
FireNobody(c) ==
    /\ pcC[c] = "fire"
    /\ pcC' = [pcC EXCEPT ![c] = "done"]
    /\ UNCHANGED <<durable, memory, locals, pcA, history>>

Fire(c) ==
    /\ pcC[c] = "fire"
    /\ woken' = [s \in Streams |-> woken[s] \/ s = registry]
    /\ pcC' = [pcC EXCEPT ![c] = "done"]
    /\ UNCHANGED <<durable, memory, pc, held, at, misread, pcA, history>>

-----------------------------------------------------------------------------
(***************************************************************************)
(* The environment                                                         *)
(***************************************************************************)
\* The client goes away: uvicorn cancels the stream wherever it is suspended.
\* No status is written; only the finally block runs.
Disconnect(s) ==
    /\ "disconnect" \in Faults
    /\ pc[s] # "idle"
    /\ MayOrphan(s)
    /\ Deregister(s)
    /\ Finish(s)
    /\ UNCHANGED <<durable, pendingMem, posts, history>>

\* A worker thread finishes the write its coroutine no longer waits for.
Land(w) ==
    /\ w \in orphans
    /\ orphans' = orphans \ {w}
    /\ status' = IF w \in Statuses THEN w ELSE status
    /\ project' = IF w = "projectDone" THEN "done" ELSE project
    /\ pendingDb' = IF w = "clearPending" THEN NoDecision ELSE pendingDb
    /\ UNCHANGED <<cancelFlag, ckpt, pendingMem, registry, locals, posts, history>>

\* The process dies and comes back: memory and every handler are gone.
Crash ==
    /\ "crash" \in Faults
    /\ pendingMem' = NoDecision
    /\ registry' = NoStream
    /\ orphans' = {}
    /\ pc' = [s \in Streams |-> "idle"]
    /\ held' = [s \in Streams |-> NoDecision]
    /\ at' = [s \in Streams |-> NoCheckpoint]
    /\ woken' = [s \in Streams |-> FALSE]
    /\ misread' = [s \in Streams |-> {}]
    /\ pcA' = [a \in Approvals |-> IF pcA[a] = "idle" THEN "idle" ELSE "done"]
    /\ pcC' = [c \in Cancels |-> IF pcC[c] = "idle" THEN "idle" ELSE "done"]
    /\ UNCHANGED <<durable, history>>

-----------------------------------------------------------------------------
\* Steps the server takes by itself, without waiting for a model or a client.
StreamStep(s) ==
    \/ FlagCheck(s) \/ SayCancelled(s) \/ LoadSnap(s) \/ FreshStatus(s)
    \/ PopPending(s) \/ ReadPending(s) \/ OfferAgain(s) \/ ClearPending(s)
    \/ PopAgain(s) \/ ResumeStatus(s) \/ Register(s) \/ Recheck(s)
    \/ BeginFresh(s) \/ BeginResume(s) \/ ApprovalPass(s) \/ ApprovalPark(s)
    \/ FinalizeRun(s) \/ FinalizeProject(s) \/ FinalizeSave(s) \/ GraphEnds(s)
    \/ Abort(s) \/ FailWrite(s) \/ CloseFailed(s) \/ Close(s) \/ CancelWrite(s)
    \/ FinalFlag(s) \/ FinalSnap(s) \/ ParkWrite(s)

\* Steps that wait for language models and the web.
LongStep(s) == PlannerDone(s) \/ ResearchDone(s)

ApproveStep(a) == Persist(a) \/ MarkRunning(a)
CancelStep(c) == SetCancelled(c) \/ Fire(c)

Next ==
    \/ \E s \in Streams :
         Open(s) \/ StreamStep(s) \/ LongStep(s) \/ NodeError(s) \/ Disconnect(s)
    \/ \E a \in Approvals : Stash(a) \/ ApproveStep(a)
    \/ \E c \in Cancels : SetFlag(c) \/ CancelStep(c)
    \/ \E w \in Writes : Land(w)
    \/ Crash

Spec == Init /\ [][Next]_vars

(***************************************************************************)
(* The event loop runs every ready coroutine and the worker threads finish *)
(* their writes; the browser's EventSource reopens a stream that closed.   *)
(* Nothing is assumed of LongStep: a model call may hang for as long as it *)
(* likes.  Users need not approve or cancel.                               *)
(***************************************************************************)
Fairness ==
    /\ \A s \in Streams : WF_vars(Open(s)) /\ WF_vars(StreamStep(s))
    /\ \A a \in Approvals : WF_vars(ApproveStep(a))
    /\ \A c \in Cancels : WF_vars(CancelStep(c))
    /\ \A w \in Writes : WF_vars(Land(w))

FairSpec == Spec /\ Fairness

-----------------------------------------------------------------------------
(***************************************************************************)
(* Properties                                                              *)
(***************************************************************************)
\* Every variable has its type (durable rows, process memory, handler locals).
TypeOK ==
    /\ status \in Statuses
    /\ project \in {"planning", "done"}
    /\ cancelFlag \in BOOLEAN
    /\ pendingDb \in Approvals \cup {NoDecision}
    /\ ckpt \in Checkpoint
    /\ pendingMem \in Approvals \cup {NoDecision}
    /\ registry \in Streams \cup {NoStream}
    /\ orphans \in SUBSET Writes
    /\ pc \in [Streams -> StreamPcs]
    /\ held \in [Streams -> Approvals \cup {NoDecision}]
    /\ at \in [Streams -> Checkpoint]
    /\ woken \in [Streams -> BOOLEAN]
    /\ pcA \in [Approvals -> {"idle", "persist", "markRunning", "done"}]
    /\ pcC \in [Cancels -> {"idle", "setStatus", "fire", "done"}]
    /\ offered \in BOOLEAN
    /\ resumed \in SUBSET Approvals
    /\ late \in SUBSET Streams
    /\ misreads \in 0 .. MaxMisreads
    /\ misread \in [Streams -> SUBSET {"flagCheck", "recheck"}]

CancelUnderWay == \E c \in Cancels : pcC[c] \in {"setStatus", "fire"}

\* No lost wake-up (cancel sets the flag and then looks for an event; the
\* stream registers its event and then looks at the flag): once the flag is
\* set and no cancel request is still on its way to fire, the registered
\* stream does not execute the graph with its event unset, unless that one look
\* at the flag has failed.
NoLostCancel ==
    \A s \in Streams :
        pc[s] \in Running /\ registry = s /\ cancelFlag /\ ~CancelUnderWay
            => woken[s] \/ "recheck" \in misread[s]

\* "every reconnect keeps reporting cancelled" (runner.py:175): a stream
\* opened after the flag was set only ever reports the cancellation, even if
\* an approve has meanwhile turned the status column back to running; unless its
\* first look at the flag has failed.
LateStreamsStayOut ==
    \A s \in late : "flagCheck" \notin misread[s] =>
        pc[s] \in {"idle", "flagCheck", "sayCancelled"}

\* The human gate: with approval required, neither the saved checkpoint nor any
\* executor is past the gate unless a user's decision has resumed the graph.
GateHolds ==
    \A c \in {ckpt} \cup {at[s] : s \in Streams} :
        c.gate /\ c.stage \in Beyond => resumed # {}

\* With one stream at a time the run's row says done only of a graph that is at
\* its end, whatever was cut off half-way and whatever a left-over write does.
DoneMeansFinished ==
    status = "done" => ckpt.stage \in {"finalizer", "end"}

\* Past the cancel check: this stream may go on to execute the graph.
Committed == StreamPcs \ {"idle", "flagCheck", "sayCancelled"}

PhaseOf(c) ==
    CASE c.stage = "none"                       -> "new"
      [] c.stage = "planner"                    -> "planning"
      [] c.stage \in {"approval", "parked"}     -> "gate"
      [] c.stage \in {"research", "finalizer"}  -> "working"
      [] OTHER                                  -> "over"

Promise == INSTANCE RunPromise WITH
    Decisions <- Approvals,
    phase     <- PhaseOf(ckpt),
    gated     <- ckpt.gate,
    decisions <- {a \in Approvals : pcA[a] # "idle"},
    flag      <- cancelFlag,
    active    <- \E s \in Streams : pc[s] \in Committed,
    misled    <- \E s \in Streams : pc[s] \in Committed /\ "flagCheck" \in misread[s]

\* With one stream at a time the runner implements RunPromise: across
\* disconnects, crashes, errors, cancels and resumes a run never loses ground,
\* passes its gate only with a decision, and advances only while a stream that
\* found it uncancelled, or failed to look, is at work.
KeepsPromise == Promise!Spec

\* A cancelled run's status settles: once the flag is set the row is found
\* cancelled again and again, whatever approvals and finalizers write.
CancelSticks == []<>(~cancelFlag \/ status = "cancelled")

\* cancel() interrupts the stream "instead of waiting it out" (runner.py:299):
\* no graph is executing for ever after, though model calls may hang.
CancelStopsWork ==
    cancelFlag ~> [](\A s \in Streams : pc[s] \notin Running)

\* A decision on a parked run takes effect: the graph passes the gate, or the
\* run is cancelled.
ApprovalTakesEffect ==
    \A a \in Approvals :
        pcA[a] = "persist" ~> (ckpt.stage \in Beyond \/ cancelFlag)

-----------------------------------------------------------------------------
(***************************************************************************)
(* A claim of the repository's comments that the code does not keep        *)
(***************************************************************************)
Quiet ==
    /\ \A s \in Streams : pc[s] = "idle"
    /\ \A a \in Approvals : pcA[a] \in {"idle", "done"}
    /\ \A c \in Cancels : pcC[c] \in {"idle", "done"}
    /\ orphans = {}

\* runner.py:169 "A cancelled run is terminal.": with every request answered
\* and every write landed, a run that was cancelled is stored as cancelled.
CancelledIsTerminal == cancelFlag /\ Quiet => status = "cancelled"
=============================================================================
