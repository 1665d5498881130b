------------------------- MODULE RunLifecycleProofs -------------------------
(***************************************************************************)
(* Theorems about RunLifecycle, for any sets of streams, approvals and     *)
(* cancels, any gate settings, any faults and any number of misreadings.   *)
(***************************************************************************)
EXTENDS RunLifecycle, TLAPS

\* A left-over write is a write the store knows.
LEMMA InFlightWrites == ASSUME NEW s \in Streams PROVE InFlight(s) \subseteq Writes
BY DEF InFlight, Writes, Statuses

\* The empty checkpoint is a checkpoint.
LEMMA NoCheckpointType == NoCheckpoint \in Checkpoint
BY DEF NoCheckpoint, Checkpoint, Stages

\* A stream that ends leaves well-typed locals.
LEMMA FinishTypes ==
  ASSUME TypeOK, NEW s \in Streams, Finish(s)
  PROVE  /\ pc' \in [Streams -> StreamPcs]
         /\ held' \in [Streams -> Approvals \cup {NoDecision}]
         /\ at' \in [Streams -> Checkpoint]
         /\ woken' \in [Streams -> BOOLEAN]
         /\ misread' \in [Streams -> SUBSET {"flagCheck", "recheck"}]
BY NoCheckpointType DEF TypeOK, Finish, StreamPcs

\* The three looks at the flag: what they may answer, and what is noted of them.
LEMMA Answered ==
  ASSUME LifecycleAssumption, TypeOK, NEW s \in Streams, NEW answer \in Answers, Count(answer)
  PROVE  /\ answer \in BOOLEAN /\ (answer => cancelFlag)
         /\ misreads' \in 0 .. MaxMisreads
<1>1. misreads \in 0 .. MaxMisreads /\ MaxMisreads \in Nat /\ cancelFlag \in BOOLEAN
  BY DEF TypeOK, LifecycleAssumption
<1>2. answer = cancelFlag \/ (answer = FALSE /\ misreads < MaxMisreads)
  <2>1. CASE misreads < MaxMisreads
    BY <2>1 DEF Answers
  <2>2. CASE ~(misreads < MaxMisreads)
    BY <2>2 DEF Answers
  <2> QED
    BY <2>1, <2>2
<1>3. misreads' = misreads \/ (misreads' = misreads + 1 /\ misreads < MaxMisreads)
  BY <1>2 DEF Count
<1>4. misreads' \in 0 .. MaxMisreads
  BY <1>1, <1>3
<1>5. answer \in BOOLEAN /\ (answer => cancelFlag)
  <2>1. answer = cancelFlag \/ answer = FALSE
    BY <1>2
  <2>2. CASE answer = FALSE
    BY <2>2
  <2>3. CASE answer = cancelFlag
    BY <1>1, <2>3
  <2> QED
    BY <2>1, <2>2, <2>3
<1> QED
  BY <1>4, <1>5

LEMMA FlagCheckEffect ==
  ASSUME LifecycleAssumption, TypeOK, NEW s \in Streams, FlagCheck(s)
  PROVE  /\ pc[s] = "flagCheck"
         /\ \/ pc' = [pc EXCEPT ![s] = "sayCancelled"] /\ cancelFlag /\ misread' = misread
            \/ pc' = [pc EXCEPT ![s] = "loadSnap"] /\ ~cancelFlag /\ misread' = misread
            \/ /\ pc' = [pc EXCEPT ![s] = "loadSnap"]
               /\ misread' = [misread EXCEPT ![s] = misread[s] \cup {"flagCheck"}]
         /\ misreads' \in 0 .. MaxMisreads
         /\ UNCHANGED <<durable, memory, held, at, woken, posts, offered, resumed, late>>
<1>1. PICK answer \in Answers :
          /\ Goto(s, IF answer THEN "sayCancelled" ELSE "loadSnap")
          /\ Note(s, answer)
          /\ Count(answer)
  BY Zenon DEF FlagCheck
<1>2. answer \in BOOLEAN /\ (answer => cancelFlag) /\ misreads' \in 0 .. MaxMisreads
  BY <1>1, Answered
<1>3. pc[s] = "flagCheck" /\ pc' = [pc EXCEPT ![s] = IF answer THEN "sayCancelled" ELSE "loadSnap"]
  BY <1>1 DEF Goto, FlagCheck
<1>4. misread' = [misread EXCEPT ![s] = IF answer = cancelFlag THEN misread[s]
                                        ELSE misread[s] \cup {"flagCheck"}]
  BY <1>1, <1>3 DEF Note
<1>5. misread = [misread EXCEPT ![s] = misread[s]] /\ cancelFlag \in BOOLEAN
  BY DEF TypeOK
<1>6. UNCHANGED <<durable, memory, held, at, woken, posts, offered, resumed, late>>
  BY DEF FlagCheck
<1>7. CASE answer
  BY <1>2, <1>3, <1>4, <1>5, <1>6, <1>7
<1>8. CASE ~answer /\ cancelFlag
  BY <1>2, <1>3, <1>4, <1>6, <1>8
<1>9. CASE ~answer /\ ~cancelFlag
  BY <1>2, <1>3, <1>4, <1>5, <1>6, <1>9
<1> QED
  BY <1>7, <1>8, <1>9

LEMMA RecheckEffect ==
  ASSUME LifecycleAssumption, TypeOK, NEW s \in Streams, Recheck(s)
  PROVE  /\ pc[s] = "recheck" /\ pc' = [pc EXCEPT ![s] = "begin"]
         /\ \/ woken' = [woken EXCEPT ![s] = @ \/ cancelFlag] /\ misread' = misread
            \/ /\ woken' = woken
               /\ misread' = [misread EXCEPT ![s] = misread[s] \cup {"recheck"}]
         /\ misreads' \in 0 .. MaxMisreads
         /\ UNCHANGED <<durable, memory, held, at, posts, offered, resumed, late>>
<1>1. PICK answer \in Answers :
          /\ woken' = [woken EXCEPT ![s] = @ \/ answer]
          /\ Note(s, answer)
          /\ Count(answer)
  BY Zenon DEF Recheck
<1>2. answer \in BOOLEAN /\ (answer => cancelFlag) /\ misreads' \in 0 .. MaxMisreads
  BY <1>1, Answered
<1>3. /\ pc[s] = "recheck" /\ pc' = [pc EXCEPT ![s] = "begin"]
      /\ UNCHANGED <<durable, memory, held, at, posts, offered, resumed, late>>
  BY DEF Goto, Recheck
<1>4. misread' = [misread EXCEPT ![s] = IF answer = cancelFlag THEN misread[s]
                                        ELSE misread[s] \cup {"recheck"}]
  BY <1>1, <1>3 DEF Note
<1>5. /\ misread = [misread EXCEPT ![s] = misread[s]] /\ cancelFlag \in BOOLEAN
      /\ woken = [woken EXCEPT ![s] = woken[s]] /\ woken[s] \in BOOLEAN
  BY DEF TypeOK
<1>6. CASE answer = cancelFlag
  BY <1>1, <1>2, <1>3, <1>4, <1>5, <1>6
<1>7. CASE answer # cancelFlag
  <2>1. answer = FALSE
    BY <1>2, <1>5, <1>7
  <2>2. woken' = woken
    BY <1>1, <1>5, <2>1
  <2> QED
    BY <1>2, <1>3, <1>4, <1>7, <2>2
<1> QED
  BY <1>6, <1>7

LEMMA FinalFlagEffect ==
  ASSUME LifecycleAssumption, TypeOK, NEW s \in Streams, FinalFlag(s)
  PROVE  /\ pc[s] = "finalFlag"
         /\ \/ pc' = [pc EXCEPT ![s] = "cancelWrite"] /\ cancelFlag
            \/ pc' = [pc EXCEPT ![s] = "finalSnap"]
         /\ misreads' \in 0 .. MaxMisreads
         /\ UNCHANGED <<durable, memory, held, at, woken, misread, posts, offered, resumed, late>>
<1>1. PICK answer \in Answers :
          /\ Goto(s, IF answer THEN "cancelWrite" ELSE "finalSnap")
          /\ Count(answer)
  BY Zenon DEF FinalFlag
<1>2. answer \in BOOLEAN /\ (answer => cancelFlag) /\ misreads' \in 0 .. MaxMisreads
  BY <1>1, Answered
<1> QED
  BY <1>1, <1>2 DEF Goto, FinalFlag

\* Every step of a stream keeps the types.
LEMMA StreamTypes ==
  ASSUME LifecycleAssumption, TypeOK, NEW s \in Streams,
         Open(s) \/ StreamStep(s) \/ LongStep(s) \/ NodeError(s) \/ Disconnect(s)
  PROVE  TypeOK'
<1> USE LifecycleAssumption DEF TypeOK, durable, memory, locals, posts, history,
        Goto, StreamPcs, Running
<1>1. CASE Open(s)
  BY <1>1 DEF Open
<1>2. CASE FlagCheck(s)
  BY <1>2, LifecycleAssumption, FlagCheckEffect
<1>3. CASE SayCancelled(s)
  BY <1>3, NoCheckpointType DEF SayCancelled, Finish, Statuses
<1>4. CASE LoadSnap(s)
  <2>1. CASE ckpt.stage = "end"
    <3>1. Finish(s) /\ UNCHANGED <<durable, memory, posts, history>>
      BY <1>4, <2>1 DEF LoadSnap
    <3>2. QED
      BY <3>1, FinishTypes
  <2>2. CASE ckpt.stage # "end"
    <3>1. CASE HasNext(ckpt)
      BY <1>4, <2>2, <3>1 DEF LoadSnap
    <3>2. CASE ~HasNext(ckpt)
      BY <1>4, <2>2, <3>2 DEF LoadSnap
    <3>3. QED
      BY <3>1, <3>2
  <2>3. QED
    BY <2>1, <2>2
<1>5. CASE FreshStatus(s)
  BY <1>5 DEF FreshStatus, Statuses
<1>6. CASE PopPending(s)
  BY <1>6 DEF PopPending
<1>7. CASE ReadPending(s)
  BY <1>7 DEF ReadPending
<1>8. CASE OfferAgain(s)
  BY <1>8, NoCheckpointType DEF OfferAgain, Finish
<1>9. CASE ClearPending(s)
  BY <1>9 DEF ClearPending
<1>10. CASE PopAgain(s)
  BY <1>10 DEF PopAgain
<1>11. CASE ResumeStatus(s)
  BY <1>11 DEF ResumeStatus, Statuses
<1>12. CASE Register(s)
  BY <1>12 DEF Register
<1>13. CASE Recheck(s)
  BY <1>13, LifecycleAssumption, RecheckEffect
<1>14. CASE BeginFresh(s)
  BY <1>14 DEF BeginFresh, Checkpoint, Stages
<1>15. CASE BeginResume(s)
  BY <1>15 DEF BeginResume
<1>16. CASE PlannerDone(s)
  BY <1>16 DEF PlannerDone, Save, Checkpoint, Stages
<1>17. CASE ApprovalPass(s)
  BY <1>17 DEF ApprovalPass, Save, Checkpoint, Stages
<1>18. CASE ApprovalPark(s)
  BY <1>18 DEF ApprovalPark, Save, Checkpoint, Stages
<1>19. CASE ResearchDone(s)
  BY <1>19 DEF ResearchDone, Save, Checkpoint, Stages
<1>20. CASE FinalizeRun(s)
  BY <1>20 DEF FinalizeRun, Statuses
<1>21. CASE FinalizeProject(s)
  BY <1>21 DEF FinalizeProject
<1>22. CASE FinalizeSave(s)
  BY <1>22 DEF FinalizeSave, Save, Checkpoint, Stages
<1>23. CASE GraphEnds(s)
  BY <1>23 DEF GraphEnds
<1>24. CASE Abort(s)
  BY <1>24, InFlightWrites DEF Abort, MayOrphan
<1>25. CASE NodeError(s)
  BY <1>25 DEF NodeError
<1>26. CASE FailWrite(s)
  BY <1>26 DEF FailWrite, Statuses
<1>27. CASE CloseFailed(s)
  BY <1>27, NoCheckpointType DEF CloseFailed, Finish, Deregister
<1>28. CASE Close(s)
  BY <1>28 DEF Close, Deregister
<1>29. CASE CancelWrite(s)
  BY <1>29, NoCheckpointType DEF CancelWrite, Finish, Statuses
<1>30. CASE FinalFlag(s)
  BY <1>30, LifecycleAssumption, FinalFlagEffect
<1>31. CASE FinalSnap(s)
  <2>1. CASE HasNext(ckpt)
    BY <1>31, <2>1 DEF FinalSnap
  <2>2. CASE ~HasNext(ckpt)
    <3>1. Finish(s) /\ UNCHANGED <<durable, memory, posts, history>>
      BY <1>31, <2>2 DEF FinalSnap
    <3>2. QED
      BY <3>1, FinishTypes
  <2>3. QED
    BY <2>1, <2>2
<1>32. CASE ParkWrite(s)
  BY <1>32, NoCheckpointType DEF ParkWrite, Finish, Statuses
<1>33. CASE Disconnect(s)
  BY <1>33, InFlightWrites, NoCheckpointType DEF Disconnect, Finish, Deregister, MayOrphan
<1>34. QED
  BY <1>1, <1>2, <1>3, <1>4, <1>5, <1>6, <1>7, <1>8, <1>9, <1>10, <1>11, <1>12, <1>13, <1>14, <1>15, <1>16, <1>17, <1>18, <1>19, <1>20, <1>21, <1>22, <1>23, <1>24, <1>25, <1>26, <1>27, <1>28, <1>29, <1>30, <1>31, <1>32, <1>33 DEF StreamStep, LongStep

\* Every step of an approve, of a cancel and of the environment keeps them.
LEMMA OtherTypes ==
  ASSUME LifecycleAssumption, TypeOK,
         \/ \E a \in Approvals : Stash(a) \/ ApproveStep(a)
         \/ \E c \in Cancels : SetFlag(c) \/ CancelStep(c)
         \/ \E w \in Writes : Land(w)
         \/ Crash
  PROVE  TypeOK'
<1> USE LifecycleAssumption DEF TypeOK, durable, memory, locals, posts, history
<1>1. ASSUME NEW a \in Approvals, Stash(a) \/ ApproveStep(a) PROVE TypeOK'
  BY <1>1 DEF ApproveStep, Stash, Persist, MarkRunning, Statuses
<1>2. ASSUME NEW c \in Cancels, SetFlag(c) \/ CancelStep(c) PROVE TypeOK'
  BY <1>2 DEF CancelStep, SetFlag, SetCancelled, Fire, Statuses
<1>3. ASSUME NEW w \in Writes, Land(w) PROVE TypeOK'
  BY <1>3 DEF Land
<1>4. CASE Crash
  BY <1>4, NoCheckpointType DEF Crash, StreamPcs
<1>5. QED
  BY <1>1, <1>2, <1>3, <1>4

\* Type correctness: run_stream, approve, cancel, faults and restarts leave every
\* row, dictionary and local variable in its type.
THEOREM TypeCorrect == Spec => []TypeOK
<1>1. Init => TypeOK
  <2>1. 0 \in 0 .. MaxMisreads
    BY LifecycleAssumption
  <2>2. QED
    BY <2>1, LifecycleAssumption, NoCheckpointType DEF Init, TypeOK, Statuses, StreamPcs, Running
<1>2. TypeOK /\ [Next]_vars => TypeOK'
  <2> SUFFICES ASSUME TypeOK, [Next]_vars PROVE TypeOK'
    OBVIOUS
  <2>1. CASE Next
    BY <2>1, LifecycleAssumption, StreamTypes, OtherTypes DEF Next
  <2>2. CASE UNCHANGED vars
    BY <2>2 DEF TypeOK, vars, durable, memory, locals, posts, history
  <2>3. QED
    BY <2>1, <2>2
<1>3. QED
  BY <1>1, <1>2, PTL DEF Spec

-----------------------------------------------------------------------------
(***************************************************************************)
(* No lost cancel                                                          *)
(***************************************************************************)
\* NoLostCancel is inductive: the steps of a stream.
LEMMA NoLostCancelStream ==
  ASSUME LifecycleAssumption, TypeOK, NoLostCancel, NEW s \in Streams,
         Open(s) \/ StreamStep(s) \/ LongStep(s) \/ NodeError(s) \/ Disconnect(s)
  PROVE  NoLostCancel'
<1> USE DEF TypeOK, NoLostCancel, CancelUnderWay, durable, memory, locals, posts, history,
        Goto, Running
<1>1. CASE Open(s)
  BY <1>1 DEF Open
<1>2. CASE FlagCheck(s)
  BY <1>2, LifecycleAssumption, FlagCheckEffect
<1>3. CASE SayCancelled(s)
  BY <1>3 DEF SayCancelled, Finish
<1>4. CASE LoadSnap(s)
  BY <1>4 DEF LoadSnap, Finish
<1>5. CASE FreshStatus(s)
  BY <1>5 DEF FreshStatus
<1>6. CASE PopPending(s)
  BY <1>6 DEF PopPending
<1>7. CASE ReadPending(s)
  BY <1>7 DEF ReadPending
<1>8. CASE OfferAgain(s)
  BY <1>8 DEF OfferAgain, Finish
<1>9. CASE ClearPending(s)
  BY <1>9 DEF ClearPending
<1>10. CASE PopAgain(s)
  BY <1>10 DEF PopAgain
<1>11. CASE ResumeStatus(s)
  BY <1>11 DEF ResumeStatus
<1>12. CASE Register(s)
  BY <1>12 DEF Register
<1>13. CASE Recheck(s)
  <2>1. CASE woken' = [woken EXCEPT ![s] = @ \/ cancelFlag] /\ misread' = misread
    BY <1>13, <2>1, LifecycleAssumption, RecheckEffect
  <2>2. CASE woken' = woken /\ misread' = [misread EXCEPT ![s] = misread[s] \cup {"recheck"}]
    BY <1>13, <2>2, LifecycleAssumption, RecheckEffect
  <2>3. QED
    BY <1>13, <2>1, <2>2, LifecycleAssumption, RecheckEffect
<1>14. CASE BeginFresh(s)
  BY <1>14 DEF BeginFresh
<1>15. CASE BeginResume(s)
  BY <1>15 DEF BeginResume
<1>16. CASE PlannerDone(s)
  BY <1>16 DEF PlannerDone
<1>17. CASE ApprovalPass(s)
  BY <1>17 DEF ApprovalPass
<1>18. CASE ApprovalPark(s)
  BY <1>18 DEF ApprovalPark
<1>19. CASE ResearchDone(s)
  BY <1>19 DEF ResearchDone
<1>20. CASE FinalizeRun(s)
  BY <1>20 DEF FinalizeRun
<1>21. CASE FinalizeProject(s)
  BY <1>21 DEF FinalizeProject
<1>22. CASE FinalizeSave(s)
  BY <1>22 DEF FinalizeSave
<1>23. CASE GraphEnds(s)
  BY <1>23 DEF GraphEnds
<1>24. CASE Abort(s)
  BY <1>24 DEF Abort
<1>25. CASE NodeError(s)
  BY <1>25 DEF NodeError
<1>26. CASE FailWrite(s)
  BY <1>26 DEF FailWrite
<1>27. CASE CloseFailed(s)
  BY <1>27, LifecycleAssumption DEF CloseFailed, Finish, Deregister
<1>28. CASE Close(s)
  BY <1>28, LifecycleAssumption DEF Close, Deregister
<1>29. CASE CancelWrite(s)
  BY <1>29 DEF CancelWrite, Finish
<1>30. CASE FinalFlag(s)
  BY <1>30, LifecycleAssumption, FinalFlagEffect
<1>31. CASE FinalSnap(s)
  BY <1>31 DEF FinalSnap, Finish
<1>32. CASE ParkWrite(s)
  BY <1>32 DEF ParkWrite, Finish
<1>33. CASE Disconnect(s)
  BY <1>33, LifecycleAssumption DEF Disconnect, Finish, Deregister
<1>34. QED
  BY <1>1, <1>2, <1>3, <1>4, <1>5, <1>6, <1>7, <1>8, <1>9, <1>10, <1>11, <1>12, <1>13, <1>14, <1>15, <1>16, <1>17, <1>18, <1>19, <1>20, <1>21, <1>22, <1>23, <1>24, <1>25, <1>26, <1>27, <1>28, <1>29, <1>30, <1>31, <1>32, <1>33 DEF StreamStep, LongStep

\* NoLostCancel is inductive: approve, cancel, left-over writes and crashes.
LEMMA NoLostCancelOther ==
  ASSUME TypeOK, NoLostCancel,
         \/ \E a \in Approvals : Stash(a) \/ ApproveStep(a)
         \/ \E c \in Cancels : SetFlag(c) \/ CancelStep(c)
         \/ \E w \in Writes : Land(w)
         \/ Crash
  PROVE  NoLostCancel'
<1> USE DEF TypeOK, NoLostCancel, CancelUnderWay, durable, memory, locals, posts,
        history, Running
<1>1. ASSUME NEW a \in Approvals, Stash(a) \/ ApproveStep(a) PROVE NoLostCancel'
  BY <1>1 DEF ApproveStep, Stash, Persist, MarkRunning
<1>2. ASSUME NEW c \in Cancels, SetFlag(c) PROVE NoLostCancel'
  BY <1>2 DEF SetFlag
<1>3. ASSUME NEW c \in Cancels, SetCancelled(c) PROVE NoLostCancel'
  BY <1>3 DEF SetCancelled
<1>4. ASSUME NEW c \in Cancels, Fire(c) PROVE NoLostCancel'
  BY <1>4 DEF Fire
<1>5. ASSUME NEW w \in Writes, Land(w) PROVE NoLostCancel'
  BY <1>5 DEF Land
<1>6. CASE Crash
  BY <1>6 DEF Crash
<1>7. QED
  BY <1>1, <1>2, <1>3, <1>4, <1>5, <1>6 DEF CancelStep

\* No cancel is lost between cancel()'s flag and event and run_stream's event
\* and flag, however many streams and cancels race and wherever they fail.
THEOREM NoLostCancelHolds == Spec => []NoLostCancel
<1>1. Init => NoLostCancel
  BY DEF Init, NoLostCancel, Running
<1>2. TypeOK /\ NoLostCancel /\ [Next]_vars => NoLostCancel'
  <2> SUFFICES ASSUME TypeOK, NoLostCancel, [Next]_vars PROVE NoLostCancel'
    OBVIOUS
  <2>1. CASE Next
    BY <2>1, LifecycleAssumption, NoLostCancelStream, NoLostCancelOther DEF Next
  <2>2. CASE UNCHANGED vars
    BY <2>2 DEF NoLostCancel, CancelUnderWay, vars, durable, memory, locals, posts,
                history
  <2>3. QED
    BY <2>1, <2>2
<1>3. QED
  BY <1>1, <1>2, TypeCorrect, PTL DEF Spec

-----------------------------------------------------------------------------
(***************************************************************************)
(* Reconnects of a cancelled run stay out                                  *)
(***************************************************************************)
\* The inductive form: a stream is only ever late because the flag is set, and
\* the flag is never cleared, so its own check of the flag turns it away.
LateInv == LateStreamsStayOut /\ (late # {} => cancelFlag)

\* LateInv is inductive: the steps of a stream.
LEMMA LateInvStream ==
  ASSUME TypeOK, LateInv, NEW s \in Streams,
         Open(s) \/ StreamStep(s) \/ LongStep(s) \/ NodeError(s) \/ Disconnect(s)
  PROVE  LateInv'
<1> USE DEF TypeOK, LateInv, LateStreamsStayOut, durable, memory, locals, posts, history,
        Goto
<1>1. CASE Open(s)
  BY <1>1 DEF Open
<1>2. CASE FlagCheck(s)
  BY <1>2, LifecycleAssumption, FlagCheckEffect
<1>3. CASE SayCancelled(s)
  BY <1>3 DEF SayCancelled, Finish
<1>4. CASE LoadSnap(s)
  BY <1>4 DEF LoadSnap, Finish
<1>5. CASE FreshStatus(s)
  BY <1>5 DEF FreshStatus
<1>6. CASE PopPending(s)
  BY <1>6 DEF PopPending
<1>7. CASE ReadPending(s)
  BY <1>7 DEF ReadPending
<1>8. CASE OfferAgain(s)
  BY <1>8 DEF OfferAgain, Finish
<1>9. CASE ClearPending(s)
  BY <1>9 DEF ClearPending
<1>10. CASE PopAgain(s)
  BY <1>10 DEF PopAgain
<1>11. CASE ResumeStatus(s)
  BY <1>11 DEF ResumeStatus
<1>12. CASE Register(s)
  BY <1>12 DEF Register
<1>13. CASE Recheck(s)
  BY <1>13, LifecycleAssumption, RecheckEffect
<1>14. CASE BeginFresh(s)
  BY <1>14 DEF BeginFresh
<1>15. CASE BeginResume(s)
  BY <1>15 DEF BeginResume
<1>16. CASE PlannerDone(s)
  BY <1>16 DEF PlannerDone
<1>17. CASE ApprovalPass(s)
  BY <1>17 DEF ApprovalPass
<1>18. CASE ApprovalPark(s)
  BY <1>18 DEF ApprovalPark
<1>19. CASE ResearchDone(s)
  BY <1>19 DEF ResearchDone
<1>20. CASE FinalizeRun(s)
  BY <1>20 DEF FinalizeRun
<1>21. CASE FinalizeProject(s)
  BY <1>21 DEF FinalizeProject
<1>22. CASE FinalizeSave(s)
  BY <1>22 DEF FinalizeSave
<1>23. CASE GraphEnds(s)
  BY <1>23 DEF GraphEnds
<1>24. CASE Abort(s)
  BY <1>24 DEF Abort, Running
<1>25. CASE NodeError(s)
  BY <1>25 DEF NodeError
<1>26. CASE FailWrite(s)
  BY <1>26 DEF FailWrite
<1>27. CASE CloseFailed(s)
  BY <1>27 DEF CloseFailed, Finish, Deregister
<1>28. CASE Close(s)
  BY <1>28 DEF Close, Deregister
<1>29. CASE CancelWrite(s)
  BY <1>29 DEF CancelWrite, Finish
<1>30. CASE FinalFlag(s)
  BY <1>30, LifecycleAssumption, FinalFlagEffect
<1>31. CASE FinalSnap(s)
  BY <1>31 DEF FinalSnap, Finish
<1>32. CASE ParkWrite(s)
  BY <1>32 DEF ParkWrite, Finish
<1>33. CASE Disconnect(s)
  BY <1>33 DEF Disconnect, Finish, Deregister
<1>34. QED
  BY <1>1, <1>2, <1>3, <1>4, <1>5, <1>6, <1>7, <1>8, <1>9, <1>10, <1>11, <1>12, <1>13, <1>14, <1>15, <1>16, <1>17, <1>18, <1>19, <1>20, <1>21, <1>22, <1>23, <1>24, <1>25, <1>26, <1>27, <1>28, <1>29, <1>30, <1>31, <1>32, <1>33 DEF StreamStep, LongStep

\* LateInv is inductive: the other steps leave streams where they are.
LEMMA LateInvOther ==
  ASSUME TypeOK, LateInv,
         \/ \E a \in Approvals : Stash(a) \/ ApproveStep(a)
         \/ \E c \in Cancels : SetFlag(c) \/ CancelStep(c)
         \/ \E w \in Writes : Land(w)
         \/ Crash
  PROVE  LateInv'
<1> USE DEF TypeOK, LateInv, LateStreamsStayOut, durable, memory, locals, posts, history
<1>1. ASSUME NEW a \in Approvals, Stash(a) \/ ApproveStep(a) PROVE LateInv'
  BY <1>1 DEF ApproveStep, Stash, Persist, MarkRunning
<1>2. ASSUME NEW c \in Cancels, SetFlag(c) \/ CancelStep(c) PROVE LateInv'
  BY <1>2 DEF CancelStep, SetFlag, SetCancelled, Fire
<1>3. ASSUME NEW w \in Writes, Land(w) PROVE LateInv'
  BY <1>3 DEF Land
<1>4. CASE Crash
  BY <1>4 DEF Crash
<1>5. QED
  BY <1>1, <1>2, <1>3, <1>4

\* Every stream opened after a cancel only reports it: the terminal branch of
\* run_stream holds whatever approve has written to the status column.
THEOREM LateStreamsStayOutHolds == Spec => []LateStreamsStayOut
<1>1. Init => LateInv
  BY DEF Init, LateInv, LateStreamsStayOut
<1>2. TypeOK /\ LateInv /\ [Next]_vars => LateInv'
  <2> SUFFICES ASSUME TypeOK, LateInv, [Next]_vars PROVE LateInv'
    OBVIOUS
  <2>1. CASE Next
    BY <2>1, LateInvStream, LateInvOther DEF Next
  <2>2. CASE UNCHANGED vars
    BY <2>2 DEF LateInv, LateStreamsStayOut, vars, durable, memory, locals, posts,
                history
  <2>3. QED
    BY <2>1, <2>2
<1>3. LateInv => LateStreamsStayOut
  BY DEF LateInv
<1>4. QED
  BY <1>1, <1>2, <1>3, TypeCorrect, PTL DEF Spec

-----------------------------------------------------------------------------
(***************************************************************************)
(* The human gate                                                          *)
(***************************************************************************)
\* The inductive form: a checkpoint past the gate, or an executor that holds a
\* decision, means that a decision has resumed the graph.
GateOpen(c) == c.gate /\ c.stage \in Beyond => resumed # {}
GateInv ==
    /\ GateOpen(ckpt)
    /\ \A s \in Streams : GateOpen(at[s])
    /\ \A s \in Streams :
         pc[s] \in {"pull", "finProject", "finSave"} /\ held[s] # NoDecision => resumed # {}
    /\ \A s \in Streams :
         pc[s] \in {"finProject", "finSave"} => at[s].stage = "finalizer"

\* GateInv is inductive: the steps of a stream.
LEMMA GateInvStream ==
  ASSUME TypeOK, GateInv, NEW s \in Streams,
         Open(s) \/ StreamStep(s) \/ LongStep(s) \/ NodeError(s) \/ Disconnect(s)
  PROVE  GateInv'
<1> USE DEF TypeOK, GateInv, GateOpen, Beyond, Checkpoint, durable, memory, locals, posts,
        history, Goto
<1>1. CASE Open(s)
  BY <1>1 DEF Open
<1>2. CASE FlagCheck(s)
  BY <1>2, LifecycleAssumption, FlagCheckEffect
<1>3. CASE SayCancelled(s)
  BY <1>3 DEF SayCancelled, Finish, NoCheckpoint
<1>4. CASE LoadSnap(s)
  <2>1. CASE ckpt.stage = "end"
    <3>1. Finish(s) /\ UNCHANGED <<durable, memory, posts, history>>
      BY <1>4, <2>1 DEF LoadSnap
    <3>2. QED
      BY <3>1 DEF Finish, NoCheckpoint
  <2>2. CASE ckpt.stage # "end"
    BY <1>4, <2>2 DEF LoadSnap
  <2>3. QED
    BY <2>1, <2>2
<1>5. CASE FreshStatus(s)
  BY <1>5 DEF FreshStatus
<1>6. CASE PopPending(s)
  BY <1>6 DEF PopPending
<1>7. CASE ReadPending(s)
  BY <1>7 DEF ReadPending
<1>8. CASE OfferAgain(s)
  BY <1>8 DEF OfferAgain, Finish, NoCheckpoint
<1>9. CASE ClearPending(s)
  BY <1>9 DEF ClearPending
<1>10. CASE PopAgain(s)
  BY <1>10 DEF PopAgain
<1>11. CASE ResumeStatus(s)
  BY <1>11 DEF ResumeStatus
<1>12. CASE Register(s)
  BY <1>12 DEF Register
<1>13. CASE Recheck(s)
  BY <1>13, LifecycleAssumption, RecheckEffect
<1>14. CASE BeginFresh(s)
  BY <1>14 DEF BeginFresh
<1>15. CASE BeginResume(s)
  BY <1>15 DEF BeginResume
<1>16. CASE PlannerDone(s)
  BY <1>16 DEF PlannerDone, Save
<1>17. CASE ApprovalPass(s)
  BY <1>17 DEF ApprovalPass, Save
<1>18. CASE ApprovalPark(s)
  BY <1>18 DEF ApprovalPark, Save
<1>19. CASE ResearchDone(s)
  BY <1>19 DEF ResearchDone, Save
<1>20. CASE FinalizeRun(s)
  BY <1>20 DEF FinalizeRun
<1>21. CASE FinalizeProject(s)
  BY <1>21 DEF FinalizeProject
<1>22. CASE FinalizeSave(s)
  <2>1. /\ pc[s] = "finSave"
        /\ at' = [at EXCEPT ![s].stage = "end"]
        /\ ckpt' = [at[s] EXCEPT !.stage = "end"]
        /\ pc' = [pc EXCEPT ![s] = "pull"]
        /\ held' = held /\ resumed' = resumed
    BY <1>22 DEF FinalizeSave, Save
  <2>2. at[s].gate => resumed # {}
    BY <2>1
  <2>3. GateOpen(ckpt)' /\ \A r \in Streams : GateOpen(at[r])'
    BY <2>1, <2>2
  <2>4. QED
    <3>1. held[s] # NoDecision => resumed # {}
      BY <2>1
    <3>2. QED
      BY <2>1, <2>3, <3>1
<1>23. CASE GraphEnds(s)
  BY <1>23 DEF GraphEnds
<1>24. CASE Abort(s)
  BY <1>24 DEF Abort, Running
<1>25. CASE NodeError(s)
  BY <1>25 DEF NodeError
<1>26. CASE FailWrite(s)
  BY <1>26 DEF FailWrite
<1>27. CASE CloseFailed(s)
  BY <1>27 DEF CloseFailed, Finish, Deregister, NoCheckpoint
<1>28. CASE Close(s)
  BY <1>28 DEF Close, Deregister
<1>29. CASE CancelWrite(s)
  BY <1>29 DEF CancelWrite, Finish, NoCheckpoint
<1>30. CASE FinalFlag(s)
  BY <1>30, LifecycleAssumption, FinalFlagEffect
<1>31. CASE FinalSnap(s)
  <2>1. CASE HasNext(ckpt)
    BY <1>31, <2>1 DEF FinalSnap
  <2>2. CASE ~HasNext(ckpt)
    <3>1. Finish(s) /\ UNCHANGED <<durable, memory, posts, history>>
      BY <1>31, <2>2 DEF FinalSnap
    <3>2. QED
      BY <3>1 DEF Finish, NoCheckpoint
  <2>3. QED
    BY <2>1, <2>2
<1>32. CASE ParkWrite(s)
  BY <1>32 DEF ParkWrite, Finish, NoCheckpoint
<1>33. CASE Disconnect(s)
  BY <1>33 DEF Disconnect, Finish, Deregister, NoCheckpoint
<1>34. QED
  BY <1>1, <1>2, <1>3, <1>4, <1>5, <1>6, <1>7, <1>8, <1>9, <1>10, <1>11, <1>12, <1>13, <1>14, <1>15, <1>16, <1>17, <1>18, <1>19, <1>20, <1>21, <1>22, <1>23, <1>24, <1>25, <1>26, <1>27, <1>28, <1>29, <1>30, <1>31, <1>32, <1>33 DEF StreamStep, LongStep

\* GateInv is inductive: the other steps do not execute the graph.
LEMMA GateInvOther ==
  ASSUME TypeOK, GateInv,
         \/ \E a \in Approvals : Stash(a) \/ ApproveStep(a)
         \/ \E c \in Cancels : SetFlag(c) \/ CancelStep(c)
         \/ \E w \in Writes : Land(w)
         \/ Crash
  PROVE  GateInv'
<1> USE DEF TypeOK, GateInv, GateOpen, Beyond, durable, memory, locals, posts, history
<1>1. ASSUME NEW a \in Approvals, Stash(a) \/ ApproveStep(a) PROVE GateInv'
  BY <1>1 DEF ApproveStep, Stash, Persist, MarkRunning
<1>2. ASSUME NEW c \in Cancels, SetFlag(c) \/ CancelStep(c) PROVE GateInv'
  BY <1>2 DEF CancelStep, SetFlag, SetCancelled, Fire
<1>3. ASSUME NEW w \in Writes, Land(w) PROVE GateInv'
  BY <1>3 DEF Land
<1>4. CASE Crash
  BY <1>4 DEF Crash, NoCheckpoint
<1>5. QED
  BY <1>1, <1>2, <1>3, <1>4

\* With approval required, neither the saved checkpoint nor any executor gets
\* past the approval node before a user's decision has resumed the graph.
THEOREM GateHoldsAlways == Spec => []GateHolds
<1>1. Init => GateInv
  BY DEF Init, GateInv, GateOpen, Beyond, NoCheckpoint
<1>2. TypeOK /\ GateInv /\ [Next]_vars => GateInv'
  <2> SUFFICES ASSUME TypeOK, GateInv, [Next]_vars PROVE GateInv'
    OBVIOUS
  <2>1. CASE Next
    BY <2>1, GateInvStream, GateInvOther DEF Next
  <2>2. CASE UNCHANGED vars
    BY <2>2 DEF GateInv, GateOpen, vars, durable, memory, locals, posts, history
  <2>3. QED
    BY <2>1, <2>2
<1>3. GateInv => GateHolds
  BY DEF GateInv, GateOpen, GateHolds
<1>4. QED
  BY <1>1, <1>2, <1>3, TypeCorrect, PTL DEF Spec

-----------------------------------------------------------------------------
(***************************************************************************)
(* One stream at a time                                                    *)
(***************************************************************************)
\* A decision that somebody holds has been submitted.
Submitted(d) == d # NoDecision => pcA[d] # "idle"

\* What holds of the only stream: it works on the saved checkpoint, starts the
\* graph afresh only where nothing is saved, and done is written, or left to be
\* written, only of a graph that has reached the finalizer.
Sole(s) ==
    /\ status = "done" \/ "done" \in orphans => ckpt.stage \in {"finalizer", "end"}
    /\ pc[s] \in {"pull", "finProject", "finSave"} => at[s] = ckpt
    /\ pc[s] \in {"finProject", "finSave"} => ckpt.stage = "finalizer"
    /\ pc[s] = "freshStatus" => ckpt.stage = "none"
    /\ pc[s] \in {"register", "recheck", "begin"} /\ held[s] = NoDecision
         => ckpt.stage = "none"
    /\ pc[s] \in {"clearPending", "popAgain", "resumeStatus"} => held[s] # NoDecision
    /\ Submitted(pendingMem) /\ Submitted(pendingDb) /\ Submitted(held[s])

\* A stream that is over holds nothing and works on nothing.
LEMMA FinishSole ==
  ASSUME TypeOK, NEW s \in Streams, Sole(s), Finish(s),
         UNCHANGED <<ckpt, pendingMem, pendingDb, pcA>>,
         status' = "done" => status = "done" \/ "done" \in orphans,
         "done" \in orphans' => "done" \in orphans \/ ckpt.stage = "finalizer"
  PROVE  Sole(s)'
BY DEF TypeOK, Sole, Submitted, Finish

\* Sole is inductive: the steps of the stream.
LEMMA SoleStream ==
  ASSUME LifecycleAssumption, TypeOK, NEW s \in Streams, Sole(s),
         Open(s) \/ StreamStep(s) \/ LongStep(s) \/ NodeError(s) \/ Disconnect(s)
  PROVE  Sole(s)'
<1> USE DEF TypeOK, Sole, Submitted, durable, memory, locals, posts, history, Goto
<1>1. CASE Open(s)
  BY <1>1 DEF Open
<1>2. CASE FlagCheck(s)
  BY <1>2, LifecycleAssumption, FlagCheckEffect
<1>3. CASE SayCancelled(s)
  BY <1>3, FinishSole DEF SayCancelled
<1>4. CASE LoadSnap(s)
  <2>1. CASE ckpt.stage = "end"
    BY <1>4, <2>1, FinishSole DEF LoadSnap
  <2>2. CASE ckpt.stage # "end"
    BY <1>4, <2>2 DEF LoadSnap, HasNext
  <2>3. QED
    BY <2>1, <2>2
<1>5. CASE FreshStatus(s)
  BY <1>5 DEF FreshStatus
<1>6. CASE PopPending(s)
  BY <1>6 DEF PopPending
<1>7. CASE ReadPending(s)
  BY <1>7 DEF ReadPending
<1>8. CASE OfferAgain(s)
  BY <1>8, FinishSole DEF OfferAgain
<1>9. CASE ClearPending(s)
  BY <1>9 DEF ClearPending
<1>10. CASE PopAgain(s)
  BY <1>10 DEF PopAgain
<1>11. CASE ResumeStatus(s)
  BY <1>11 DEF ResumeStatus
<1>12. CASE Register(s)
  BY <1>12 DEF Register
<1>13. CASE Recheck(s)
  BY <1>13, LifecycleAssumption, RecheckEffect
<1>14. CASE BeginFresh(s)
  BY <1>14 DEF BeginFresh, Checkpoint
<1>15. CASE BeginResume(s)
  BY <1>15 DEF BeginResume
<1>16. CASE PlannerDone(s)
  BY <1>16 DEF PlannerDone, Save, Checkpoint
<1>17. CASE ApprovalPass(s)
  BY <1>17 DEF ApprovalPass, Save, Checkpoint
<1>18. CASE ApprovalPark(s)
  BY <1>18 DEF ApprovalPark, Save, Checkpoint
<1>19. CASE ResearchDone(s)
  BY <1>19 DEF ResearchDone, Save, Checkpoint
<1>20. CASE FinalizeRun(s)
  BY <1>20 DEF FinalizeRun
<1>21. CASE FinalizeProject(s)
  BY <1>21 DEF FinalizeProject
<1>22. CASE FinalizeSave(s)
  BY <1>22 DEF FinalizeSave, Save, Checkpoint
<1>23. CASE GraphEnds(s)
  BY <1>23 DEF GraphEnds
<1>24. CASE Abort(s)
  <2>1. "done" \in orphans' => "done" \in orphans \/ ckpt.stage = "finalizer"
    BY <1>24 DEF Abort, MayOrphan, InFlight, Running
  <2>2. QED
    BY <1>24, <2>1 DEF Abort
<1>25. CASE NodeError(s)
  BY <1>25 DEF NodeError
<1>26. CASE FailWrite(s)
  BY <1>26 DEF FailWrite
<1>27. CASE CloseFailed(s)
  BY <1>27, FinishSole DEF CloseFailed
<1>28. CASE Close(s)
  BY <1>28 DEF Close, Deregister
<1>29. CASE CancelWrite(s)
  BY <1>29, FinishSole DEF CancelWrite
<1>30. CASE FinalFlag(s)
  BY <1>30, LifecycleAssumption, FinalFlagEffect
<1>31. CASE FinalSnap(s)
  <2>1. CASE ~HasNext(ckpt)
    BY <1>31, <2>1, FinishSole DEF FinalSnap
  <2>2. CASE HasNext(ckpt)
    BY <1>31, <2>2 DEF FinalSnap, HasNext
  <2>3. QED
    BY <2>1, <2>2
<1>32. CASE ParkWrite(s)
  BY <1>32, FinishSole DEF ParkWrite
<1>33. CASE Disconnect(s)
  <2>1. "done" \in orphans' => "done" \in orphans \/ ckpt.stage = "finalizer"
    BY <1>33 DEF Disconnect, MayOrphan, InFlight
  <2>2. QED
    BY <1>33, <2>1, FinishSole DEF Disconnect
<1>34. QED
  BY <1>1, <1>2, <1>3, <1>4, <1>5, <1>6, <1>7, <1>8, <1>9, <1>10, <1>11, <1>12, <1>13,
     <1>14, <1>15, <1>16, <1>17, <1>18, <1>19, <1>20, <1>21, <1>22, <1>23, <1>24, <1>25,
     <1>26, <1>27, <1>28, <1>29, <1>30, <1>31, <1>32, <1>33 DEF StreamStep, LongStep

\* Sole is inductive: the other steps.
LEMMA SoleOther ==
  ASSUME TypeOK, NEW s \in Streams, Sole(s),
         \/ \E a \in Approvals : Stash(a) \/ ApproveStep(a)
         \/ \E c \in Cancels : SetFlag(c) \/ CancelStep(c)
         \/ \E w \in Writes : Land(w)
         \/ Crash
  PROVE  Sole(s)'
<1> USE DEF TypeOK, Sole, Submitted, durable, memory, locals, posts, history
<1>1. ASSUME NEW a \in Approvals, Stash(a) \/ ApproveStep(a) PROVE Sole(s)'
  BY <1>1 DEF ApproveStep, Stash, Persist, MarkRunning
<1>2. ASSUME NEW c \in Cancels, SetFlag(c) \/ CancelStep(c) PROVE Sole(s)'
  BY <1>2 DEF CancelStep, SetFlag, SetCancelled, Fire
<1>3. ASSUME NEW w \in Writes, Land(w) PROVE Sole(s)'
  BY <1>3 DEF Land
<1>4. CASE Crash
  BY <1>4 DEF Crash
<1>5. QED
  BY <1>1, <1>2, <1>3, <1>4

LEMMA SoleAlways ==
  ASSUME NEW s, Streams = {s}
  PROVE  Spec => [](TypeOK /\ Sole(s))
<1>1. Init => Sole(s)
  BY DEF Init, Sole, Submitted
<1>2. TypeOK /\ Sole(s) /\ [Next]_vars => Sole(s)'
  <2> SUFFICES ASSUME TypeOK, Sole(s), [Next]_vars PROVE Sole(s)'
    OBVIOUS
  <2>1. CASE Next
    BY <2>1, LifecycleAssumption, SoleStream, SoleOther DEF Next
  <2>2. CASE UNCHANGED vars
    BY <2>2 DEF Sole, Submitted, vars, durable, memory, locals, posts, history
  <2>3. QED
    BY <2>1, <2>2
<1>3. QED
  BY <1>1, <1>2, TypeCorrect, PTL DEF Spec

\* With one stream at a time, reopened again and again after disconnects, errors
\* and crashes, and with writes that land after their stream is gone: a run that
\* is stored as done has reached the finalizer.
THEOREM DoneMeansFinishedForOne ==
  ASSUME NEW s, Streams = {s}
  PROVE  Spec => []DoneMeansFinished
<1>1. Sole(s) => DoneMeansFinished
  BY DEF Sole, DoneMeansFinished
<1>2. QED
  BY <1>1, SoleAlways, PTL

-----------------------------------------------------------------------------
(***************************************************************************)
(* What becomes of a decision                                              *)
(***************************************************************************)
\* approve() has answered, or is about to: until then somebody keeps a decision,
\* the graph is beyond the gate, or the run is cancelled.  (Which decision that
\* is, a later one may change.)
Accepted == \E a \in Approvals : pcA[a] # "idle"
DecisionKept ==
    Accepted => \/ pendingMem # NoDecision \/ pendingDb # NoDecision
                \/ \E s \in Streams : held[s] # NoDecision
                \/ ckpt.stage \in Beyond \/ cancelFlag

\* Without faults the only stream stops, unless cancelled, at the gate or at the
\* end, and it ends with a decision in its hands only beyond the gate.
FromGate == {"parked"} \cup Beyond
Keeping(s) ==
    /\ orphans \cap {"clearPending", "cancelled"} = {}
    /\ pc[s] \notin {"failWrite", "closeFailed"}
    /\ Accepted => offered
    /\ \A c \in Cancels : pcC[c] # "idle" => cancelFlag
    /\ pc[s] \in {"idle", "flagCheck", "sayCancelled", "loadSnap", "freshStatus",
                  "popPending", "readPending"} => held[s] = NoDecision
    /\ woken[s] \/ pc[s] \in {"closeCancelled", "cancelWrite"} => cancelFlag
    /\ ~cancelFlag =>
         /\ offered => ckpt.stage \in FromGate
         /\ pc[s] \in {"idle", "flagCheck", "sayCancelled", "loadSnap"}
              => ckpt.stage \in {"none"} \cup FromGate
         /\ pc[s] \in {"popPending", "readPending", "clearPending", "popAgain", "resumeStatus",
                       "closeEnded", "finalFlag", "finalSnap", "parkWrite"}
              => ckpt.stage \in FromGate
         /\ pc[s] \in {"closeEnded", "finalFlag", "finalSnap", "parkWrite"} /\ held[s] # NoDecision
              => ckpt.stage \in Beyond
    /\ DecisionKept

\* The steps of the only stream.
LEMMA KeepingStream ==
  ASSUME Faults = {}, LifecycleAssumption, TypeOK, NEW s \in Streams, Streams = {s},
         Sole(s), Keeping(s),
         Open(s) \/ StreamStep(s) \/ LongStep(s) \/ NodeError(s) \/ Disconnect(s)
  PROVE  Keeping(s)'
<1> USE DEF TypeOK, Sole, Keeping, DecisionKept, Accepted, FromGate, Beyond,
        durable, memory, locals, posts, history, Goto
<1>1. CASE Open(s)
  BY <1>1 DEF Open
<1>2. CASE FlagCheck(s)
  BY <1>2, LifecycleAssumption, FlagCheckEffect
<1>3. CASE SayCancelled(s)
  BY <1>3 DEF SayCancelled, Finish
<1>4. CASE LoadSnap(s)
  <2>1. CASE ckpt.stage = "end"
    BY <1>4, <2>1 DEF LoadSnap, Finish
  <2>2. CASE ckpt.stage # "end"
    BY <1>4, <2>2 DEF LoadSnap, HasNext, Checkpoint, Stages
  <2>3. QED
    BY <2>1, <2>2
<1>5. CASE FreshStatus(s)
  BY <1>5 DEF FreshStatus
<1>6. CASE PopPending(s)
  BY <1>6 DEF PopPending
<1>7. CASE ReadPending(s)
  BY <1>7 DEF ReadPending
<1>8. CASE OfferAgain(s)
  BY <1>8 DEF OfferAgain, Finish
<1>9. CASE ClearPending(s)
  BY <1>9 DEF ClearPending
<1>10. CASE PopAgain(s)
  BY <1>10 DEF PopAgain
<1>11. CASE ResumeStatus(s)
  BY <1>11 DEF ResumeStatus
<1>12. CASE Register(s)
  BY <1>12 DEF Register
<1>13. CASE Recheck(s)
  BY <1>13, LifecycleAssumption, RecheckEffect
<1>14. CASE BeginFresh(s)
  BY <1>14 DEF BeginFresh, Checkpoint
<1>15. CASE BeginResume(s)
  BY <1>15 DEF BeginResume
<1>16. CASE PlannerDone(s)
  BY <1>16 DEF PlannerDone, Save, Checkpoint, Stages
<1>17. CASE ApprovalPass(s)
  BY <1>17 DEF ApprovalPass, Save, Checkpoint, Stages
<1>18. CASE ApprovalPark(s)
  BY <1>18 DEF ApprovalPark, Save, Checkpoint, Stages
<1>19. CASE ResearchDone(s)
  BY <1>19 DEF ResearchDone, Save, Checkpoint, Stages
<1>20. CASE FinalizeRun(s)
  BY <1>20 DEF FinalizeRun
<1>21. CASE FinalizeProject(s)
  BY <1>21 DEF FinalizeProject
<1>22. CASE FinalizeSave(s)
  BY <1>22 DEF FinalizeSave, Save, Checkpoint, Stages
<1>23. CASE GraphEnds(s)
  BY <1>23 DEF GraphEnds
<1>24. CASE Abort(s)
  BY <1>24 DEF Abort, MayOrphan, InFlight, Running
<1>25. CASE Close(s)
  BY <1>25 DEF Close, Deregister
<1>26. CASE CancelWrite(s)
  BY <1>26 DEF CancelWrite, Finish
<1>27. CASE FinalFlag(s)
  BY <1>27, LifecycleAssumption, FinalFlagEffect
<1>28. CASE FinalSnap(s)
  <2>1. CASE HasNext(ckpt)
    BY <1>28, <2>1 DEF FinalSnap
  <2>2. CASE ~HasNext(ckpt)
    BY <1>28, <2>2 DEF FinalSnap, Finish
  <2>3. QED
    BY <2>1, <2>2
<1>29. CASE ParkWrite(s)
  BY <1>29 DEF ParkWrite, Finish
<1>30. CASE FailWrite(s) \/ CloseFailed(s) \/ NodeError(s) \/ Disconnect(s)
  BY <1>30 DEF FailWrite, CloseFailed, NodeError, Disconnect
<1>31. QED
  BY <1>1, <1>2, <1>3, <1>4, <1>5, <1>6, <1>7, <1>8, <1>9, <1>10, <1>11, <1>12, <1>13, <1>14, <1>15, <1>16, <1>17, <1>18, <1>19, <1>20, <1>21, <1>22, <1>23, <1>24, <1>25, <1>26, <1>27, <1>28, <1>29, <1>30 DEF StreamStep, LongStep

\* The other steps.
LEMMA KeepingOther ==
  ASSUME Faults = {}, TypeOK, LifecycleAssumption, NEW s \in Streams, Streams = {s}, Keeping(s),
         \/ \E a \in Approvals : Stash(a) \/ ApproveStep(a)
         \/ \E c \in Cancels : SetFlag(c) \/ CancelStep(c)
         \/ \E w \in Writes : Land(w)
         \/ Crash
  PROVE  Keeping(s)'
<1> USE DEF TypeOK, Keeping, DecisionKept, Accepted, FromGate, Beyond,
        durable, memory, locals, posts, history
<1>1. ASSUME NEW a \in Approvals, Stash(a) \/ ApproveStep(a) PROVE Keeping(s)'
  BY <1>1, LifecycleAssumption DEF ApproveStep, Stash, Persist, MarkRunning, LifecycleAssumption
<1>2. ASSUME NEW c \in Cancels, SetFlag(c) \/ CancelStep(c) PROVE Keeping(s)'
  <2>1. CASE SetFlag(c)
    BY <2>1 DEF SetFlag
  <2>2. CASE SetCancelled(c)
    BY <2>2 DEF SetCancelled
  <2>3. CASE Fire(c)
    BY <2>3 DEF Fire
  <2>4. QED
    BY <1>2, <2>1, <2>2, <2>3 DEF CancelStep
<1>3. ASSUME NEW w \in Writes, Land(w) PROVE Keeping(s)'
  BY <1>3 DEF Land
<1>4. CASE Crash
  BY <1>4 DEF Crash
<1>5. QED
  BY <1>1, <1>2, <1>3, <1>4

\* popPending, readPending and clearPending in run_stream, against approve: where
\* nothing is cut off, no interleaving of one stream with any number of approvals
\* and cancels loses an accepted decision before the graph has passed the gate.
THEOREM DecisionKeptForOne ==
  ASSUME NEW s, Streams = {s}, Faults = {}
  PROVE  Spec => []DecisionKept
<1> s \in Streams
  OBVIOUS
<1>1. Init => Keeping(s)
  BY DEF Init, Keeping, DecisionKept, Accepted, FromGate, NoCheckpoint
<1>2. TypeOK /\ Sole(s) /\ Keeping(s) /\ [Next]_vars => Keeping(s)'
  <2> SUFFICES ASSUME TypeOK, Sole(s), Keeping(s), [Next]_vars PROVE Keeping(s)'
    OBVIOUS
  <2>1. CASE Next
    BY <2>1, LifecycleAssumption, KeepingStream, KeepingOther DEF Next
  <2>2. CASE UNCHANGED vars
    BY <2>2 DEF Keeping, DecisionKept, Accepted, vars, durable, memory, locals, posts, history
  <2>3. QED
    BY <2>1, <2>2
<1>3. Keeping(s) => DecisionKept
  BY DEF Keeping
<1>4. QED
  BY <1>1, <1>2, <1>3, SoleAlways, PTL DEF Spec

-----------------------------------------------------------------------------
(***************************************************************************)
(* The promise                                                             *)
(***************************************************************************)
\* Nothing that the user can see has changed, except perhaps that somebody is at
\* work.
Still == UNCHANGED <<ckpt, cancelFlag, pcA>>

LEMMA Hidden ==
  ASSUME NEW s, Streams = {s}, Still, pc'[s] \in Committed <=> pc[s] \in Committed,
         pc[s] \in Committed => ("flagCheck" \in misread'[s] <=> "flagCheck" \in misread[s])
  PROVE  UNCHANGED Promise!vars
<1>1. UNCHANGED <<PhaseOf(ckpt), ckpt.gate, cancelFlag, {a \in Approvals : pcA[a] # "idle"}>>
  BY DEF Still
<1>2. /\ (\E t \in Streams : pc'[t] \in Committed) = (\E t \in Streams : pc[t] \in Committed)
      /\ (\E t \in Streams : pc'[t] \in Committed /\ "flagCheck" \in misread'[t])
           = (\E t \in Streams : pc[t] \in Committed /\ "flagCheck" \in misread[t])
  OBVIOUS
<1> QED
  BY <1>1, <1>2 DEF Promise!vars

LEMMA Stops ==
  ASSUME NEW s, Streams = {s}, Still, pc[s] \in Committed, pc'[s] \notin Committed
  PROVE  Promise!Next
BY DEF Still, Promise!Next, Promise!Stop

LEMMA FinishLeaves ==
  ASSUME TypeOK, NEW s \in Streams, Finish(s)
  PROVE  pc'[s] \notin Committed
BY DEF TypeOK, Finish, Committed

\* The graph moves on by a node.
LEMMA Saved ==
  ASSUME TypeOK, NEW s, Streams = {s}, Sole(s), NEW stage,
         pc[s] \in {"pull", "finSave"}, Save(s, stage),
         pc'[s] \in {"pull", "closeEnded"}, UNCHANGED <<cancelFlag, pcA>>
  PROVE  /\ ckpt'.stage = stage /\ ckpt'.gate = ckpt.gate /\ at[s] = ckpt
         /\ pc[s] \in Committed /\ pc'[s] \in Committed
BY DEF TypeOK, Sole, Save, Checkpoint, Committed, StreamPcs, Running

LEMMA Moves ==
  ASSUME NEW s, Streams = {s}, UNCHANGED <<cancelFlag, pcA, misread>>,
         ckpt'.gate = ckpt.gate, pc[s] \in Committed, pc'[s] \in Committed,
         \/ PhaseOf(ckpt') = PhaseOf(ckpt)
         \/ PhaseOf(ckpt) = "planning" /\ PhaseOf(ckpt') = "gate"
         \/ /\ PhaseOf(ckpt) = "gate" /\ PhaseOf(ckpt') = "working"
            /\ ckpt.gate => \E a \in Approvals : pcA[a] # "idle"
         \/ PhaseOf(ckpt) = "working" /\ PhaseOf(ckpt') = "over"
  PROVE  [Promise!Next]_Promise!vars
BY DEF Promise!Next, Promise!Reach, Promise!Pass, Promise!Complete, Promise!Advance,
       Promise!vars

\* Every step of the stream is one of the promise, or none.
LEMMA PromiseStream ==
  ASSUME LifecycleAssumption, TypeOK, NEW s, Streams = {s}, Sole(s),
         Open(s) \/ StreamStep(s) \/ LongStep(s) \/ NodeError(s) \/ Disconnect(s)
  PROVE  [Promise!Next]_Promise!vars
<1> USE DEF durable, memory, locals, posts, history, Goto
<1>s. s \in Streams /\ pc \in [Streams -> StreamPcs]
  BY DEF TypeOK
<1>h. ASSUME Still, misread' = misread, pc'[s] \in Committed <=> pc[s] \in Committed
      PROVE  [Promise!Next]_Promise!vars
  BY <1>h, Hidden
<1>f. ASSUME Still, Finish(s) PROVE [Promise!Next]_Promise!vars
  <2>1. pc'[s] \notin Committed
    BY <1>f, <1>s, FinishLeaves
  <2>2. CASE pc[s] \in Committed
    BY <1>f, <2>1, <2>2, Stops
  <2>3. CASE pc[s] \notin Committed
    BY <1>f, <2>1, <2>3, Hidden
  <2>4. QED
    BY <2>2, <2>3
<1>1. CASE Open(s)
  BY <1>1, <1>s, <1>h DEF Open, Still, Committed
<1>2. CASE FlagCheck(s)
  <2>1. /\ pc[s] \notin Committed /\ Still
        /\ \/ pc' = [pc EXCEPT ![s] = "sayCancelled"] /\ misread' = misread
           \/ /\ pc' = [pc EXCEPT ![s] = "loadSnap"]
              /\ cancelFlag => "flagCheck" \in misread'[s]
    BY <1>2, FlagCheckEffect DEF Still, Committed, TypeOK
  <2>2. CASE pc' = [pc EXCEPT ![s] = "sayCancelled"] /\ misread' = misread
    BY <2>1, <2>2, <1>s, <1>h DEF Committed
  <2>3. CASE pc' = [pc EXCEPT ![s] = "loadSnap"] /\ (cancelFlag => "flagCheck" \in misread'[s])
    <3>1. pc'[s] \in Committed
      BY <2>3, <1>s DEF Committed, StreamPcs
    <3>2. QED
      BY <2>1, <2>3, <3>1 DEF Promise!Next, Promise!Start, Still
  <2>4. QED
    BY <2>1, <2>2, <2>3
<1>3. CASE SayCancelled(s)
  BY <1>3, <1>f DEF SayCancelled, Still
<1>4. CASE LoadSnap(s)
  <2>1. CASE ckpt.stage = "end"
    BY <1>4, <2>1, <1>f DEF LoadSnap, Still
  <2>2. CASE ckpt.stage # "end"
    BY <1>4, <2>2, <1>s, <1>h DEF LoadSnap, Still, Committed, StreamPcs
  <2>3. QED
    BY <2>1, <2>2
<1>5. CASE FreshStatus(s)
  BY <1>5, <1>s, <1>h DEF FreshStatus, Still, Committed, StreamPcs, Running
<1>6. CASE PopPending(s)
  BY <1>6, <1>s, <1>h DEF PopPending, Still, Committed, StreamPcs, Running
<1>7. CASE ReadPending(s)
  BY <1>7, <1>s, <1>h DEF ReadPending, Still, Committed, StreamPcs, Running
<1>8. CASE OfferAgain(s)
  BY <1>8, <1>f DEF OfferAgain, Still
<1>9. CASE ClearPending(s)
  BY <1>9, <1>s, <1>h DEF ClearPending, Still, Committed, StreamPcs, Running
<1>10. CASE PopAgain(s)
  BY <1>10, <1>s, <1>h DEF PopAgain, Still, Committed, StreamPcs, Running
<1>11. CASE ResumeStatus(s)
  BY <1>11, <1>s, <1>h DEF ResumeStatus, Still, Committed, StreamPcs, Running
<1>12. CASE Register(s)
  BY <1>12, <1>s, <1>h DEF Register, Still, Committed, StreamPcs, Running
<1>13. CASE Recheck(s)
  <2>1. Still /\ pc[s] = "recheck" /\ pc'[s] = "begin"
    BY <1>13, <1>s, RecheckEffect DEF Still
  <2>2. "flagCheck" \in misread'[s] <=> "flagCheck" \in misread[s]
    BY <1>13, RecheckEffect DEF TypeOK
  <2>3. QED
    BY <2>1, <2>2, Hidden DEF Committed, StreamPcs, Running
<1>14. CASE BeginFresh(s)
  <2>1. PICK g \in GateSettings : ckpt' = [stage |-> "planner", gate |-> g]
    BY <1>14 DEF BeginFresh
  <2>2. g \in BOOLEAN /\ ckpt'.gate = g /\ ckpt'.stage = "planner"
    BY <2>1, LifecycleAssumption
  <2>3. /\ pc[s] \in Committed /\ pc'[s] \in Committed /\ ckpt.stage = "none"
        /\ UNCHANGED <<cancelFlag, pcA, misread>>
    BY <1>14, <1>s DEF BeginFresh, Sole, Committed, StreamPcs, Running
  <2>4. PhaseOf(ckpt) = "new" /\ PhaseOf(ckpt') = "planning"
    BY <2>2, <2>3 DEF PhaseOf
  <2>5. QED
    BY <2>2, <2>3, <2>4 DEF Promise!Next, Promise!Plan, Promise!Advance
<1>15. CASE BeginResume(s)
  BY <1>15, <1>s, <1>h DEF BeginResume, Still, Committed, StreamPcs, Running
<1>16. CASE PlannerDone(s)
  <2>1. /\ pc[s] \in {"pull", "finSave"} /\ pc'[s] \in {"pull", "closeEnded"}
        /\ Save(s, "approval") /\ UNCHANGED <<cancelFlag, pcA, misread>>
    BY <1>16, <1>s DEF PlannerDone
  <2>2. /\ ckpt'.stage = "approval" /\ ckpt'.gate = ckpt.gate /\ at[s] = ckpt
        /\ pc[s] \in Committed /\ pc'[s] \in Committed
    BY <2>1, Saved
  <2>3. ckpt.stage \in {"planner"}
    BY <1>16, <2>2 DEF PlannerDone, Sole
  <2>4. PhaseOf(ckpt) = "planning" /\ PhaseOf(ckpt') = "gate"
    BY <2>2, <2>3 DEF PhaseOf
  <2>5. QED
    BY <2>1, <2>2, <2>4, Moves
<1>17. CASE ApprovalPass(s)
  <2>1. /\ pc[s] \in {"pull", "finSave"} /\ pc'[s] \in {"pull", "closeEnded"}
        /\ Save(s, "research") /\ UNCHANGED <<cancelFlag, pcA, misread>>
    BY <1>17, <1>s DEF ApprovalPass
  <2>2. /\ ckpt'.stage = "research" /\ ckpt'.gate = ckpt.gate /\ at[s] = ckpt
        /\ pc[s] \in Committed /\ pc'[s] \in Committed
    BY <2>1, Saved
  <2>3. ckpt.stage \in {"approval", "parked"}
    BY <1>17, <2>2 DEF ApprovalPass, Sole
  <2>4. PhaseOf(ckpt) = "gate" /\ PhaseOf(ckpt') = "working"
    BY <2>2, <2>3 DEF PhaseOf
  <2>5. ckpt.gate => \E a \in Approvals : pcA[a] # "idle"
    BY <1>17, <2>2 DEF ApprovalPass, Sole, Submitted, TypeOK
  <2>6. QED
    BY <2>1, <2>2, <2>4, <2>5, Moves
<1>18. CASE ApprovalPark(s)
  <2>1. /\ pc[s] \in {"pull", "finSave"} /\ pc'[s] \in {"pull", "closeEnded"}
        /\ Save(s, "parked") /\ UNCHANGED <<cancelFlag, pcA, misread>>
    BY <1>18, <1>s DEF ApprovalPark
  <2>2. /\ ckpt'.stage = "parked" /\ ckpt'.gate = ckpt.gate /\ at[s] = ckpt
        /\ pc[s] \in Committed /\ pc'[s] \in Committed
    BY <2>1, Saved
  <2>3. ckpt.stage \in {"approval", "parked"}
    BY <1>18, <2>2 DEF ApprovalPark, Sole
  <2>4. PhaseOf(ckpt') = PhaseOf(ckpt)
    BY <2>2, <2>3 DEF PhaseOf
  <2>5. QED
    BY <2>1, <2>2, <2>4, Moves
<1>19. CASE ResearchDone(s)
  <2>1. /\ pc[s] \in {"pull", "finSave"} /\ pc'[s] \in {"pull", "closeEnded"}
        /\ Save(s, "finalizer") /\ UNCHANGED <<cancelFlag, pcA, misread>>
    BY <1>19, <1>s DEF ResearchDone
  <2>2. /\ ckpt'.stage = "finalizer" /\ ckpt'.gate = ckpt.gate /\ at[s] = ckpt
        /\ pc[s] \in Committed /\ pc'[s] \in Committed
    BY <2>1, Saved
  <2>3. ckpt.stage \in {"research"}
    BY <1>19, <2>2 DEF ResearchDone, Sole
  <2>4. PhaseOf(ckpt') = PhaseOf(ckpt)
    BY <2>2, <2>3 DEF PhaseOf
  <2>5. QED
    BY <2>1, <2>2, <2>4, Moves
<1>20. CASE FinalizeRun(s)
  BY <1>20, <1>s, <1>h DEF FinalizeRun, Still, Committed, StreamPcs, Running
<1>21. CASE FinalizeProject(s)
  BY <1>21, <1>s, <1>h DEF FinalizeProject, Still, Committed, StreamPcs, Running
<1>22. CASE FinalizeSave(s)
  <2>1. /\ pc[s] \in {"pull", "finSave"} /\ pc'[s] \in {"pull", "closeEnded"}
        /\ Save(s, "end") /\ UNCHANGED <<cancelFlag, pcA, misread>>
    BY <1>22, <1>s DEF FinalizeSave
  <2>2. /\ ckpt'.stage = "end" /\ ckpt'.gate = ckpt.gate /\ at[s] = ckpt
        /\ pc[s] \in Committed /\ pc'[s] \in Committed
    BY <2>1, Saved
  <2>3. ckpt.stage \in {"finalizer"}
    BY <1>22, <2>2 DEF FinalizeSave, Sole
  <2>4. PhaseOf(ckpt) = "working" /\ PhaseOf(ckpt') = "over"
    BY <2>2, <2>3 DEF PhaseOf
  <2>5. QED
    BY <2>1, <2>2, <2>4, Moves
<1>23. CASE GraphEnds(s)
  BY <1>23, <1>s, <1>h DEF GraphEnds, Still, Committed, StreamPcs, Running
<1>24. CASE Abort(s)
  BY <1>24, <1>s, <1>h DEF Abort, Still, Committed, StreamPcs, Running
<1>25. CASE NodeError(s)
  BY <1>25, <1>s, <1>h DEF NodeError, Still, Committed, StreamPcs, Running
<1>26. CASE FailWrite(s)
  BY <1>26, <1>s, <1>h DEF FailWrite, Still, Committed, StreamPcs, Running
<1>27. CASE CloseFailed(s)
  BY <1>27, <1>f DEF CloseFailed, Still
<1>28. CASE Close(s)
  BY <1>28, <1>s, <1>h DEF Close, Still, Committed, StreamPcs, Running
<1>29. CASE CancelWrite(s)
  BY <1>29, <1>f DEF CancelWrite, Still
<1>30. CASE FinalFlag(s)
  <2>1. Still /\ misread' = misread /\ pc[s] = "finalFlag" /\ pc'[s] \in {"cancelWrite", "finalSnap"}
    BY <1>30, <1>s, FinalFlagEffect DEF Still
  <2>2. QED
    BY <2>1, <1>h DEF Committed, StreamPcs
<1>31. CASE FinalSnap(s)
  <2>1. CASE ~HasNext(ckpt)
    BY <1>31, <2>1, <1>f DEF FinalSnap, Still
  <2>2. CASE HasNext(ckpt)
    BY <1>31, <2>2, <1>s, <1>h DEF FinalSnap, Still, Committed, StreamPcs
  <2>3. QED
    BY <2>1, <2>2
<1>32. CASE ParkWrite(s)
  BY <1>32, <1>f DEF ParkWrite, Still
<1>33. CASE Disconnect(s)
  BY <1>33, <1>f DEF Disconnect, Still
<1>34. QED
  BY <1>1, <1>2, <1>3, <1>4, <1>5, <1>6, <1>7, <1>8, <1>9, <1>10, <1>11, <1>12, <1>13,
     <1>14, <1>15, <1>16, <1>17, <1>18, <1>19, <1>20, <1>21, <1>22, <1>23, <1>24, <1>25,
     <1>26, <1>27, <1>28, <1>29, <1>30, <1>31, <1>32, <1>33 DEF StreamStep, LongStep

LEMMA PromiseOther ==
  ASSUME TypeOK, NEW s, Streams = {s},
         \/ \E a \in Approvals : Stash(a) \/ ApproveStep(a)
         \/ \E c \in Cancels : SetFlag(c) \/ CancelStep(c)
         \/ \E w \in Writes : Land(w)
         \/ Crash
  PROVE  [Promise!Next]_Promise!vars
<1> USE DEF durable, memory, locals, posts, history
<1>1. ASSUME NEW a \in Approvals, Stash(a) PROVE [Promise!Next]_Promise!vars
  <2>1. UNCHANGED <<ckpt, cancelFlag, pc, misread>> /\ pcA' = [pcA EXCEPT ![a] = "persist"]
    BY <1>1 DEF Stash
  <2>2. {b \in Approvals : pcA'[b] # "idle"} = {b \in Approvals : pcA[b] # "idle"} \cup {a}
    BY <2>1 DEF TypeOK
  <2>3. Promise!Submit(a)
    BY <2>1, <2>2 DEF Promise!Submit
  <2>4. QED
    BY <2>3 DEF Promise!Next
<1>2. ASSUME NEW a \in Approvals, ApproveStep(a) PROVE [Promise!Next]_Promise!vars
  <2>1. /\ UNCHANGED <<ckpt, cancelFlag, pc, misread>> /\ pcA[a] # "idle"
        /\ pcA' = [pcA EXCEPT ![a] = "markRunning"] \/ pcA' = [pcA EXCEPT ![a] = "done"]
    BY <1>2 DEF ApproveStep, Persist, MarkRunning
  <2>2. \A b \in Approvals : pcA'[b] # "idle" <=> pcA[b] # "idle"
    BY <2>1 DEF TypeOK
  <2>3. {b \in Approvals : pcA'[b] # "idle"} = {b \in Approvals : pcA[b] # "idle"}
    BY <2>2
  <2>4. QED
    BY <2>1, <2>3 DEF Promise!vars
<1>3. ASSUME NEW c \in Cancels, SetFlag(c) PROVE [Promise!Next]_Promise!vars
  BY <1>3 DEF SetFlag, Promise!Next, Promise!Cancel
<1>4. ASSUME NEW c \in Cancels, CancelStep(c) PROVE [Promise!Next]_Promise!vars
  BY <1>4, Hidden DEF CancelStep, SetCancelled, Fire, Still
<1>5. ASSUME NEW w \in Writes, Land(w) PROVE [Promise!Next]_Promise!vars
  BY <1>5, Hidden DEF Land, Still
<1>6. CASE Crash
  <2>1. pc'[s] \notin Committed /\ UNCHANGED <<ckpt, cancelFlag>>
    BY <1>6 DEF Crash, Committed
  <2>2. \A b \in Approvals : pcA'[b] # "idle" <=> pcA[b] # "idle"
    BY <1>6 DEF Crash
  <2>3. {b \in Approvals : pcA'[b] # "idle"} = {b \in Approvals : pcA[b] # "idle"}
    BY <2>2
  <2>4. CASE pc[s] \in Committed
    BY <2>1, <2>3, <2>4 DEF Promise!Next, Promise!Stop
  <2>5. CASE pc[s] \notin Committed
    BY <2>1, <2>3, <2>5 DEF Promise!vars
  <2>6. QED
    BY <2>4, <2>5
<1>7. QED
  BY <1>1, <1>2, <1>3, <1>4, <1>5, <1>6

\* With one stream at a time the runner keeps its promise, whatever disconnects,
\* crashes, errors and cancels come between: no ground is lost, the gate is passed
\* with a decision, and only a stream that found the run uncancelled advances it.
THEOREM KeepsPromiseForOne ==
  ASSUME NEW s, Streams = {s}
  PROVE  Spec => KeepsPromise
<1>1. Init => Promise!Init
  <2> SUFFICES ASSUME Init PROVE Promise!Init
    OBVIOUS
  <2>1. PhaseOf(ckpt) = "new" /\ ckpt.gate = FALSE
    BY DEF Init, NoCheckpoint, PhaseOf
  <2>2. {a \in Approvals : pcA[a] # "idle"} = {} /\ cancelFlag = FALSE
    BY DEF Init
  <2>3. ~ \E r \in Streams : pc[r] \in Committed
    BY DEF Init, Committed
  <2>4. QED
    BY <2>1, <2>2, <2>3 DEF Promise!Init
<1>2. TypeOK /\ Sole(s) /\ [Next]_vars => [Promise!Next]_Promise!vars
  <2> SUFFICES ASSUME TypeOK, Sole(s), [Next]_vars PROVE [Promise!Next]_Promise!vars
    OBVIOUS
  <2>1. CASE Next
    BY <2>1, LifecycleAssumption, PromiseStream, PromiseOther DEF Next
  <2>2. CASE UNCHANGED vars
    <3>1. Still /\ pc' = pc /\ misread' = misread
      BY <2>2 DEF vars, durable, memory, locals, posts, Still
    <3>2. QED
      BY <3>1, Hidden
  <2>3. QED
    BY <2>1, <2>2
<1>3. QED
  BY <1>1, <1>2, SoleAlways, PTL DEF Spec, KeepsPromise, Promise!Spec
=============================================================================
