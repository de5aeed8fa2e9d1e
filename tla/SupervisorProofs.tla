--------------------------- MODULE SupervisorProofs ---------------------------
(***************************************************************************)
(* Proofs about Supervisor, for every plan, retry mode and bound.  The     *)
(* inductive invariant IInv adds to the checked properties where in the    *)
(* plan each program point stands, what an attempt holds while it runs,    *)
(* and what the retry counters can be before the next attempt.             *)
(***************************************************************************)
EXTENDS Supervisor, SequenceTheorems, TLAPS

\* The points between the start of an attempt and the end of its wait.
Trying ==
    {"attempt", "connect", "preflight", "publish_initializing", "resolve",
     "smoke", "start", "publish_pending", "gate", "publish_playing", "latch",
     "play", "stop_cleanup", "retry", "reset"}
InCapture  == Trying \cup {"judge", "close", "remux", "record"}
Running    == InCapture \cup {"load", "next"}
Finalising ==
    {"finish", "publish_completed", "publish_failed", "publish_remuxing",
     "finalize", "merging", "publish_finalizing", "publish_final",
     "publish_merge_failed", "delete"}
\* The points at which the attempt has its folder and must be torn down.
Started ==
    {"preflight", "publish_initializing", "resolve", "smoke", "start",
     "publish_pending", "gate", "publish_playing", "latch", "play",
     "stop_cleanup"}

\* The run has an ending exactly when it has left the loop over the plan.
EndingInv ==
    /\ pc \in Running <=> ending = "none"
    /\ pc \in Finalising => ending \in {"stopped", "completed", "exhausted"}
    /\ pc = "delete" => ending = "completed"

\* How many records there are at each point.
PlaceInv ==
    /\ pc = "load" => index = 0
    /\ pc \in {"load", "next"} => index < PlanLength /\ Len(captures) = index
    /\ pc \in InCapture => index >= 1 /\ Len(captures) = index - 1
    /\ pc \in InCapture \ {"record"} => folder = index

\* While the loop runs, every record is of a failure.
RecordInv ==
    /\ PlanInOrder
    /\ pc \in Running => \A i \in DOMAIN captures : captures[i].status = "failed"

\* What an attempt, then a capture, can end with.
OutcomeInv ==
    /\ pc = "judge" => outcome \in {"stopped", "failed", "crashed", "done"}
    /\ pc \in {"close", "remux", "record"}
         => outcome \in {"stopped", "failed", "completed"}

\* An attempt that is about to start is still within the budget.
TriesInv ==
    /\ RetryBudget
    /\ resolveFailures = MaxResolveFailures => pc \notin Trying
    /\ pc \in {"attempt", "retry", "reset"} =>
         /\ RetryMode[index] = "none" => attempt = 0
         /\ RetryMode[index] = "count" => attempt <= RetryCount

\* An attempt that started holds its folder until it is torn down.
HoldInv ==
    /\ pc \in Started => live /\ dirs
    /\ pc = "publish_playing" => gateStatus \in Playing
    /\ EngineWithinAttempt
    /\ RecordingIsStashed

\* The artifacts are of captures that ended, or of the one being closed.
ArtifactInv ==
    /\ ArtifactOncePerCapture
    /\ pc \in Running => \A i \in DOMAIN artifacts : artifacts[i] <= index
    /\ pc \in InCapture \ {"record"} => \A i \in DOMAIN artifacts : artifacts[i] < index

\* Nothing is filed before the merge, and the merge has something to file.
FiledInv ==
    /\ RecordingFiled
    /\ pc \in Running \cup {"finish", "publish_remuxing", "finalize", "merging"}
         => recordings = 0
    /\ pc = "merging" => artifacts # <<>>

IInv == /\ TypeOK /\ EndingInv /\ PlaceInv /\ RecordInv /\ OutcomeInv
        /\ TriesInv /\ HoldInv /\ ArtifactInv /\ FiledInv

\* The shape of the row and of the control handler.
RowType == [exists : BOOLEAN, status : Statuses, recording : BOOLEAN]
CtlType == [step : CtlSteps, status : Playing \cup {"none"}]

\* A status write keeps the row's shape.
LEMMA PublishType ==
    ASSUME TypeOK, NEW s \in Statuses, Publish(s)
    PROVE  row' \in RowType
  BY DEF TypeOK, Publish, RowType, Statuses

\* The teardown of an engine that was started stops it.
LEMMA CleanupType ==
    ASSUME TypeOK, Cleanup, engine => live
    PROVE  /\ live' \in BOOLEAN /\ engine' \in BOOLEAN /\ stash' \in StashStates
           /\ ~engine'
  BY DEF TypeOK, Cleanup, StashStates, StashRuns

(***************************************************************************)
(* IInv is inductive.                                                      *)
(***************************************************************************)
\* The initial states satisfy the inductive invariant.
LEMMA InitInv == Init => IInv
<1> SUFFICES ASSUME Init PROVE IInv
  OBVIOUS
<1>1. row \in RowType /\ ctl \in CtlType
  BY DEF Init, RowType, CtlType, Statuses, CtlSteps, Idle
<1>2. /\ {live, engine, connected, stop, playable, wantRecording, recorder,
          dirs, playlist} \subseteq BOOLEAN
      /\ ~engine /\ ~live /\ ~dirs /\ stash = "off"
  BY DEF Init
<1>3. TypeOK
  BY <1>1, <1>2, PlanAssumption, RetryAssumption
  DEF Init, TypeOK, RowType, CtlType, PCs, Endings, Outcomes, Signals, NoSignal,
      Playing, StashStates, StashRuns
<1> QED
  BY <1>2, <1>3, PlanAssumption, RetryAssumption
  DEF Init, IInv, EndingInv, PlaceInv, RecordInv, PlanInOrder, OutcomeInv,
      TriesInv, RetryBudget, HoldInv, EngineWithinAttempt, RecordingIsStashed,
      Writing, StashRuns, StashStates,
      ArtifactInv, ArtifactOncePerCapture, FiledInv, RecordingFiled, Trying,
      InCapture, Running, Finalising, Started

\* The loop over the plan.
LEMMA CaptureStep == IInv /\ Capture => IInv'
<1> SUFFICES ASSUME IInv, Capture PROVE IInv'
  OBVIOUS
<1> USE PlanAssumption, RetryAssumption
    DEF IInv, TypeOK, EndingInv, PlaceInv, RecordInv, PlanInOrder, OutcomeInv,
        TriesInv, RetryBudget, HoldInv, EngineWithinAttempt,
        RecordingIsStashed, Writing, StashRuns, StashStates, ArtifactInv,
        ArtifactOncePerCapture, FiledInv, RecordingFiled, Trying, InCapture,
        Running, Finalising, Started, PCs,
        Publishing, Endings, Outcomes, Signals, NoSignal, Playing,
        plan, tries, attVars, recVars, media, disk, latches, Goto, Raise,
        RetryModes
<1>1. CASE Load
  BY <1>1 DEF Load
<1>2. CASE StopAtTop
  BY <1>2 DEF StopAtTop
<1>3. CASE BeginCapture
  BY <1>3 DEF BeginCapture, UseFolder
<1>4. CASE LoadCaptureFails
  BY <1>4 DEF LoadCaptureFails
<1>5. CASE CloseCapture
  <2>1. /\ live' \in BOOLEAN /\ engine' \in BOOLEAN /\ stash' \in StashStates
        /\ ~engine'
    BY <1>5, CleanupType DEF CloseCapture
  <2> QED BY <1>5, <2>1 DEF CloseCapture
<1>6. CASE RemuxNothing
  BY <1>6 DEF RemuxNothing
<1>7. CASE RemuxDone
  BY <1>7 DEF RemuxDone
<1>8. CASE RecordCapture
  BY <1>8 DEF RecordCapture
<1> QED BY <1>1, <1>2, <1>3, <1>4, <1>5, <1>6, <1>7, <1>8 DEF Capture

\* One attempt.
LEMMA AttemptStep == IInv /\ Attempt => IInv'
<1> SUFFICES ASSUME IInv, Attempt PROVE IInv'
  OBVIOUS
<1> USE PlanAssumption, RetryAssumption
    DEF IInv, TypeOK, EndingInv, PlaceInv, RecordInv, PlanInOrder, OutcomeInv,
        TriesInv, RetryBudget, HoldInv, EngineWithinAttempt,
        RecordingIsStashed, Writing, StashRuns, StashStates, ArtifactInv,
        ArtifactOncePerCapture, FiledInv, RecordingFiled, Trying, InCapture,
        Running, Finalising, Started, PCs,
        Publishing, Endings, Outcomes, Signals, NoSignal, Playing,
        plan, tries, attVars, recVars, media, disk, latches, Goto, Raise,
        RetryModes
<1>1. CASE StartAttempt
  BY <1>1 DEF StartAttempt
<1>2. CASE Connect
  <2>1. connected' \in BOOLEAN
    BY <1>2 DEF Connect
  <2> QED BY <1>2, <2>1 DEF Connect
<1>3. CASE Preflight
  BY <1>3 DEF Preflight
<1>4. CASE PublishInitializing
  <2>1. row' \in RowType
    <3>1. "initializing" \in Statuses
      BY DEF Statuses
    <3> QED BY <1>4, <3>1, PublishType DEF PublishInitializing
  <2> QED BY <1>4, <2>1 DEF PublishInitializing, RowType
<1>5. CASE Resolve
  BY <1>5 DEF Resolve
<1>6. CASE SmokeTest
  BY <1>6 DEF SmokeTest
<1>7. CASE StopBeforeStart
  BY <1>7 DEF StopBeforeStart
<1>8. CASE StartFails
  <2>1. engine' \in BOOLEAN /\ playlist' \in BOOLEAN
    BY <1>8 DEF StartFails
  <2> QED BY <1>8, <2>1 DEF StartFails
<1>9. CASE StartEngine
  <2>1. /\ engine' \in BOOLEAN /\ playlist' \in BOOLEAN
        /\ stash' \in StashStates /\ (recorder => stash' # "off")
    BY <1>9 DEF StartEngine, StartStash
  <2> QED BY <1>9, <2>1 DEF StartEngine
<1>10. CASE PublishPending
  <2>1. row' \in RowType
    <3>1. "stream_pending" \in Statuses
      BY DEF Statuses
    <3> QED BY <1>10, <3>1, PublishType DEF PublishPending
  <2> QED BY <1>10, <2>1 DEF PublishPending, RowType
<1>11. CASE GateReady
  BY <1>11 DEF GateReady
<1>12. CASE GateTimeout
  BY <1>12 DEF GateTimeout
<1>13. CASE PublishPlaying
  <2>1. gateStatus \in Statuses
    BY <1>13 DEF PublishPlaying, Statuses
  <2>2. row' \in RowType
    BY <1>13, <2>1, PublishType DEF PublishPlaying
  <2> QED BY <1>13, <2>2 DEF PublishPlaying, RowType
<1>14. CASE LatchPlayable
  BY <1>14 DEF LatchPlayable
<1>15. CASE StopObserved
  BY <1>15 DEF StopObserved
<1>16. CASE ExitObserved
  BY <1>16 DEF ExitObserved
<1>17. CASE StopCleanup
  <2>1. /\ live' \in BOOLEAN /\ engine' \in BOOLEAN /\ stash' \in StashStates
        /\ ~engine'
    BY <1>17, CleanupType DEF StopCleanup
  <2> QED BY <1>17, <2>1 DEF StopCleanup
<1>18. CASE Judge
  BY <1>18 DEF Judge, Retrying, ShouldRetry
<1>19. CASE RetryCleanup
  <2>1. /\ live' \in BOOLEAN /\ engine' \in BOOLEAN /\ stash' \in StashStates
        /\ ~engine'
    BY <1>19, CleanupType DEF RetryCleanup
  <2> QED BY <1>19, <2>1 DEF RetryCleanup
<1>20. CASE ResetForRetry
  <2>1. row' \in RowType
    <3>1. "initializing" \in Statuses
      BY DEF Statuses
    <3> QED BY <1>20, <3>1, PublishType DEF ResetForRetry
  <2>2. playable' \in BOOLEAN
    BY <1>20 DEF ResetForRetry
  <2> QED BY <1>20, <2>1, <2>2 DEF ResetForRetry, RowType
<1> QED BY <1>1, <1>2, <1>3, <1>4, <1>5, <1>6, <1>7, <1>8, <1>9, <1>10, <1>11,
           <1>12, <1>13, <1>14, <1>15, <1>16, <1>17, <1>18, <1>19, <1>20 DEF
           Attempt

\* The end of a run.
LEMMA EndStep == IInv /\ End => IInv'
<1> SUFFICES ASSUME IInv, End PROVE IInv'
  OBVIOUS
<1> USE PlanAssumption, RetryAssumption
    DEF IInv, TypeOK, EndingInv, PlaceInv, RecordInv, PlanInOrder, OutcomeInv,
        TriesInv, RetryBudget, HoldInv, EngineWithinAttempt,
        RecordingIsStashed, Writing, StashRuns, StashStates, ArtifactInv,
        ArtifactOncePerCapture, FiledInv, RecordingFiled, Trying, InCapture,
        Running, Finalising, Started, PCs,
        Publishing, Endings, Outcomes, Signals, NoSignal, Playing,
        plan, tries, attVars, recVars, media, disk, latches, Goto, Raise,
        RetryModes
<1>1. CASE Finish
  BY <1>1 DEF Finish, UseFolder
<1>2. CASE PublishCompleted
  <2>1. row' \in RowType
    <3>1. "completed" \in Statuses
      BY DEF Statuses
    <3> QED BY <1>2, <3>1, PublishType DEF PublishCompleted
  <2> QED BY <1>2, <2>1 DEF PublishCompleted, RowType, AfterFinal
<1>3. CASE PublishFailed
  <2>1. row' \in RowType
    <3>1. "failed" \in Statuses
      BY DEF Statuses
    <3> QED BY <1>3, <3>1, PublishType DEF PublishFailed
  <2> QED BY <1>3, <2>1 DEF PublishFailed, RowType
<1>4. CASE PublishRemuxing
  <2>1. row' \in RowType
    <3>1. "remuxing" \in Statuses
      BY DEF Statuses
    <3> QED BY <1>4, <3>1, PublishType DEF PublishRemuxing
  <2> QED BY <1>4, <2>1 DEF PublishRemuxing, RowType
<1>5. CASE FinalizeRaises
  BY <1>5 DEF FinalizeRaises
<1>6. CASE FinalizeStarts
  BY <1>6 DEF FinalizeStarts
<1>7. CASE Merge
  <2>1. dirs' \in BOOLEAN
    BY <1>7 DEF Merge
  <2>2. recordings = 0 /\ recordings' \in {0, 1}
    BY <1>7 DEF Merge
  <2>3. pc' \in {"publish_finalizing", "publish_final"} => recordings' = 1
    BY <1>7 DEF Merge
  <2> QED BY <1>7, <2>1, <2>2, <2>3 DEF Merge
<1>8. CASE PublishFinalizing
  <2>1. row' \in RowType
    <3>1. "finalizing" \in Statuses
      BY DEF Statuses
    <3> QED BY <1>8, <3>1, PublishType DEF PublishFinalizing
  <2> QED BY <1>8, <2>1 DEF PublishFinalizing, RowType
<1>9. CASE PublishFinal
  <2>1. "failed" \in Statuses /\ "completed" \in Statuses
    BY DEF Statuses
  <2>2. row' \in RowType
    BY <1>9, <2>1, PublishType DEF PublishFinal
  <2> QED BY <1>9, <2>2 DEF PublishFinal, RowType, AfterFinal
<1>10. CASE PublishMergeFailed
  <2>1. row' \in RowType
    <3>1. "failed" \in Statuses
      BY DEF Statuses
    <3> QED BY <1>10, <3>1, PublishType DEF PublishMergeFailed
  <2> QED BY <1>10, <2>1 DEF PublishMergeFailed, RowType, AfterFinal
<1>11. CASE DeleteRow
  <2>1. row' \in RowType
    BY <1>11 DEF DeleteRow, RowType, Statuses
  <2> QED BY <1>11, <2>1 DEF DeleteRow, RowType
<1>12. CASE RowMissing
  BY <1>12 DEF RowMissing
<1>13. CASE Disconnect
  <2>1. ctl' \in CtlType /\ connected' \in BOOLEAN
    BY <1>13 DEF Disconnect, CtlType, CtlSteps, Idle
  <2> QED BY <1>13, <2>1 DEF Disconnect, CtlType
<1>14. CASE MarkFailed
  <2>1. row' \in RowType
    BY <1>14 DEF MarkFailed, RowType, Statuses
  <2> QED BY <1>14, <2>1 DEF MarkFailed, RowType
<1> QED BY <1>1, <1>2, <1>3, <1>4, <1>5, <1>6, <1>7, <1>8, <1>9, <1>10, <1>11,
           <1>12, <1>13, <1>14 DEF End

\* The second half of a command.
LEMMA FinishingStep == IInv /\ Finishing => IInv'
<1> SUFFICES ASSUME IInv, Finishing PROVE IInv'
  OBVIOUS
<1> USE PlanAssumption, RetryAssumption
    DEF IInv, TypeOK, EndingInv, PlaceInv, RecordInv, PlanInOrder, OutcomeInv,
        TriesInv, RetryBudget, HoldInv, EngineWithinAttempt,
        RecordingIsStashed, Writing, StashRuns, StashStates, ArtifactInv,
        ArtifactOncePerCapture, FiledInv, RecordingFiled, Trying, InCapture,
        Running, Finalising, Started, PCs,
        Publishing, Endings, Outcomes, Signals, NoSignal, Playing,
        plan, tries, attVars, recVars, media, disk, latches, Goto, Raise,
        RetryModes
<1>1. CASE StopLatch
  <2>1. ctl' \in CtlType /\ playable' \in BOOLEAN /\ stop' \in BOOLEAN
    BY <1>1 DEF StopLatch, CtlType, CtlSteps, Idle
  <2> QED BY <1>1, <2>1 DEF StopLatch, CtlType
<1>2. CASE DropRecorder
  <2>1. ctl' \in CtlType /\ recorder' \in BOOLEAN /\ stash' \in StashStates
    BY <1>2 DEF DropRecorder, CtlType, CtlSteps, Idle, Toggle
  <2> QED BY <1>2, <2>1 DEF DropRecorder, CtlType
<1>3. CASE PublishRecording
  <2>1. ctl' \in CtlType
    BY <1>3 DEF PublishRecording, CtlType, CtlSteps, Idle
  <2>2. row' \in RowType
    BY <1>3 DEF PublishRecording, RowType, CtlType, Statuses
  <2> QED BY <1>3, <2>1, <2>2 DEF PublishRecording, CtlType, RowType
<1> QED BY <1>1, <1>2, <1>3 DEF Finishing

\* The first half of a command.
LEMMA CommandsStep == IInv /\ Commands => IInv'
<1> SUFFICES ASSUME IInv, Commands PROVE IInv'
  OBVIOUS
<1> USE PlanAssumption, RetryAssumption
    DEF IInv, TypeOK, EndingInv, PlaceInv, RecordInv, PlanInOrder, OutcomeInv,
        TriesInv, RetryBudget, HoldInv, EngineWithinAttempt,
        RecordingIsStashed, Writing, StashRuns, StashStates, ArtifactInv,
        ArtifactOncePerCapture, FiledInv, RecordingFiled, Trying, InCapture,
        Running, Finalising, Started, PCs,
        Publishing, Endings, Outcomes, Signals, NoSignal, Playing,
        plan, tries, attVars, recVars, media, disk, latches, Goto, Raise,
        RetryModes
<1>1. CASE StopCommand
  <2>1. ctl' \in CtlType
    BY <1>1 DEF StopCommand, CtlType, CtlSteps, Idle
  <2>2. row' \in RowType
    <3>1. "terminating" \in Statuses
      BY DEF Statuses
    <3> QED BY <1>1, <3>1, PublishType DEF StopCommand
  <2> QED BY <1>1, <2>1, <2>2 DEF StopCommand, CtlType, RowType
<1>2. CASE EnableCommand
  <2>1. ctl' \in CtlType
    BY <1>2 DEF EnableCommand, CtlType, CtlSteps, Idle, Toggle
  <2> QED BY <1>2, <2>1 DEF EnableCommand, CtlType
<1>3. CASE DisableCommand
  <2>1. ctl' \in CtlType
    BY <1>3 DEF DisableCommand, CtlType, CtlSteps, Idle, Toggle
  <2>2. wantRecording' \in BOOLEAN
    BY <1>3 DEF DisableCommand
  <2>3. recorder' \in BOOLEAN /\ (recorder' => recorder)
    BY <1>3 DEF DisableCommand
  <2> QED BY <1>3, <2>1, <2>2, <2>3 DEF DisableCommand, CtlType
<1> QED BY <1>1, <1>2, <1>3 DEF Commands

\* The engine and the core process.
LEMMA OutsideStep == IInv /\ Outside => IInv'
<1> SUFFICES ASSUME IInv, Outside PROVE IInv'
  OBVIOUS
<1> USE PlanAssumption, RetryAssumption
    DEF IInv, TypeOK, EndingInv, PlaceInv, RecordInv, PlanInOrder, OutcomeInv,
        TriesInv, RetryBudget, HoldInv, EngineWithinAttempt,
        RecordingIsStashed, Writing, StashRuns, StashStates, ArtifactInv,
        ArtifactOncePerCapture, FiledInv, RecordingFiled, Trying, InCapture,
        Running, Finalising, Started, PCs,
        Publishing, Endings, Outcomes, Signals, NoSignal, Playing,
        plan, tries, attVars, recVars, media, disk, latches, Goto, Raise,
        RetryModes
<1>1. CASE StallObserved
  BY <1>1 DEF StallObserved
<1>2. CASE ExternalError
  <2>1. /\ live' \in BOOLEAN /\ engine' \in BOOLEAN /\ playlist' \in BOOLEAN
        /\ stash' \in StashStates
    BY <1>2 DEF ExternalError
  <2> QED BY <1>2, <2>1 DEF ExternalError
<1>3. CASE CleanupRaises
  <2>1. live' \in BOOLEAN /\ stash' \in StashStates
    BY <1>3 DEF CleanupRaises
  <2> QED BY <1>3, <2>1 DEF CleanupRaises
<1>4. CASE WriteSegment
  BY <1>4 DEF WriteSegment
<1>5. CASE EngineEnds
  BY <1>5 DEF EngineEnds
<1>6. CASE Shutdown
  BY <1>6 DEF Shutdown
<1>7. CASE ApiDelete
  <2>1. row' \in RowType
    BY <1>7 DEF ApiDelete, RowType, Statuses
  <2> QED BY <1>7, <2>1 DEF ApiDelete, RowType
<1>8. CASE StashFails
  BY <1>8 DEF StashFails
<1> QED BY <1>1, <1>2, <1>3, <1>4, <1>5, <1>6, <1>7, <1>8 DEF Outside

\* Every step keeps the inductive invariant.
LEMMA StepInv == IInv /\ [Next]_vars => IInv'
<1> SUFFICES ASSUME IInv, [Next]_vars PROVE IInv'
  OBVIOUS
<1>1. CASE UNCHANGED vars
  BY <1>1
  DEF vars, plan, tries, attVars, recVars, media, disk, latches, IInv, TypeOK,
      EndingInv, PlaceInv, RecordInv, PlanInOrder, OutcomeInv, TriesInv,
      RetryBudget, HoldInv, EngineWithinAttempt, RecordingIsStashed,
      Writing, StashRuns, StashStates,
      ArtifactInv, ArtifactOncePerCapture, FiledInv, RecordingFiled
<1> QED
  BY <1>1, CaptureStep, AttemptStep, EndStep, FinishingStep, CommandsStep,
     OutsideStep
  DEF Next, Run

\* The inductive invariant holds in every behaviour.
LEMMA Invariance == Spec => []IInv
  BY InitInv, StepInv, PTL DEF Spec

(***************************************************************************)
(* The checked properties, for every plan.                                 *)
(***************************************************************************)
\* Every variable of the supervisor keeps its type: the index never leaves the
\* plan, whatever fails.
THEOREM TypeCorrect == Spec => []TypeOK
  BY Invariance, PTL DEF IInv

\* The captures run in plan order, each after the failure of the one before, and
\* only a plan without success is exhausted.
THEOREM PlanRunsInOrder == Spec => []PlanInOrder
  BY Invariance, PTL DEF IInv, RecordInv

\* No media reaches the merge twice, and it reaches it in plan order.
THEOREM MediaMergedOnce == Spec => []ArtifactOncePerCapture
  BY Invariance, PTL DEF IInv, ArtifactInv

\* A run that no exception ended never leaves an engine behind.
THEOREM EngineTornDown == Spec => []EngineWithinAttempt
  BY Invariance, PTL DEF IInv, HoldInv

\* Whatever toggles recording, and in whatever phase of the run, a recorder has had
\* its stash task started when its engine writes.
THEOREM RecorderStashes == Spec => []RecordingIsStashed
  BY Invariance, PTL DEF IInv, HoldInv

\* Every capture keeps to its retry budget.
THEOREM BudgetKept == Spec => []RetryBudget
  BY Invariance, PTL DEF IInv, TriesInv

\* At most one recording is filed, and a final status of a merge has one.
THEOREM OneRecording == Spec => []RecordingFiled
  BY Invariance, PTL DEF IInv, FiledInv

\* Media is merged once, in plan order, into at most one recording.
THEOREM MediaIsFiledOnce == Spec => []MediaFiledOnce
<1>1. ArtifactOncePerCapture /\ RecordingFiled => MediaFiledOnce
  BY DEF MediaFiledOnce
<1> QED
  BY <1>1, MediaMergedOnce, OneRecording, PTL

\* A row the supervisor deletes is that of a run that completed.
THEOREM DeletionAfterCompletion == Spec => OnlyCompletedDeleted
<1>1. IInv /\ [Next]_vars =>
        [(row.exists /\ ~row'.exists /\ pc' # pc) => ending = "completed"]_vars
  <2> SUFFICES ASSUME IInv, Next, row.exists, ~row'.exists, pc' # pc
               PROVE  ending = "completed"
    OBVIOUS
  <2>1. row \in RowType /\ EndingInv
    BY DEF IInv, TypeOK, RowType
  <2>2. CASE DeleteRow
    BY <2>1, <2>2 DEF DeleteRow, Goto, EndingInv
  <2>3. CASE Capture
    BY <2>3 DEF Capture, Load, StopAtTop, BeginCapture, LoadCaptureFails,
                CloseCapture, RemuxNothing, RemuxDone, RecordCapture
  <2>4. CASE Attempt
    BY <2>1, <2>4
    DEF Attempt, StartAttempt, Connect, Preflight, PublishInitializing, Resolve,
        SmokeTest, StopBeforeStart, StartFails, StartEngine, PublishPending,
        GateReady, GateTimeout, PublishPlaying, LatchPlayable, StopObserved,
        ExitObserved, StopCleanup, Judge, RetryCleanup, ResetForRetry, Publish,
        RowType
  <2>5. CASE End /\ ~DeleteRow
    BY <2>1, <2>5
    DEF End, Finish, PublishCompleted, PublishFailed, PublishRemuxing,
        FinalizeRaises, FinalizeStarts, Merge, PublishFinalizing, PublishFinal,
        PublishMergeFailed, RowMissing, Disconnect, MarkFailed, Publish, RowType
  <2>6. CASE Outside
    BY <2>6
    DEF Outside, StallObserved, ExternalError, CleanupRaises, WriteSegment,
        StashFails, EngineEnds, Shutdown, ApiDelete
  <2>7. ~Finishing /\ ~Commands
    BY DEF Finishing, StopLatch, DropRecorder, PublishRecording, Commands,
           StopCommand, EnableCommand, DisableCommand
  <2> QED BY <2>2, <2>3, <2>4, <2>5, <2>6, <2>7 DEF Next, Run
<1> QED BY <1>1, Invariance, PTL DEF Spec, OnlyCompletedDeleted

(***************************************************************************)
(* The supervisor implements the capture plan.                             *)
(***************************************************************************)
\* What the abstract plan sees of a state.
seen == <<Len(captures), ending, recordings>>

\* An initial state is an initial state of the abstract plan.
LEMMA PlanInit == Init => Plan!Init
  BY DEF Init, Plan!Init

\* An exception is the abstract abort.
LEMMA RaiseAborts ==
    ASSUME Raise, UNCHANGED <<captures, recordings>>
    PROVE  Plan!Abort
  BY DEF Raise, Plan!Abort

\* Every step of the run is a step of the abstract plan, or changes nothing the
\* plan sees.
LEMMA PlanStep == IInv /\ [Next]_vars => [Plan!Next]_(Plan!vars)
<1> SUFFICES ASSUME IInv, [Next]_vars, ~UNCHANGED seen
             PROVE  Plan!Next
  BY DEF seen, Plan!vars
<1> USE DEF IInv, Plan!Next
<1>1. Next
  BY DEF vars, plan, disk, seen
<1>2. CASE StopAtTop
  BY <1>2, PlanAssumption
  DEF StopAtTop, Goto, plan, disk, EndingInv, PlaceInv, Running, TypeOK,
      Plan!StopBetween
<1>3. CASE RecordCapture
  <2>1. /\ ending = "none" /\ index \in 1..PlanLength
        /\ Len(captures) = index - 1 /\ Len(captures') = index
        /\ recordings' = recordings
        /\ outcome \in {"stopped", "failed", "completed"}
    BY <1>3 DEF RecordCapture, EndingInv, PlaceInv, OutcomeInv, Running,
                InCapture, TypeOK, disk
  <2>2. CASE outcome = "failed" /\ index < PlanLength
    BY <1>3, <2>1, <2>2, PlanAssumption DEF RecordCapture, Plan!HandOver
  <2>3. CASE ~(outcome = "failed" /\ index < PlanLength)
    BY <1>3, <2>1, <2>3, PlanAssumption DEF RecordCapture, Plan!Settle
  <2> QED BY <2>2, <2>3
<1>4. CASE Merge
  BY <1>4 DEF Merge, plan, seen, EndingInv, FiledInv, Running, Finalising,
              TypeOK, Plan!File
<1>5. CASE Load \/ RemuxDone \/ RowMissing \/ ExternalError \/ CleanupRaises
  BY <1>5, RaiseAborts
  DEF Load, RemuxDone, RowMissing, ExternalError, CleanupRaises, Raise, plan,
      disk, seen, Plan!Abort
<1>6. CASE Capture /\ ~StopAtTop /\ ~RecordCapture /\ ~Load /\ ~RemuxDone
  BY <1>6 DEF Capture, BeginCapture, LoadCaptureFails, CloseCapture,
              RemuxNothing, plan, disk, seen
<1>7. CASE Attempt
  BY <1>7
  DEF Attempt, StartAttempt, Connect, Preflight, PublishInitializing, Resolve,
      SmokeTest, StopBeforeStart, StartFails, StartEngine, PublishPending,
      GateReady, GateTimeout, PublishPlaying, LatchPlayable, StopObserved,
      ExitObserved, StopCleanup, Judge, RetryCleanup, ResetForRetry, plan, disk,
      seen
<1>8. CASE End /\ ~Merge /\ ~RowMissing
  BY <1>8
  DEF End, Finish, PublishCompleted, PublishFailed, PublishRemuxing,
      FinalizeRaises, FinalizeStarts, PublishFinalizing, PublishFinal,
      PublishMergeFailed, DeleteRow, Disconnect, MarkFailed, plan, disk, seen
<1>9. CASE Finishing \/ Commands
  BY <1>9
  DEF Finishing, StopLatch, DropRecorder, PublishRecording, Commands,
      StopCommand, EnableCommand, DisableCommand, plan, disk, seen
<1>10. CASE Outside /\ ~ExternalError /\ ~CleanupRaises
  BY <1>10
  DEF Outside, StallObserved, WriteSegment, StashFails, EngineEnds, Shutdown, ApiDelete,
      plan, disk, seen
<1> QED
  BY <1>1, <1>2, <1>3, <1>4, <1>5, <1>6, <1>7, <1>8, <1>9, <1>10
  DEF Next, Run

\* Every run of the supervisor is a run of the abstract plan: captures in order,
\* one verdict, at most one recording and only after the verdict.
THEOREM PlanImplemented == Spec => ImplementsPlan
  BY PlanInit, PlanStep, Invariance, PTL DEF Spec, ImplementsPlan, Plan!Spec

-------------------------------------------------------------------------------
(***************************************************************************)
(* FollowsWalk: the statuses a supervisor and its control handler write    *)
(* are those SessionCore lets a supervisor write.  The property relates    *)
(* two statuses; the proof needs which statuses the row may have at each   *)
(* point of the run, commands in between included.                         *)
(***************************************************************************)
\* What a command leaves, and what the row is before the final statuses.
Disturbed == Playing \cup {"terminating"}
Early     == Disturbed \cup {"initializing", "stream_pending"}

\* The points before the first final status; those of the merge.
Unsettled == Running \cup {"finish", "publish_completed", "publish_failed",
                           "publish_remuxing"}
InMerge   == {"finalize", "merging", "publish_finalizing", "publish_merge_failed"}

\* The row's status at each point.  An exception leaves it as it was, and marks
\* the row only when it is still there.
StatusInv ==
    /\ pc \in Unsettled => row.status \in Early
    /\ pc \in InMerge => row.status \in Disturbed \cup {"remuxing"}
    /\ pc = "publish_finalizing" => ending # "exhausted"
    /\ pc = "publish_final" =>
         row.status \in Disturbed \cup
           {IF ending = "exhausted" THEN "remuxing" ELSE "finalizing"}
    /\ pc \in {"disconnect", "mark_failed"} /\ ending = "aborted" /\ row.exists
         => row.status \in Early
    /\ pc = "mark_failed" => ending = "aborted"
WalkInv == IInv /\ StatusInv

\* One status may be written after another.
Allowed(before, after) ==
    LET from == Walk!PhaseOf(before)
        to   == Walk!PhaseOf(after)
    IN  to # from => to \in Walk!Follows(from)

\* The writes of the walk: those of commands, of attempts, of the first status
\* after the loop, of the merge and of its end.
LEMMA Writes ==
    /\ \A s \in Statuses, t \in Disturbed : Allowed(s, t)
    /\ \A s \in Early, t \in {"initializing", "stream_pending", "remuxing",
                              "completed", "failed"} : Allowed(s, t)
    /\ \A s \in Disturbed \cup {"remuxing"}, t \in {"finalizing", "failed"} :
         Allowed(s, t)
    /\ \A s \in Disturbed \cup {"finalizing"} : Allowed(s, "completed")
<1> USE DEF Allowed, Walk!PhaseOf, Walk!Follows, Walk!Commanded,
            Walk!FinalPhases, Disturbed, Early, Playing, Statuses
<1>1. \A s \in Statuses, t \in Disturbed : Allowed(s, t)
  OBVIOUS
<1>2. \A s \in Early, t \in {"initializing", "stream_pending", "remuxing",
                             "completed", "failed"} : Allowed(s, t)
  OBVIOUS
<1>3. \A s \in Disturbed \cup {"remuxing"}, t \in {"finalizing", "failed"} :
        Allowed(s, t)
  OBVIOUS
<1>4. \A s \in Disturbed \cup {"finalizing"} : Allowed(s, "completed")
  OBVIOUS
<1> QED BY <1>1, <1>2, <1>3, <1>4

\* The initial row is INITIALIZING.
LEMMA WalkInit == Init => WalkInv
<1> SUFFICES ASSUME Init PROVE StatusInv
  BY InitInv DEF WalkInv
<1> QED
  BY DEF Init, StatusInv, Early, InMerge

\* Steps that leave the row alone.
LEMMA QuietStep ==
    ASSUME WalkInv, UNCHANGED row,
           pc' \in Unsettled => pc \in Unsettled,
           pc' \in InMerge => pc \in InMerge,
           pc' = "publish_finalizing" =>
             ending' # "exhausted" \/ (pc = "publish_finalizing" /\ ending' = ending),
           pc' = "publish_final" =>
             pc \in InMerge /\ ending' = ending /\ ending = "exhausted",
           pc' = "mark_failed" =>
             ending' = "aborted",
           pc' \in {"disconnect", "mark_failed"} /\ ending' = "aborted" /\ row.exists
             => pc \in Unsettled \/ (pc = "disconnect" /\ ending = "aborted")
    PROVE  StatusInv' /\ Allowed(row.status, row'.status)
  BY DEF WalkInv, StatusInv, Allowed, Disturbed, Early

\* Steps that write a status, or take the row away.
LEMMA WritingStep ==
    ASSUME WalkInv, NEW t \in Statuses, Allowed(row.status, t),
           row' = [row EXCEPT !.status = t],
           pc' \in Unsettled => t \in Early,
           pc' \in InMerge => t \in Disturbed \cup {"remuxing"},
           pc' \notin {"publish_finalizing", "mark_failed"},
           pc' = "publish_final" =>
             t \in Disturbed \cup
               {IF ending' = "exhausted" THEN "remuxing" ELSE "finalizing"},
           pc' \in {"disconnect", "mark_failed"} => ending' # "aborted" \/ t \in Early
    PROVE  StatusInv' /\ Allowed(row.status, row'.status)
<1>1. row'.status = t /\ row'.exists = row.exists
  BY DEF WalkInv, IInv, TypeOK
<1> QED
  BY <1>1 DEF StatusInv

\* The loop over the plan writes no status.
LEMMA CaptureWalk ==
    ASSUME WalkInv, Capture
    PROVE  StatusInv' /\ Allowed(row.status, row'.status)
<1> USE DEF Unsettled, InMerge, Running, InCapture, Trying
<1>1. CASE Load
  BY <1>1, QuietStep DEF Load
<1>2. CASE StopAtTop
  BY <1>2, QuietStep DEF StopAtTop, Goto
<1>3. CASE BeginCapture
  BY <1>3, QuietStep DEF BeginCapture, Goto
<1>4. CASE LoadCaptureFails
  BY <1>4, QuietStep DEF LoadCaptureFails, Goto
<1>5. CASE CloseCapture
  BY <1>5, QuietStep DEF CloseCapture
<1>6. CASE RemuxNothing
  BY <1>6, QuietStep DEF RemuxNothing, Goto
<1>7. CASE RemuxDone
  BY <1>7, QuietStep DEF RemuxDone, Raise
<1>8. CASE RecordCapture
  BY <1>8, QuietStep DEF RecordCapture
<1> QED BY <1>1, <1>2, <1>3, <1>4, <1>5, <1>6, <1>7, <1>8 DEF Capture

\* An attempt writes INITIALIZING, STREAM_PENDING and what the gate decided.
LEMMA AttemptWalk ==
    ASSUME WalkInv, Attempt
    PROVE  StatusInv' /\ Allowed(row.status, row'.status)
<1> USE DEF Unsettled, InMerge, Running, InCapture, Trying
<1>1. CASE PublishInitializing \/ ResetForRetry
  <2>1. row.status \in Early /\ pc' \in Unsettled
    BY <1>1 DEF WalkInv, StatusInv, PublishInitializing, ResetForRetry, Goto
  <2>2. row' = [row EXCEPT !.status = "initializing"]
    BY <1>1 DEF PublishInitializing, ResetForRetry, Publish
  <2>3. "initializing" \in Statuses /\ "initializing" \in Early
    BY DEF Statuses, Early
  <2>4. Allowed(row.status, "initializing")
    BY <2>1, Writes
  <2> QED BY <2>1, <2>2, <2>3, <2>4, WritingStep
<1>2. CASE PublishPending
  <2>1. row.status \in Early /\ pc' \in Unsettled
    BY <1>2 DEF WalkInv, StatusInv, PublishPending, Goto
  <2>2. row' = [row EXCEPT !.status = "stream_pending"]
    BY <1>2 DEF PublishPending, Publish
  <2>3. "stream_pending" \in Statuses /\ "stream_pending" \in Early
    BY DEF Statuses, Early
  <2>4. Allowed(row.status, "stream_pending")
    BY <2>1, Writes
  <2> QED BY <2>1, <2>2, <2>3, <2>4, WritingStep
<1>3. CASE PublishPlaying
  <2>1. gateStatus \in Playing /\ row.status \in Statuses /\ pc' \in Unsettled
    BY <1>3 DEF PublishPlaying, Goto, WalkInv, IInv, HoldInv, TypeOK
  <2>2. row' = [row EXCEPT !.status = gateStatus]
    BY <1>3 DEF PublishPlaying, Publish
  <2>3. gateStatus \in Statuses /\ gateStatus \in Early
    BY <2>1 DEF Statuses, Early, Disturbed
  <2>4. Allowed(row.status, gateStatus)
    BY <2>1, Writes DEF Disturbed
  <2> QED BY <2>1, <2>2, <2>3, <2>4, WritingStep
<1>4. CASE UNCHANGED row /\ pc \in Unsettled /\ pc' \in Unsettled
  BY <1>4, QuietStep
<1>5. CASE StartAttempt \/ Connect \/ Preflight \/ Resolve \/ SmokeTest
           \/ StopBeforeStart \/ StartFails \/ StartEngine
  BY <1>4, <1>5 DEF StartAttempt, Connect, Preflight, Resolve, SmokeTest,
     StopBeforeStart, StartFails, StartEngine, Goto
<1>6. CASE GateReady \/ GateTimeout \/ LatchPlayable \/ StopObserved
           \/ ExitObserved \/ StopCleanup \/ Judge \/ RetryCleanup
  BY <1>4, <1>6 DEF GateReady, GateTimeout, LatchPlayable, StopObserved,
     ExitObserved, StopCleanup, Judge, RetryCleanup, Goto
<1> QED BY <1>1, <1>2, <1>3, <1>5, <1>6 DEF Attempt

\* The end of a run writes the final statuses, each from what may precede it.
LEMMA EndWalk ==
    ASSUME WalkInv, End
    PROVE  StatusInv' /\ Allowed(row.status, row'.status)
<1> USE DEF Unsettled, InMerge, Running, InCapture, Trying
<1>1. {"completed", "failed", "remuxing", "finalizing"} \subseteq Statuses
  BY DEF Statuses
<1>2. CASE Finish \/ FinalizeRaises \/ FinalizeStarts \/ Disconnect
  BY <1>2, QuietStep DEF Finish, FinalizeRaises, FinalizeStarts, Disconnect, Goto
<1>3. CASE Merge
  BY <1>3, QuietStep DEF Merge
<1>4. CASE PublishCompleted
  <2>1. row.status \in Early /\ ending' = ending /\ ending # "aborted"
        /\ pc' \in {"delete", "disconnect"}
    BY <1>4 DEF PublishCompleted, Goto, AfterFinal, WalkInv, StatusInv, IInv,
                EndingInv, Finalising
  <2>2. row' = [row EXCEPT !.status = "completed"]
    BY <1>4 DEF PublishCompleted, Publish
  <2>3. Allowed(row.status, "completed")
    BY <2>1, Writes
  <2> QED BY <1>1, <2>1, <2>2, <2>3, WritingStep
<1>5. CASE PublishFailed
  <2>1. row.status \in Early /\ ending' = ending /\ ending # "aborted"
        /\ pc' = "disconnect"
    BY <1>5 DEF PublishFailed, Goto, WalkInv, StatusInv, IInv, EndingInv,
                Finalising
  <2>2. row' = [row EXCEPT !.status = "failed"]
    BY <1>5 DEF PublishFailed, Publish
  <2>3. Allowed(row.status, "failed")
    BY <2>1, Writes
  <2> QED BY <1>1, <2>1, <2>2, <2>3, WritingStep
<1>6. CASE PublishRemuxing
  <2>1. row.status \in Early /\ pc' = "finalize"
    BY <1>6 DEF PublishRemuxing, Goto, WalkInv, StatusInv
  <2>2. row' = [row EXCEPT !.status = "remuxing"]
    BY <1>6 DEF PublishRemuxing, Publish
  <2>3. Allowed(row.status, "remuxing")
    BY <2>1, Writes
  <2> QED BY <1>1, <2>1, <2>2, <2>3, WritingStep
<1>7. CASE PublishFinalizing
  <2>1. row.status \in Disturbed \cup {"remuxing"} /\ pc' = "publish_final"
    BY <1>7 DEF PublishFinalizing, Goto, WalkInv, StatusInv
  <2>2. ending' = ending /\ ending # "exhausted"
    BY <1>7 DEF PublishFinalizing, Goto, WalkInv, StatusInv
  <2>3. row' = [row EXCEPT !.status = "finalizing"]
    BY <1>7 DEF PublishFinalizing, Publish
  <2>4. Allowed(row.status, "finalizing")
    BY <2>1, Writes
  <2> QED BY <1>1, <2>1, <2>2, <2>3, <2>4, WritingStep
<1>8. CASE PublishFinal
  <2> DEFINE t == IF ending = "exhausted" THEN "failed" ELSE "completed"
  <2>1. /\ row.status \in Disturbed \cup
              {IF ending = "exhausted" THEN "remuxing" ELSE "finalizing"}
        /\ ending' = ending /\ ending # "aborted"
        /\ pc' \in {"delete", "disconnect"}
    BY <1>8 DEF PublishFinal, Goto, AfterFinal, WalkInv, StatusInv, IInv,
                EndingInv, Finalising
  <2>2. row' = [row EXCEPT !.status = t]
    BY <1>8 DEF PublishFinal, Publish
  <2>3. Allowed(row.status, t) /\ t \in Statuses
    BY <1>1, <2>1, Writes
  <2> HIDE DEF t
  <2> QED BY <2>1, <2>2, <2>3, WritingStep
<1>9. CASE PublishMergeFailed
  <2>1. row.status \in Disturbed \cup {"remuxing"} /\ ending' = ending
        /\ ending # "aborted" /\ pc' \in {"delete", "disconnect"}
    BY <1>9 DEF PublishMergeFailed, Goto, AfterFinal, WalkInv, StatusInv, IInv,
                EndingInv, Finalising
  <2>2. row' = [row EXCEPT !.status = "failed"]
    BY <1>9 DEF PublishMergeFailed, Publish
  <2>3. Allowed(row.status, "failed")
    BY <2>1, Writes
  <2> QED BY <1>1, <2>1, <2>2, <2>3, WritingStep
<1>10. CASE DeleteRow
  <2>1. row'.status = row.status /\ pc' = "disconnect" /\ ending' # "aborted"
    BY <1>10 DEF DeleteRow, Goto, WalkInv, IInv, EndingInv, TypeOK
  <2> QED BY <2>1 DEF StatusInv, Allowed
<1>11. CASE RowMissing
  BY <1>11 DEF RowMissing, Raise, StatusInv, Allowed
<1>12. CASE MarkFailed
  <2>1. pc = "mark_failed" /\ pc' = "exited" /\ ending' = ending
    BY <1>12 DEF MarkFailed, Goto
  <2>2. CASE ~row.exists
    BY <1>12, <2>1, <2>2 DEF MarkFailed, StatusInv, Allowed
  <2>3. CASE row.exists
    <3>1. row' = [row EXCEPT !.status = "failed"]
      BY <1>12, <2>3 DEF MarkFailed
    <3>2. row.status \in Early
      BY <2>1, <2>3 DEF WalkInv, StatusInv
    <3>3. Allowed(row.status, "failed")
      BY <3>2, Writes
    <3> QED BY <1>1, <2>1, <3>1, <3>3, WritingStep
  <2> QED BY <2>2, <2>3
<1> QED BY <1>2, <1>3, <1>4, <1>5, <1>6, <1>7, <1>8, <1>9, <1>10, <1>11, <1>12
        DEF End

\* A command moves the status of any row to one of Disturbed.
LEMMA CommandWalk ==
    ASSUME WalkInv, Commands \/ Finishing
    PROVE  StatusInv' /\ Allowed(row.status, row'.status)
<1>1. UNCHANGED <<pc, ending>>
  BY DEF Commands, Finishing, StopCommand, EnableCommand, DisableCommand,
         StopLatch, DropRecorder, PublishRecording
<1>2. row.status \in Statuses /\ ctl.status \in Playing \cup {"none"}
  BY DEF WalkInv, IInv, TypeOK
<1>3. \/ row'.status = row.status /\ (row'.exists => row.exists)
      \/ row'.status \in Disturbed /\ (row'.exists => row.exists)
  <2>1. CASE StopCommand
    BY <2>1 DEF StopCommand, Publish, Disturbed, WalkInv, IInv, TypeOK
  <2>2. CASE PublishRecording
    BY <1>2, <2>2 DEF PublishRecording, Disturbed, WalkInv, IInv, TypeOK
  <2>3. CASE StopLatch \/ DropRecorder \/ EnableCommand \/ DisableCommand
    BY <2>3 DEF StopLatch, DropRecorder, EnableCommand, DisableCommand
  <2> QED BY <2>1, <2>2, <2>3 DEF Commands, Finishing
<1>4. Allowed(row.status, row'.status)
  BY <1>2, <1>3, Writes DEF Allowed
<1>5. StatusInv'
  BY <1>1, <1>3 DEF WalkInv, StatusInv, Early
<1> QED BY <1>4, <1>5

\* The engine, the core and the API write no status.
LEMMA OutsideWalk ==
    ASSUME WalkInv, Outside
    PROVE  StatusInv' /\ Allowed(row.status, row'.status)
<1> USE DEF Unsettled, InMerge, Running, InCapture, Trying
<1>1. CASE StallObserved
  BY <1>1, QuietStep DEF StallObserved, Goto
<1>2. CASE ExternalError \/ CleanupRaises
  BY <1>2, QuietStep DEF ExternalError, CleanupRaises, Raise
<1>3. CASE WriteSegment \/ StashFails \/ EngineEnds \/ Shutdown
  <2>1. UNCHANGED <<pc, ending, row>>
    BY <1>3 DEF WriteSegment, StashFails, EngineEnds, Shutdown
  <2> QED BY <2>1 DEF WalkInv, StatusInv, Allowed
<1>4. CASE ApiDelete
  <2>1. row'.status = row.status /\ ~row'.exists /\ UNCHANGED <<pc, ending>>
    BY <1>4 DEF ApiDelete, WalkInv, IInv, TypeOK
  <2> QED BY <2>1 DEF WalkInv, StatusInv, Allowed
<1> QED BY <1>1, <1>2, <1>3, <1>4 DEF Outside

LEMMA WalkStep ==
    WalkInv /\ [Next]_vars => WalkInv' /\ [Allowed(row.status, row'.status)]_vars
<1> SUFFICES ASSUME WalkInv, [Next]_vars
             PROVE  WalkInv' /\ [Allowed(row.status, row'.status)]_vars
  OBVIOUS
<1>1. IInv'
  BY StepInv DEF WalkInv
<1>2. CASE UNCHANGED vars
  BY <1>1, <1>2 DEF vars, WalkInv, StatusInv
<1>3. CASE Next
  BY <1>1, <1>3, CaptureWalk, AttemptWalk, EndWalk, CommandWalk, OutsideWalk
  DEF Next, Run, WalkInv
<1> QED BY <1>2, <1>3

\* Whatever a run and its control handler interleave, for every plan, nothing
\* but a command leaves a final status and a failed merge never says FINALIZING:
\* what SessionCore lets its supervisors write is what they write.
THEOREM WalkFollowed == Spec => FollowsWalk
<1>1. [Allowed(row.status, row'.status)]_vars =>
        [LET before == Walk!PhaseOf(row.status)
             after  == Walk!PhaseOf(row'.status)
         IN  after # before => after \in Walk!Follows(before)]_vars
  BY DEF Allowed
<1> QED
  BY <1>1, WalkInit, WalkStep, PTL DEF Spec, FollowsWalk
===============================================================================
