------------------------------ MODULE Supervisor ------------------------------
(***************************************************************************)
(* One session's supervisor process: the coroutine SessionSupervisor.run   *)
(* (services/session_supervisor.py) inside session_runner.runner, the NATS *)
(* control handler that interleaves with it at every await, and the row    *)
(* of the session table both of them write through update_session.         *)
(*                                                                         *)
(* A program point `pc` names the await the run is at; local code between  *)
(* two awaits is one action.  Control commands are serialised among        *)
(* themselves (one nats-py task per subscription) and `ctl` is the await   *)
(* the handler is at.                                                      *)
(***************************************************************************)
EXTENDS Naturals, Sequences

CONSTANTS
    PlanLength,          \* captures in the plan: the session's own, then each rung
    RetryMode,           \* the retry mode of each capture
    RetryCount,          \* the count of retry mode "count"
    MaxResolveFailures,  \* _MAX_RESOLVE_FAILURES
    AttemptBound         \* the attempt counter saturates here

RetryModes == {"none", "always", "count", "exit_code"}

ASSUME PlanAssumption ==
    /\ PlanLength \in Nat \ {0}
    /\ RetryMode \in [1..PlanLength -> RetryModes]
ASSUME RetryAssumption ==
    /\ RetryCount \in Nat \ {0}
    /\ MaxResolveFailures \in Nat \ {0}
    /\ AttemptBound \in Nat
    /\ AttemptBound > RetryCount + 1

VARIABLES
    pc,               \* the await the run is at
    ending,           \* how the run left its loop over the plan
    index,            \* _capture_index
    folder,           \* the capture whose folder session_folder points at
    captures,         \* the records of the captures that ended
    artifacts,        \* _capture_artifacts: the captures whose media was remuxed
    attempt,          \* _capture_attempts
    resolveFailures,  \* _resolve_failures
    live,             \* _live
    engine,           \* the attempt's processes are started and not torn down
    signal,           \* what the engine put on the bus: an end, and its exit code
    outcome,          \* the attempt's, then the capture's outcome
    connected,        \* the control subscription exists
    stop,             \* the latched stop request
    playable,         \* _playable
    wantRecording,    \* self.session.recording
    recorder,         \* self._recording is not None
    stash,            \* the recorder's stash task
    dirs,             \* session_folder exists on disk
    footage,          \* the captures whose folder holds segments
    playlist,         \* this attempt's stream.m3u8 lists a segment
    recordings,       \* Recording rows created by this run
    gateStatus,       \* the status the startup gate decided to publish
    row,              \* the session row
    ctl               \* the control handler

plan    == <<index, folder, captures, artifacts>>
tries   == <<attempt, resolveFailures>>
attVars == <<live, engine, signal, outcome>>
recVars == <<wantRecording, recorder, stash>>
media   == <<footage, playlist>>
disk    == <<dirs, media, recordings>>
latches == <<stop, playable>>
vars    == <<pc, ending, plan, tries, attVars, connected, latches, recVars,
             disk, gateStatus, row, ctl>>

(***************************************************************************)
(* Program points.                                                         *)
(***************************************************************************)
\* Points whose next step is an update_session: it raises when the row is gone.
Publishing ==
    {"attempt", "publish_initializing", "publish_pending", "publish_playing",
     "judge", "reset", "record", "publish_completed", "publish_failed",
     "publish_remuxing", "publish_finalizing", "publish_final",
     "publish_merge_failed"}

PCs == Publishing \cup
    {"load", "next", "connect", "preflight", "resolve", "smoke", "start",
     "gate", "latch", "play", "stop_cleanup", "retry", "close", "remux",
     "finish", "finalize", "merging", "delete", "disconnect", "mark_failed",
     "exited"}

Playing  == {"active", "recording"}
Statuses == Playing \cup {"initializing", "stream_pending", "terminating",
                          "remuxing", "finalizing", "completed", "failed"}
Outcomes == {"none", "stopped", "failed", "crashed", "done", "completed"}
Endings  == {"none", "stopped", "completed", "exhausted", "aborted"}

\* An end carries whether its exit code is one of the mode's retryable codes.
NoSignal == [end |-> "none", retryable |-> FALSE]
Signals  == {NoSignal} \cup [end : {"done", "crashed"}, retryable : BOOLEAN]
Idle     == [step |-> "idle", status |-> "none"]

\* The stash task: stopped or never started; copying; running while the recorder's
\* folder has no stash folder, so that each copy fails and is skipped; or not
\* started or ended because of a disk error.
StashRuns   == {"running", "astray"}
StashStates == StashRuns \cup {"off", "failed"}
CtlSteps == {"idle", "stop_latch", "drop_recorder", "publish_recording"}

Init ==
    /\ pc = "load" /\ ending = "none"
    /\ index = 0 /\ folder = 1 /\ captures = <<>> /\ artifacts = <<>>
    /\ attempt = 0 /\ resolveFailures = 0
    /\ live = FALSE /\ engine = FALSE /\ signal = NoSignal /\ outcome = "none"
    /\ connected = FALSE /\ stop = FALSE /\ playable = FALSE
    /\ wantRecording \in BOOLEAN /\ recorder = wantRecording /\ stash = "off"
    /\ dirs = FALSE /\ footage = {} /\ recordings = 0
    /\ playlist = FALSE
    /\ gateStatus = "none"
    /\ row = [exists |-> TRUE, status |-> "initializing",
              recording |-> wantRecording]
    /\ ctl = Idle

(***************************************************************************)
(* Helpers.                                                                *)
(***************************************************************************)
Goto(from, to) == pc = from /\ pc' = to

\* update_session with a status: the row must be there.
Publish(status) ==
    /\ row.exists
    /\ row' = [row EXCEPT !.status = status]

\* _cleanup: a second call finds _live down and does nothing.
Cleanup ==
    /\ live' = FALSE
    /\ engine' = (engine /\ ~live)
    /\ stash' = IF live /\ recorder THEN "off" ELSE stash

\* start_stash: nothing when the task runs already, else it makes the stash folder
\* and starts the task.
StartStash == stash' = IF stash \in StashRuns THEN stash ELSE "running"

\* use_folder points the recorder, and a task that runs, at a folder which may
\* hold no stash folder; it makes none.
UseFolder == stash' \in IF stash \in StashRuns THEN StashRuns ELSE {stash}

\* An exception leaves run(): its finally disconnects, the runner marks the row.
Raise ==
    /\ pc' = "disconnect"
    /\ ending' = "aborted"

\* Mutant: the count compared one attempt too late.
ShouldRetryOnceMore ==
    CASE RetryMode[index] = "exit_code" -> signal.retryable
      [] RetryMode[index] = "count"     -> attempt <= RetryCount + 1
      [] RetryMode[index] = "always"    -> TRUE
      [] OTHER                          -> FALSE

\* EngineInterface.should_retry for the capture's mode, after a crash or after
\* an end that carried an exit code.
ShouldRetry ==
    CASE RetryMode[index] = "exit_code" -> signal.retryable
      [] RetryMode[index] = "count"     -> attempt <= RetryCount
      [] RetryMode[index] = "always"    -> TRUE
      [] OTHER                          -> FALSE

Retrying ==
    \/ outcome = "crashed" /\ ShouldRetry
    \/ outcome = "done" /\ RetryMode[index] = "exit_code" /\ ShouldRetry

(***************************************************************************)
(* run: the loop over the plan.                                            *)
(***************************************************************************)
\* runner loads the session and its plugins; a failure marks the row FAILED.
Load ==
    /\ pc = "load"
    /\ \/ pc' = "next" /\ UNCHANGED ending
       \/ pc' = "mark_failed" /\ ending' = "aborted"
    /\ UNCHANGED <<plan, tries, attVars, connected, latches, recVars, disk,
                   gateStatus, row, ctl>>

\* Mutant: the stop leaves the loop the way a plan without success does.
StopAtTopFallsThrough ==
    /\ stop
    /\ Goto("next", "finish")
    /\ ending' = "exhausted"
    /\ UNCHANGED <<plan, tries, attVars, connected, latches, recVars, disk,
                   gateStatus, row, ctl>>

\* The top of the loop sees the stop latch: no further captures.
StopAtTop ==
    /\ stop
    /\ Goto("next", "finish")
    /\ ending' = "stopped"
    /\ UNCHANGED <<plan, tries, attVars, connected, latches, recVars, disk,
                   gateStatus, row, ctl>>

\* _begin_capture: the next entry gets a folder of its own, which may be left
\* over from an earlier run of an autorun.
BeginCapture ==
    /\ ~stop
    /\ Goto("next", "attempt")
    /\ index' = index + 1 /\ folder' = index + 1
    /\ attempt' = 0 /\ resolveFailures' = 0
    /\ dirs' \in BOOLEAN
    /\ UseFolder /\ (stash' = "running" => dirs')
    /\ UNCHANGED <<ending, captures, artifacts, attVars, connected, latches,
                   wantRecording, recorder, media, recordings, gateStatus, row,
                   ctl>>

\* Mutant: the rung that never began is closed as a captured one.
LoadCaptureFailsCaptured ==
    /\ ~stop
    /\ index > 0
    /\ Goto("next", "close")
    /\ index' = index + 1
    /\ attempt' = 0 /\ resolveFailures' = 0
    /\ outcome' = "failed"
    /\ UNCHANGED <<ending, folder, captures, artifacts, live, engine, signal,
                   connected, latches, recVars, disk, gateStatus, row, ctl>>

\* _begin_capture: a rung that cannot be loaded ends before it has a folder, so
\* its close tears nothing down and remuxes nothing.
LoadCaptureFails ==
    /\ ~stop
    /\ index > 0
    /\ Goto("next", "record")
    /\ index' = index + 1
    /\ attempt' = 0 /\ resolveFailures' = 0
    /\ outcome' = "failed"
    /\ UNCHANGED <<ending, folder, captures, artifacts, live, engine, signal,
                   connected, latches, recVars, disk, gateStatus, row, ctl>>

(***************************************************************************)
(* _run_attempt: pre-flight.                                               *)
(***************************************************************************)
\* The attempt record is published before the attempt runs.
StartAttempt ==
    /\ row.exists
    /\ Goto("attempt", "connect")
    /\ attempt' = IF attempt < AttemptBound THEN attempt + 1 ELSE attempt
    /\ outcome' = "none" /\ signal' = NoSignal
    /\ UNCHANGED <<ending, plan, resolveFailures, live, engine, connected,
                   latches, recVars, disk, gateStatus, row, ctl>>

\* make_session_dirs, then _connect_nats: a failed connection is only logged
\* and tried again by the next attempt.
Connect ==
    /\ Goto("connect", "preflight")
    /\ live' = TRUE
    /\ dirs' = TRUE
    /\ \E ok \in BOOLEAN : connected' = (connected \/ ok)
    /\ UNCHANGED <<ending, plan, tries, engine, signal, outcome, latches,
                   recVars, media, recordings, gateStatus, row, ctl>>

\* The stop latch, then live_folder_holder and disk_refusal.
Preflight ==
    /\ pc = "preflight"
    /\ \/ stop /\ outcome' = "stopped" /\ pc' = "judge"
       \/ ~stop /\ outcome' = "failed" /\ pc' = "judge"
       \/ ~stop /\ pc' = "publish_initializing" /\ UNCHANGED outcome
    /\ UNCHANGED <<ending, plan, tries, live, engine, signal, connected,
                   latches, recVars, disk, gateStatus, row, ctl>>

PublishInitializing ==
    /\ Publish("initializing")
    /\ Goto("publish_initializing", "resolve")
    /\ UNCHANGED <<ending, plan, tries, attVars, connected, latches, recVars,
                   disk, gateStatus, ctl>>

\* Mutant: each failure to resolve is counted as the first.
ResolveForgets ==
    /\ pc = "resolve"
    /\ \/ resolveFailures' = 0 /\ pc' = "smoke" /\ UNCHANGED outcome
       \/ resolveFailures' = 1 /\ outcome' = "crashed" /\ pc' = "judge"
    /\ UNCHANGED <<ending, plan, attempt, live, engine, signal, connected,
                   latches, recVars, disk, gateStatus, row, ctl>>

\* A failure to resolve is a crash the policy may retry, until too many in a row.
Resolve ==
    /\ pc = "resolve"
    /\ \/ resolveFailures' = 0 /\ pc' = "smoke" /\ UNCHANGED outcome
       \/ /\ resolveFailures' = resolveFailures + 1
          /\ outcome' = IF resolveFailures' >= MaxResolveFailures
                        THEN "failed" ELSE "crashed"
          /\ pc' = "judge"
    /\ UNCHANGED <<ending, plan, attempt, live, engine, signal, connected,
                   latches, recVars, disk, gateStatus, row, ctl>>

\* A raise or a timeout of the smoke test is a verdict on the source.
SmokeTest ==
    /\ pc = "smoke"
    /\ \/ pc' = "start" /\ UNCHANGED outcome
       \/ pc' = "judge" /\ outcome' = "failed"
    /\ UNCHANGED <<ending, plan, tries, live, engine, signal, connected,
                   latches, recVars, disk, gateStatus, row, ctl>>

\* The stop latch again; then the engine's processes and the recorder's stash.
StopBeforeStart ==
    /\ stop
    /\ Goto("start", "judge")
    /\ outcome' = "stopped"
    /\ UNCHANGED <<ending, plan, tries, live, engine, signal, connected,
                   latches, recVars, disk, gateStatus, row, ctl>>

\* The playlist of an earlier attempt is removed; then engine.start raises (a
\* crash), or a process cannot be started (a verdict).
StartFails ==
    /\ ~stop
    /\ Goto("start", "judge")
    /\ playlist' = FALSE
    /\ \/ outcome' = "crashed" /\ UNCHANGED engine
       \/ outcome' = "failed" /\ engine' = TRUE
    /\ UNCHANGED <<ending, plan, tries, live, signal, connected, latches,
                   recVars, dirs, footage, recordings, gateStatus, row, ctl>>

\* Mutant: only an enable command starts the stash.
StartEngineNoStash ==
    /\ ~stop
    /\ Goto("start", "publish_pending")
    /\ engine' = TRUE /\ playlist' = FALSE
    /\ UNCHANGED <<ending, plan, tries, live, signal, outcome, connected,
                   latches, recVars, dirs, footage, recordings, gateStatus, row,
                   ctl>>

\* The playlist of an earlier attempt must not read as ready: it is removed.
StartEngine ==
    /\ ~stop
    /\ Goto("start", "publish_pending")
    /\ engine' = TRUE /\ playlist' = FALSE
    /\ IF recorder THEN StartStash ELSE UNCHANGED stash
    /\ UNCHANGED <<ending, plan, tries, live, signal, outcome, connected,
                   latches, wantRecording, recorder, dirs, footage, recordings,
                   gateStatus, row, ctl>>

(***************************************************************************)
(* _run_attempt: the startup gate and the run.                             *)
(***************************************************************************)
PublishPending ==
    /\ Publish("stream_pending")
    /\ Goto("publish_pending", "gate")
    /\ UNCHANGED <<ending, plan, tries, attVars, connected, latches, recVars,
                   disk, gateStatus, ctl>>

\* The playlist lists a segment, and neither a stop nor an exit beat it: the
\* status is decided here and written at the next step.
GateReady ==
    /\ signal = NoSignal /\ ~stop
    /\ playlist
    /\ Goto("gate", "publish_playing")
    /\ gateStatus' = IF wantRecording THEN "recording" ELSE "active"
    /\ UNCHANGED <<ending, plan, tries, attVars, connected, latches, recVars,
                   disk, row, ctl>>

\* STREAM_READY_TIMEOUT_S passed.
GateTimeout ==
    /\ signal = NoSignal /\ ~stop
    /\ Goto("gate", "judge")
    /\ outcome' = "failed"
    /\ UNCHANGED <<ending, plan, tries, live, engine, signal, connected,
                   latches, recVars, disk, gateStatus, row, ctl>>

PublishPlaying ==
    /\ Publish(gateStatus)
    /\ Goto("publish_playing", "latch")
    /\ UNCHANGED <<ending, plan, tries, attVars, connected, latches, recVars,
                   disk, gateStatus, ctl>>

\* `_playable` goes up only when the awaited publish has returned.
LatchPlayable ==
    /\ Goto("latch", "play")
    /\ playable' = TRUE
    /\ gateStatus' = "none"
    /\ UNCHANGED <<ending, plan, tries, attVars, connected, stop, recVars,
                   disk, row, ctl>>

\* Mutant: the wait after the gate does not race the stop latch.
StopObservedAtGate ==
    /\ stop
    /\ Goto("gate", "stop_cleanup")
    /\ UNCHANGED <<ending, plan, tries, attVars, connected, latches, recVars,
                   disk, gateStatus, row, ctl>>

\* A stop wins over an engine exit that finished with it.
StopObserved ==
    /\ stop
    /\ pc \in {"gate", "play"} /\ pc' = "stop_cleanup"
    /\ UNCHANGED <<ending, plan, tries, attVars, connected, latches, recVars,
                   disk, gateStatus, row, ctl>>

ExitObserved ==
    /\ ~stop /\ signal # NoSignal
    /\ pc \in {"gate", "play"} /\ pc' = "judge"
    /\ outcome' = signal.end
    /\ UNCHANGED <<ending, plan, tries, live, engine, signal, connected,
                   latches, recVars, disk, gateStatus, row, ctl>>

\* _watch_stall: nothing was written for stall_timeout_s.
StallObserved ==
    /\ ~stop
    /\ Goto("play", "judge")
    /\ outcome' = "crashed" /\ signal' = NoSignal
    /\ UNCHANGED <<ending, plan, tries, live, engine, connected, latches,
                   recVars, disk, gateStatus, row, ctl>>

StopCleanup ==
    /\ Goto("stop_cleanup", "judge")
    /\ Cleanup
    /\ outcome' = "stopped"
    /\ UNCHANGED <<ending, plan, tries, signal, connected, latches,
                   wantRecording, recorder, disk, gateStatus, row, ctl>>

(***************************************************************************)
(* _run_capture after an attempt; _close_capture.                          *)
(***************************************************************************)
\* The attempt record is closed, then the retry policy is consulted.
Judge ==
    /\ row.exists
    /\ pc = "judge"
    /\ IF Retrying
       THEN pc' = "retry" /\ UNCHANGED outcome
       ELSE /\ pc' = "close"
            /\ outcome' = CASE outcome = "crashed" -> "failed"
                            [] outcome = "done"    -> "completed"
                            [] OTHER               -> outcome
    /\ UNCHANGED <<ending, plan, tries, live, engine, signal, connected,
                   latches, recVars, disk, gateStatus, row, ctl>>

\* Mutant: a retry resets its state and leaves the processes to themselves.
RetryWithoutCleanup ==
    /\ Goto("retry", "reset")
    /\ UNCHANGED <<ending, plan, tries, attVars, connected, latches, recVars,
                   disk, gateStatus, row, ctl>>

RetryCleanup ==
    /\ Goto("retry", "reset")
    /\ Cleanup
    /\ UNCHANGED <<ending, plan, tries, signal, outcome, connected, latches,
                   wantRecording, recorder, disk, gateStatus, row, ctl>>

\* _reset_for_retry, then the policy's delay, which a stop does not cut short.
ResetForRetry ==
    /\ Publish("initializing")
    /\ Goto("reset", "attempt")
    /\ playable' = FALSE
    /\ UNCHANGED <<ending, plan, tries, attVars, connected, stop, recVars,
                   disk, gateStatus, ctl>>

CloseCapture ==
    /\ pc = "close" /\ pc' = IF recorder THEN "remux" ELSE "record"
    /\ Cleanup
    /\ UNCHANGED <<ending, plan, tries, signal, outcome, connected, latches,
                   wantRecording, recorder, disk, gateStatus, row, ctl>>

\* remux_capture found no segment, or its ffmpeg failed (logged).
RemuxNothing ==
    /\ Goto("remux", "record")
    /\ UNCHANGED <<ending, plan, tries, attVars, connected, latches, recVars,
                   disk, gateStatus, row, ctl>>

\* remux_capture returned an artifact.  Its duration is probed through
\* self._recording, which a disable during the remux has set to None.
RemuxDone ==
    /\ pc = "remux"
    /\ folder \in footage
    /\ artifacts' = Append(artifacts, folder)
    /\ IF recorder THEN pc' = "record" /\ UNCHANGED ending ELSE Raise
    /\ UNCHANGED <<index, folder, captures, tries, attVars, connected, latches,
                   recVars, disk, gateStatus, row, ctl>>

\* Mutant: the loop runs one entry past the plan.
RecordCapturePastEnd ==
    /\ row.exists
    /\ pc = "record"
    /\ captures' = Append(captures, [index |-> index, status |-> outcome])
    /\ IF outcome = "failed" /\ index <= PlanLength
       THEN pc' = "next" /\ UNCHANGED ending
       ELSE /\ pc' = "finish"
            /\ ending' = IF outcome = "failed" THEN "exhausted" ELSE outcome
    /\ UNCHANGED <<index, folder, artifacts, tries, attVars, connected, latches,
                   recVars, disk, gateStatus, row, ctl>>

\* The capture's record is published and run() decides what follows it.
RecordCapture ==
    /\ row.exists
    /\ pc = "record"
    /\ captures' = Append(captures, [index |-> index, status |-> outcome])
    /\ IF outcome = "failed" /\ index < PlanLength
       THEN pc' = "next" /\ UNCHANGED ending
       ELSE /\ pc' = "finish"
            /\ ending' = IF outcome = "failed" THEN "exhausted" ELSE outcome
    /\ UNCHANGED <<index, folder, artifacts, tries, attVars, connected, latches,
                   recVars, disk, gateStatus, row, ctl>>

(***************************************************************************)
(* _finalize_stopped, _finalize_session, _fail, _do_remux_and_finalize.    *)
(***************************************************************************)
\* The recorder is looked at before the status is written.
Finish ==
    /\ pc = "finish"
    /\ pc' = IF ending = "exhausted"
             THEN IF recorder /\ artifacts # <<>>
                  THEN "publish_remuxing" ELSE "publish_failed"
             ELSE IF recorder THEN "publish_remuxing" ELSE "publish_completed"
    /\ folder' = IF pc' = "publish_failed" THEN folder ELSE 1
    /\ IF folder' = folder THEN UNCHANGED stash ELSE UseFolder
    /\ UNCHANGED <<ending, index, captures, artifacts, tries, attVars, connected,
                   latches, wantRecording, recorder, disk, gateStatus, row, ctl>>

\* Mutant: every finalised session is deleted.
AfterFinalDeletes == "delete"

\* Only a session that ran to its end is deleted; a stopped one keeps its row.
AfterFinal == IF ending = "completed" THEN "delete" ELSE "disconnect"

PublishCompleted ==
    /\ Publish("completed")
    /\ Goto("publish_completed", AfterFinal)
    /\ UNCHANGED <<ending, plan, tries, attVars, connected, latches, recVars,
                   disk, gateStatus, ctl>>

PublishFailed ==
    /\ Publish("failed")
    /\ Goto("publish_failed", "disconnect")
    /\ UNCHANGED <<ending, plan, tries, attVars, connected, latches, recVars,
                   disk, gateStatus, ctl>>

PublishRemuxing ==
    /\ Publish("remuxing")
    /\ Goto("publish_remuxing", "finalize")
    /\ UNCHANGED <<ending, plan, tries, attVars, connected, latches, recVars,
                   disk, gateStatus, ctl>>

\* self._recording.finalize: no recorder any more, or "No recording produced".
FinalizeRaises ==
    /\ ~recorder \/ artifacts = <<>>
    /\ Goto("finalize", "publish_merge_failed")
    /\ UNCHANGED <<ending, plan, tries, attVars, connected, latches, recVars,
                   disk, gateStatus, row, ctl>>

FinalizeStarts ==
    /\ recorder /\ artifacts # <<>>
    /\ Goto("finalize", "merging")
    /\ UNCHANGED <<ending, plan, tries, attVars, connected, latches, recVars,
                   disk, gateStatus, row, ctl>>

\* Mutant: FINALIZING is published whatever the final status will be.
MergeFinalizes ==
    /\ pc = "merging"
    /\ \/ recordings' = recordings + 1 /\ dirs' = FALSE /\ pc' = "publish_finalizing"
       \/ /\ \E moved \in BOOLEAN : dirs' = (dirs /\ ~moved)
          /\ pc' = "publish_merge_failed"
          /\ UNCHANGED recordings
    /\ UNCHANGED <<ending, plan, tries, attVars, connected, latches, recVars,
                   media, gateStatus, row, ctl>>

\* The merge, the move into recordings/ and the Recording row, or an error before
\* or after the move.
Merge ==
    /\ pc = "merging"
    /\ \/ /\ recordings' = recordings + 1
          /\ dirs' = FALSE
          /\ pc' = IF ending = "exhausted" THEN "publish_final"
                                           ELSE "publish_finalizing"
       \/ /\ \E moved \in BOOLEAN : dirs' = (dirs /\ ~moved)
          /\ pc' = "publish_merge_failed"
          /\ UNCHANGED recordings
    /\ UNCHANGED <<ending, plan, tries, attVars, connected, latches, recVars,
                   media, gateStatus, row, ctl>>

PublishFinalizing ==
    /\ Publish("finalizing")
    /\ Goto("publish_finalizing", "publish_final")
    /\ UNCHANGED <<ending, plan, tries, attVars, connected, latches, recVars,
                   disk, gateStatus, ctl>>

PublishFinal ==
    /\ Publish(IF ending = "exhausted" THEN "failed" ELSE "completed")
    /\ Goto("publish_final", AfterFinal)
    /\ UNCHANGED <<ending, plan, tries, attVars, connected, latches, recVars,
                   disk, gateStatus, ctl>>

PublishMergeFailed ==
    /\ Publish("failed")
    /\ Goto("publish_merge_failed", AfterFinal)
    /\ UNCHANGED <<ending, plan, tries, attVars, connected, latches, recVars,
                   disk, gateStatus, ctl>>

\* session_lifecycle.delete_session: the row, then the folder; a row already gone
\* is only logged, and then the folder stays.
DeleteRow ==
    /\ Goto("delete", "disconnect")
    /\ row' = [row EXCEPT !.exists = FALSE]
    /\ dirs' = (dirs /\ ~row.exists)
    /\ UNCHANGED <<ending, plan, tries, attVars, connected, latches, recVars,
                   media, recordings, gateStatus, ctl>>

\* update_session raises SessionNotFoundError: nothing catches it inside run().
RowMissing ==
    /\ pc \in Publishing /\ ~row.exists
    /\ Raise
    /\ UNCHANGED <<plan, tries, attVars, connected, latches, recVars, disk,
                   gateStatus, row, ctl>>

\* A full disk makes make_session_dirs or start_stash raise, the latter with the
\* engine's processes started; a plugin's should_retry raises.
ExternalError ==
    /\ \/ pc = "connect" /\ live' = TRUE /\ UNCHANGED <<engine, playlist, stash>>
       \/ /\ pc = "start" /\ ~stop /\ recorder /\ stash \notin StashRuns
          /\ engine' = TRUE /\ playlist' = FALSE /\ stash' = "failed"
          /\ UNCHANGED live
       \/ /\ pc = "judge" /\ row.exists
          /\ \/ outcome = "crashed"
             \/ outcome = "done" /\ RetryMode[index] = "exit_code"
          /\ UNCHANGED <<live, engine, playlist, stash>>
    /\ Raise
    /\ UNCHANGED <<plan, tries, signal, outcome, connected, latches,
                   wantRecording, recorder, dirs, footage, recordings,
                   gateStatus, row, ctl>>

\* A plugin's stop raises inside _cleanup: the stash is stopped, the engine's
\* processes are not, and no later call will try again.
CleanupRaises ==
    /\ pc \in {"stop_cleanup", "retry", "close"}
    /\ live /\ live' = FALSE
    /\ stash' = IF recorder THEN "off" ELSE stash
    /\ Raise
    /\ UNCHANGED <<plan, tries, engine, signal, outcome, connected, latches,
                   wantRecording, recorder, disk, gateStatus, row, ctl>>

\* _disconnect_nats: unsubscribing cancels a command that is still running.
Disconnect ==
    /\ pc = "disconnect"
    /\ pc' = IF ending = "aborted" THEN "mark_failed" ELSE "exited"
    /\ connected' = FALSE
    /\ ctl' = Idle
    /\ UNCHANGED <<ending, plan, tries, attVars, latches, recVars, disk,
                   gateStatus, row>>

\* runner: the exception that left run() marks the row, when there is one.
MarkFailed ==
    /\ Goto("mark_failed", "exited")
    /\ row' = IF row.exists THEN [row EXCEPT !.status = "failed"] ELSE row
    /\ UNCHANGED <<ending, plan, tries, attVars, connected, latches, recVars,
                   disk, gateStatus, ctl>>

(***************************************************************************)
(* _handle_control.                                                        *)
(***************************************************************************)
\* A stop writes TERMINATING first and latches only when the write returned; a
\* missing row makes the command an error and latches nothing.
StopCommand ==
    /\ connected /\ ctl = Idle
    /\ Publish("terminating")
    /\ ctl' = [Idle EXCEPT !.step = "stop_latch"]
    /\ UNCHANGED <<pc, ending, plan, tries, attVars, connected, latches,
                   recVars, disk, gateStatus>>

StopLatch ==
    /\ ctl.step = "stop_latch"
    /\ playable' = FALSE /\ stop' = TRUE
    /\ ctl' = Idle
    /\ UNCHANGED <<pc, ending, plan, tries, attVars, connected, recVars, disk,
                   gateStatus, row>>

\* The toggle moves the status only of a session that is already playable.
Toggle(status) ==
    ctl' = [step |-> "publish_recording",
            status |-> IF playable THEN status ELSE "none"]

\* A new recorder starts its stash: without a session folder, and on a full disk,
\* it raises after the intent and the recorder were set.
EnableCommand ==
    /\ connected /\ ctl = Idle
    /\ ~wantRecording
    /\ wantRecording' = TRUE /\ recorder' = TRUE
    /\ \/ dirs /\ stash' = "running" /\ Toggle("recording")
       \/ stash' = (IF dirs THEN "failed" ELSE "off") /\ UNCHANGED ctl
    /\ UNCHANGED <<pc, ending, plan, tries, attVars, connected, latches, disk,
                   gateStatus, row>>

\* The intent is dropped at once, the recorder when its stash, if it runs, has
\* stopped; the error of one that failed is only logged.
DisableCommand ==
    /\ connected /\ ctl = Idle
    /\ wantRecording
    /\ wantRecording' = FALSE
    /\ IF stash \in StashRuns
       THEN /\ ctl' = [Idle EXCEPT !.step = "drop_recorder"]
            /\ UNCHANGED recorder
       ELSE recorder' = FALSE /\ Toggle("active")
    /\ UNCHANGED <<pc, ending, plan, tries, attVars, connected, latches,
                   stash, disk, gateStatus, row>>

DropRecorder ==
    /\ ctl.step = "drop_recorder"
    /\ recorder' = FALSE /\ stash' = "off"
    /\ Toggle("active")
    /\ UNCHANGED <<pc, ending, plan, tries, attVars, connected, latches,
                   wantRecording, disk, gateStatus, row>>

PublishRecording ==
    /\ ctl.step = "publish_recording"
    /\ row' = IF row.exists
              THEN [row EXCEPT !.recording = wantRecording,
                               !.status = IF ctl.status = "none" THEN @
                                                                 ELSE ctl.status]
              ELSE row
    /\ ctl' = Idle
    /\ UNCHANGED <<pc, ending, plan, tries, attVars, connected, latches,
                   recVars, disk, gateStatus>>

(***************************************************************************)
(* The engine, and the core process around the supervisor.                 *)
(***************************************************************************)
\* The engine's processes write into the folder they were started with, and list
\* what they wrote in the playlist.
WriteSegment ==
    /\ engine /\ signal = NoSignal
    /\ ~playlist \/ folder \notin footage
    /\ footage' = footage \cup {folder} /\ playlist' = TRUE
    /\ UNCHANGED <<pc, ending, plan, tries, attVars, connected, latches, recVars,
                   dirs, recordings, gateStatus, row, ctl>>

\* A copy into the stash fails otherwise than for a file that is gone, which the
\* task skips: the task ends with the error.
StashFails ==
    /\ stash = "running" /\ folder \in footage
    /\ stash' = "failed"
    /\ UNCHANGED <<pc, ending, plan, tries, attVars, connected, latches,
                   wantRecording, recorder, disk, gateStatus, row, ctl>>

\* engine.done or engine.crashed: the first one of an attempt counts.
EngineEnds ==
    /\ engine /\ signal = NoSignal
    /\ pc \in {"publish_pending", "gate", "publish_playing", "latch", "play"}
    /\ signal' \in Signals \ {NoSignal}
    /\ UNCHANGED <<pc, ending, plan, tries, live, engine, outcome, connected,
                   latches, recVars, disk, gateStatus, row, ctl>>

\* The core sets the shutdown event; the runner's watcher latches the stop.
Shutdown ==
    /\ pc \notin {"load", "mark_failed", "exited"}
    /\ stop' = TRUE
    /\ UNCHANGED <<pc, ending, plan, tries, attVars, connected, playable,
                   recVars, disk, gateStatus, row, ctl>>

\* DELETE /sessions/{id} removes the row, whatever the supervisor is doing,
\* unless the row says REMUXING.
ApiDelete ==
    /\ row.exists /\ row.status # "remuxing"
    /\ row' = [row EXCEPT !.exists = FALSE]
    /\ UNCHANGED <<pc, ending, plan, tries, attVars, connected, latches,
                   recVars, disk, gateStatus, ctl>>

(***************************************************************************)
(* The specification.                                                      *)
(***************************************************************************)
Capture == \/ Load \/ StopAtTop \/ BeginCapture \/ LoadCaptureFails
           \/ CloseCapture \/ RemuxNothing \/ RemuxDone \/ RecordCapture
Attempt == \/ StartAttempt \/ Connect \/ Preflight \/ PublishInitializing
           \/ Resolve \/ SmokeTest \/ StopBeforeStart \/ StartFails
           \/ StartEngine \/ PublishPending \/ GateReady \/ GateTimeout
           \/ PublishPlaying \/ LatchPlayable \/ StopObserved \/ ExitObserved
           \/ StopCleanup \/ Judge \/ RetryCleanup \/ ResetForRetry
End     == \/ Finish \/ PublishCompleted \/ PublishFailed \/ PublishRemuxing
           \/ FinalizeRaises \/ FinalizeStarts \/ Merge \/ PublishFinalizing
           \/ PublishFinal \/ PublishMergeFailed \/ DeleteRow \/ RowMissing
           \/ Disconnect \/ MarkFailed
Run     == Capture \/ Attempt \/ End
Finishing == StopLatch \/ DropRecorder \/ PublishRecording
Commands  == StopCommand \/ EnableCommand \/ DisableCommand
Outside   == \/ StallObserved \/ ExternalError \/ CleanupRaises
             \/ WriteSegment \/ StashFails \/ EngineEnds \/ Shutdown
             \/ ApiDelete

Next == Run \/ Finishing \/ Commands \/ Outside

Spec == Init /\ [][Next]_vars

\* The event loop runs every coroutine that is ready; the plugin calls, the
\* database and ffmpeg return.  Nobody has to send a command, and neither an
\* engine exit nor a stall has to happen.
FairSpec == Spec /\ WF_vars(Run) /\ WF_vars(Finishing)

(***************************************************************************)
(* Properties.                                                             *)
(***************************************************************************)
\* Every variable keeps its type; indices stay inside the plan.
TypeOK ==
    /\ pc \in PCs /\ ending \in Endings
    /\ index \in 0..PlanLength /\ folder \in 1..PlanLength
    /\ captures \in Seq([index : 1..PlanLength, status : Outcomes])
    /\ artifacts \in Seq(1..PlanLength)
    /\ attempt \in 0..AttemptBound /\ resolveFailures \in 0..MaxResolveFailures
    /\ live \in BOOLEAN /\ engine \in BOOLEAN
    /\ signal \in Signals /\ outcome \in Outcomes
    /\ connected \in BOOLEAN /\ stop \in BOOLEAN /\ playable \in BOOLEAN
    /\ wantRecording \in BOOLEAN /\ recorder \in BOOLEAN /\ stash \in StashStates
    /\ dirs \in BOOLEAN /\ footage \subseteq 1..PlanLength /\ recordings \in 0..1
    /\ playlist \in BOOLEAN
    /\ gateStatus \in Playing \cup {"none"}
    /\ row \in [exists : BOOLEAN, status : Statuses, recording : BOOLEAN]
    /\ ctl \in [step : CtlSteps, status : Playing \cup {"none"}]

\* The plan is run in order: the n-th record is the n-th entry's, every capture
\* before the last one failed, and only a plan whose every entry failed is
\* exhausted (run, "the first capture that completes, or the user's stop, ends
\* the run").
PlanInOrder ==
    /\ \A i \in DOMAIN captures : captures[i].index = i
    /\ \A i \in DOMAIN captures : i < Len(captures) => captures[i].status = "failed"
    /\ ending = "exhausted" =>
         /\ Len(captures) = PlanLength
         /\ captures[PlanLength].status = "failed"

\* No capture's media is handed to the merge twice, and the merge takes them in
\* plan order (_close_capture, "captured=False is a capture that never began").
ArtifactOncePerCapture ==
    /\ \A i, j \in DOMAIN artifacts : i < j => artifacts[i] < artifacts[j]
    /\ \A i \in DOMAIN artifacts : artifacts[i] \in footage

\* The engine's processes exist only between their start and the cleanup of the
\* same attempt: never while the next attempt prepares, a capture is remuxed, or
\* the session is finalised.  Only an exception that leaves run() skips it.
EngineWithinAttempt ==
    engine => \/ ending = "aborted"
              \/ live /\ pc \in {"publish_pending", "gate", "publish_playing",
                                "latch", "play", "stop_cleanup", "judge",
                                "retry", "close"}

\* While the engine of a recording session writes there is a stash task, in
\* whatever phase of the run recording was switched on: a disk error may have kept
\* it from starting or ended it, a toggle or a retry never leaves it unstarted
\* (start_stash, "enable_recording can fire while the attempt is still
\* bootstrapping").  Where the task copies to is StashHasFolder below.
Writing == {"publish_pending", "gate", "publish_playing", "latch", "play"}
RecordingIsStashed ==
    recorder /\ pc \in Writing => stash # "off"

\* No capture runs more attempts than its retry mode allows, and none goes on
\* after MaxResolveFailures failures to resolve in a row.
RetryBudget ==
    /\ index > 0 =>
         /\ RetryMode[index] = "none" => attempt <= 1
         /\ RetryMode[index] = "count" => attempt <= RetryCount + 1
    /\ resolveFailures = MaxResolveFailures => outcome = "failed"

\* A run files at most one recording, only from media it remuxed, and never
\* publishes FINALIZING or the final status of a merge without it.
RecordingFiled ==
    /\ recordings <= 1
    /\ recordings = 1 => artifacts # <<>>
    /\ pc \in {"publish_finalizing", "publish_final"} => recordings = 1

\* Of a run whose captures fail, are stopped, switched off and remuxed in any
\* order, every piece of media is merged once and in plan order, into at most one
\* recording, which is there before the session says so (_close_capture,
\* RecordingService.finalize).
MediaFiledOnce == ArtifactOncePerCapture /\ RecordingFiled

\* The supervisor deletes its row only after a run that completed: a stopped or
\* failed session stays visible (_finalize_stopped, _fail).
OnlyCompletedDeleted ==
    [][(row.exists /\ ~row'.exists /\ pc' # pc) => ending = "completed"]_vars

\* Whatever a run and its control handler interleave, the row moves along the
\* walk the core process relies on: nothing but a command leaves a final status,
\* a merge that fails the session never says FINALIZING.
Walk == INSTANCE SessionPhases
FollowsWalk ==
    [][LET before == Walk!PhaseOf(row.status)
           after  == Walk!PhaseOf(row'.status)
       IN  after # before => after \in Walk!Follows(before)]_vars

\* Once a stop is latched the run ends, wherever it was.
StopEndsRun == stop ~> (pc = "exited")

\* A source that stops resolving cannot keep the run looping, whatever its retry
\* mode: the plan is exhausted (_MAX_RESOLVE_FAILURES).
ResolveFailuresEnd ==
    <>[](pc # "smoke") => <>[](pc \in {"exited", "play"})

\* The supervisor implements the plan its session promises.
Plan == INSTANCE CapturePlan WITH
            Length  <- PlanLength,
            tried   <- Len(captures),
            verdict <- IF ending = "none" THEN "running" ELSE ending,
            filed   <- recordings = 1

ImplementsPlan == Plan!Spec

(***************************************************************************)
(* What comments, tests and documents say and the code does not keep.      *)
(***************************************************************************)
\* "On engine.done: if recording: remux segments ... mark session COMPLETED"
\* (ARCHITECTURE.md, Session Lifecycle): remuxing a capture never aborts the run.
RemuxKeepsRun ==
    [][pc = "remux" => ending' # "aborted"]_vars

\* "Start background task that copies oldest segments to stash before ffmpeg's
\* delete_segments flag removes them.  Idempotent" (start_stash): while the engine
\* writes, the running task has the stash folder it copies into.
StashHasFolder ==
    pc \in Writing => stash # "astray"
===============================================================================
