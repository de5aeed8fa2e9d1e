---------------------------- MODULE SessionPhases ----------------------------
(***************************************************************************)
(* The statuses of a session row, as the core process tells them apart.    *)
(* INITIALIZING and STREAM_PENDING are one phase, and so are ACTIVE and    *)
(* RECORDING: no guard of the core separates them.                         *)
(***************************************************************************)

LivePhases  == {"starting", "playing", "terminating", "remuxing", "finalizing"}
FinalPhases == {"completed", "failed"}
Phases      == LivePhases \cup FinalPhases

PhaseOf(status) ==
    CASE status \in {"initializing", "stream_pending"} -> "starting"
      [] status \in {"active", "recording"}            -> "playing"
      [] OTHER                                         -> status

\* The phases a supervisor may write after another one, the writes of its
\* control handler included: a stop or a toggle can land on every phase, also
\* after the run's final write.
Commanded == {"terminating", "playing"}
Follows(phase) ==
    CASE phase = "starting"    -> {"starting", "remuxing", "completed", "failed"} \cup Commanded
      [] phase = "playing"     -> {"starting", "remuxing", "finalizing"} \cup FinalPhases
                                  \cup Commanded
      [] phase = "terminating" -> {"starting", "remuxing", "finalizing"} \cup FinalPhases
                                  \cup Commanded
      [] phase = "remuxing"    -> {"finalizing", "failed"} \cup Commanded
      [] phase = "finalizing"  -> {"completed"} \cup Commanded
      [] OTHER                 -> Commanded

\* Mutant: a status the autorun does not have.
AutorunStatusError(phase) ==
    IF phase \in {"starting", "playing"} THEN "active"
    ELSE IF phase = "failed" THEN "error" ELSE phase

\* The status a session's phase gives its autorun.
AutorunStatus(phase) ==
    IF phase \in {"starting", "playing"} THEN "active" ELSE phase
AutorunStatuses == {"scheduled", "active"} \cup (Phases \ {"starting", "playing"})
===============================================================================
