----------------------------- MODULE MCSupervisor -----------------------------
(* Model-checking instance of Supervisor. *)
EXTENDS Supervisor

\* A session's own capture that retries once, and a rung with exit-code retries.
TwoCaptures == <<"count", "exit_code">>

\* A session without rungs that retries for ever.
AlwaysRetried == <<"always">>

\* The runs in which the core neither shuts down nor deletes the session: what
\* the control channel alone can do to a run.
Undisturbed == \/ Run \/ Finishing \/ Commands \/ StallObserved
               \/ ExternalError \/ CleanupRaises \/ WriteSegment \/ StashFails
               \/ EngineEnds
UndisturbedSpec == Init /\ [][Undisturbed]_vars
===============================================================================
