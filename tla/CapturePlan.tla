----------------------------- MODULE CapturePlan -----------------------------
(***************************************************************************)
(* What one session promises about its plan, whatever its supervisor does  *)
(* to keep it (docstrings of run, _close_capture, _finalize_session and    *)
(* _fail): captures are tried one after the other, a failed one hands over *)
(* to the next, the first that completes or the user's stop ends the run,  *)
(* and at most one recording is filed, after the run has ended.            *)
(***************************************************************************)
EXTENDS Naturals

CONSTANT Length  \* captures in the plan

VARIABLES
    tried,    \* captures that ended
    verdict,  \* how the run ended
    filed     \* a recording was filed

vars == <<tried, verdict, filed>>

Init == tried = 0 /\ verdict = "running" /\ filed = FALSE

HandOver ==
    /\ verdict = "running" /\ tried + 1 < Length
    /\ tried' = tried + 1
    /\ UNCHANGED <<verdict, filed>>

Settle ==
    /\ verdict = "running" /\ tried < Length
    /\ tried' = tried + 1
    /\ \/ verdict' \in {"stopped", "completed"}
       \/ tried' = Length /\ verdict' = "exhausted"
    /\ UNCHANGED filed

\* A stop between two captures: the next one is not tried.
StopBetween ==
    /\ verdict = "running" /\ tried < Length
    /\ verdict' = "stopped"
    /\ UNCHANGED <<tried, filed>>

\* An exception ends the run wherever it is, for good.
Abort ==
    /\ verdict' = "aborted"
    /\ UNCHANGED <<tried, filed>>

File ==
    /\ verdict \in {"stopped", "completed", "exhausted"} /\ ~filed
    /\ filed' = TRUE
    /\ UNCHANGED <<tried, verdict>>

Next == HandOver \/ Settle \/ StopBetween \/ Abort \/ File

Spec == Init /\ [][Next]_vars
===============================================================================
