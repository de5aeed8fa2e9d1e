---------------------------- MODULE MCSessionCore ----------------------------
(***************************************************************************)
(* Model-checking instances of SessionCore: the steps a question needs.    *)
(***************************************************************************)
EXTENDS SessionCore

\* No new session gets an id the watchdog is about to fail: between a sweep and the
\* write no delete and no birth both happen to one id.
Undoomed == \A i \in doomed : rows'[i].birth \in {rows[i].birth, 0}
RecyclingSpec == Init /\ [][Next /\ Undoomed]_vars

-----------------------------------------------------------------------------
\* The run core_safety has behaviours of two sorts.  In the first, sessions are
\* started, deleted and retried, and their supervisors do nothing yet.
Undriven == \A p \in Pids : procs[p] = Unborn
Starting == \/ Time \/ Scheduler \/ CreateSession \/ Boot \/ Restart
            \/ \E r \in Requests : Serve(r) \/ \E i \in Ids : BeginDelete(r, i)

\* In the second, users start up to three sessions on two ids, and supervisors drive
\* them.
UsersFew == /\ \A a \in Autoruns : autoruns[a].window = "ahead" /\ ~autoruns[a].retries
            /\ births <= 3
            /\ \A i \in Ids : i > 2 => ~Exists(i)
Driving  == \/ CreateSession \/ Handlers \/ Watch \/ Boot \/ Shutdown \/ Restart
            \/ \E r \in Requests : Serve(r) \/ \E i \in Ids : BeginDelete(r, i)
            \/ \E p \in Pids : Process(p)

SafetyNext == \/ Undriven /\ Starting /\ Undoomed
              \/ UsersFew /\ Driving /\ UsersFew' /\ Undoomed
SafetySpec == Init /\ [][SafetyNext]_vars

-----------------------------------------------------------------------------
\* The run core_live has sessions of users, or sessions of the autorun: a user starts
\* one while the autorun's window is still ahead, and the window opens before any was
\* started.
NoneOpen == \A a \in Autoruns : autoruns[a].window = "ahead"
LiveNext ==
    \/ (births = 0 \/ ~NoneOpen) /\ Time
    \/ NoneOpen /\ CreateSession
    \/ Scheduler \/ StopTick \/ Handlers \/ Watch \/ Boot \/ Shutdown \/ Restart
    \/ \E r \in Requests : Ask(r) \/ Serve(r)
    \/ \E p \in Pids : Process(p)
LiveSpec == Init /\ [][LiveNext]_vars /\ Fairness
===============================================================================
