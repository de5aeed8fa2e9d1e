----------------------------- MODULE SessionCore -----------------------------
(***************************************************************************)
(* The core process around the supervisors: the session table, the         *)
(* registry of supervisor processes and the bus handlers that fill and     *)
(* empty it (event_bus/handlers/handlers.py), the autorun scheduler, the   *)
(* liveness watchdog, the create, delete and stop requests of the API      *)
(* (api/routers/crud.py), the boot that fails orphaned sessions            *)
(* (services/session_lifecycle.py), and crashes of all of it.              *)
(*                                                                         *)
(* A supervisor process is what module Supervisor describes, reduced to    *)
(* the row writes SessionPhases allows it; it may die at any point.        *)
(* Every action is what runs between two awaits of one coroutine.          *)
(***************************************************************************)
EXTENDS Naturals, Sequences, SessionPhases

CONSTANTS
    MaxId,       \* ids are allocated from 1..MaxId
    MaxBirths,   \* sessions created in one behaviour
    Walked,      \* the phases supervisors write in one behaviour
    Autoruns,
    NoAutorun,
    Requests     \* API requests served at the same time

ASSUME CoreAssumption ==
    /\ MaxId \in Nat \ {0}
    /\ MaxBirths \in Nat \ {0}
    /\ Walked \subseteq Phases
    /\ NoAutorun \notin Autoruns

Ids    == 1..MaxId
Births == 1..MaxBirths
\* Every spawn answers one SESSION_CREATED, and a session is announced once; the id
\* of a deleted one is announced again with the session that gets it.
Pids   == 1..MaxBirths

VARIABLES
    core,       \* "boot", "retry", "up" or "stopping"
    births,     \* sessions created so far: identifies a session beyond its id
    rows,       \* the session table
    autoruns,   \* the autorun table
    procs,      \* the supervisor processes
    registry,   \* _supervisors: the process of each id, 0 for no entry
    created,    \* SESSION_CREATED events on the bus
    deleted,    \* SESSION_DELETED events on the bus
    reaping,    \* the process the SESSION_DELETED handler joins, 0 for none
    requests,   \* the API requests
    missing,    \* missing_since of the watchdog
    doomed,     \* ids the watchdog is about to fail
    orphans,    \* ids the boot found live
    spread,     \* the propagation the watchdog's or the boot's write has left
    started     \* how often each autorun's slot started a session

bus      == <<created, deleted, reaping>>
watchdog == <<missing, doomed>>
table    == <<births, rows, started>>
vars     == <<core, table, autoruns, procs, registry, bus, requests, watchdog,
              orphans, spread>>

Propagations == [id : 0..MaxId, autorun : Autoruns \cup {NoAutorun}, phase : Phases]
NoRow    == [birth |-> 0, phase |-> "completed", autorun |-> NoAutorun, tag |-> 0]
NoSpread == [id |-> 0, autorun |-> NoAutorun, phase |-> "completed"]
Unborn   == [id |-> 0, state |-> "unborn", told |-> FALSE, at |-> "starting",
             birth |-> 0, spread |-> NoSpread]
IdleRequest == [op |-> "none", step |-> "idle", id |-> 0, birth |-> 0, pid |-> 0,
                spread |-> NoSpread]

Exists(i)  == rows[i].birth # 0
Live(i)    == Exists(i) /\ rows[i].phase \in LivePhases
Alive(p)   == procs[p].state \notin {"unborn", "dead"}
\* A process answers its control subject from its connection to its exit.
Serving(i) == {p \in Pids : procs[p].id = i /\ procs[p].state = "running"}
Registered(i) == registry[i] # 0 /\ Alive(registry[i])
Serves     == core \in {"up", "stopping"}

Init ==
    /\ core = "up"
    /\ births = 0 /\ rows = [i \in Ids |-> NoRow] /\ started = [a \in Autoruns |-> 0]
    /\ autoruns \in [Autoruns -> [status : {"scheduled"}, window : {"ahead"},
                                  retries : BOOLEAN]]
    /\ procs = [p \in Pids |-> Unborn]
    /\ registry = [i \in Ids |-> 0]
    /\ created = <<>> /\ deleted = <<>> /\ reaping = 0
    /\ requests = [r \in Requests |-> IdleRequest]
    /\ missing = {} /\ doomed = {} /\ orphans = {} /\ spread = NoSpread

(***************************************************************************)
(* Rows.                                                                   *)
(***************************************************************************)
\* next_free_id: the smallest id no row has.
NextFreeId(i) == ~Exists(i) /\ \A j \in Ids : j < i => Exists(j)

\* Mutant: the key is looked up among the live sessions.
KeyUsedByLive(a, tag) ==
    \E i \in Ids : Live(i) /\ rows[i].autorun = a /\ rows[i].tag = tag

\* idempotency_key: tag 0 is the autorun's slot, tag i the retry of orphan i.
KeyUsed(a, tag) ==
    \E i \in Ids : Exists(i) /\ rows[i].autorun = a /\ rows[i].tag = tag

Insert(i, a, tag) ==
    /\ births < MaxBirths
    /\ births' = births + 1
    /\ rows' = [rows EXCEPT ![i] = [birth |-> births + 1, phase |-> "starting",
                                    autorun |-> a, tag |-> tag]]

\* An event is published after its commit, and may fail to be.
EmitCreated(i) == created' = Append(created, i) \/ created' = created
EmitDeleted(i) == deleted' = Append(deleted, i) \/ deleted' = deleted

\* update_session commits the row; the autorun is written by a second commit.
Written(i, phase) == [rows EXCEPT ![i].phase = phase]
Spreads(i, phase) ==
    IF rows[i].phase # phase /\ rows[i].autorun # NoAutorun
    THEN [id |-> i, autorun |-> rows[i].autorun, phase |-> phase]
    ELSE NoSpread

\* The autorun's newest session speaks for it: the one with the largest id.
Newest(a, i) ==
    /\ Exists(i) /\ rows[i].autorun = a
    /\ \A j \in Ids : Exists(j) /\ rows[j].autorun = a => j <= i
Propagate(s) ==
    /\ s # NoSpread
    /\ autoruns' = IF Newest(s.autorun, s.id)
                   THEN [autoruns EXCEPT ![s.autorun].status = AutorunStatus(s.phase)]
                   ELSE autoruns

(***************************************************************************)
(* The scheduler, and the time that passes for it.                         *)
(***************************************************************************)
TimePasses(a) ==
    /\ autoruns[a].window # "closed"
    /\ autoruns' = [autoruns EXCEPT ![a].window =
                        IF @ = "ahead" THEN "open" ELSE "closed"]
    /\ UNCHANGED <<core, table, procs, registry, bus, requests, watchdog, orphans,
                   spread>>

\* Mutant: the autorun is not flipped with its session.
SpawnNoFlip(i, a, tag) ==
    /\ NextFreeId(i)
    /\ ~KeyUsed(a, tag)
    /\ Insert(i, a, tag)
    /\ EmitCreated(i)
    /\ UNCHANGED autoruns

\* _spawn_session: the row, its key and the autorun's flip are one commit.
Spawn(i, a, tag) ==
    /\ NextFreeId(i)
    /\ ~KeyUsed(a, tag)
    /\ Insert(i, a, tag)
    /\ autoruns' = [autoruns EXCEPT ![a].status = "active"]
    /\ EmitCreated(i)

StartSlot(a) ==
    /\ core = "up"
    /\ autoruns[a].status = "scheduled" /\ autoruns[a].window # "ahead"
    /\ \E i \in Ids : Spawn(i, a, 0)
    /\ started' = [started EXCEPT ![a] = @ + 1]
    /\ UNCHANGED <<core, procs, registry, deleted, reaping, requests, watchdog,
                   orphans, spread>>

\* Mutant: a session that has not started playing is not asked.
StoppableLate == {"playing"}

\* A stop asked of a session that nobody serves is asked again at the next tick.
Stoppable == {"starting", "playing"}
TellAll(i) ==
    procs' = [p \in Pids |-> IF p \in Serving(i) THEN [procs[p] EXCEPT !.told = TRUE]
                                                 ELSE procs[p]]

StopAtEnd(i) ==
    /\ core = "up"
    /\ Exists(i) /\ rows[i].autorun # NoAutorun
    /\ autoruns[rows[i].autorun].window = "closed"
    /\ rows[i].phase \in Stoppable
    /\ TellAll(i)
    /\ UNCHANGED <<core, table, autoruns, registry, bus, requests, watchdog,
                   orphans, spread>>

(***************************************************************************)
(* The registry: the handlers of SESSION_CREATED and SESSION_DELETED.      *)
(***************************************************************************)
\* Mutant: the entry of a supervisor that runs is overwritten.
OnCreatedUnguarded ==
    /\ Serves /\ created # <<>>
    /\ created' = Tail(created)
    /\ \E p \in Pids :
         /\ procs[p] = Unborn /\ \A q \in 1..(p - 1) : procs[q] # Unborn
         /\ procs' = [procs EXCEPT ![p] = [@ EXCEPT !.id = Head(created), !.state = "booting"]]
         /\ registry' = [registry EXCEPT ![Head(created)] = p]
    /\ UNCHANGED <<core, table, autoruns, deleted, reaping, requests, watchdog,
                   orphans, spread>>

OnCreated ==
    /\ Serves /\ created # <<>>
    /\ created' = Tail(created)
    /\ LET i == Head(created) IN
         IF Registered(i)
         THEN UNCHANGED <<procs, registry>>
         ELSE \E p \in Pids :
                /\ procs[p] = Unborn /\ \A q \in 1..(p - 1) : procs[q] # Unborn
                /\ procs' = [procs EXCEPT ![p] = [@ EXCEPT !.id = i, !.state = "booting"]]
                /\ registry' = [registry EXCEPT ![i] = p]
    /\ UNCHANGED <<core, table, autoruns, deleted, reaping, requests, watchdog,
                   orphans, spread>>

\* _kill_supervisor up to its join: the entry goes first, and what it named, if
\* alive, is told to stop.
Victim(i) == IF Registered(i) THEN registry[i] ELSE 0

Unregister(i) ==
    /\ registry' = [registry EXCEPT ![i] = 0]
    /\ procs' = IF Registered(i) THEN [procs EXCEPT ![registry[i]].told = TRUE]
                                 ELSE procs

\* The join ends with the process, or times out and kills it.
Bury(p) == [procs EXCEPT ![p] = [Unborn EXCEPT !.id = procs[p].id, !.state = "dead"]]

\* Mutant: the join has no timeout.
JoinForever(p) == ~Alive(p) /\ UNCHANGED procs

Join(p) == procs' = IF Alive(p) THEN Bury(p) ELSE procs

OnDeleted ==
    /\ Serves /\ deleted # <<>> /\ reaping = 0
    /\ deleted' = Tail(deleted)
    /\ Unregister(Head(deleted))
    /\ reaping' = Victim(Head(deleted))
    /\ UNCHANGED <<core, table, autoruns, created, requests, watchdog, orphans,
                   spread>>

Reaped ==
    /\ Serves /\ reaping # 0
    /\ Join(reaping)
    /\ reaping' = 0
    /\ UNCHANGED <<core, table, autoruns, registry, created, deleted, requests,
                   watchdog, orphans, spread>>

(***************************************************************************)
(* The API.  A request is a coroutine of the core: `step` is its await.    *)
(***************************************************************************)
CreateSession ==
    /\ core = "up"
    /\ \E i \in Ids : NextFreeId(i) /\ Insert(i, NoAutorun, 0) /\ EmitCreated(i)
    /\ UNCHANGED <<core, autoruns, started, procs, registry, deleted, reaping,
                   requests, watchdog, orphans, spread>>

Step(r, step) == requests' = [requests EXCEPT ![r].step = step]
Begin(r, op, i, step) ==
    requests' = [requests EXCEPT ![r] =
        [IdleRequest EXCEPT !.op = op, !.step = step, !.id = i,
                            !.birth = rows[i].birth]]

\* DELETE /sessions/{id}: refused while the row says REMUXING; a stop is asked
\* first when it says ACTIVE, RECORDING or TERMINATING, answered or not.
BeginDelete(r, i) ==
    /\ core = "up" /\ requests[r].step = "idle"
    /\ Exists(i) /\ rows[i].phase # "remuxing"
    /\ Begin(r, "delete", i, "delete_row")
    /\ \/ rows[i].phase \in {"playing", "terminating"} /\ TellAll(i)
       \/ UNCHANGED procs
    /\ UNCHANGED <<core, table, autoruns, registry, bus, watchdog, orphans, spread>>

\* The row that has the id goes; when none has it any more the request goes on.
\* Nothing is awaited between that commit and the registry.
DeleteRow(r) ==
    /\ requests[r].step = "delete_row"
    /\ LET i == requests[r].id IN
         /\ rows' = [rows EXCEPT ![i] = NoRow]
         /\ Unregister(i)
         /\ requests' = [requests EXCEPT ![r] = [@ EXCEPT !.pid = Victim(i), !.step = "join"]]
    /\ UNCHANGED <<core, births, started, autoruns, bus, watchdog, orphans, spread>>

\* POST /sessions/{id}/stop: answered by the supervisor, or 504 when nobody
\* serves the session or the answer takes too long.
BeginStop(r, i) ==
    /\ core = "up" /\ requests[r].step = "idle"
    /\ Exists(i)
    /\ \/ Serving(i) # {} /\ TellAll(i) /\ UNCHANGED requests
       \/ UNCHANGED procs /\ Begin(r, "stop", i, "kill")
    /\ UNCHANGED <<core, table, autoruns, registry, bus, watchdog, orphans, spread>>

StopUnanswered(r) ==
    /\ requests[r].step = "kill"
    /\ Unregister(requests[r].id)
    /\ requests' = [requests EXCEPT ![r] =
                        [@ EXCEPT !.pid = Victim(requests[r].id), !.step = "join"]]
    /\ UNCHANGED <<core, table, autoruns, bus, watchdog, orphans, spread>>

Joined(r) ==
    /\ requests[r].step = "join"
    /\ IF requests[r].pid = 0 THEN UNCHANGED procs ELSE Join(requests[r].pid)
    /\ Step(r, IF requests[r].op = "delete" THEN "reclaim" ELSE "fail")
    /\ UNCHANGED <<core, table, autoruns, registry, bus, watchdog, orphans, spread>>

\* remove_session_folder, then the event.
Reclaim(r) ==
    /\ requests[r].step = "reclaim"
    /\ EmitDeleted(requests[r].id)
    /\ requests' = [requests EXCEPT ![r] = IdleRequest]
    /\ UNCHANGED <<core, table, autoruns, procs, registry, created, reaping,
                   watchdog, orphans, spread>>

\* The stop nobody answered is recorded as a failure.
FailStopped(r) ==
    /\ requests[r].step = "fail"
    /\ LET i == requests[r].id IN
         IF Exists(i)
         THEN /\ rows' = Written(i, "failed")
              /\ requests' = [requests EXCEPT ![r] =
                     [@ EXCEPT !.step = "spread", !.spread = Spreads(i, "failed")]]
         ELSE requests' = [requests EXCEPT ![r] = IdleRequest] /\ UNCHANGED rows
    /\ UNCHANGED <<core, births, started, autoruns, procs, registry, bus, watchdog,
                   orphans, spread>>

StopRecorded(r) ==
    /\ requests[r].step = "spread"
    /\ \/ Propagate(requests[r].spread)
       \/ requests[r].spread = NoSpread /\ UNCHANGED autoruns
    /\ requests' = [requests EXCEPT ![r] = IdleRequest]
    /\ UNCHANGED <<core, table, procs, registry, bus, watchdog, orphans, spread>>

(***************************************************************************)
(* The supervisor processes.                                               *)
(***************************************************************************)
\* load_session_from_db: a row that is gone ends the process.  The run starts from
\* the beginning whatever status the row has by then.
SupervisorBoots(p) ==
    /\ procs[p].state = "booting"
    /\ LET i == procs[p].id IN
         procs' = IF Exists(i)
                  THEN [procs EXCEPT ![p] =
                           [@ EXCEPT !.state = "running", !.birth = rows[i].birth]]
                  ELSE Bury(p)
    /\ UNCHANGED <<core, table, autoruns, registry, bus, requests, watchdog,
                   orphans, spread>>

\* One update_session of the run or of its control handler: the row is found by
\* its id, and a missing one ends the run.  A command's write after the final one
\* does not take the run back.
Reached(at, phase) == IF at \in FinalPhases THEN at ELSE phase
SupervisorWrites(p, phase) ==
    /\ procs[p].state = "running" /\ procs[p].spread = NoSpread
    /\ phase \in Follows(procs[p].at) \cap Walked
    /\ LET i == procs[p].id IN
         IF Exists(i)
         THEN /\ rows' = Written(i, phase)
              /\ procs' = [procs EXCEPT ![p] =
                     [@ EXCEPT !.at = Reached(procs[p].at, phase),
                               !.spread = Spreads(i, phase)]]
         ELSE procs' = Bury(p) /\ UNCHANGED rows
    /\ UNCHANGED <<core, births, started, autoruns, registry, bus, requests, watchdog,
                   orphans, spread>>

SupervisorPropagates(p) ==
    /\ procs[p].state = "running"
    /\ Propagate(procs[p].spread)
    /\ procs' = [procs EXCEPT ![p].spread = NoSpread]
    /\ UNCHANGED <<core, table, registry, bus, requests, watchdog, orphans, spread>>

\* A run that ended its plan deletes its row, then its folder, and then announces
\* it; a stopped or failed one leaves them.  A row that is gone is not announced.
SupervisorDeletes(p) ==
    /\ procs[p].state = "running" /\ procs[p].spread = NoSpread
    /\ procs[p].at \in FinalPhases
    /\ LET i == procs[p].id IN
         /\ rows' = [rows EXCEPT ![i] = NoRow]
         /\ procs' = [procs EXCEPT ![p].state = IF Exists(i) THEN "deleting"
                                                            ELSE "leaving"]
    /\ UNCHANGED <<core, births, started, autoruns, registry, bus, requests, watchdog,
                   orphans, spread>>

SupervisorAnnounces(p) ==
    /\ procs[p].state = "deleting"
    /\ EmitDeleted(procs[p].id)
    /\ procs' = [procs EXCEPT ![p].state = "leaving"]
    /\ UNCHANGED <<core, table, autoruns, registry, created, reaping, requests,
                   watchdog, orphans, spread>>

\* The end of the process, or its death at any point.
SupervisorExits(p) ==
    /\ Alive(p)
    /\ procs' = Bury(p)
    /\ UNCHANGED <<core, table, autoruns, registry, bus, requests, watchdog, orphans,
                   spread>>

(***************************************************************************)
(* The liveness watchdog.                                                  *)
(***************************************************************************)
\* The entry of the next doomed row is dropped before its row is written.
NextOf(ids) == {i \in ids : \A j \in ids : i <= j}
Dropped(ids) == [i \in Ids |-> IF i \in NextOf(ids) THEN 0 ELSE registry[i]]

\* Mutant: only sessions that were registered are watched.
AbsentRegistered == {i \in Ids : Live(i) /\ registry[i] # 0 /\ ~Registered(i)}

Absent == {i \in Ids : Live(i) /\ ~Registered(i)}

\* Mutant: no grace period.
ExpiredAtOnce == Absent

\* The grace period outlasts a spawn that is on its way.
Expired == (Absent \cap missing) \ {created[n] : n \in DOMAIN created}

\* A sweep notes the live rows without a live supervisor, and dooms those an
\* earlier sweep noted.
Sweep ==
    /\ core = "up" /\ doomed = {} /\ spread = NoSpread
    /\ missing' = Absent
    /\ doomed' = Expired
    /\ registry' = [i \in Ids |-> IF (~Live(i) /\ ~Registered(i)) \/ i \in NextOf(Expired)
                                  THEN 0 ELSE registry[i]]
    /\ UNCHANGED <<core, table, autoruns, procs, bus, requests, orphans, spread>>

\* A row that is gone ends the tick.
FailDoomed(i) ==
    /\ core = "up" /\ i \in NextOf(doomed) /\ spread = NoSpread
    /\ missing' = missing \ {i}
    /\ IF Exists(i)
       THEN /\ rows' = Written(i, "failed")
            /\ doomed' = doomed \ {i} /\ spread' = Spreads(i, "failed")
       ELSE doomed' = {} /\ UNCHANGED <<rows, spread>>
    /\ registry' = IF spread' = NoSpread THEN Dropped(doomed') ELSE registry
    /\ UNCHANGED <<core, births, started, autoruns, procs, bus, requests, orphans>>

\* The second commit of the watchdog's or the boot's update_session.
Propagated ==
    /\ Propagate(spread)
    /\ spread' = NoSpread
    /\ registry' = Dropped(doomed)
    /\ UNCHANGED <<core, table, procs, bus, requests, watchdog, orphans>>

(***************************************************************************)
(* The end of the core process, and its next boot.                         *)
(***************************************************************************)
\* The web server finishes its requests, the loops are stopped, and every
\* registered supervisor is told to stop before the process ends.
Shutdown ==
    /\ core = "up"
    /\ \A r \in Requests : requests[r].step = "idle"
    /\ doomed = {} /\ spread = NoSpread
    /\ core' = "stopping"
    /\ missing' = {}
    /\ procs' = [p \in Pids |-> IF Alive(p) /\ \E i \in Ids : registry[i] = p
                                THEN [procs[p] EXCEPT !.told = TRUE] ELSE procs[p]]
    /\ UNCHANGED <<table, autoruns, registry, bus, requests, doomed, orphans, spread>>

\* The process and, with it, its children, its registry and the bus are gone;
\* the tables are not.  The boot is one transaction from "retry" on.
Restart ==
    /\ core # "retry"
    /\ core' = "boot"
    /\ orphans' = {i \in Ids : Live(i)}
    /\ procs' = [p \in Pids |-> IF Alive(p) THEN Bury(p)[p] ELSE procs[p]]
    /\ registry' = [i \in Ids |-> 0]
    /\ created' = <<>> /\ deleted' = <<>> /\ reaping' = 0
    /\ requests' = [r \in Requests |-> IdleRequest]
    /\ missing' = {} /\ doomed' = {} /\ spread' = NoSpread
    /\ UNCHANGED <<table, autoruns>>

\* fail_orphaned_sessions
FailOrphan(i) ==
    /\ core = "boot" /\ spread = NoSpread
    /\ i \in orphans /\ Live(i)
    /\ rows' = Written(i, "failed")
    /\ spread' = Spreads(i, "failed")
    /\ UNCHANGED <<core, births, started, autoruns, procs, registry, bus, requests,
                   watchdog, orphans>>

OrphansFailed ==
    /\ core = "boot" /\ spread = NoSpread
    /\ \A i \in orphans : ~Live(i)
    /\ core' = "retry"
    /\ UNCHANGED <<table, autoruns, procs, registry, bus, requests, watchdog, orphans,
                   spread>>

\* _retry_orphaned_autoruns, an orphan at a time in the order of their ids.
Wants(i) == LET a == rows[i].autorun IN
    a # NoAutorun /\ autoruns[a].retries /\ autoruns[a].window # "closed"
Room == births < MaxBirths /\ \E j \in Ids : ~Exists(j)
Retried(i) == Wants(i) /\ Room /\ ~KeyUsed(rows[i].autorun, i)
RetryOrphan(i) ==
    /\ core = "retry"
    /\ i \in orphans /\ \A j \in orphans : i <= j
    /\ orphans' = orphans \ {i}
    /\ IF Retried(i)
       THEN \E j \in Ids : Spawn(j, rows[i].autorun, i)
       ELSE UNCHANGED <<births, rows, autoruns, created>>
    /\ UNCHANGED <<core, started, procs, registry, deleted, reaping, requests,
                   watchdog, spread>>

Booted ==
    /\ core = "retry" /\ orphans = {}
    /\ core' = "up"
    /\ UNCHANGED <<table, autoruns, procs, registry, bus, requests, watchdog, orphans,
                   spread>>

(***************************************************************************)
(* The specification.                                                      *)
(***************************************************************************)
Scheduler == \E a \in Autoruns : StartSlot(a)
StopTick  == \E i \in Ids : StopAtEnd(i)
Handlers  == OnCreated \/ OnDeleted \/ Reaped
Ask(r)    == \E i \in Ids : BeginDelete(r, i) \/ BeginStop(r, i)
Serve(r)  == \/ DeleteRow(r) \/ StopUnanswered(r) \/ Joined(r) \/ Reclaim(r)
             \/ FailStopped(r) \/ StopRecorded(r)
Work(p)   == SupervisorBoots(p) \/ \E f \in Phases : SupervisorWrites(p, f)
Leave(p)  == \/ SupervisorPropagates(p) \/ SupervisorAnnounces(p)
             \/ procs[p].state = "leaving" /\ SupervisorExits(p)
Process(p) == Work(p) \/ Leave(p) \/ SupervisorDeletes(p) \/ SupervisorExits(p)
Watch     == Sweep \/ (\E i \in Ids : FailDoomed(i)) \/ (core = "up" /\ Propagated)
Boot      == \/ \E i \in Ids : FailOrphan(i) \/ RetryOrphan(i)
             \/ core = "boot" /\ Propagated
             \/ OrphansFailed \/ Booted
Time      == \E a \in Autoruns : TimePasses(a)

Next == \/ Time \/ Scheduler \/ StopTick \/ Handlers \/ CreateSession
        \/ \E r \in Requests : Ask(r) \/ Serve(r)
        \/ \E p \in Pids : Process(p)
        \/ Watch \/ Boot \/ Shutdown \/ Restart

Spec == Init /\ [][Next]_vars

\* The core's loops and handlers run: every await of theirs is bounded.  Nothing
\* is assumed of a supervisor but that its load of the session ends, and that a
\* process that has nothing left to do ends.
Fairness ==
    /\ WF_vars(Scheduler) /\ WF_vars(StopTick) /\ WF_vars(Watch) /\ WF_vars(Boot)
    /\ WF_vars(OnCreated) /\ WF_vars(OnDeleted) /\ WF_vars(Reaped)
    /\ \A r \in Requests : WF_vars(Serve(r))
    /\ \A p \in Pids : WF_vars(SupervisorBoots(p)) /\ WF_vars(Leave(p))
\* A supervisor told to stop ends its run, and then itself: StopEndsRun of module
\* Supervisor, where plugins return.
Obeys(p) ==
    /\ procs[p].told /\ procs[p].state = "running"
    /\ \/ SupervisorPropagates(p)
       \/ \E f \in FinalPhases : SupervisorWrites(p, f)
       \/ procs[p].at \in FinalPhases /\ SupervisorExits(p)
Obedience == \A p \in Pids : WF_vars(Obeys(p))

(***************************************************************************)
(* Properties.                                                             *)
(***************************************************************************)
ProcStates == {"unborn", "booting", "running", "deleting", "leaving", "dead"}
Steps      == {"idle", "delete_row", "kill", "join", "reclaim", "fail", "spread"}
Owners     == Autoruns \cup {NoAutorun}
RowType    == [birth : 0..MaxBirths, phase : Phases, autorun : Owners, tag : 0..MaxId]
AutorunType == [status : AutorunStatuses, window : {"ahead", "open", "closed"},
                retries : BOOLEAN]
ProcType   == [id : 0..MaxId, state : ProcStates, told : BOOLEAN, at : Phases,
               birth : 0..MaxBirths, spread : Propagations]
RequestType == [op : {"none", "delete", "stop"}, step : Steps, id : 0..MaxId,
                birth : 0..MaxBirths, pid : 0..MaxBirths, spread : Propagations]

\* Every variable keeps its type.
TypeOK ==
    /\ core \in {"boot", "retry", "up", "stopping"}
    /\ births \in 0..MaxBirths
    /\ rows \in [Ids -> RowType]
    /\ started \in [Autoruns -> Nat]
    /\ autoruns \in [Autoruns -> AutorunType]
    /\ procs \in [Pids -> ProcType]
    /\ registry \in [Ids -> 0..MaxBirths]
    /\ created \in Seq(Ids) /\ deleted \in Seq(Ids) /\ reaping \in 0..MaxBirths
    /\ requests \in [Requests -> RequestType]
    /\ missing \subseteq Ids /\ doomed \subseteq Ids /\ orphans \subseteq Ids
    /\ spread \in Propagations

\* "A slot starts at most one session, ever" (slot_key), also when its session
\* was deleted, or the core died between the commit and the event.
SlotOnce == \A a \in Autoruns : started[a] <= 1

\* No two rows carry the same idempotency key: the unique index never raises,
\* not even when an orphan's id was recycled and is an orphan's again.
KeyUnique ==
    \A i, j \in Ids :
        /\ i # j /\ Exists(i) /\ Exists(j)
        /\ rows[i].autorun # NoAutorun /\ rows[i].autorun = rows[j].autorun
        => rows[i].tag # rows[j].tag

\* A supervisor that nobody told to stop is the one the registry names for its id,
\* where the shutdown of the core finds it (kill_all_supervisors), so that two of one
\* id are never left to run ("is already running; ignoring duplicate spawn"): not when
\* a deleted session's id is announced again before the first announcement is handled,
\* and not while the deleted one's process is still on its way out.
DriversKnown ==
    \A p \in Pids : Alive(p) => procs[p].told \/ registry[procs[p].id] = p

\* The watchdog fails "sessions whose supervisor process has died".
WatchdogFailsDead ==
    [][\A i \in Ids : FailDoomed(i) /\ Exists(i) => ~Registered(i)]_vars

\* A row that is live while no supervisor drives it does not stay so (the
\* watchdog, and the boot after a crash).
Driven(i) == \E p \in Pids :
    /\ procs[p].id = i
    /\ procs[p].state = "booting" \/ procs[p].birth = rows[i].birth
Stranded(i) == Live(i) /\ ~Driven(i)
NoRowStranded ==
    \A i \in Ids : Stranded(i) ~> (~Stranded(i) \/ core = "stopping")

\* A delete or a stop ends, and so does the handler of a deletion, whatever the
\* supervisor they wait for does (_kill_supervisor, join with a timeout).
RequestsEnd ==
    /\ \A r \in Requests : requests[r].step # "idle" ~> requests[r].step = "idle"
    /\ reaping # 0 ~> reaping = 0

\* When an autorun's window closes its session is stopped, be it starting or playing,
\* however often the request finds nobody to serve it (_tick, phase 2), and whatever
\* the API is asked meanwhile; supervisors obey.
Early(a) == \E i \in Ids : /\ Exists(i) /\ rows[i].autorun = a
                           /\ rows[i].phase \in {"starting", "playing"}
WindowCloses ==
    Obedience =>
        \A a \in Autoruns :
            autoruns[a].window = "closed" ~> (~Early(a) \/ core = "stopping")

\* "An autorun that opted into retry then gets a fresh session, so a restart does not
\* silently cost it the rest of its window": an orphan that leaves the boot's list has
\* got its fresh session, if its autorun wants one and there is room.  It does not hold
\* when the core dies between failing the orphan and retrying it: the next boot finds
\* no live row.
RetryNotLost ==
    [][\A i \in orphans :
         Wants(i) /\ Room /\ i \notin orphans' => births' = births + 1]_vars
===============================================================================
