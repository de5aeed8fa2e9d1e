--------------------------- MODULE SessionCoreProofs ---------------------------
(***************************************************************************)
(* Proofs about SessionCore, for every number of ids, sessions, autoruns   *)
(* and requests.                                                           *)
(***************************************************************************)
EXTENDS MCSessionCore, TLAPS

USE CoreAssumption

(***************************************************************************)
(* What the helpers return.                                                *)
(***************************************************************************)
\* What a supervisor may write, and what its status makes of an autorun's, are
\* statuses of a session and of an autorun.
LEMMA PhaseFacts ==
    /\ LivePhases \subseteq Phases /\ FinalPhases \subseteq Phases
    /\ \A f : Follows(f) \subseteq Phases
    /\ \A f \in Phases : AutorunStatus(f) \in AutorunStatuses
    /\ {"starting", "completed", "failed", "playing"} \subseteq Phases
  BY DEF LivePhases, FinalPhases, Phases, Follows, Commanded, AutorunStatus,
         AutorunStatuses

\* The values that stand for nothing have their types.
LEMMA ConstantTypes ==
    /\ NoSpread \in Propagations
    /\ NoRow \in RowType
    /\ Unborn \in ProcType
    /\ IdleRequest \in RequestType
  BY PhaseFacts DEF NoSpread, Propagations, NoRow, RowType, Unborn, ProcType,
     IdleRequest, RequestType, Owners, ProcStates, Steps

\* A status write leaves the session table, and what is left to propagate, typed.
LEMMA WrittenType ==
    ASSUME TypeOK, NEW i \in Ids, NEW f \in Phases
    PROVE  Written(i, f) \in [Ids -> RowType] /\ Spreads(i, f) \in Propagations
  <1>1. rows \in [Ids -> RowType] BY DEF TypeOK
  <1>2. Written(i, f) \in [Ids -> RowType]
    BY <1>1 DEF Written, RowType
  <1>3. [id |-> i, autorun |-> rows[i].autorun, phase |-> f] \in Propagations
        \/ rows[i].autorun = NoAutorun
    BY <1>1 DEF RowType, Owners, Propagations, Ids
  <1> QED BY <1>2, <1>3, ConstantTypes DEF Spreads

\* An inserted row is typed, and so is the count of births.
LEMMA InsertType ==
    ASSUME TypeOK, NEW i \in Ids, NEW a \in Owners, NEW tag \in 0..MaxId,
           Insert(i, a, tag)
    PROVE  births' \in 0..MaxBirths /\ rows' \in [Ids -> RowType]
  <1>1. rows \in [Ids -> RowType] /\ births \in 0..MaxBirths BY DEF TypeOK
  <1>2. births + 1 \in 0..MaxBirths BY <1>1 DEF Insert
  <1>3. [birth |-> births + 1, phase |-> "starting", autorun |-> a, tag |-> tag]
          \in RowType
    BY <1>2, PhaseFacts DEF RowType
  <1> QED BY <1>1, <1>2, <1>3 DEF Insert

\* A propagated status leaves the autorun table typed.
LEMMA PropagateType ==
    ASSUME TypeOK, NEW s \in Propagations, Propagate(s)
    PROVE  autoruns' \in [Autoruns -> AutorunType]
  <1>1. autoruns \in [Autoruns -> AutorunType] BY DEF TypeOK
  <1>2. AutorunStatus(s.phase) \in AutorunStatuses BY PhaseFacts DEF Propagations
  <1>3. CASE Newest(s.autorun, s.id)
    <2>1. autoruns' = [autoruns EXCEPT ![s.autorun].status = AutorunStatus(s.phase)]
      BY <1>3 DEF Propagate
    <2> QED BY <1>1, <1>2, <2>1 DEF AutorunType
  <1>4. CASE ~Newest(s.autorun, s.id) BY <1>1, <1>4 DEF Propagate
  <1> QED BY <1>3, <1>4

\* The end of a process leaves the process table typed.
LEMMA BuryType ==
    ASSUME TypeOK, NEW p \in Pids
    PROVE  Bury(p) \in [Pids -> ProcType]
  <1>1. procs \in [Pids -> ProcType] BY DEF TypeOK
  <1>2. procs[p].id \in 0..MaxId BY <1>1 DEF ProcType
  <1>3. [Unborn EXCEPT !.id = procs[p].id, !.state = "dead"] \in ProcType
    BY <1>2, ConstantTypes DEF ProcType, ProcStates
  <1> QED BY <1>1, <1>3 DEF Bury

\* A stop asked of the processes of a session leaves the process table typed.
LEMMA TellType ==
    ASSUME TypeOK, NEW i, TellAll(i)
    PROVE  procs' \in [Pids -> ProcType]
  <1>1. procs \in [Pids -> ProcType] BY DEF TypeOK
  <1>2. \A p \in Pids : [procs[p] EXCEPT !.told = TRUE] \in ProcType
    BY <1>1 DEF ProcType
  <1> QED BY <1>1, <1>2 DEF TellAll

\* The end of a process changes that process alone, and leaves it its id.
LEMMA BuryFacts ==
    ASSUME TypeOK, NEW p \in Pids, NEW q \in Pids
    PROVE  /\ Bury(p)[q].id = procs[q].id
           /\ q # p => Bury(p)[q] = procs[q]
           /\ Bury(p)[p].state = "dead"
  <1>1. procs \in [Pids -> ProcType] BY DEF TypeOK
  <1> QED BY <1>1 DEF Bury, Unborn, ProcType

\* A stop asked of a session's processes changes no id and no state.
LEMMA TellFacts ==
    ASSUME TypeOK, NEW i, TellAll(i), NEW q \in Pids
    PROVE  /\ procs'[q].id = procs[q].id
           /\ procs'[q].state = procs[q].state
           /\ procs[q].told => procs'[q].told
  <1>1. procs \in [Pids -> ProcType] BY DEF TypeOK
  <1> QED BY <1>1 DEF TellAll, ProcType

\* The registry and the process table are typed after an entry was removed.
LEMMA UnregisterType ==
    ASSUME TypeOK, NEW i \in Ids, Unregister(i)
    PROVE  /\ registry' \in [Ids -> 0..MaxBirths]
           /\ procs' \in [Pids -> ProcType]
           /\ Victim(i) \in 0..MaxBirths
  <1>1. procs \in [Pids -> ProcType] /\ registry \in [Ids -> 0..MaxBirths] BY DEF TypeOK
  <1>2. \A p \in Pids : [procs EXCEPT ![p].told = TRUE] \in [Pids -> ProcType]
    BY <1>1 DEF ProcType
  <1>3. Registered(i) => registry[i] \in Pids BY <1>1 DEF Registered, Pids
  <1> QED BY <1>1, <1>2, <1>3 DEF Unregister, Victim

\* A spawned process is typed.
LEMMA SpawnedType ==
    ASSUME NEW q \in ProcType, NEW i \in 0..MaxId
    PROVE  [q EXCEPT !.id = i, !.state = "booting"] \in ProcType
  BY DEF ProcType, ProcStates

\* A process that loaded its session is typed.
LEMMA LoadedType ==
    ASSUME NEW q \in ProcType, NEW b \in 0..MaxBirths
    PROVE  [q EXCEPT !.state = "running", !.birth = b] \in ProcType
  BY DEF ProcType, ProcStates

\* A process that wrote its row is typed.
LEMMA WritingType ==
    ASSUME NEW q \in ProcType, NEW at \in Phases, NEW s \in Propagations
    PROVE  [q EXCEPT !.at = at, !.spread = s] \in ProcType
  BY DEF ProcType

\* The edits a request makes of its own record leave it typed.
LEMMA RequestEdits ==
    ASSUME NEW op \in {"delete", "stop"}, NEW step \in Steps, NEW i \in 0..MaxId,
           NEW b \in 0..MaxBirths
    PROVE  [IdleRequest EXCEPT !.op = op, !.step = step, !.id = i, !.birth = b]
             \in RequestType
  BY ConstantTypes DEF RequestType

\* A published event leaves the bus typed.
LEMMA AppendType ==
    ASSUME NEW q \in Seq(Ids), NEW i \in Ids
    PROVE  Append(q, i) \in Seq(Ids)
  OBVIOUS

\* An event taken from the bus names an id, and leaves the bus typed.
LEMMA HeadTailType ==
    ASSUME NEW q \in Seq(Ids), q # <<>>
    PROVE  Head(q) \in Ids /\ Tail(q) \in Seq(Ids)
  OBVIOUS

\* A spawned session leaves all it writes typed.
LEMMA SpawnType ==
    ASSUME TypeOK, NEW i \in Ids, NEW a \in Autoruns, NEW tag \in 0..MaxId,
           Spawn(i, a, tag)
    PROVE  /\ births' \in 0..MaxBirths /\ rows' \in [Ids -> RowType]
           /\ autoruns' \in [Autoruns -> AutorunType]
           /\ created' \in Seq(Ids)
  <1>1. autoruns \in [Autoruns -> AutorunType] /\ created \in Seq(Ids) BY DEF TypeOK
  <1>2. births' \in 0..MaxBirths /\ rows' \in [Ids -> RowType]
    BY InsertType DEF Spawn, Owners
  <1>3. autoruns' \in [Autoruns -> AutorunType]
    BY <1>1 DEF Spawn, AutorunType, AutorunStatuses
  <1>4. created' \in Seq(Ids) BY <1>1 DEF Spawn, EmitCreated
  <1> QED BY <1>2, <1>3, <1>4

(***************************************************************************)
(* Type correctness.  A request that runs and a process that was spawned   *)
(* name an id.                                                             *)
(***************************************************************************)
Addressed ==
    /\ \A r \in Requests : requests[r].step # "idle" => requests[r].id \in Ids
    /\ \A p \in Pids : procs[p].state # "unborn" => procs[p].id \in Ids

\* The initial states are typed.
LEMMA TypeInit == Init => TypeOK /\ Addressed
  BY ConstantTypes DEF Init, TypeOK, AutorunType, AutorunStatuses, Pids, Ids,
     Addressed, IdleRequest, Unborn

\* Every step of the core, of a supervisor, of a crash or a boot keeps the types.
LEMMA TypeStep == TypeOK /\ Addressed /\ [Next]_vars => TypeOK'
  <1> SUFFICES ASSUME TypeOK, Addressed, [Next]_vars PROVE TypeOK' OBVIOUS
  <1> USE DEF TypeOK, bus, watchdog, table
  <1>1. ASSUME NEW a \in Autoruns, TimePasses(a) PROVE TypeOK'
    BY <1>1 DEF TimePasses, AutorunType
  <1>2. ASSUME NEW a \in Autoruns, StartSlot(a) PROVE TypeOK'
    BY <1>2, SpawnType DEF StartSlot
  <1>3. ASSUME NEW i \in Ids, StopAtEnd(i) PROVE TypeOK'
    BY <1>3, TellType DEF StopAtEnd
  <1>4. ASSUME OnCreated PROVE TypeOK'
    <2>1. created' \in Seq(Ids) /\ Head(created) \in Ids
      <3>1. created \in Seq(Ids) /\ created # <<>> BY <1>4 DEF OnCreated
      <3>2. created' = Tail(created) BY <1>4 DEF OnCreated
      <3> QED BY <3>1, <3>2, HeadTailType
    <2>2. CASE Registered(Head(created)) BY <1>4, <2>1, <2>2 DEF OnCreated
    <2>3. CASE ~Registered(Head(created))
      <3>1. PICK p \in Pids :
              /\ procs' = [procs EXCEPT ![p].id = Head(created), ![p].state = "booting"]
              /\ registry' = [registry EXCEPT ![Head(created)] = p]
        BY <1>4, <2>3 DEF OnCreated
      <3>2. [procs[p] EXCEPT !.id = Head(created), !.state = "booting"] \in ProcType
        <4>1. procs[p] \in ProcType /\ Head(created) \in 0..MaxId BY <2>1 DEF Ids
        <4> QED BY <4>1, SpawnedType
      <3>3. procs' = [procs EXCEPT ![p] =
                        [procs[p] EXCEPT !.id = Head(created), !.state = "booting"]]
        BY <3>1 DEF ProcType
      <3>4. procs' \in [Pids -> ProcType] BY <3>2, <3>3
      <3>5. registry' \in [Ids -> 0..MaxBirths] BY <2>1, <3>1 DEF Pids
      <3> QED BY <1>4, <2>1, <3>4, <3>5 DEF OnCreated
    <2> QED BY <2>2, <2>3
  <1>5. ASSUME OnDeleted PROVE TypeOK'
    BY <1>5, UnregisterType DEF OnDeleted
  <1>6. ASSUME Reaped PROVE TypeOK'
    <2>1. reaping \in Pids BY <1>6 DEF Reaped, Pids
    <2>2. procs' \in [Pids -> ProcType] BY <1>6, <2>1, BuryType DEF Reaped, Join
    <2> QED BY <1>6, <2>2 DEF Reaped
  <1>7. ASSUME CreateSession PROVE TypeOK'
    <2>1. PICK i \in Ids : Insert(i, NoAutorun, 0) /\ EmitCreated(i) BY <1>7 DEF CreateSession
    <2>2. births' \in 0..MaxBirths /\ rows' \in [Ids -> RowType]
      BY <2>1, InsertType DEF Owners
    <2>3. created' \in Seq(Ids)
      <3>1. created' \in {created, Append(created, i)} BY <2>1 DEF EmitCreated
      <3>2. created \in Seq(Ids) /\ Append(created, i) \in Seq(Ids) BY AppendType
      <3> QED BY <3>1, <3>2
    <2> QED BY <1>7, <2>2, <2>3 DEF CreateSession
  <1>8. ASSUME NEW r \in Requests, NEW i \in Ids, BeginDelete(r, i) PROVE TypeOK'
    <2>1. rows[i].birth \in 0..MaxBirths BY DEF RowType
    <2>2. [IdleRequest EXCEPT !.op = "delete", !.step = "delete_row", !.id = i,
                              !.birth = rows[i].birth] \in RequestType
      <3>1. "delete" \in {"delete", "stop"} /\ "delete_row" \in Steps BY DEF Steps
      <3>2. i \in 0..MaxId BY DEF Ids
      <3> HIDE DEF TypeOK
      <3> QED BY <2>1, <3>1, <3>2, RequestEdits
    <2>3. requests' \in [Requests -> RequestType] BY <1>8, <2>2 DEF BeginDelete, Begin
    <2>4. procs' \in [Pids -> ProcType] BY <1>8, TellType DEF BeginDelete
    <2> QED BY <1>8, <2>3, <2>4 DEF BeginDelete
  <1>9. ASSUME NEW r \in Requests, NEW i \in Ids, BeginStop(r, i) PROVE TypeOK'
    <2>1. rows[i].birth \in 0..MaxBirths BY DEF RowType
    <2>2. [IdleRequest EXCEPT !.op = "stop", !.step = "kill", !.id = i,
                              !.birth = rows[i].birth] \in RequestType
      <3>1. "stop" \in {"delete", "stop"} /\ "kill" \in Steps BY DEF Steps
      <3>2. i \in 0..MaxId BY DEF Ids
      <3> HIDE DEF TypeOK
      <3> QED BY <2>1, <3>1, <3>2, RequestEdits
    <2>3. requests' \in [Requests -> RequestType] BY <1>9, <2>2 DEF BeginStop, Begin
    <2>4. procs' \in [Pids -> ProcType] BY <1>9, TellType DEF BeginStop
    <2> QED BY <1>9, <2>3, <2>4 DEF BeginStop
  <1>10. ASSUME NEW r \in Requests, DeleteRow(r) PROVE TypeOK'
    <2>1. requests[r].id \in Ids BY <1>10 DEF DeleteRow, Addressed
    <2>2. requests[r] \in RequestType OBVIOUS
    <2>3. [requests[r] EXCEPT !.pid = Victim(requests[r].id), !.step = "join"] \in RequestType
      BY <1>10, <2>1, <2>2, UnregisterType, ConstantTypes DEF DeleteRow, RequestType, Steps
    <2> QED BY <1>10, <2>1, <2>3, UnregisterType, ConstantTypes DEF DeleteRow
  <1>11. ASSUME NEW r \in Requests, StopUnanswered(r) PROVE TypeOK'
    <2>1. requests[r].id \in Ids BY <1>11 DEF StopUnanswered, Addressed
    <2>2. requests[r] \in RequestType OBVIOUS
    <2>3. [requests[r] EXCEPT !.pid = Victim(requests[r].id), !.step = "join"] \in RequestType
      BY <1>11, <2>1, <2>2, UnregisterType DEF StopUnanswered, RequestType, Steps
    <2> QED BY <1>11, <2>1, <2>3, UnregisterType DEF StopUnanswered
  <1>12. ASSUME NEW r \in Requests, Joined(r) PROVE TypeOK'
    <2>1. requests[r] \in RequestType BY <1>12
    <2>2. procs' \in [Pids -> ProcType]
      BY <1>12, <2>1, BuryType DEF Joined, Join, RequestType, Pids
    <2>3. requests' \in [Requests -> RequestType]
      <3>1. PICK step \in Steps : requests' = [requests EXCEPT ![r].step = step]
        BY <1>12 DEF Joined, Step, Steps
      <3> QED BY <3>1 DEF RequestType
    <2> QED BY <1>12, <2>2, <2>3 DEF Joined
  <1>13. ASSUME NEW r \in Requests, Reclaim(r) PROVE TypeOK'
    <2>1. requests[r].id \in Ids BY <1>13 DEF Reclaim, Addressed
    <2>2. deleted' \in Seq(Ids)
      <3>1. PICK i \in Ids : deleted' \in {deleted, Append(deleted, i)}
        BY <1>13, <2>1 DEF Reclaim, EmitDeleted
      <3>2. deleted \in Seq(Ids) /\ Append(deleted, i) \in Seq(Ids) BY AppendType
      <3> QED BY <3>1, <3>2
    <2> QED BY <1>13, <2>2, ConstantTypes DEF Reclaim
  <1>14. ASSUME NEW r \in Requests, FailStopped(r) PROVE TypeOK'
    <2> DEFINE i == requests[r].id
    <2>1. i \in Ids /\ "failed" \in Phases BY <1>14, PhaseFacts DEF FailStopped, Addressed
    <2>2. CASE ~Exists(i) BY <1>14, <2>2, ConstantTypes DEF FailStopped
    <2>3. CASE Exists(i)
      <3>1. rows' \in [Ids -> RowType] /\ Spreads(i, "failed") \in Propagations
        BY <1>14, <2>1, <2>3, WrittenType DEF FailStopped
      <3>2. [requests[r] EXCEPT !.step = "spread", !.spread = Spreads(i, "failed")]
              \in RequestType
        BY <3>1 DEF RequestType, Steps
      <3> QED BY <1>14, <2>3, <3>1, <3>2 DEF FailStopped
    <2> QED BY <2>2, <2>3
  <1>15. ASSUME NEW r \in Requests, StopRecorded(r) PROVE TypeOK'
    BY <1>15, PropagateType, ConstantTypes DEF StopRecorded, RequestType, Steps
  <1>16. ASSUME NEW p \in Pids, SupervisorBoots(p) PROVE TypeOK'
    <2> DEFINE i == procs[p].id
    <2>1. i \in Ids BY <1>16 DEF SupervisorBoots, Addressed
    <2>2. [procs[p] EXCEPT !.state = "running", !.birth = rows[i].birth] \in ProcType
      <3>1. procs[p] \in ProcType /\ rows[i].birth \in 0..MaxBirths BY <2>1 DEF RowType
      <3> QED BY <3>1, LoadedType
    <2>3. procs' \in [Pids -> ProcType] BY <1>16, <2>2, BuryType DEF SupervisorBoots
    <2> QED BY <1>16, <2>3 DEF SupervisorBoots
  <1>17. ASSUME NEW p \in Pids, NEW f \in Phases, SupervisorWrites(p, f) PROVE TypeOK'
    <2> DEFINE i == procs[p].id
    <2>1. i \in Ids BY <1>17 DEF SupervisorWrites, Addressed
    <2>2. CASE ~Exists(i) BY <1>17, <2>2, BuryType DEF SupervisorWrites
    <2>3. CASE Exists(i)
      <3>1. rows' \in [Ids -> RowType] /\ Spreads(i, f) \in Propagations
        BY <1>17, <2>1, <2>3, WrittenType DEF SupervisorWrites
      <3>2. procs[p].at \in Phases BY DEF ProcType
      <3> DEFINE at == Reached(procs[p].at, f)
      <3>3. at \in Phases /\ procs[p] \in ProcType BY <3>2 DEF Reached
      <3>4. [procs[p] EXCEPT !.at = at, !.spread = Spreads(i, f)] \in ProcType
        BY <3>1, <3>3, WritingType
      <3>5. procs' = [procs EXCEPT ![p] =
                        [procs[p] EXCEPT !.at = at, !.spread = Spreads(i, f)]]
        BY <1>17, <2>3 DEF SupervisorWrites
      <3> HIDE DEF at
      <3>6. procs' \in [Pids -> ProcType] BY <3>4, <3>5
      <3> QED BY <1>17, <2>3, <3>1, <3>6 DEF SupervisorWrites
    <2> QED BY <2>2, <2>3
  <1>18. ASSUME NEW p \in Pids, SupervisorPropagates(p) PROVE TypeOK'
    BY <1>18, PropagateType, ConstantTypes DEF SupervisorPropagates, ProcType, ProcStates
  <1>19. ASSUME NEW p \in Pids, SupervisorDeletes(p) PROVE TypeOK'
    BY <1>19, ConstantTypes DEF SupervisorDeletes, ProcType, ProcStates
  <1>20. ASSUME NEW p \in Pids, SupervisorAnnounces(p) PROVE TypeOK'
    <2>1. procs[p].id \in Ids BY <1>20 DEF SupervisorAnnounces, Addressed
    <2>2. deleted' \in Seq(Ids)
      <3>1. PICK i \in Ids : deleted' \in {deleted, Append(deleted, i)}
        BY <1>20, <2>1 DEF SupervisorAnnounces, EmitDeleted
      <3>2. deleted \in Seq(Ids) /\ Append(deleted, i) \in Seq(Ids) BY AppendType
      <3> QED BY <3>1, <3>2
    <2> QED BY <1>20, <2>2 DEF SupervisorAnnounces, ProcType, ProcStates
  <1>21. ASSUME NEW p \in Pids, SupervisorExits(p) PROVE TypeOK'
    BY <1>21, BuryType DEF SupervisorExits
  <1>22. ASSUME Sweep PROVE TypeOK'
    BY <1>22 DEF Sweep, Expired, Absent
  <1>23. ASSUME NEW i \in Ids, FailDoomed(i) PROVE TypeOK'
    BY <1>23, WrittenType, PhaseFacts DEF FailDoomed, Dropped
  <1>24. ASSUME Propagated PROVE TypeOK'
    BY <1>24, PropagateType, ConstantTypes DEF Propagated, Dropped
  <1>25. ASSUME Shutdown PROVE TypeOK'
    BY <1>25 DEF Shutdown, ProcType
  <1>26. ASSUME Restart PROVE TypeOK'
    BY <1>26, BuryType, ConstantTypes DEF Restart, Live
  <1>27. ASSUME NEW i \in Ids, FailOrphan(i) PROVE TypeOK'
    BY <1>27, WrittenType, PhaseFacts DEF FailOrphan
  <1>28. ASSUME OrphansFailed PROVE TypeOK'
    BY <1>28 DEF OrphansFailed
  <1>29. ASSUME NEW i \in Ids, RetryOrphan(i) PROVE TypeOK'
    <2>1. CASE ~Retried(i) BY <1>29, <2>1 DEF RetryOrphan
    <2>2. CASE Retried(i)
      <3>1. rows[i].autorun \in Autoruns /\ i \in 0..MaxId
        BY <2>2 DEF Retried, Wants, RowType, Owners, Ids
      <3>2. PICK j \in Ids : Spawn(j, rows[i].autorun, i) BY <1>29, <2>2 DEF RetryOrphan
      <3> QED BY <1>29, <3>1, <3>2, SpawnType DEF RetryOrphan
    <2> QED BY <2>1, <2>2
  <1>30. ASSUME Booted PROVE TypeOK'
    BY <1>30 DEF Booted
  <1>31. CASE UNCHANGED vars BY <1>31 DEF vars
  <1> QED
    BY <1>1, <1>2, <1>3, <1>4, <1>5, <1>6, <1>7, <1>8, <1>9, <1>10, <1>11, <1>12,
       <1>13, <1>14, <1>15, <1>16, <1>17, <1>18, <1>19, <1>20, <1>21, <1>22, <1>23,
       <1>24, <1>25, <1>26, <1>27, <1>28, <1>29, <1>30, <1>31 DEF Next, Time,
       Scheduler, StopTick, Handlers,
       Ask, Serve, Process, Work, Leave, Watch, Boot

\* Every step leaves the requests that run, and the processes, with an id.
LEMMA AddressedStep == TypeOK /\ Addressed /\ [Next]_vars => Addressed'
  <1> SUFFICES ASSUME TypeOK, Addressed, [Next]_vars PROVE Addressed' OBVIOUS
  <1>1. requests \in [Requests -> RequestType] /\ procs \in [Pids -> ProcType]
        /\ created \in Seq(Ids)
    BY DEF TypeOK
  <1> USE <1>1 DEF Addressed, bus, watchdog, table
  <1>2. ASSUME NEW a \in Autoruns, TimePasses(a) PROVE Addressed'
    BY <1>2 DEF TimePasses
  <1>3. ASSUME NEW a \in Autoruns, StartSlot(a) PROVE Addressed'
    BY <1>3 DEF StartSlot
  <1>4. ASSUME NEW i \in Ids, StopAtEnd(i) PROVE Addressed'
    BY <1>4 DEF StopAtEnd, TellAll, ProcType
  <1>5. ASSUME OnCreated PROVE Addressed'
    <2>1. Head(created) \in Ids BY <1>1, <1>5, HeadTailType DEF OnCreated
    <2> QED BY <1>5, <2>1, <1>1 DEF OnCreated, ProcType
  <1>6. ASSUME OnDeleted PROVE Addressed'
    BY <1>6 DEF OnDeleted, Unregister, ProcType
  <1>7. ASSUME Reaped PROVE Addressed'
    BY <1>7 DEF Reaped, Join, Bury, ProcType, Alive
  <1>8. ASSUME CreateSession PROVE Addressed'
    BY <1>8 DEF CreateSession
  <1>9. ASSUME NEW r \in Requests, NEW i \in Ids, BeginDelete(r, i) PROVE Addressed'
    <2>1. requests' = requests \/ requests' = [requests EXCEPT ![r] =
            [IdleRequest EXCEPT !.op = "delete", !.step = "delete_row", !.id = i,
                                !.birth = rows[i].birth]]
      BY <1>9 DEF BeginDelete, Begin
    <2>2. [IdleRequest EXCEPT !.op = "delete", !.step = "delete_row", !.id = i,
                              !.birth = rows[i].birth].id = i
      BY DEF IdleRequest
    <2>3. \A q \in Requests : requests'[q].step # "idle" => requests'[q].id \in Ids
      BY <1>1, <2>1, <2>2
    <2>4. \A p \in Pids : procs'[p].state # "unborn" => procs'[p].id \in Ids
      BY <1>9, TellFacts DEF BeginDelete
    <2> QED BY <2>3, <2>4
  <1>10. ASSUME NEW r \in Requests, NEW i \in Ids, BeginStop(r, i) PROVE Addressed'
    <2>1. requests' = requests \/ requests' = [requests EXCEPT ![r] =
            [IdleRequest EXCEPT !.op = "stop", !.step = "kill", !.id = i,
                                !.birth = rows[i].birth]]
      BY <1>10 DEF BeginStop, Begin
    <2>2. [IdleRequest EXCEPT !.op = "stop", !.step = "kill", !.id = i,
                              !.birth = rows[i].birth].id = i
      BY DEF IdleRequest
    <2>3. \A q \in Requests : requests'[q].step # "idle" => requests'[q].id \in Ids
      BY <1>1, <2>1, <2>2
    <2>4. \A p \in Pids : procs'[p].state # "unborn" => procs'[p].id \in Ids
      BY <1>10, TellFacts DEF BeginStop
    <2> QED BY <2>3, <2>4
  <1>11. ASSUME NEW r \in Requests, DeleteRow(r) PROVE Addressed'
    BY <1>11 DEF DeleteRow, Unregister, ProcType, RequestType
  <1>12. ASSUME NEW r \in Requests, StopUnanswered(r) PROVE Addressed'
    BY <1>12 DEF StopUnanswered, Unregister, ProcType, RequestType
  <1>13. ASSUME NEW r \in Requests, Joined(r) PROVE Addressed'
    <2>1. requests[r].step # "idle" BY <1>13 DEF Joined
    <2>2. \A q \in Requests : requests'[q].id = requests[q].id
      BY <1>1, <1>13 DEF Joined, Step, RequestType
    <2>3. \A q \in Requests : requests'[q].step # "idle" => requests[q].step # "idle"
      BY <1>1, <2>1, <1>13 DEF Joined, Step, RequestType
    <2>4. \A q \in Pids : procs'[q].state # "unborn" => procs'[q].id \in Ids
      BY <1>1, <1>13, BuryFacts DEF Joined, Join, Alive, RequestType, Pids
    <2> QED BY <2>2, <2>3, <2>4
  <1>14. ASSUME NEW r \in Requests, Reclaim(r) PROVE Addressed'
    BY <1>14 DEF Reclaim, IdleRequest
  <1>15. ASSUME NEW r \in Requests, FailStopped(r) PROVE Addressed'
    <2>1. \A q \in Requests : requests'[q].step # "idle" => requests'[q].id \in Ids
      <3>1. CASE Exists(requests[r].id)
        BY <1>1, <1>15, <3>1 DEF FailStopped, RequestType
      <3>2. CASE ~Exists(requests[r].id)
        BY <1>1, <1>15, <3>2 DEF FailStopped, IdleRequest
      <3> QED BY <3>1, <3>2
    <2>2. UNCHANGED procs BY <1>15 DEF FailStopped
    <2> QED BY <2>1, <2>2
  <1>16. ASSUME NEW r \in Requests, StopRecorded(r) PROVE Addressed'
    BY <1>16 DEF StopRecorded, IdleRequest
  <1>17. ASSUME NEW p \in Pids, SupervisorBoots(p) PROVE Addressed'
    BY <1>17 DEF SupervisorBoots, Bury, ProcType
  <1>18. ASSUME NEW p \in Pids, NEW f \in Phases, SupervisorWrites(p, f) PROVE Addressed'
    <2>1. procs[p].id \in Ids BY <1>18 DEF SupervisorWrites
    <2>2. \A q \in Pids : procs'[q].state # "unborn" => procs'[q].id \in Ids
      <3>1. CASE Exists(procs[p].id)
        BY <1>1, <2>1, <3>1, <1>18 DEF SupervisorWrites, ProcType
      <3>2. CASE ~Exists(procs[p].id)
        BY <2>1, <3>2, <1>18, BuryFacts DEF SupervisorWrites
      <3> QED BY <3>1, <3>2
    <2>3. UNCHANGED requests BY <1>18 DEF SupervisorWrites
    <2> QED BY <2>2, <2>3
  <1>19. ASSUME NEW p \in Pids, SupervisorPropagates(p) PROVE Addressed'
    BY <1>19 DEF SupervisorPropagates, ProcType
  <1>20. ASSUME NEW p \in Pids, SupervisorDeletes(p) PROVE Addressed'
    BY <1>20 DEF SupervisorDeletes, ProcType
  <1>21. ASSUME NEW p \in Pids, SupervisorAnnounces(p) PROVE Addressed'
    BY <1>21 DEF SupervisorAnnounces, ProcType
  <1>22. ASSUME NEW p \in Pids, SupervisorExits(p) PROVE Addressed'
    BY <1>22 DEF SupervisorExits, Bury, ProcType, Alive
  <1>23. ASSUME Sweep PROVE Addressed'
    BY <1>23 DEF Sweep
  <1>24. ASSUME NEW i \in Ids, FailDoomed(i) PROVE Addressed'
    BY <1>24 DEF FailDoomed
  <1>25. ASSUME Propagated PROVE Addressed'
    BY <1>25 DEF Propagated
  <1>26. ASSUME Shutdown PROVE Addressed'
    BY <1>26 DEF Shutdown, ProcType
  <1>27. ASSUME Restart PROVE Addressed'
    <2>1. \A q \in Requests : requests'[q].step = "idle"
      BY <1>27 DEF Restart, IdleRequest
    <2>2. \A q \in Pids : procs'[q].id = procs[q].id
      BY <1>1, <1>27 DEF Restart, Bury, Unborn, ProcType
    <2>3. \A q \in Pids : procs'[q].state # "unborn" => procs[q].state # "unborn"
      BY <1>1, <1>27 DEF Restart, Alive
    <2> QED BY <2>1, <2>2, <2>3
  <1>28. ASSUME NEW i \in Ids, FailOrphan(i) PROVE Addressed'
    BY <1>28 DEF FailOrphan
  <1>29. ASSUME OrphansFailed PROVE Addressed'
    BY <1>29 DEF OrphansFailed
  <1>30. ASSUME NEW i \in Ids, RetryOrphan(i) PROVE Addressed'
    BY <1>30 DEF RetryOrphan
  <1>31. ASSUME Booted PROVE Addressed'
    BY <1>31 DEF Booted
  <1>32. CASE UNCHANGED vars BY <1>32 DEF vars
  <1> QED
    BY <1>2, <1>3, <1>4, <1>5, <1>6, <1>7, <1>8, <1>9, <1>10, <1>11, <1>12, <1>13,
       <1>14, <1>15, <1>16, <1>17, <1>18, <1>19, <1>20, <1>21, <1>22, <1>23, <1>24,
       <1>25, <1>26, <1>27, <1>28, <1>29, <1>30, <1>31, <1>32 DEF Next, Time,
       Scheduler, StopTick, Handlers,
       Ask, Serve, Process, Work, Leave, Watch, Boot

\* Every variable of the session core keeps its type, for every number of ids,
\* sessions, autoruns and requests.
THEOREM TypeCorrect == Spec => []TypeOK
  <1>1. TypeOK /\ Addressed /\ [Next]_vars => (TypeOK /\ Addressed)'
    BY TypeStep, AddressedStep
  <1> QED BY <1>1, TypeInit, PTL DEF Spec

(***************************************************************************)
(* What a step does to the session table and to an autorun.                *)
(***************************************************************************)
\* A step changes the status of one row, deletes one, or inserts one where none
\* was, with a key that is not used; or it leaves the table alone.
LEMMA RowSteps ==
    ASSUME TypeOK, Addressed, [Next]_vars
    PROVE  \/ UNCHANGED rows
           \/ \E i \in Ids, f \in Phases : rows' = Written(i, f)
           \/ \E i \in Ids : rows' = [rows EXCEPT ![i] = NoRow]
           \/ \E i \in Ids, a \in Owners, tag \in 0..MaxId :
                /\ ~Exists(i)
                /\ a = NoAutorun \/ ~KeyUsed(a, tag)
                /\ Insert(i, a, tag)
  <1> DEFINE RowStep ==
        \/ UNCHANGED rows
        \/ \E i \in Ids, f \in Phases : rows' = Written(i, f)
        \/ \E i \in Ids : rows' = [rows EXCEPT ![i] = NoRow]
        \/ \E i \in Ids, a \in Owners, tag \in 0..MaxId :
             /\ ~Exists(i)
             /\ a = NoAutorun \/ ~KeyUsed(a, tag)
             /\ Insert(i, a, tag)
  <1> USE DEF table
  <1>2. ASSUME NEW a \in Autoruns, TimePasses(a) PROVE RowStep
    BY <1>2 DEF TimePasses
  <1>3. ASSUME NEW a \in Autoruns, StartSlot(a) PROVE RowStep
    <2>1. PICK i \in Ids : Spawn(i, a, 0) BY <1>3 DEF StartSlot
    <2> QED BY <2>1 DEF Spawn, NextFreeId, Owners
  <1>4. ASSUME NEW i \in Ids, StopAtEnd(i) PROVE RowStep
    BY <1>4 DEF StopAtEnd
  <1>5. ASSUME OnCreated PROVE RowStep
    BY <1>5 DEF OnCreated
  <1>6. ASSUME OnDeleted PROVE RowStep
    BY <1>6 DEF OnDeleted
  <1>7. ASSUME Reaped PROVE RowStep
    BY <1>7 DEF Reaped
  <1>8. ASSUME CreateSession PROVE RowStep
    BY <1>8 DEF CreateSession, NextFreeId, Owners
  <1>9. ASSUME NEW r \in Requests, NEW i \in Ids, BeginDelete(r, i) PROVE RowStep
    BY <1>9 DEF BeginDelete
  <1>10. ASSUME NEW r \in Requests, NEW i \in Ids, BeginStop(r, i) PROVE RowStep
    BY <1>10 DEF BeginStop
  <1>11. ASSUME NEW r \in Requests, DeleteRow(r) PROVE RowStep
    BY <1>11 DEF DeleteRow, Addressed
  <1>12. ASSUME NEW r \in Requests, StopUnanswered(r) PROVE RowStep
    BY <1>12 DEF StopUnanswered
  <1>13. ASSUME NEW r \in Requests, Joined(r) PROVE RowStep
    BY <1>13 DEF Joined
  <1>14. ASSUME NEW r \in Requests, Reclaim(r) PROVE RowStep
    BY <1>14 DEF Reclaim
  <1>15. ASSUME NEW r \in Requests, FailStopped(r) PROVE RowStep
    BY <1>15, PhaseFacts DEF FailStopped, Addressed
  <1>16. ASSUME NEW r \in Requests, StopRecorded(r) PROVE RowStep
    BY <1>16 DEF StopRecorded
  <1>17. ASSUME NEW p \in Pids, SupervisorBoots(p) PROVE RowStep
    BY <1>17 DEF SupervisorBoots
  <1>18. ASSUME NEW p \in Pids, NEW f \in Phases, SupervisorWrites(p, f) PROVE RowStep
    BY <1>18 DEF SupervisorWrites, Addressed
  <1>19. ASSUME NEW p \in Pids, SupervisorPropagates(p) PROVE RowStep
    BY <1>19 DEF SupervisorPropagates
  <1>20. ASSUME NEW p \in Pids, SupervisorDeletes(p) PROVE RowStep
    BY <1>20 DEF SupervisorDeletes, Addressed
  <1>21. ASSUME NEW p \in Pids, SupervisorAnnounces(p) PROVE RowStep
    BY <1>21 DEF SupervisorAnnounces
  <1>22. ASSUME NEW p \in Pids, SupervisorExits(p) PROVE RowStep
    BY <1>22 DEF SupervisorExits
  <1>23. ASSUME Sweep PROVE RowStep
    BY <1>23 DEF Sweep
  <1>24. ASSUME NEW i \in Ids, FailDoomed(i) PROVE RowStep
    BY <1>24, PhaseFacts DEF FailDoomed
  <1>25. ASSUME Propagated PROVE RowStep
    BY <1>25 DEF Propagated
  <1>26. ASSUME Shutdown PROVE RowStep
    BY <1>26 DEF Shutdown
  <1>27. ASSUME Restart PROVE RowStep
    BY <1>27 DEF Restart
  <1>28. ASSUME NEW i \in Ids, FailOrphan(i) PROVE RowStep
    BY <1>28, PhaseFacts DEF FailOrphan
  <1>29. ASSUME OrphansFailed PROVE RowStep
    BY <1>29 DEF OrphansFailed
  <1>30. ASSUME NEW i \in Ids, RetryOrphan(i) PROVE RowStep
    <2>1. CASE ~Retried(i) BY <1>30, <2>1 DEF RetryOrphan
    <2>2. CASE Retried(i)
      <3>1. rows[i].autorun \in Owners /\ i \in 0..MaxId
        BY <2>2 DEF TypeOK, RowType, Ids
      <3>2. PICK j \in Ids : Spawn(j, rows[i].autorun, i) BY <1>30, <2>2 DEF RetryOrphan
      <3> QED BY <3>1, <3>2 DEF Spawn, NextFreeId
    <2> QED BY <2>1, <2>2
  <1>31. ASSUME Booted PROVE RowStep
    BY <1>31 DEF Booted
  <1>32. CASE UNCHANGED vars BY <1>32 DEF vars
  <1> QED
    BY <1>2, <1>3, <1>4, <1>5, <1>6, <1>7, <1>8, <1>9, <1>10, <1>11, <1>12, <1>13,
       <1>14, <1>15, <1>16, <1>17, <1>18, <1>19, <1>20, <1>21, <1>22, <1>23, <1>24,
       <1>25, <1>26, <1>27, <1>28, <1>29, <1>30, <1>31, <1>32 DEF Next, Time,
       Scheduler, StopTick, Handlers,
       Ask, Serve, Process, Work, Leave, Watch, Boot

\* A row that keeps its birth, autorun and tag keeps its idempotency key.
LEMMA WrittenKey ==
    ASSUME TypeOK, KeyUnique, NEW i \in Ids, NEW f \in Phases, rows' = Written(i, f)
    PROVE  KeyUnique'
  <1>1. \A j \in Ids : /\ rows'[j].birth = rows[j].birth
                       /\ rows'[j].autorun = rows[j].autorun
                       /\ rows'[j].tag = rows[j].tag
    BY DEF Written, TypeOK, RowType
  <1> QED BY <1>1 DEF KeyUnique, Exists

\* A deleted row takes its key with it.
LEMMA DeletedKey ==
    ASSUME TypeOK, KeyUnique, NEW i \in Ids, rows' = [rows EXCEPT ![i] = NoRow]
    PROVE  KeyUnique'
  <1>1. rows'[i].birth = 0 BY DEF NoRow, TypeOK
  <1>2. \A j \in Ids : j # i => rows'[j] = rows[j] BY DEF TypeOK
  <1> QED BY <1>1, <1>2 DEF KeyUnique, Exists

\* A row is inserted with a key that no row has, or with none.
LEMMA InsertedKey ==
    ASSUME TypeOK, KeyUnique, NEW i \in Ids, NEW a \in Owners, NEW tag \in 0..MaxId,
           a = NoAutorun \/ ~KeyUsed(a, tag), Insert(i, a, tag)
    PROVE  KeyUnique'
  <1>1. rows'[i].autorun = a /\ rows'[i].tag = tag BY DEF Insert, TypeOK
  <1>2. \A j \in Ids : j # i => rows'[j] = rows[j] BY DEF Insert, TypeOK
  <1>3. ASSUME NEW j \in Ids, j # i, Exists(j), a # NoAutorun, rows[j].autorun = a
        PROVE  rows[j].tag # tag
    BY <1>3 DEF KeyUsed
  <1> QED BY <1>1, <1>2, <1>3 DEF KeyUnique, Exists

\* The unique index on the idempotency key of a session never raises, for any
\* number of ids, autoruns and requests (services/autorun_scheduler.py and
\* services/session_lifecycle.py look the key up in the transaction of the insert).
THEOREM KeysUnique == Spec => []KeyUnique
  <1>1. Init => KeyUnique BY DEF Init, KeyUnique, Exists, NoRow
  <1>2. TypeOK /\ Addressed /\ KeyUnique /\ [Next]_vars => KeyUnique'
    <2> SUFFICES ASSUME TypeOK, Addressed, KeyUnique, [Next]_vars PROVE KeyUnique'
      OBVIOUS
    <2>1. CASE UNCHANGED rows BY <2>1 DEF KeyUnique, Exists
    <2>2. CASE \E i \in Ids, f \in Phases : rows' = Written(i, f)
      BY <2>2, WrittenKey
    <2>3. CASE \E i \in Ids : rows' = [rows EXCEPT ![i] = NoRow]
      BY <2>3, DeletedKey
    <2>4. CASE \E i \in Ids, a \in Owners, tag \in 0..MaxId :
                 ~Exists(i) /\ (a = NoAutorun \/ ~KeyUsed(a, tag)) /\ Insert(i, a, tag)
      BY <2>4, InsertedKey
    <2> QED BY <2>1, <2>2, <2>3, <2>4, RowSteps
  <1>3. TypeOK /\ Addressed /\ [Next]_vars => (TypeOK /\ Addressed)'
    BY TypeStep, AddressedStep
  <1> QED BY <1>1, <1>2, <1>3, TypeInit, PTL DEF Spec

(***************************************************************************)
(* The slots of the autoruns.                                              *)
(***************************************************************************)
\* What a session's status makes of its autorun's is never SCHEDULED again.
LEMMA PropagateKeeps ==
    ASSUME TypeOK, NEW s \in Propagations, Propagate(s)
    PROVE  \A a \in Autoruns : autoruns'[a].status = "scheduled"
                               => autoruns[a].status = "scheduled"
  <1>1. AutorunStatus(s.phase) # "scheduled"
    BY DEF AutorunStatus, Propagations, Phases, LivePhases, FinalPhases
  <1>2. CASE Newest(s.autorun, s.id)
    BY <1>1, <1>2 DEF Propagate, TypeOK, AutorunType
  <1>3. CASE ~Newest(s.autorun, s.id) BY <1>3 DEF Propagate
  <1> QED BY <1>2, <1>3

\* A step starts no slot and makes no autorun SCHEDULED, or it starts the slot of
\* one SCHEDULED autorun and flips it.
LEMMA AutorunSteps ==
    ASSUME TypeOK, [Next]_vars
    PROVE  \/ /\ UNCHANGED started
              /\ \A a \in Autoruns : autoruns'[a].status = "scheduled"
                                     => autoruns[a].status = "scheduled"
           \/ \E a \in Autoruns :
                /\ autoruns[a].status = "scheduled"
                /\ autoruns' = [autoruns EXCEPT ![a].status = "active"]
                /\ started' = [started EXCEPT ![a] = @ + 1]
  <1> DEFINE AutorunStep ==
        \/ /\ UNCHANGED started
           /\ \A a \in Autoruns : autoruns'[a].status = "scheduled"
                                  => autoruns[a].status = "scheduled"
        \/ \E a \in Autoruns :
             /\ autoruns[a].status = "scheduled"
             /\ autoruns' = [autoruns EXCEPT ![a].status = "active"]
             /\ started' = [started EXCEPT ![a] = @ + 1]
  <1> USE DEF table
  <1>2. ASSUME NEW a \in Autoruns, TimePasses(a) PROVE AutorunStep
    BY <1>2 DEF TimePasses, TypeOK, AutorunType
  <1>3. ASSUME NEW a \in Autoruns, StartSlot(a) PROVE AutorunStep
    BY <1>3 DEF StartSlot, Spawn, TypeOK, AutorunType
  <1>4. ASSUME NEW i \in Ids, StopAtEnd(i) PROVE AutorunStep
    BY <1>4 DEF StopAtEnd
  <1>5. ASSUME OnCreated PROVE AutorunStep
    BY <1>5 DEF OnCreated
  <1>6. ASSUME OnDeleted PROVE AutorunStep
    BY <1>6 DEF OnDeleted
  <1>7. ASSUME Reaped PROVE AutorunStep
    BY <1>7 DEF Reaped
  <1>8. ASSUME CreateSession PROVE AutorunStep
    BY <1>8 DEF CreateSession
  <1>9. ASSUME NEW r \in Requests, NEW i \in Ids, BeginDelete(r, i) PROVE AutorunStep
    BY <1>9 DEF BeginDelete
  <1>10. ASSUME NEW r \in Requests, NEW i \in Ids, BeginStop(r, i) PROVE AutorunStep
    BY <1>10 DEF BeginStop
  <1>11. ASSUME NEW r \in Requests, DeleteRow(r) PROVE AutorunStep
    BY <1>11 DEF DeleteRow
  <1>12. ASSUME NEW r \in Requests, StopUnanswered(r) PROVE AutorunStep
    BY <1>12 DEF StopUnanswered
  <1>13. ASSUME NEW r \in Requests, Joined(r) PROVE AutorunStep
    BY <1>13 DEF Joined
  <1>14. ASSUME NEW r \in Requests, Reclaim(r) PROVE AutorunStep
    BY <1>14 DEF Reclaim
  <1>15. ASSUME NEW r \in Requests, FailStopped(r) PROVE AutorunStep
    BY <1>15 DEF FailStopped
  <1>16. ASSUME NEW r \in Requests, StopRecorded(r) PROVE AutorunStep
    <2>1. requests[r].spread \in Propagations BY DEF TypeOK, RequestType
    <2> QED BY <1>16, <2>1, PropagateKeeps DEF StopRecorded
  <1>17. ASSUME NEW p \in Pids, SupervisorBoots(p) PROVE AutorunStep
    BY <1>17 DEF SupervisorBoots
  <1>18. ASSUME NEW p \in Pids, NEW f \in Phases, SupervisorWrites(p, f) PROVE AutorunStep
    BY <1>18 DEF SupervisorWrites
  <1>19. ASSUME NEW p \in Pids, SupervisorPropagates(p) PROVE AutorunStep
    <2>1. procs[p].spread \in Propagations BY DEF TypeOK, ProcType
    <2> QED BY <1>19, <2>1, PropagateKeeps DEF SupervisorPropagates
  <1>20. ASSUME NEW p \in Pids, SupervisorDeletes(p) PROVE AutorunStep
    BY <1>20 DEF SupervisorDeletes
  <1>21. ASSUME NEW p \in Pids, SupervisorAnnounces(p) PROVE AutorunStep
    BY <1>21 DEF SupervisorAnnounces
  <1>22. ASSUME NEW p \in Pids, SupervisorExits(p) PROVE AutorunStep
    BY <1>22 DEF SupervisorExits
  <1>23. ASSUME Sweep PROVE AutorunStep
    BY <1>23 DEF Sweep
  <1>24. ASSUME NEW i \in Ids, FailDoomed(i) PROVE AutorunStep
    BY <1>24 DEF FailDoomed
  <1>25. ASSUME Propagated PROVE AutorunStep
    <2>1. spread \in Propagations BY DEF TypeOK
    <2> QED BY <1>25, <2>1, PropagateKeeps DEF Propagated
  <1>26. ASSUME Shutdown PROVE AutorunStep
    BY <1>26 DEF Shutdown
  <1>27. ASSUME Restart PROVE AutorunStep
    BY <1>27 DEF Restart
  <1>28. ASSUME NEW i \in Ids, FailOrphan(i) PROVE AutorunStep
    BY <1>28 DEF FailOrphan
  <1>29. ASSUME OrphansFailed PROVE AutorunStep
    BY <1>29 DEF OrphansFailed
  <1>30. ASSUME NEW i \in Ids, RetryOrphan(i) PROVE AutorunStep
    <2>1. CASE ~Retried(i) BY <1>30, <2>1 DEF RetryOrphan
    <2>2. CASE Retried(i)
      <3>1. PICK j \in Ids : Spawn(j, rows[i].autorun, i) BY <1>30, <2>2 DEF RetryOrphan
      <3> QED BY <1>30, <3>1 DEF RetryOrphan, Spawn, TypeOK, AutorunType
    <2> QED BY <2>1, <2>2
  <1>31. ASSUME Booted PROVE AutorunStep
    BY <1>31 DEF Booted
  <1>32. CASE UNCHANGED vars BY <1>32 DEF vars
  <1> QED
    BY <1>2, <1>3, <1>4, <1>5, <1>6, <1>7, <1>8, <1>9, <1>10, <1>11, <1>12, <1>13,
       <1>14, <1>15, <1>16, <1>17, <1>18, <1>19, <1>20, <1>21, <1>22, <1>23, <1>24,
       <1>25, <1>26, <1>27, <1>28, <1>29, <1>30, <1>31, <1>32 DEF Next, Time,
       Scheduler, StopTick, Handlers,
       Ask, Serve, Process, Work, Leave, Watch, Boot

\* An autorun that is SCHEDULED has not started its slot yet, and none started
\* twice.
SlotOpen == \A a \in Autoruns : /\ autoruns[a].status = "scheduled" => started[a] = 0
                                /\ started[a] <= 1

\* A slot starts at most one session, whatever is deleted, crashes or is retried
\* in between (_start_due): the flip is in the transaction of the insert, and no
\* status a session propagates makes the autorun SCHEDULED again.
THEOREM SlotsOnce == Spec => []SlotOnce
  <1>1. Init => SlotOpen BY DEF Init, SlotOpen
  <1>2. TypeOK /\ SlotOpen /\ [Next]_vars => SlotOpen'
    <2> SUFFICES ASSUME TypeOK, SlotOpen, [Next]_vars PROVE SlotOpen' OBVIOUS
    <2>1. started \in [Autoruns -> Nat] /\ autoruns \in [Autoruns -> AutorunType]
      BY DEF TypeOK
    <2>2. CASE /\ UNCHANGED started
               /\ \A a \in Autoruns : autoruns'[a].status = "scheduled"
                                      => autoruns[a].status = "scheduled"
      BY <2>2 DEF SlotOpen
    <2>3. ASSUME NEW a \in Autoruns, autoruns[a].status = "scheduled",
                 autoruns' = [autoruns EXCEPT ![a].status = "active"],
                 started' = [started EXCEPT ![a] = @ + 1]
          PROVE  SlotOpen'
      <3>1. started'[a] = 1 /\ autoruns'[a].status = "active"
        BY <2>1, <2>3 DEF SlotOpen, AutorunType
      <3>2. \A b \in Autoruns : b # a => started'[b] = started[b]
                                         /\ autoruns'[b] = autoruns[b]
        BY <2>1, <2>3
      <3> QED BY <3>1, <3>2 DEF SlotOpen
    <2> QED BY <2>2, <2>3, AutorunSteps
  <1>3. SlotOpen => SlotOnce BY DEF SlotOpen, SlotOnce
  <1> QED BY <1>1, <1>2, <1>3, TypeCorrect, PTL DEF Spec

(***************************************************************************)
(* The registry of supervisors, with sessions that are deleted and ids     *)
(* that are recycled (RecyclingSpec): a step that drops the entry of a     *)
(* process that lives tells it to stop, and the watchdog, which tells      *)
(* nobody, drops the entries of the dead.                                  *)
(***************************************************************************)
Spawned(p)  == procs[p].state # "unborn"
Announced(i) == \E n \in DOMAIN created : created[n] = i

\* What the watchdog may fail: what has no supervisor, and none on its way.
Doomable(i) == ~Registered(i) /\ ~Announced(i)

KnownInv ==
    /\ DriversKnown
    /\ \A i \in Ids : registry[i] # 0 => Spawned(registry[i])
    /\ \A i \in doomed : Doomable(i)

\* A step that announces and spawns nothing: processes only end or are told to
\* stop, and the entry of one that was not told stays.
Calm ==
    /\ created' \in {created, <<>>}
    /\ \A p \in Pids :
         /\ procs'[p].id = procs[p].id
         /\ Spawned(p)' <=> Spawned(p)
         /\ Alive(p)' => Alive(p) /\ (procs[p].told => procs'[p].told)
         /\ Alive(p)' /\ ~procs'[p].told =>
              registry'[procs[p].id] = registry[procs[p].id]
    /\ \A i \in Ids : registry'[i] \in {registry[i], 0}
    /\ \A i \in doomed' : Doomable(i)

LEMMA CalmKeeps ==
    ASSUME TypeOK, TypeOK', Addressed, KnownInv, Calm
    PROVE  KnownInv'
<1>1. \A p \in Pids : Spawned(p) => procs[p].id \in Ids
  BY DEF Addressed, Spawned
<1>2. \A p \in Pids : Alive(p) => Spawned(p)
  BY DEF Alive, Spawned
<1>3. \A i \in Ids : Announced(i)' => Announced(i)
  BY DEF Calm, Announced
<1>4. \A i \in Ids : Registered(i)' => Registered(i)
  <2>1. registry \in [Ids -> 0 .. MaxBirths] /\ registry' \in [Ids -> 0 .. MaxBirths]
    BY DEF TypeOK
  <2> QED BY <2>1, CoreAssumption DEF Calm, Registered, Pids
<1>5. DriversKnown'
  BY <1>1, <1>2 DEF Calm, KnownInv, DriversKnown
<1>6. \A i \in doomed' : Doomable(i)'
  <2>1. doomed' \subseteq Ids
    BY DEF TypeOK
  <2> QED BY <1>3, <1>4, <2>1 DEF Calm, Doomable
<1>7. \A i \in Ids : registry'[i] # 0 => Spawned(registry[i])'
  <2>1. \A i \in Ids : registry'[i] # 0 => registry'[i] = registry[i] /\ registry[i] \in Pids
    BY CoreAssumption DEF Calm, Pids, TypeOK
  <2> QED BY <2>1 DEF Calm, KnownInv, Spawned
<1> QED BY <1>5, <1>6, <1>7 DEF KnownInv

LEMMA KnownInit == Init => KnownInv
  BY DEF Init, KnownInv, Spawned, Unborn, DriversKnown, Alive

\* A session that is inserted, announced or not, under an id that is not doomed.
LEMMA BirthKeeps ==
    ASSUME TypeOK, KnownInv, NEW i \in Ids, i \notin doomed, EmitCreated(i),
           UNCHANGED <<procs, registry, doomed>>
    PROVE  KnownInv'
<1>1. created \in Seq(Ids) /\ doomed \subseteq Ids
  BY DEF TypeOK
<1>2. \A j \in Ids : Announced(j)' => Announced(j) \/ j = i
  BY <1>1 DEF EmitCreated, Announced
<1>3. \A j \in doomed' : Doomable(j)'
  BY <1>1, <1>2 DEF KnownInv, Doomable, Registered, Alive
<1> QED BY <1>3 DEF KnownInv, DriversKnown, Spawned, Alive

\* A birth gives its id a birth it did not have.
LEMMA BirthUndoomed ==
    ASSUME TypeOK, NEW i \in Ids, NEW a, NEW tag, ~Exists(i), Insert(i, a, tag), Undoomed
    PROVE  i \notin doomed
<1>1. rows'[i].birth = births + 1 /\ births \in Nat /\ rows[i].birth = 0
  BY DEF TypeOK, Insert, Exists, RowType
<1> QED BY <1>1 DEF Undoomed

\* The handler of SESSION_CREATED spawns where the registry names no living process.
LEMMA OnCreatedKeeps ==
    ASSUME TypeOK, TypeOK', Addressed, KnownInv, OnCreated
    PROVE  KnownInv'
<1> DEFINE i == Head(created)
<1>1. /\ created \in Seq(Ids) /\ created # <<>> /\ created' = Tail(created)
      /\ UNCHANGED doomed
      /\ procs \in [Pids -> ProcType] /\ registry \in [Ids -> 0 .. MaxBirths]
      /\ doomed \subseteq Ids
  BY DEF OnCreated, TypeOK, watchdog
<1>2. i \in Ids /\ created[1] = i /\ 1 \in DOMAIN created
  BY <1>1
<1>3. \A n \in DOMAIN created' : n + 1 \in DOMAIN created /\ created'[n] = created[n + 1]
  BY <1>1
<1>4. Announced(i) /\ \A j \in Ids : Announced(j)' => Announced(j)
  BY <1>1, <1>2, <1>3 DEF Announced
<1>5. \A j \in doomed : j \in Ids /\ j # i /\ Doomable(j)
  BY <1>1, <1>4 DEF KnownInv, Doomable
<1> HIDE DEF i
<1>6. CASE UNCHANGED <<procs, registry>>
  BY <1>1, <1>4, <1>5, <1>6 DEF KnownInv, Spawned, DriversKnown, Alive, Doomable, Registered
<1>7. ASSUME NEW p \in Pids, ~Registered(i), procs[p] = Unborn,
             procs' = [procs EXCEPT ![p] = [procs[p] EXCEPT !.id = i, !.state = "booting"]],
             registry' = [registry EXCEPT ![i] = p]
      PROVE  KnownInv'
  <2>1. /\ procs'[p].id = i /\ procs'[p].state = "booting"
        /\ \A q \in Pids : q # p => procs'[q] = procs[q]
        /\ procs[p].state = "unborn"
    BY <1>1, <1>7 DEF Unborn, ProcType
  <2>2. \A q \in Pids : Spawned(q)' <=> Spawned(q) \/ q = p
    BY <2>1 DEF Spawned
  <2>3. registry'[i] = p /\ \A j \in Ids : j # i => registry'[j] = registry[j]
    BY <1>1, <1>2, <1>7
  <2>4. DriversKnown'
    <3> SUFFICES ASSUME NEW q \in Pids, Alive(q)', ~procs'[q].told, q # p
                 PROVE  registry'[procs'[q].id] = q
      BY <2>1, <2>3 DEF DriversKnown
    <3>1. Alive(q) /\ ~procs[q].told /\ procs'[q].id = procs[q].id /\ procs[q].id \in Ids
      BY <2>1 DEF Alive, Addressed
    <3>2. registry[procs[q].id] = q
      BY <3>1 DEF KnownInv, DriversKnown
    <3>3. procs[q].id # i
      <4>1. q # 0
        BY DEF Pids
      <4> QED BY <1>7, <3>1, <3>2, <4>1 DEF Registered
    <3> QED BY <2>3, <3>1, <3>2, <3>3
  <2>5. \A j \in doomed' : Doomable(j)'
    <3> SUFFICES ASSUME NEW j \in doomed PROVE Doomable(j)'
      BY <1>1
    <3>1. registry'[j] = registry[j] /\ registry[j] # p
      <4>1. p # 0
        BY DEF Pids
      <4> QED BY <1>5, <2>1, <2>3, <4>1 DEF KnownInv, Spawned
    <3> QED BY <1>1, <1>4, <1>5, <2>1, <3>1 DEF Doomable, Registered, Alive, Pids
  <2>6. \A j \in Ids : registry'[j] # 0 => Spawned(registry[j])'
    <3>1. \A j \in Ids : registry'[j] # 0 => registry'[j] \in Pids
      BY CoreAssumption DEF TypeOK, Pids
    <3> QED BY <2>1, <2>2, <2>3, <3>1 DEF KnownInv, Spawned
  <2> QED BY <2>4, <2>5, <2>6 DEF KnownInv
<1>8. \/ UNCHANGED <<procs, registry>>
      \/ \E p \in Pids :
           /\ ~Registered(i) /\ procs[p] = Unborn
           /\ procs' = [procs EXCEPT ![p] = [procs[p] EXCEPT !.id = i, !.state = "booting"]]
           /\ registry' = [registry EXCEPT ![i] = p]
  BY DEF OnCreated, i
<1> QED BY <1>6, <1>7, <1>8

\* A process that ends, or is told to stop, is all that a step changes of them.
LEMMA EndedCalm ==
    ASSUME TypeOK, NEW p \in Pids, Alive(p), procs' = Bury(p)
    PROVE  \A q \in Pids :
             /\ procs'[q].id = procs[q].id
             /\ Spawned(q)' <=> Spawned(q)
             /\ Alive(q)' => Alive(q) /\ procs'[q] = procs[q]
  BY BuryFacts DEF Spawned, Alive

\* The registry's entry goes, and its process is told.
LEMMA UnregisterCalm ==
    ASSUME TypeOK, Addressed, KnownInv, NEW i \in Ids, Unregister(i)
    PROVE  /\ \A p \in Pids :
                /\ procs'[p].id = procs[p].id
                /\ Spawned(p)' <=> Spawned(p)
                /\ Alive(p)' => Alive(p) /\ (procs[p].told => procs'[p].told)
                /\ Alive(p)' /\ ~procs'[p].told =>
                     registry'[procs[p].id] = registry[procs[p].id]
           /\ \A j \in Ids : registry'[j] \in {registry[j], 0}
<1>1. procs \in [Pids -> ProcType] /\ registry \in [Ids -> 0 .. MaxBirths]
  BY DEF TypeOK
<1>2. \A p \in Pids : Alive(p) => procs[p].id \in Ids
  BY DEF Alive, Addressed
<1>3. registry' = [registry EXCEPT ![i] = 0]
  BY DEF Unregister
<1>4. \A j \in Ids : registry'[j] = IF j = i THEN 0 ELSE registry[j]
  BY <1>1, <1>3
<1>5. \A p \in Pids : /\ procs'[p].id = procs[p].id
                      /\ procs'[p].state = procs[p].state
                      /\ procs[p].told => procs'[p].told
                      /\ Registered(i) /\ registry[i] = p => procs'[p].told
  BY <1>1 DEF Unregister, ProcType
<1>6. \A p \in Pids : Spawned(p)' <=> Spawned(p)
  BY <1>5 DEF Spawned
<1>7. \A p \in Pids : Alive(p)' <=> Alive(p)
  BY <1>5 DEF Alive
<1>8. ASSUME NEW p \in Pids, Alive(p), ~procs'[p].told
      PROVE  procs[p].id # i
  <2>1. ~procs[p].told /\ registry[procs[p].id] = p
    BY <1>5, <1>8 DEF KnownInv, DriversKnown
  <2>2. p # 0
    BY DEF Pids
  <2> QED BY <1>5, <1>8, <2>1, <2>2 DEF Registered
<1> QED BY <1>2, <1>4, <1>5, <1>6, <1>7, <1>8

\* The steps that neither start a session nor handle its announcement.
Others ==
    \/ Time \/ StopTick \/ OnDeleted \/ Reaped
    \/ \E r \in Requests : Ask(r) \/ Serve(r)
    \/ \E p \in Pids : Process(p)
    \/ \E i \in Ids : FailOrphan(i)
    \/ OrphansFailed \/ Booted \/ Watch \/ Propagated \/ Shutdown \/ Restart

LEMMA CalmSteps ==
    ASSUME TypeOK, Addressed, KnownInv, Others
    PROVE  Calm
<1>0. /\ procs \in [Pids -> ProcType] /\ registry \in [Ids -> 0 .. MaxBirths]
      /\ requests \in [Requests -> RequestType] /\ doomed \subseteq Ids
      /\ \A i \in doomed : Doomable(i)
  BY DEF TypeOK, KnownInv
<1> USE DEF bus, watchdog
\* Steps that leave processes and registry alone.
<1>1. ASSUME UNCHANGED <<created, procs, registry>>, \A i \in doomed' : Doomable(i)
      PROVE  Calm
  BY <1>1 DEF Calm, Spawned, Alive
<1>2. ASSUME NEW a \in Autoruns, TimePasses(a) PROVE Calm
  BY <1>0, <1>1, <1>2 DEF TimePasses
\* Steps that tell processes to stop.
<1>3. ASSUME NEW i \in Ids, TellAll(i), UNCHANGED <<created, registry, doomed>>
      PROVE  Calm
  BY <1>0, <1>3, TellFacts DEF Calm, Spawned, Alive
<1>4. CASE OnDeleted
  <2>1. Head(deleted) \in Ids
    BY <1>4, HeadTailType DEF OnDeleted, TypeOK
  <2> QED BY <1>0, <1>4, <2>1, UnregisterCalm DEF OnDeleted, Calm
<1>5. ASSUME NEW p \in Pids, Join(p), UNCHANGED <<created, registry, doomed>>
      PROVE  Calm
  BY <1>0, <1>5, EndedCalm DEF Join, Calm, Spawned, Alive
<1>6. CASE Reaped
  <2>1. reaping \in Pids
    BY <1>6, CoreAssumption DEF Reaped, TypeOK, Pids
  <2> QED BY <1>0, <1>5, <1>6, <2>1 DEF Reaped
<1>7. ASSUME NEW r \in Requests, Serve(r) PROVE Calm
  <2>1. CASE DeleteRow(r) \/ StopUnanswered(r)
    <3>1. requests[r].id \in Ids
      BY <2>1 DEF DeleteRow, StopUnanswered, Addressed
    <3> QED BY <1>0, <2>1, <3>1, UnregisterCalm DEF DeleteRow, StopUnanswered, Calm
  <2>2. CASE Joined(r)
    <3>1. CASE requests[r].pid = 0
      BY <1>0, <1>1, <2>2, <3>1 DEF Joined
    <3>2. CASE requests[r].pid # 0
      <4>1. requests[r].pid \in Pids
        BY <1>0, <3>2, CoreAssumption DEF RequestType, Pids
      <4> QED BY <1>0, <1>5, <2>2, <3>2, <4>1 DEF Joined
    <3> QED BY <3>1, <3>2
  <2>3. CASE Reclaim(r) \/ StopRecorded(r) \/ FailStopped(r)
    BY <1>0, <1>1, <2>3 DEF Reclaim, StopRecorded, FailStopped
  <2> QED BY <1>7, <2>1, <2>2, <2>3 DEF Serve
<1>8. ASSUME NEW r \in Requests, NEW i \in Ids, BeginDelete(r, i) \/ BeginStop(r, i)
      PROVE  Calm
  <2>1. (TellAll(i) \/ UNCHANGED procs) /\ UNCHANGED <<created, registry, doomed>>
    BY <1>8 DEF BeginDelete, BeginStop
  <2> QED BY <1>0, <1>1, <1>3, <2>1
\* Steps of one process.
<1>9. ASSUME NEW p \in Pids, Alive(p), procs' = Bury(p),
             UNCHANGED <<created, registry, doomed>>
      PROVE  Calm
  BY <1>0, <1>9, EndedCalm DEF Calm
<1>10. ASSUME NEW p \in Pids, Alive(p), procs'[p].id = procs[p].id,
              procs'[p].told = procs[p].told, Alive(p)',
              \A q \in Pids : q # p => procs'[q] = procs[q],
              UNCHANGED <<created, registry, doomed>>
       PROVE  Calm
  BY <1>0, <1>10 DEF Calm, Spawned, Alive
<1>11. ASSUME NEW p \in Pids, SupervisorExits(p) PROVE Calm
  BY <1>9, <1>11 DEF SupervisorExits
<1>12. ASSUME NEW p \in Pids, SupervisorBoots(p) PROVE Calm
  BY <1>0, <1>9, <1>10, <1>12 DEF SupervisorBoots, Alive, ProcType
<1>13. ASSUME NEW p \in Pids, NEW f \in Phases, SupervisorWrites(p, f) PROVE Calm
  BY <1>0, <1>9, <1>10, <1>13 DEF SupervisorWrites, Alive, ProcType
<1>14. ASSUME NEW p \in Pids, \/ SupervisorPropagates(p) \/ SupervisorDeletes(p)
                             \/ SupervisorAnnounces(p)
       PROVE  Calm
  BY <1>0, <1>10, <1>14
  DEF SupervisorPropagates, SupervisorDeletes, SupervisorAnnounces, Alive, ProcType
\* The watchdog drops the entries of the dead.
<1>15. ASSUME NEW ids \in SUBSET Ids, \A i \in ids : ~Registered(i),
              UNCHANGED <<procs, created>>,
              \A i \in Ids : registry'[i] \in {registry[i], 0},
              \A i \in Ids \ ids : registry'[i] = registry[i],
              \A i \in doomed' : Doomable(i)
       PROVE  Calm
  <2>1. ASSUME NEW p \in Pids, Alive(p), ~procs[p].told
        PROVE  procs[p].id \in Ids \ ids
    <3>1. procs[p].id \in Ids /\ registry[procs[p].id] = p
      BY <2>1 DEF Alive, Addressed, KnownInv, DriversKnown
    <3>2. p # 0
      BY DEF Pids
    <3> QED BY <1>15, <2>1, <3>1, <3>2 DEF Registered
  <2> QED BY <1>0, <1>15, <2>1 DEF Calm, Spawned, Alive
<1>16. CASE Sweep
  <2> DEFINE ids == {i \in Ids : ~Registered(i)}
  <2>1. \A i \in Expired : i \in Ids /\ Doomable(i) /\ i \in ids
    BY DEF Expired, Absent, Doomable, Announced
  <2>2. \A i \in Ids : registry'[i] = IF (~Live(i) /\ ~Registered(i)) \/ i \in NextOf(Expired)
                                     THEN 0 ELSE registry[i]
    BY <1>16 DEF Sweep
  <2>3. \A i \in Ids \ ids : registry'[i] = registry[i]
    BY <2>1, <2>2 DEF NextOf
  <2>4. UNCHANGED <<procs, created>> /\ doomed' = Expired
    BY <1>16 DEF Sweep
  <2> QED BY <1>15, <2>1, <2>2, <2>3, <2>4
<1>17. ASSUME NEW i \in Ids, FailDoomed(i) PROVE Calm
  <2>1. doomed' \subseteq doomed /\ UNCHANGED <<procs, created>>
    BY <1>17 DEF FailDoomed
  <2>2. \A j \in Ids : registry'[j] \in {registry[j], 0}
                      /\ (j \notin doomed' => registry'[j] = registry[j])
    BY <1>0, <1>17 DEF FailDoomed, Dropped, NextOf
  <2>3. \A j \in doomed' : j \in Ids /\ Doomable(j) /\ ~Registered(j)
    BY <1>0, <2>1 DEF Doomable
  <2> QED BY <1>15, <2>1, <2>2, <2>3
<1>18. CASE Propagated
  <2>1. \A j \in Ids : registry'[j] \in {registry[j], 0}
                      /\ (j \notin doomed => registry'[j] = registry[j])
    BY <1>18 DEF Propagated, Dropped, NextOf
  <2>2. \A j \in doomed : j \in Ids /\ ~Registered(j)
    BY <1>0 DEF Doomable
  <2> QED BY <1>0, <1>15, <1>18, <2>1, <2>2 DEF Propagated
<1>19. CASE Shutdown
  <2>1. \A p \in Pids : /\ procs'[p].id = procs[p].id
                        /\ procs'[p].state = procs[p].state
                        /\ procs[p].told => procs'[p].told
    BY <1>0, <1>19 DEF Shutdown, ProcType
  <2> QED BY <1>0, <1>19, <2>1 DEF Shutdown, Calm, Spawned, Alive
<1>20. CASE Restart
  <2>1. \A p \in Pids : /\ procs'[p].id = procs[p].id
                        /\ Spawned(p)' <=> Spawned(p)
                        /\ ~Alive(p)'
    <3>1. \A p \in Pids : procs'[p] = IF Alive(p) THEN Bury(p)[p] ELSE procs[p]
      BY <1>20 DEF Restart
    <3> QED BY <3>1, BuryFacts DEF Spawned, Alive
  <2>2. created' = <<>> /\ doomed' = {} /\ \A i \in Ids : registry'[i] = 0
    BY <1>20 DEF Restart
  <2> QED BY <2>1, <2>2 DEF Calm
<1>21. ASSUME NEW i \in Ids, FailOrphan(i) PROVE Calm
  BY <1>0, <1>1, <1>21 DEF FailOrphan
<1>22. CASE OrphansFailed \/ Booted
  BY <1>0, <1>1, <1>22 DEF OrphansFailed, Booted
<1>23. CASE StopTick
  BY <1>3, <1>23 DEF StopTick, StopAtEnd
<1> QED
  BY <1>2, <1>4, <1>6, <1>7, <1>8, <1>11, <1>12, <1>13, <1>14, <1>16, <1>17, <1>18,
     <1>19, <1>20, <1>21, <1>22, <1>23
  DEF Others, Time, Ask, Process, Work, Leave, Watch

LEMMA KnownStep ==
    TypeOK /\ Addressed /\ KnownInv /\ [Next /\ Undoomed]_vars
      => (TypeOK /\ Addressed /\ KnownInv)'
<1> SUFFICES ASSUME TypeOK, Addressed, KnownInv, [Next /\ Undoomed]_vars
             PROVE  (TypeOK /\ Addressed /\ KnownInv)'
  OBVIOUS
<1>1. TypeOK' /\ Addressed'
  BY TypeStep, AddressedStep
<1>2. CASE UNCHANGED vars
  <2>1. Calm
    BY <1>2 DEF vars, bus, watchdog, KnownInv, Calm, Spawned, Alive
  <2> QED BY <1>1, <2>1, CalmKeeps
<1>3. ASSUME NEW a \in Autoruns, StartSlot(a), Undoomed PROVE KnownInv'
  <2>1. PICK i \in Ids : Spawn(i, a, 0)
    BY <1>3 DEF StartSlot
  <2>2. /\ ~Exists(i) /\ Insert(i, a, 0) /\ EmitCreated(i)
        /\ UNCHANGED <<procs, registry, doomed>>
    BY <1>3, <2>1 DEF StartSlot, Spawn, NextFreeId, watchdog
  <2> QED BY <1>3, <2>2, BirthUndoomed, BirthKeeps
<1>4. ASSUME CreateSession, Undoomed PROVE KnownInv'
  <2>1. PICK i \in Ids : NextFreeId(i) /\ Insert(i, NoAutorun, 0) /\ EmitCreated(i)
    BY <1>4 DEF CreateSession
  <2>2. ~Exists(i) /\ UNCHANGED <<procs, registry, doomed>>
    BY <1>4, <2>1 DEF CreateSession, NextFreeId, watchdog
  <2> QED BY <1>4, <2>1, <2>2, BirthUndoomed, BirthKeeps
<1>5. CASE OnCreated
  BY <1>1, <1>5, OnCreatedKeeps
<1>6. ASSUME NEW i \in Ids, RetryOrphan(i), Undoomed PROVE KnownInv'
  <2>1. CASE Retried(i)
    <3>1. PICK j \in Ids : Spawn(j, rows[i].autorun, i)
      BY <1>6, <2>1 DEF RetryOrphan
    <3>2. /\ ~Exists(j) /\ Insert(j, rows[i].autorun, i) /\ EmitCreated(j)
          /\ UNCHANGED <<procs, registry, doomed>>
      BY <1>6, <3>1 DEF RetryOrphan, Spawn, NextFreeId, watchdog
    <3> QED BY <1>6, <3>2, BirthUndoomed, BirthKeeps
  <2>2. CASE ~Retried(i)
    BY <1>6, <2>2
    DEF RetryOrphan, watchdog, KnownInv, Announced, Spawned, DriversKnown, Alive,
        Doomable, Registered
  <2> QED BY <2>1, <2>2
<1>7. CASE Calm
  BY <1>1, <1>7, CalmKeeps
<1> QED
  BY <1>1, <1>2, <1>3, <1>4, <1>5, <1>6, <1>7, CalmSteps
  DEF Others, Next, Scheduler, Handlers, Boot, Watch

LEMMA KnownInvariance == RecyclingSpec => [](TypeOK /\ Addressed /\ KnownInv)
  BY TypeInit, KnownInit, KnownStep, PTL DEF RecyclingSpec

\* Whatever is announced twice, deleted, recycled, crashes or is retried, the registry
\* names every supervisor that lives and that nobody told to stop, so there is one of
\* an id (_spawn_supervisor, _kill_supervisor); sessions do not get doomed ids.
THEOREM DriversAreKnown == RecyclingSpec => []DriversKnown
<1>1. KnownInv => DriversKnown
  BY DEF KnownInv
<1> QED BY <1>1, KnownInvariance, PTL

\* The liveness watchdog never fails the row of a session whose supervisor runs:
\* between its sweep and its write no process is spawned for the row.
THEOREM WatchdogIsRight == RecyclingSpec => WatchdogFailsDead
<1>1. TypeOK /\ Addressed /\ KnownInv =>
        [\A i \in Ids : FailDoomed(i) /\ Exists(i) => ~Registered(i)]_vars
  BY DEF KnownInv, Doomable, FailDoomed, NextOf
<1> QED BY <1>1, KnownInvariance, PTL DEF WatchdogFailsDead
===============================================================================
