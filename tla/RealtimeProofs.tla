---------------------------- MODULE RealtimeProofs ----------------------------
(***************************************************************************)
(* The safety properties of RealtimeSockets for every budget and any       *)
(* number of closes that await a refresh.  Each method of the manager has  *)
(* a lemma: what it makes of a sound manager is sound.  The refresh runs   *)
(* one continuation per waiting close, so its lemma is by induction.       *)
(***************************************************************************)
EXTENDS RealtimeSockets, Induction


\* What every method keeps: no socket after a stop or for the wrong person, an
\* "open" stream is open, and the fallback is not announced beside one.
Opened(s) == s.sockets["events"] \in {"accepted", "live"}
Sound(s) ==
    /\ s \in Manager
    /\ ~s.running => s.sockets = Both("none") /\ ~s.fallback
    /\ ~s.want => s.sockets["notifications"] = "none"
    /\ s.fallback => ~Opened(s)
Honest(s) == s.view["events"] = "open" => Opened(s)
Shows(s)  == s.shown = [events |-> s.view["events"], fallback |-> s.fallback]
Fine(s)   == Sound(s) /\ Honest(s) /\ Shows(s)

\* Something other than a refresh, or d, answers for an events stream that is down.
Held(s, d) == s.running /\ s.ctor # "none" /\ s.sockets["events"] = "none" =>
              s.timers["events"] \/ s.fallback \/ "events" \in s.lost \/ d

Inv == Fine(m) /\ EventsTracked /\ TypeOK

\* What most methods leave alone; and what Schedule and the counters too.
Same(r, s) == /\ r.running = s.running /\ r.want = s.want /\ r.ctor = s.ctor
              /\ r.lost = s.lost /\ r.sockets = s.sockets
Alike(r, s) == /\ r \in Manager /\ Same(r, s)
               /\ r.fallback = s.fallback /\ r.timers = s.timers

LEMMA InvImplies == Inv => SocketsInOrder /\ NeverFlattered
  BY DEF Inv, Fine, Sound, Honest, Shows, Opened, SocketsInOrder, NeverFlattered,
         StoppedIsSilent, PrincipalRespected, Pill, Banner, Heard

(***************************************************************************)
(* The small updates                                                       *)
(***************************************************************************)
LEMMA SeeFacts ==
    ASSUME NEW s \in Manager, NEW k \in Kinds, NEW v \in Views
    PROVE  /\ Alike(See(s, k, v), s) /\ See(s, k, v).shown = s.shown
           /\ See(s, k, v).view = [s.view EXCEPT ![k] = v]
           /\ See(s, k, v).attempts = s.attempts
<1>1. See(s, k, v) \in Manager
  BY DEF See, Manager
<1> QED BY <1>1 DEF See, Manager, Alike, Same

LEMMA FailedFacts ==
    ASSUME NEW s \in Manager
    PROVE  /\ Alike(Failed(s), s) /\ Failed(s).shown = s.shown
           /\ Failed(s).view = s.view
<1>1. Failed(s) \in Manager
  BY BudgetAssumption DEF Failed, Manager
<1> QED BY <1>1 DEF Failed, Manager, Alike, Same

LEMMA EmitFacts ==
    ASSUME NEW s \in Manager
    PROVE  /\ Alike(Emit[s], s) /\ Shows(Emit[s]) /\ Emit[s].view = s.view
           /\ Emit[s].attempts = s.attempts
<1>1. Emit[s] = [s EXCEPT !.shown = [events |-> s.view["events"],
                                     fallback |-> s.fallback]]
  BY DEF Emit
<1>2. Emit[s] \in Manager
  BY <1>1 DEF Manager, Kinds
<1> QED BY <1>1, <1>2 DEF Manager, Alike, Same, Shows

LEMMA ScheduleFacts ==
    ASSUME NEW s \in Manager, NEW k \in Kinds
    PROVE  /\ Schedule(s, k) \in Manager /\ Same(Schedule(s, k), s)
           /\ Schedule(s, k).fallback = s.fallback
           /\ Schedule(s, k).shown = s.shown /\ Schedule(s, k).view = s.view
           /\ Schedule(s, k).timers = [s.timers EXCEPT ![k] = TRUE]
<1>1. Schedule(s, k) \in Manager
  BY DEF Schedule, Manager
<1> QED BY <1>1 DEF Schedule, Manager, Same

LEMMA ForgivenFacts ==
    ASSUME NEW s \in Manager
    PROVE  /\ Forgiven(s) \in Manager /\ Same(Forgiven(s), s)
           /\ ~Forgiven(s).fallback /\ Forgiven(s).view = s.view
           /\ Forgiven(s).shown = s.shown
<1>1. 0 \in 0 .. MaxAttempts
  BY BudgetAssumption
<1>2. Forgiven(s) \in Manager
  BY <1>1 DEF Forgiven, Manager
<1> QED BY <1>2 DEF Forgiven, Manager, Same

LEMMA CloseFacts ==
    ASSUME NEW s \in Manager, NEW k \in Kinds
    PROVE  LET r == CloseSocket(s, k)
           IN  /\ r \in Manager /\ r.sockets = [s.sockets EXCEPT ![k] = "none"]
               /\ r.running = s.running /\ r.want = s.want /\ r.ctor = s.ctor
               /\ r.lost = s.lost /\ r.timers = s.timers /\ r.fallback = s.fallback
               /\ r.shown = s.shown /\ r.view = s.view
<1>1. CloseSocket(s, k) \in Manager
  BY DEF CloseSocket, Manager
<1> QED BY <1>1 DEF CloseSocket, Manager

\* Soundness reads the switches and the sockets only.
LEMMA SoundCarries ==
    ASSUME NEW s, NEW r, Sound(s), r \in Manager, Same(r, s), r.fallback => s.fallback
    PROVE  Sound(r)
  BY DEF Sound, Same, Opened
LEMMA HeldCarries ==
    ASSUME NEW d, NEW s, NEW r, Held(s, d), Same(r, s), s.fallback => r.fallback,
           s.timers["events"] => r.timers["events"]
    PROVE  Held(r, d)
  BY DEF Held, Same

(***************************************************************************)
(* The methods of the manager                                              *)
(***************************************************************************)

\* An ordinary close of one socket.
LEMMA HandleCloseFacts ==
    ASSUME NEW d, NEW s, NEW k \in Kinds, Sound(s), s.running, s.sockets[k] = "none",
           k = "notifications" => Honest(s) /\ Held(s, d)
    PROVE  /\ Fine(HandleClose(s, k)) /\ Held(HandleClose(s, k), d)
           /\ Same(HandleClose(s, k), s)
<1> DEFINE closed == [See(s, k, "closed") EXCEPT !.authRetries = 0]
           failed == Failed(closed)
           seen   == See(failed, k, "reconnecting")
           polls  == [failed EXCEPT !.fallback = TRUE,
                   !.view = [events |-> "polling",
                             notifications |->
                                 IF failed.sockets["notifications"] # "none" THEN "open"
                                 ELSE IF failed.want THEN "closed" ELSE "skipped"],
                   !.timers[k] = FALSE]
<1>1. s \in Manager /\ {"closed", "reconnecting"} \subseteq Views
  BY DEF Sound, Views
<1>2. HandleClose(s, k) =
        IF k = "notifications" /\ s.sockets["events"] # "none"
        THEN Schedule(Emit[closed], k)
        ELSE IF failed.attempts >= MaxAttempts THEN Emit[polls]
        ELSE Schedule(Emit[seen], k)
  BY <1>1 DEF HandleClose, FallBack
<1>3. Alike(closed, s) /\ closed.view = [s.view EXCEPT ![k] = "closed"]
  <2>1. /\ Alike(See(s, k, "closed"), s)
        /\ See(s, k, "closed").view = [s.view EXCEPT ![k] = "closed"]
    BY <1>1, SeeFacts
  <2> HIDE DEF closed
  <2>2. closed = [See(s, k, "closed") EXCEPT !.authRetries = 0]
    BY DEF closed
  <2>3. closed \in Manager
    BY <2>1, <2>2, BudgetAssumption DEF Alike, Manager
  <2> QED BY <2>1, <2>2, <2>3 DEF Alike, Same, Manager
<1> HIDE DEF closed
<1>4. Alike(failed, s) /\ failed.view = [s.view EXCEPT ![k] = "closed"]
  BY <1>3, FailedFacts DEF Alike, Same
<1> HIDE DEF failed
<1>5. Sound(closed) /\ Sound(failed)
  BY <1>3, <1>4, SoundCarries DEF Alike
<1>6. CASE k = "notifications" /\ s.sockets["events"] # "none"
  <2>1. Alike(Emit[closed], s) /\ Shows(Emit[closed]) /\ Emit[closed].view = closed.view
    BY <1>3, EmitFacts DEF Alike, Same
  <2>2. /\ HandleClose(s, k) \in Manager /\ Same(HandleClose(s, k), s)
        /\ Shows(HandleClose(s, k)) /\ HandleClose(s, k).view = closed.view
        /\ HandleClose(s, k).fallback = s.fallback
        /\ HandleClose(s, k).timers = [s.timers EXCEPT !["notifications"] = TRUE]
    <3> DEFINE e == Emit[closed]
    <3>1. /\ HandleClose(s, k) = Schedule(e, k) /\ e \in Manager
          /\ Alike(e, s) /\ Shows(e) /\ e.view = closed.view
      BY <1>2, <1>6, <2>1 DEF Alike
    <3> HIDE DEF e
    <3>2. LET h == Schedule(e, k)
          IN  /\ h \in Manager /\ Same(h, e) /\ h.fallback = e.fallback
              /\ h.shown = e.shown /\ h.view = e.view
              /\ h.timers = [e.timers EXCEPT ![k] = TRUE]
      BY <3>1, ScheduleFacts
    <3> QED BY <3>1, <3>2, <1>6 DEF Alike, Same, Shows
  <2>3. Sound(HandleClose(s, k)) /\ Held(HandleClose(s, k), d)
    BY <1>1, <1>6, <2>2, SoundCarries, HeldCarries DEF Manager, Kinds
  <2>4. Honest(HandleClose(s, k))
    BY <1>1, <1>3, <1>6, <2>2 DEF Honest, Same, Opened, Manager, Kinds
  <2> QED BY <2>2, <2>3, <2>4 DEF Fine
<1>7. CASE ~(k = "notifications" /\ s.sockets["events"] # "none")
           /\ failed.attempts >= MaxAttempts
  <2>1. s.sockets["events"] = "none"
    BY <1>7 DEF Kinds
  <2>2. polls \in Manager
    <3>1. [events |-> "polling",
           notifications |-> IF failed.sockets["notifications"] # "none" THEN "open"
                             ELSE IF failed.want THEN "closed" ELSE "skipped"]
             \in [Kinds -> Views]
      BY DEF Kinds, Views
    <3> QED BY <1>4, <3>1 DEF Alike, Manager
  <2>3. Same(polls, s) /\ polls.fallback /\ polls.view["events"] = "polling"
    BY <1>4 DEF Alike, Same, Manager
  <2> HIDE DEF polls
  <2>4. Alike(Emit[polls], polls) /\ Shows(Emit[polls]) /\ Emit[polls].view = polls.view
    BY <2>2, EmitFacts
  <2> QED
    BY <1>2, <1>7, <2>1, <2>3, <2>4 
    DEF Alike, Same, Fine, Sound, Honest, Held, Opened, Shows
<1>8. CASE ~(k = "notifications" /\ s.sockets["events"] # "none")
           /\ ~(failed.attempts >= MaxAttempts)
  <2>1. Alike(seen, s) /\ seen.view = [failed.view EXCEPT ![k] = "reconnecting"]
    <3>1. failed \in Manager /\ "reconnecting" \in Views
      BY <1>1, <1>4 DEF Alike
    <3>2. Alike(seen, failed) /\ seen.view = [failed.view EXCEPT ![k] = "reconnecting"]
      BY <3>1, SeeFacts
    <3> HIDE DEF seen
    <3> QED BY <3>2, <1>4 DEF Alike, Same
  <2> HIDE DEF seen
  <2>2. Alike(Emit[seen], s) /\ Shows(Emit[seen]) /\ Emit[seen].view = seen.view
    BY <2>1, EmitFacts DEF Alike, Same
  <2>3. /\ HandleClose(s, k) \in Manager /\ Same(HandleClose(s, k), s)
        /\ Shows(HandleClose(s, k)) /\ HandleClose(s, k).view = seen.view
        /\ HandleClose(s, k).fallback = s.fallback
        /\ HandleClose(s, k).timers = [s.timers EXCEPT ![k] = TRUE]
    <3> DEFINE e == Emit[seen]
    <3>1. /\ HandleClose(s, k) = Schedule(e, k) /\ e \in Manager
          /\ Alike(e, s) /\ Shows(e) /\ e.view = seen.view
      BY <1>2, <1>8, <2>2 DEF Alike
    <3> HIDE DEF e
    <3>2. LET h == Schedule(e, k)
          IN  /\ h \in Manager /\ Same(h, e) /\ h.fallback = e.fallback
              /\ h.shown = e.shown /\ h.view = e.view
              /\ h.timers = [e.timers EXCEPT ![k] = TRUE]
      BY <3>1, ScheduleFacts
    <3> QED BY <3>1, <3>2, <1>8 DEF Alike, Same, Shows
  <2>4. Sound(HandleClose(s, k))
    BY <2>3, SoundCarries
  <2>5. Held(HandleClose(s, k), d) /\ Honest(HandleClose(s, k))
    BY <1>1, <1>4, <2>1, <2>3 DEF Honest, Held, Same, Opened, Manager, Kinds
  <2> QED BY <2>3, <2>4, <2>5 DEF Fine
<1> QED BY <1>6, <1>7, <1>8

LEMMA OpenSocketFacts ==
    ASSUME NEW d, NEW s, NEW k \in Kinds, Fine(s), k = "notifications" => Held(s, d)
    PROVE  LET r == OpenSocket(s, k)
           IN  /\ Fine(r) /\ Held(r, d)
               /\ r.running = s.running /\ r.want = s.want
<1> DEFINE v == IF s.attempts > 0 \/ s.fallback THEN "reconnecting" ELSE "connecting"
           trying == Emit[See(s, k, v)]
           fails  == Emit[See(s, k, "closed")]
<1>1. s \in Manager /\ s.ctor \in {"ok", "none", "throws"}
      /\ {"closed", "connecting", "reconnecting", "skipped"} \subseteq Views
  BY DEF Fine, Sound, Manager, Views
<1>2. OpenSocket(s, k) =
        IF ~s.running THEN s
        ELSE IF k = "notifications" /\ ~s.want THEN See(s, k, "skipped")
        ELSE IF s.sockets[k] # "none" THEN s
        ELSE CASE s.ctor = "none"   -> fails
               [] s.ctor = "throws" -> HandleClose(trying, k)
               [] s.ctor = "ok"     -> [trying EXCEPT !.sockets[k] = "pending",
                                                      !.lost = @ \ {k}]
  BY DEF OpenSocket
<1>3. CASE ~s.running
  BY <1>2, <1>3 DEF Held
<1>4. CASE s.running /\ k = "notifications" /\ ~s.want
  <2>1. /\ Alike(See(s, k, "skipped"), s) /\ See(s, k, "skipped").shown = s.shown
        /\ See(s, k, "skipped").view = [s.view EXCEPT !["notifications"] = "skipped"]
    BY <1>1, <1>4, SeeFacts
  <2>2. s.view \in [Kinds -> Views] /\ "events" \in Kinds
    BY <1>1 DEF Manager, Kinds
  <2> QED
    BY <1>2, <1>4, <2>1, <2>2, SoundCarries, HeldCarries
    DEF Fine, Honest, Shows, Alike, Same, Opened
<1>5. CASE s.running /\ ~(k = "notifications" /\ ~s.want) /\ s.sockets[k] # "none"
  BY <1>2, <1>5 DEF Held, Kinds
<1>6. CASE s.running /\ ~(k = "notifications" /\ ~s.want) /\ s.sockets[k] = "none"
  <2>1. ASSUME NEW u \in Views \ {"open"}
        PROVE  LET e == Emit[See(s, k, u)]
               IN  /\ Fine(e) /\ Alike(e, s) /\ (k = "notifications" => Held(e, d))
    <3> DEFINE seen == See(s, k, u)
               e == Emit[seen]
    <3>1. Alike(seen, s) /\ seen.view = [s.view EXCEPT ![k] = u]
      BY <1>1, SeeFacts
    <3> HIDE DEF seen
    <3>2. Alike(e, s) /\ Shows(e) /\ e.view = [s.view EXCEPT ![k] = u]
      BY <3>1, EmitFacts DEF Alike, Same
    <3> HIDE DEF e
    <3>3. Honest(e)
      BY <1>1, <3>2 DEF Fine, Honest, Opened, Alike, Same, Manager, Kinds
    <3>4. Sound(e) /\ (k = "notifications" => Held(e, d))
      BY <3>2, SoundCarries, HeldCarries DEF Fine, Alike
    <3> QED BY <3>2, <3>3, <3>4 DEF Fine, e, seen
  <2>2. /\ Fine(trying) /\ Alike(trying, s) /\ (k = "notifications" => Held(trying, d))
        /\ Fine(fails) /\ Alike(fails, s) /\ (k = "notifications" => Held(fails, d))
    <3>1. v \in Views \ {"open"} /\ "closed" \in Views \ {"open"}
      BY <1>1
    <3> HIDE DEF v
    <3> QED BY <3>1, <2>1
  <2> HIDE DEF trying, fails
  <2>3. CASE s.ctor = "none"
    BY <1>2, <1>6, <2>2, <2>3 DEF Alike, Same, Held
  <2>4. CASE s.ctor = "throws"
    <3>1. OpenSocket(s, k) = HandleClose(trying, k)
      BY <1>2, <1>6, <2>4
    <3>2. /\ Sound(trying) /\ trying.running /\ trying.sockets[k] = "none"
          /\ k = "notifications" => Honest(trying) /\ Held(trying, d)
      BY <1>6, <2>2 DEF Alike, Same, Fine
    <3>3. /\ Fine(HandleClose(trying, k)) /\ Held(HandleClose(trying, k), d)
          /\ Same(HandleClose(trying, k), trying)
      BY <3>2, HandleCloseFacts
    <3> QED BY <3>1, <3>3, <2>2 DEF Alike, Same
  <2>5. CASE s.ctor = "ok"
    <3> DEFINE r == [trying EXCEPT !.sockets[k] = "pending", !.lost = @ \ {k}]
    <3>1. OpenSocket(s, k) = r
      BY <1>2, <1>6, <2>5
    <3>2. trying \in Manager
      BY <2>2 DEF Alike
    <3>3. /\ r.sockets = [trying.sockets EXCEPT ![k] = "pending"]
          /\ r.lost = trying.lost \ {k}
          /\ r.running = trying.running /\ r.want = trying.want /\ r.ctor = trying.ctor
          /\ r.timers = trying.timers /\ r.fallback = trying.fallback
          /\ r.shown = trying.shown /\ r.view = trying.view
      BY <3>2 DEF Manager
    <3>4. r \in Manager
      BY <3>2 DEF Manager
    <3>5. trying.sockets \in [Kinds -> {"none", "pending", "accepted", "live"}]
      BY <3>2 DEF Manager
    <3> HIDE DEF r
    <3>6. Sound(r) /\ Honest(r) /\ Shows(r)
      BY <3>3, <3>4, <3>5, <1>6, <2>2
      DEF Fine, Sound, Honest, Shows, Opened, Alike, Same, Kinds
    <3>7. Held(r, d)
      BY <3>3, <3>5, <1>6, <2>2 DEF Held, Kinds
    <3> QED BY <3>1, <3>3, <3>6, <3>7, <2>2 DEF Fine, Alike, Same
  <2> QED BY <1>1, <2>3, <2>4, <2>5
<1> QED BY <1>3, <1>4, <1>5, <1>6

LEMMA OpenAllFacts ==
    ASSUME NEW d, NEW s, Fine(s)
    PROVE  LET r == OpenAll(s)
           IN  /\ Fine(r) /\ Held(r, d)
               /\ r.running = s.running /\ r.want = s.want
<1>1. LET r == OpenSocket(s, "events")
      IN  Fine(r) /\ Held(r, d) /\ r.running = s.running /\ r.want = s.want
  BY OpenSocketFacts DEF Kinds
<1> QED BY <1>1, OpenSocketFacts DEF OpenAll, Kinds

\* The stop leaves nothing, whatever it finds.
LEMMA StopFacts ==
    ASSUME NEW s \in Manager
    PROVE  Fine(StopManager(s)) /\ ~StopManager(s).running
<1> DEFINE v == [events |-> "closed",
                 notifications |-> IF s.want THEN "closed" ELSE "skipped"]
           r == [s EXCEPT !.running = FALSE, !.timers = Both(FALSE),
                          !.sockets = Both("none"), !.attempts = 0, !.fallback = FALSE,
                          !.lost = {}, !.view = v]
<1>1. v \in [Kinds -> Views] /\ v["events"] = "closed"
  BY DEF Kinds, Views
<1>2. /\ Both(FALSE) \in [Kinds -> BOOLEAN] /\ 0 \in 0 .. MaxAttempts
      /\ Both("none") \in [Kinds -> {"none", "pending", "accepted", "live"}]
  BY BudgetAssumption DEF Both
<1>3. StopManager(s) = Emit[r]
  BY DEF StopManager
<1> HIDE DEF v
<1>4. r \in Manager
  BY <1>1, <1>2 DEF Manager
<1>5. /\ ~r.running /\ r.sockets = Both("none") /\ ~r.fallback /\ r.view = v
  BY DEF Manager
<1> HIDE DEF r
<1>6. Alike(Emit[r], r) /\ Shows(Emit[r]) /\ Emit[r].view = r.view
  BY <1>4, EmitFacts
<1> QED
  BY <1>1, <1>3, <1>5, <1>6
  DEF Fine, Sound, Honest, Opened, Alike, Same, Both, Kinds

\* An emit after a method.
LEMMA EmitKeeps ==
    ASSUME NEW d, NEW s, Sound(s), Honest(s)
    PROVE  LET r == Emit[s] IN Fine(r) /\ Alike(r, s) /\ (Held(s, d) => Held(r, d))
<1>1. Alike(Emit[s], s) /\ Shows(Emit[s]) /\ Emit[s].view = s.view
  BY EmitFacts DEF Sound
<1> QED
  BY <1>1, SoundCarries, HeldCarries DEF Fine, Honest, Opened, Alike, Same

LEMMA HandleOpenFacts ==
    ASSUME NEW d, NEW s \in Manager, NEW k \in Kinds, Fine(s), Held(s, d),
           s.sockets[k] = "pending"
    PROVE  LET r == HandleOpen([s EXCEPT !.sockets[k] = "accepted"], k)
           IN  Fine(r) /\ Held(r, d)
<1> DEFINE t == [s EXCEPT !.sockets[k] = "accepted"]
           seen == See(t, k, "open")
           f == IF k = "events" THEN Forgiven(seen) ELSE seen
<1>1. t \in Manager /\ t.sockets = [s.sockets EXCEPT ![k] = "accepted"]
      /\ t.running = s.running /\ t.want = s.want /\ t.ctor = s.ctor /\ t.lost = s.lost
      /\ t.timers = s.timers /\ t.fallback = s.fallback /\ t.view = s.view
  BY DEF Manager
<1>2. s.sockets \in [Kinds -> {"none", "pending", "accepted", "live"}]
      /\ s.view \in [Kinds -> Views] /\ s.running \in BOOLEAN /\ s.want \in BOOLEAN
  BY DEF Manager
<1> HIDE DEF t
<1>3. Alike(seen, t) /\ seen.view = [s.view EXCEPT ![k] = "open"]
  <2>1. "open" \in Views
    BY DEF Views
  <2> QED BY <2>1, <1>1, SeeFacts
<1> HIDE DEF seen
<1>4. CASE k = "events"
  <2>1. /\ f \in Manager /\ Same(f, t) /\ ~f.fallback
        /\ f.view = [s.view EXCEPT ![k] = "open"]
    BY <1>3, <1>4, ForgivenFacts DEF Alike, Same
  <2> HIDE DEF f
  <2>2. Sound(f) /\ Honest(f) /\ Held(f, d)
    BY <1>1, <1>2, <1>4, <2>1 DEF Fine, Sound, Honest, Held, Opened, Same, Both, Kinds
  <2>3. HandleOpen(t, k) = Emit[f]
    BY DEF HandleOpen, f, seen
  <2> QED BY <2>2, <2>3, EmitKeeps DEF t
<1>5. CASE k = "notifications"
  <2>1. Alike(f, t) /\ f.view = [s.view EXCEPT ![k] = "open"]
    BY <1>3, <1>5
  <2> HIDE DEF f
  <2>2. Sound(f) /\ Honest(f) /\ Held(f, d)
    BY <1>1, <1>2, <1>5, <2>1 
    DEF Fine, Sound, Honest, Held, Opened, Alike, Same, Both, Kinds
  <2>3. HandleOpen(t, k) = Emit[f]
    BY DEF HandleOpen, f, seen
  <2> QED BY <2>2, <2>3, EmitKeeps DEF t
<1> QED BY <1>4, <1>5 DEF Kinds

LEMMA StartFacts ==
    ASSUME NEW d, NEW s, Fine(s), Held(s, d), NEW w \in BOOLEAN
    PROVE  Fine(StartManager(s, w)) /\ Held(StartManager(s, w), d)
<1> DEFINE wanted == [s EXCEPT !.want = w]
           n == "notifications"
<1>1. s \in Manager
  BY DEF Fine, Sound
<1>2. /\ wanted \in Manager /\ wanted.want = w
      /\ wanted.running = s.running /\ wanted.ctor = s.ctor /\ wanted.lost = s.lost
      /\ wanted.sockets = s.sockets /\ wanted.timers = s.timers
      /\ wanted.fallback = s.fallback /\ wanted.view = s.view
      /\ wanted.shown = s.shown
  BY <1>1 DEF Manager
<1>3. /\ s.sockets \in [Kinds -> {"none", "pending", "accepted", "live"}]
      /\ s.view \in [Kinds -> Views]
  BY <1>1 DEF Manager
<1>4. CASE s.running /\ w
  <2>1. Fine(wanted) /\ Held(wanted, d)
    BY <1>2, <1>4 DEF Fine, Sound, Honest, Shows, Held, Opened
  <2> HIDE DEF wanted
  <2>2. /\ Fine(OpenSocket(wanted, n)) /\ Held(OpenSocket(wanted, n), d)
    BY <2>1, OpenSocketFacts DEF Kinds
  <2>3. Fine(Emit[OpenSocket(wanted, n)]) /\ Held(Emit[OpenSocket(wanted, n)], d)
    BY <2>2, EmitKeeps DEF Fine
  <2>4. StartManager(s, w) = IF wanted.sockets[n] = "none" /\ ~wanted.fallback
                             THEN Emit[OpenSocket(wanted, n)] ELSE wanted
    BY <1>2, <1>4 DEF StartManager, SyncNotifications, wanted
  <2> QED BY <2>1, <2>3, <2>4
<1>5. CASE s.running /\ ~w
  <2> HIDE DEF wanted
  <2> DEFINE c == CloseSocket(wanted, n)
             e == See(c, n, "skipped")
  <2>1. /\ c \in Manager /\ c.sockets = [s.sockets EXCEPT ![n] = "none"]
        /\ c.running = s.running /\ c.want = w /\ c.ctor = s.ctor /\ c.lost = s.lost
        /\ c.timers = s.timers /\ c.fallback = s.fallback /\ c.view = s.view
    BY <1>2, CloseFacts DEF Kinds
  <2> HIDE DEF c
  <2>2. Alike(e, c) /\ e.view = [s.view EXCEPT ![n] = "skipped"]
    <3>1. "skipped" \in Views /\ n \in Kinds
      BY DEF Views, Kinds
    <3> QED BY <3>1, <2>1, SeeFacts
  <2> HIDE DEF e
  <2>3. Sound(e) /\ Honest(e) /\ Held(e, d)
    BY <1>3, <1>5, <2>1, <2>2 
    DEF Fine, Sound, Honest, Held, Opened, Alike, Same, Kinds
  <2>4. StartManager(s, w) = Emit[e]
    BY <1>2, <1>5 DEF StartManager, SyncNotifications, wanted, c, e
  <2> QED BY <2>3, <2>4, EmitKeeps
<1>6. CASE ~s.running
  <2> HIDE DEF wanted
  <2> DEFINE f == Forgiven(wanted)
             t == [f EXCEPT !.running = TRUE, !.authRetries = 0]
  <2>1. /\ f \in Manager /\ Same(f, wanted) /\ ~f.fallback
        /\ f.view = s.view /\ f.shown = s.shown
    BY <1>2, ForgivenFacts
  <2> HIDE DEF f
  <2>2. t \in Manager
    <3>1. 0 \in 0 .. MaxAuthRetries
      BY BudgetAssumption
    <3> QED BY <2>1, <3>1 DEF Manager
  <2>3. /\ t.running /\ t.want = f.want /\ t.sockets = f.sockets
        /\ t.fallback = f.fallback /\ t.view = f.view /\ t.shown = f.shown
    BY <2>1 DEF Manager
  <2> HIDE DEF t
  <2>4. Fine(t)
    <3>1. /\ s.fallback = FALSE /\ t.fallback = FALSE /\ t.running
          /\ t.sockets = Both("none") /\ t.view = s.view /\ t.shown = s.shown
      BY <1>1, <1>2, <1>6, <2>1, <2>2, <2>3 DEF Fine, Sound, Same, Manager
    <3>2. s.view["events"] # "open"
      BY <1>6 DEF Fine, Sound, Honest, Opened, Both, Kinds
    <3> QED
      BY <2>2, <3>1, <3>2 DEF Fine, Sound, Honest, Shows, Opened, Both, Kinds
  <2>5. Fine(OpenAll(t)) /\ Held(OpenAll(t), d)
    BY <2>4, OpenAllFacts
  <2>6. StartManager(s, w) = Emit[OpenAll(t)]
    BY <1>6 DEF StartManager, wanted, f, t
  <2> QED BY <2>5, <2>6, EmitKeeps DEF Fine
<1> QED BY <1>4, <1>5, <1>6

LEMMA RetryFacts ==
    ASSUME NEW d, NEW s, Fine(s), Held(s, d)
    PROVE  Fine(RetryManager(s)) /\ Held(RetryManager(s), d)
<1> DEFINE t == [s EXCEPT !.timers = Both(FALSE)]
           f == Forgiven(t)
<1>1. CASE ~s.running
  BY <1>1 DEF RetryManager
<1>2. CASE s.running
  <2>1. s \in Manager /\ Both(FALSE) \in [Kinds -> BOOLEAN]
    BY DEF Fine, Sound, Both
  <2>2. /\ t \in Manager /\ Same(t, s) /\ t.view = s.view /\ t.fallback = s.fallback
    BY <2>1 DEF Manager, Same
  <2> HIDE DEF t
  <2>3. /\ f \in Manager /\ Same(f, s) /\ ~f.fallback /\ f.view = s.view
    BY <2>2, ForgivenFacts DEF Same
  <2> HIDE DEF f
  <2>4. Sound(f) /\ Honest(f)
    BY <2>3, SoundCarries DEF Fine, Honest, Opened, Same
  <2>5. Fine(Emit[f])
    BY <2>4, EmitKeeps
  <2>6. RetryManager(s) = OpenAll(Emit[f])
    BY <1>2 DEF RetryManager, f, t
  <2> QED BY <2>5, <2>6, OpenAllFacts
<1> QED BY <1>1, <1>2

\* One continuation of a refresh: what it leaves is as good as what it found, and
\* that of the events stream has somebody answer for it.
LEMMA AfterRefreshFacts ==
    ASSUME NEW d, NEW s, Fine(s), NEW k \in Kinds, NEW answer \in {"ok", "error", "expired"}
    PROVE  LET r == AfterRefresh(s, k, answer)
           IN  Fine(r) /\ (k = "events" \/ Held(s, d) => Held(r, d))
<1> DEFINE failed == Failed(s)
           gone == [failed EXCEPT !.timers[k] = FALSE]
           up   == [gone EXCEPT !.lost = @ \cup {k}]
           seen == See(failed, k, "reconnecting")
           lone == [s EXCEPT !.lost = @ \cup {k}]
           next == [Forgiven(s) EXCEPT !.authRetries = @ + 1]
<1>1. s \in Manager /\ "reconnecting" \in Views
  BY DEF Fine, Sound, Views
<1>2. Alike(failed, s) /\ failed.view = s.view
  BY <1>1, FailedFacts
<1>3. AfterRefresh(s, k, answer) =
        IF answer # "ok"
        THEN IF failed.attempts >= MaxAttempts THEN Emit[up] ELSE Schedule(Emit[seen], k)
        ELSE IF ~s.running THEN s
        ELSE IF s.authRetries >= MaxAuthRetries THEN lone
        ELSE OpenAll(Emit[next])
  BY DEF AfterRefresh
<1> HIDE DEF failed
<1>4. CASE answer # "ok" /\ failed.attempts >= MaxAttempts
  <2>1. /\ gone \in Manager /\ Same(gone, s) /\ gone.fallback = s.fallback
        /\ gone.timers = [s.timers EXCEPT ![k] = FALSE] /\ gone.view = s.view
    BY <1>2 DEF Alike, Same, Manager
  <2> HIDE DEF gone
  <2>2. up \in Manager
    BY <2>1 DEF Manager
  <2>3. /\ up.running = s.running /\ up.want = s.want /\ up.ctor = s.ctor
        /\ up.sockets = s.sockets /\ up.fallback = s.fallback /\ up.view = s.view
        /\ up.timers = [s.timers EXCEPT ![k] = FALSE] /\ up.lost = s.lost \cup {k}
    BY <2>1 DEF Same, Manager
  <2>4. s.timers \in [Kinds -> BOOLEAN]
    BY <1>1 DEF Manager
  <2> HIDE DEF up
  <2>5. Sound(up) /\ Honest(up) /\ (k = "events" \/ Held(s, d) => Held(up, d))
    BY <2>2, <2>3, <2>4 DEF Fine, Sound, Honest, Held, Opened, Kinds
  <2> QED BY <1>3, <1>4, <2>5, EmitKeeps
<1>5. CASE answer # "ok" /\ ~(failed.attempts >= MaxAttempts)
  <2> DEFINE e == Emit[seen]
             r == Schedule(e, k)
  <2>1. Alike(seen, s) /\ seen.view = [s.view EXCEPT ![k] = "reconnecting"]
    <3>1. failed \in Manager
      BY <1>2 DEF Alike
    <3>2. Alike(seen, failed) /\ seen.view = [failed.view EXCEPT ![k] = "reconnecting"]
      BY <1>1, <3>1, SeeFacts
    <3> HIDE DEF seen
    <3> QED BY <3>2, <1>2 DEF Alike, Same
  <2> HIDE DEF seen
  <2>2. Alike(e, s) /\ Shows(e) /\ e.view = seen.view
    BY <2>1, EmitFacts DEF Alike, Same
  <2> HIDE DEF e
  <2>3. /\ r \in Manager /\ Same(r, s) /\ Shows(r) /\ r.fallback = s.fallback
        /\ r.view = seen.view /\ r.timers = [s.timers EXCEPT ![k] = TRUE]
    <3>1. /\ r \in Manager /\ Same(r, e) /\ r.fallback = e.fallback /\ r.shown = e.shown
          /\ r.view = e.view /\ r.timers = [e.timers EXCEPT ![k] = TRUE]
      BY <2>2, ScheduleFacts DEF Alike
    <3> HIDE DEF r
    <3> QED BY <3>1, <2>2 DEF Alike, Same, Shows
  <2>4. AfterRefresh(s, k, answer) = r
    BY <1>3, <1>5 DEF e
  <2>5. s.timers \in [Kinds -> BOOLEAN] /\ s.view \in [Kinds -> Views]
    BY <1>1 DEF Manager
  <2> HIDE DEF r
  <2>6. Sound(r) /\ Honest(r) /\ (k = "events" \/ Held(s, d) => Held(r, d))
    BY <2>1, <2>3, <2>5, SoundCarries DEF Fine, Honest, Held, Opened, Same, Kinds
  <2> QED BY <2>3, <2>4, <2>6 DEF Fine
<1>6. CASE answer = "ok" /\ ~s.running
  BY <1>3, <1>6 DEF Held
<1>7. CASE answer = "ok" /\ s.running /\ s.authRetries >= MaxAuthRetries
  <2>1. lone \in Manager
    BY <1>1 DEF Manager
  <2>2. /\ lone.running = s.running /\ lone.want = s.want /\ lone.ctor = s.ctor
        /\ lone.sockets = s.sockets /\ lone.fallback = s.fallback /\ lone.view = s.view
        /\ lone.timers = s.timers /\ lone.lost = s.lost \cup {k} /\ lone.shown = s.shown
    BY <1>1 DEF Manager
  <2> HIDE DEF lone
  <2> QED
    BY <1>3, <1>7, <2>1, <2>2 DEF Fine, Sound, Honest, Shows, Held, Opened
<1>8. CASE answer = "ok" /\ s.running /\ ~(s.authRetries >= MaxAuthRetries)
  <2> DEFINE f == Forgiven(s)
  <2>1. /\ f \in Manager /\ Same(f, s) /\ ~f.fallback /\ f.view = s.view
        /\ f.authRetries = s.authRetries
    BY <1>1, ForgivenFacts DEF Forgiven, Manager
  <2> HIDE DEF f
  <2>2. s.authRetries + 1 \in 0 .. MaxAuthRetries
    BY <1>1, <1>8, BudgetAssumption DEF Manager
  <2>3. next = [f EXCEPT !.authRetries = s.authRetries + 1]
    BY <2>1 DEF f
  <2> HIDE DEF next
  <2>4. next \in Manager
    BY <2>1, <2>2, <2>3 DEF Manager
  <2>5. Same(next, s) /\ ~next.fallback /\ next.view = s.view
    BY <2>1, <2>3 DEF Manager, Same
  <2>6. Sound(next) /\ Honest(next)
    BY <2>4, <2>5, SoundCarries DEF Fine, Honest, Opened, Same
  <2>7. Fine(Emit[next])
    BY <2>6, EmitKeeps
  <2> QED BY <1>3, <1>8, <2>7, OpenAllFacts
<1> QED BY <1>4, <1>5, <1>6, <1>7, <1>8

(***************************************************************************)
(* The refresh: one continuation per waiting close                         *)
(***************************************************************************)
LEMMA RefreshKeeps ==
    ASSUME Inv, NEW answer \in {"ok", "error", "expired"}, RefreshAnswers(answer)
    PROVE  Inv'
<1> DEFINE first == IF answer = "expired" THEN StopManager(m) ELSE m
           N == Len(waiting)
           step == [n \in 1 .. N |-> [s \in {t \in Manager : Fine(t)} |->
                                         AfterRefresh(s, waiting[n], answer)]]
           after == CHOOSE h : h = [n \in 0 .. N |->
                       IF n = 0 THEN first ELSE AfterRefresh(h[n - 1], waiting[n], answer)]
           Good == {t \in Manager : Fine(t)}
<1>1. waiting \in Seq(Kinds) /\ N \in Nat
  BY DEF Inv, TypeOK
<1>2. Fine(first)
  BY StopFacts DEF Inv, Fine, Sound
<1>3. first \in Good
  BY <1>2 DEF Fine, Sound
<1>4. \A s \in Good, n \in 1 .. N : AfterRefresh(s, waiting[n], answer) \in Good
  <2> TAKE s \in Good, n \in 1 .. N
  <2>1. waiting[n] \in Kinds
    BY <1>1
  <2> QED BY <2>1, AfterRefreshFacts DEF Fine, Sound
<1> HIDE DEF Good
<1>5. step \in [1 .. N -> [Good -> Good]]
  BY <1>4 DEF Good
<1> HIDE DEF first, step
<1>6. PICK h \in [0 .. N -> Good] :
         h[0] = first /\ \A n \in 1 .. N : h[n] = step[n][h[n - 1]]
  <2> HIDE DEF N
  <2>1. N \in Nat
    BY <1>1 DEF N
  <2>2. ASSUME NEW a \in Good, NEW F \in [1 .. N -> [Good -> Good]]
        PROVE  \E h \in [0 .. N -> Good] :
                  h[0] = a /\ \A n \in 1 .. N : h[n] = F[n][h[n - 1]]
    BY <2>1, Recursion
  <2> QED BY <2>2, <1>3, <1>5
<1>7. h = [n \in 0 .. N |->
             IF n = 0 THEN first ELSE AfterRefresh(h[n - 1], waiting[n], answer)]
  <2>1. ASSUME NEW n \in 1 .. N
        PROVE  step[n][h[n - 1]] = AfterRefresh(h[n - 1], waiting[n], answer)
    <3>1. h[n - 1] \in Good
      BY <1>1, <1>6
    <3> QED BY <3>1 DEF step, Good
  <2> QED BY <1>1, <1>6, <2>1
<1>8. after = [n \in 0 .. N |->
                 IF n = 0 THEN first ELSE AfterRefresh(after[n - 1], waiting[n], answer)]
  BY <1>7
<1>9. m' = after[N] /\ waiting' = <<>> /\ UNCHANGED server /\ token' \in {"valid", "expired"}
  BY DEF RefreshAnswers, Inv, TypeOK, first
<1> HIDE DEF after
\* What the continuations to come will answer for.
<1> DEFINE Due(n) == \E i \in (n + 1) .. N : waiting[i] = "events"
           T == {n \in Nat : n <= N => after[n] \in Good /\ (Held(after[n], FALSE) \/ Due(n))}
<1>10. 0 \in T
  <2>1. Held(first, FALSE) \/ Due(0)
    <3>1. CASE answer = "expired"
      BY <3>1, StopFacts DEF Held, first, Inv, Fine, Sound
    <3>2. CASE answer # "expired"
      BY <1>1, <3>2 DEF first, Inv, EventsTracked, Held
    <3> QED BY <3>1, <3>2
  <2>2. after[0] = first
    BY <1>1, <1>8
  <2> QED BY <1>3, <2>1, <2>2
<1>11. ASSUME NEW n \in Nat, n \in T PROVE n + 1 \in T
  <2> SUFFICES ASSUME n + 1 <= N
               PROVE  after[n + 1] \in Good /\ (Held(after[n + 1], FALSE) \/ Due(n + 1))
    OBVIOUS
  <2>1. after[n] \in Good /\ (Held(after[n], FALSE) \/ Due(n))
    BY <1>1, <1>11
  <2>2. after[n + 1] = AfterRefresh(after[n], waiting[n + 1], answer)
    BY <1>1, <1>8
  <2>3. n + 1 \in 1 .. N /\ waiting[n + 1] \in Kinds
    BY <1>1
  <2>4. /\ after[n + 1] \in Good
        /\ waiting[n + 1] = "events" \/ Held(after[n], FALSE) => Held(after[n + 1], FALSE)
    <3> DEFINE r == AfterRefresh(after[n], waiting[n + 1], answer)
    <3>1. Fine(after[n])
      BY <2>1 DEF Good
    <3>2. \A d : waiting[n + 1] = "events" \/ Held(after[n], d) => Held(r, d)
      BY <2>3, <3>1, AfterRefreshFacts
    <3> HIDE DEF r
    <3>3. after[n + 1] = r
      BY <2>2 DEF r
    <3>4. r \in Good
      BY <1>4, <2>1, <2>3 DEF r
    <3> QED BY <3>2, <3>3, <3>4
  <2>5. waiting[n + 1] # "events" /\ Due(n) => Due(n + 1)
    BY <1>1, <2>3
  <2> QED BY <2>1, <2>4, <2>5
<1>12. Nat \subseteq T
  <2> HIDE DEF T
  <2> QED BY <1>10, <1>11, SetInduction
<1>13. Fine(m') /\ Held(m', FALSE)
  <2>1. after[N] \in Good /\ (Held(after[N], FALSE) \/ Due(N))
    BY <1>1, <1>12
  <2>2. ~Due(N)
    BY <1>1
  <2> QED BY <1>9, <2>1, <2>2 DEF Good
<1> QED
  BY <1>9, <1>13, BudgetAssumption
  DEF Inv, TypeOK, EventsTracked, Held, Fine, Sound, Honest, Shows, Opened

(***************************************************************************)
(* The steps                                                               *)
(***************************************************************************)
LEMMA InitInv == Init => Inv
<1> SUFFICES ASSUME Init PROVE Inv
  OBVIOUS
<1>1. PICK c \in {"ok", "none", "throws"} :
         m = [ctor |-> c, running |-> FALSE, want |-> TRUE, fallback |-> FALSE,
              timers |-> Both(FALSE), view |-> Both("closed"), sockets |-> Both("none"),
              attempts |-> 0, authRetries |-> 0, lost |-> {},
              shown |-> [events |-> "closed", fallback |-> FALSE]]
  BY DEF Init
<1>2. /\ Both(FALSE) \in [Kinds -> BOOLEAN] /\ Both("closed") \in [Kinds -> Views]
      /\ Both("none") \in [Kinds -> {"none", "pending", "accepted", "live"}]
      /\ 0 \in 0 .. MaxAttempts /\ 0 \in 0 .. MaxAuthRetries /\ "closed" \in Views
      /\ Both("closed")["events"] = "closed" /\ Both("none")["events"] = "none"
  BY BudgetAssumption DEF Both, Views, Kinds
<1>3. m \in Manager
  BY <1>1, <1>2 DEF Manager
<1>4. Fine(m) /\ EventsTracked
  BY <1>1, <1>2, <1>3 DEF Fine, Sound, Honest, Shows, Opened, EventsTracked
<1>5. waiting \in Seq(Kinds) /\ Len(waiting) <= MaxWaiting
  BY BudgetAssumption DEF Init
<1> QED BY <1>3, <1>4, <1>5 DEF Inv, TypeOK, Init

\* A close waits for the refresh on behalf of the events stream.
Waits == \E i \in DOMAIN waiting : waiting[i] = "events"

LEMMA InvParts == Inv <=> /\ Fine(m) /\ Held(m, Waits) /\ TypeOK
  BY DEF Inv, EventsTracked, Held, Waits

\* A step that leaves the queue and gives a fine manager keeps the invariant.
LEMMA Quiet ==
    ASSUME Inv, Fine(m'), Held(m', Waits), UNCHANGED waiting,
           server' \in {"up", "busy", "down"}, token' \in {"valid", "expired"}
    PROVE  Inv'
<1>1. TypeOK'
  BY DEF Inv, TypeOK, Fine, Sound
<1>2. EventsTracked'
  BY DEF EventsTracked, Held, Waits
<1> QED BY <1>1, <1>2 DEF Inv, Fine, Sound, Honest, Shows, Opened

LEMMA ApplicationKeeps ==
    ASSUME Inv, Start \/ Stop \/ PollSuccess PROVE Inv'
<1>1. Fine(m) /\ Held(m, Waits) /\ m \in Manager
  BY InvParts DEF Fine, Sound
<1>2. CASE Start
  <2>1. PICK w \in BOOLEAN : m' = StartManager(m, w) /\ UNCHANGED <<waiting, environment>>
    BY <1>2 DEF Start
  <2> QED BY <1>1, <2>1, StartFacts, Quiet DEF Inv, TypeOK, environment
<1>3. CASE Stop
  <2>1. Fine(m') /\ ~m'.running
    BY <1>1, <1>3, StopFacts DEF Stop
  <2> QED BY <1>3, <2>1, Quiet DEF Stop, Held, Inv, TypeOK, environment
<1>4. CASE PollSuccess
  BY <1>1, <1>4, RetryFacts, Quiet DEF PollSuccess, Inv, TypeOK, environment
<1> QED BY <1>2, <1>3, <1>4

LEMMA SocketKeeps ==
    ASSUME Inv, NEW k \in Kinds,
           Timer(k) \/ Accepted(k) \/ Admitted(k) \/ Dropped(k) \/ AuthClosed(k)
    PROVE  Inv'
<1>1. Fine(m) /\ Held(m, Waits) /\ m \in Manager
  BY InvParts DEF Fine, Sound
<1>2. m.sockets \in [Kinds -> {"none", "pending", "accepted", "live"}]
      /\ m.timers \in [Kinds -> BOOLEAN] /\ m.view \in [Kinds -> Views]
  BY <1>1 DEF Manager
<1>3. CASE Timer(k)
  <2> DEFINE t == [m EXCEPT !.timers[k] = FALSE]
  <2>1. /\ t \in Manager /\ Same(t, m) /\ t.fallback = m.fallback /\ t.view = m.view
        /\ t.shown = m.shown /\ t.timers = [m.timers EXCEPT ![k] = FALSE]
    BY <1>1 DEF Manager, Same
  <2>2. m' = OpenSocket(t, k)
    BY <1>3 DEF Timer
  <2> HIDE DEF t
  <2>3. Fine(t) /\ (k = "notifications" => Held(t, Waits))
    BY <1>1, <1>2, <2>1 DEF Fine, Sound, Honest, Shows, Opened, Same, Held, Kinds
  <2>4. Fine(m') /\ Held(m', Waits)
    BY <2>2, <2>3, OpenSocketFacts
  <2> QED BY <1>3, <2>4, Quiet DEF Timer, Inv, TypeOK, environment
<1>4. CASE Accepted(k)
  <2>1. Fine(m') /\ Held(m', Waits)
    BY <1>1, <1>4, HandleOpenFacts DEF Accepted
  <2> QED BY <1>4, <2>1, Quiet DEF Accepted, Inv, TypeOK, environment
<1>5. CASE Admitted(k)
  <2> DEFINE t == [m EXCEPT !.sockets[k] = "live"]
  <2>1. m' = t /\ m.sockets[k] = "accepted"
    BY <1>5 DEF Admitted
  <2>2. t \in Manager
    BY <1>1 DEF Manager
  <2>3. /\ t.running = m.running /\ t.want = m.want /\ t.ctor = m.ctor /\ t.lost = m.lost
        /\ t.timers = m.timers /\ t.fallback = m.fallback /\ t.view = m.view
        /\ t.shown = m.shown /\ t.sockets = [m.sockets EXCEPT ![k] = "live"]
    BY <1>1 DEF Manager
  <2> HIDE DEF t
  <2>4. Fine(t) /\ Held(t, Waits)
    BY <1>1, <1>2, <2>1, <2>2, <2>3 
    DEF Fine, Sound, Honest, Shows, Opened, Held, Both, Kinds
  <2> QED BY <1>5, <2>1, <2>4, Quiet DEF Admitted, Inv, TypeOK, environment
<1>6. ASSUME m.sockets[k] # "none"
      PROVE  LET c == CloseSocket(m, k)
             IN  /\ m.running /\ Sound(c) /\ c.running /\ c.sockets[k] = "none"
                 /\ k = "notifications" => Honest(c) /\ Held(c, Waits)
  <2> DEFINE c == CloseSocket(m, k)
  <2>1. /\ c \in Manager /\ c.sockets = [m.sockets EXCEPT ![k] = "none"]
        /\ c.running = m.running /\ c.want = m.want /\ c.ctor = m.ctor
        /\ c.lost = m.lost /\ c.timers = m.timers /\ c.fallback = m.fallback
        /\ c.view = m.view
    BY <1>1, CloseFacts
  <2>2. m.running
    BY <1>1, <1>6 DEF Fine, Sound, Both, Kinds
  <2> HIDE DEF c
  <2>3. /\ Sound(c) /\ c.running /\ c.sockets[k] = "none"
        /\ k = "notifications" => Honest(c) /\ Held(c, Waits)
    BY <1>1, <1>2, <2>1, <2>2 DEF Fine, Sound, Honest, Opened, Held, Kinds
  <2> QED BY <2>2, <2>3 DEF c
<1>7. CASE Dropped(k)
  <2>1. m.sockets[k] # "none" /\ m' = HandleClose(CloseSocket(m, k), k)
    BY <1>7 DEF Dropped
  <2>2. Fine(m') /\ Held(m', Waits)
    BY <1>6, <2>1, HandleCloseFacts
  <2> QED BY <1>7, <2>2, Quiet DEF Dropped, Inv, TypeOK, environment
<1>8. CASE AuthClosed(k)
  <2> DEFINE c == CloseSocket(m, k)
             e == See(c, k, "closed")
  <2>1. m.sockets[k] # "none" /\ m' = Emit[e] /\ waiting' = Append(waiting, k)
        /\ UNCHANGED environment /\ Len(waiting) < MaxWaiting
    BY <1>8 DEF AuthClosed
  <2>2. /\ Sound(c) /\ c.sockets[k] = "none"
        /\ k = "notifications" => Honest(c) /\ Held(c, Waits)
    BY <1>6, <2>1
  <2> HIDE DEF c
  <2>3. c \in Manager /\ "closed" \in Views
    BY <2>2 DEF Sound, Views
  <2>4. Alike(e, c) /\ e.view = [c.view EXCEPT ![k] = "closed"]
    BY <2>3, SeeFacts
  <2>5. c.view \in [Kinds -> Views]
    BY <2>3 DEF Manager
  <2> HIDE DEF e
  <2>6. Sound(e) /\ Honest(e) /\ (k = "notifications" => Held(e, Waits))
    BY <2>2, <2>4, <2>5, SoundCarries, HeldCarries
    DEF Alike, Same, Honest, Opened, Kinds
  <2>7. Fine(m') /\ (k = "notifications" => Held(m', Waits))
    BY <2>1, <2>6, EmitKeeps
  <2>8. waiting \in Seq(Kinds) /\ Len(waiting) \in Nat
    BY DEF Inv, TypeOK
  <2>9. /\ waiting' \in Seq(Kinds) /\ Len(waiting') <= MaxWaiting
        /\ Waits \/ k = "events" => Waits'
    BY <2>1, <2>8, BudgetAssumption DEF Waits
  <2>10. TypeOK'
    BY <2>1, <2>7, <2>9 DEF TypeOK, Inv, Fine, Sound, environment
  <2>11. EventsTracked'
    BY <2>7, <2>9 DEF EventsTracked, Held, Waits, Kinds
  <2> QED
    BY <2>7, <2>10, <2>11 DEF Inv, Fine, Sound, Honest, Shows, Opened
<1> QED BY <1>3, <1>4, <1>5, <1>7, <1>8

LEMMA StepInv == Inv /\ [Next]_vars => Inv'
<1> SUFFICES ASSUME Inv, [Next]_vars PROVE Inv'
  OBVIOUS
<1>1. CASE Start \/ Stop \/ PollSuccess
  BY <1>1, ApplicationKeeps
<1>2. CASE Sockets
  BY <1>2, SocketKeeps DEF Sockets
<1>3. CASE Refresh
  BY <1>3, RefreshKeeps DEF Refresh
<1>4. CASE ServerChanges \/ TokenExpires \/ SignsInElsewhere \/ UNCHANGED vars
  <2>1. UNCHANGED <<m, waiting>> /\ server' \in {"up", "busy", "down"}
        /\ token' \in {"valid", "expired"}
    BY <1>4
    DEF ServerChanges, TokenExpires, SignsInElsewhere, vars, Inv, TypeOK
  <2> QED BY <2>1, InvParts, Quiet
<1> QED BY <1>1, <1>2, <1>3, <1>4 DEF Next

LEMMA Invariance == Spec => []Inv
  BY InitInv, StepInv, PTL DEF Spec

\* Whatever timer, refresh or close comes late, for every budget: no socket after a
\* sign-out, none the principal may not hold, and no events stream that nothing will
\* bring back (RealtimeManager).
THEOREM SocketsStayInOrder == Spec => []SocketsInOrder
  BY Invariance, InvImplies, PTL

\* What the top bar and the banner say of the events stream is never better than the
\* stream is (emit, startFallback, handleOpen).
THEOREM ShownIsTrue == Spec => []NeverFlattered
  BY Invariance, InvImplies, PTL
================================================================================
