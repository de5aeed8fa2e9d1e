---------------------------- MODULE RealtimeSockets ----------------------------
(***************************************************************************)
(* The web client's two WebSockets (mirrorr-web/src/api/realtime/           *)
(* manager.ts): the events stream and the notifications stream, their        *)
(* reconnect timers, the shared budget of failed attempts that ends in the   *)
(* polling fallback, and the refresh of the access token a 4001 close asks   *)
(* for.  Every handler of RealtimeManager is an operator from the manager's   *)
(* record to its record; the actions are the callbacks that run them.        *)
(* The server accepts a socket before it looks at the credentials (ws.py),   *)
(* so a 4001 or a 1013 always follows an open.                               *)
(***************************************************************************)
EXTENDS Naturals, Sequences

CONSTANTS MaxAttempts,      \* MAX_ATTEMPTS, the shared failure budget
          MaxAuthRetries,   \* MAX_AUTH_RETRIES
          MaxWaiting        \* bound: closes with 4001 that await one refresh

ASSUME BudgetAssumption == /\ MaxAttempts \in Nat \ {0}
                           /\ MaxAuthRetries \in Nat
                           /\ MaxWaiting \in Nat \ {0}

Kinds == {"events", "notifications"}
Views == {"closed", "connecting", "open", "reconnecting", "polling", "skipped"}

VARIABLES m,         \* the manager's fields
          waiting,   \* kinds whose handleAuthClose awaits the refresh, in order
          server,    \* the core: up, busy (no NATS: closes 1013) or down
          token      \* whether the access cookie still authenticates
vars == <<m, waiting, server, token>>
environment == <<server, token>>

\* "ctor" is what `new WebSocket` does on this host.  "lost" (the kinds the auth
\* path gave up) and "shown" (what the subscribers read at the last emit) are
\* history: no handler reads them.
Manager ==
    [ctor : {"ok", "none", "throws"}, running : BOOLEAN, want : BOOLEAN,
     fallback : BOOLEAN, timers : [Kinds -> BOOLEAN], view : [Kinds -> Views],
     sockets : [Kinds -> {"none", "pending", "accepted", "live"}],
     attempts : 0 .. MaxAttempts, authRetries : 0 .. MaxAuthRetries,
     lost : SUBSET Kinds, shown : [events : Views, fallback : BOOLEAN]]

TypeOK ==
    /\ m \in Manager
    /\ waiting \in Seq(Kinds) /\ Len(waiting) <= MaxWaiting
    /\ server \in {"up", "busy", "down"} /\ token \in {"valid", "expired"}

Both(x) == [k \in Kinds |-> x]

Init ==
    /\ m \in {[ctor |-> c, running |-> FALSE, want |-> TRUE, fallback |-> FALSE,
               timers |-> Both(FALSE), view |-> Both("closed"), sockets |-> Both("none"),
               attempts |-> 0, authRetries |-> 0, lost |-> {},
               shown |-> [events |-> "closed", fallback |-> FALSE]] :
              c \in {"ok", "none", "throws"}}
    /\ waiting = <<>>
    /\ server \in {"up", "busy", "down"}
    /\ token \in {"valid", "expired"}

-------------------------------------------------------------------------------
(* The manager's methods: functions from its states to its states, so that they *)
(* compose as the calls in the code do.                                       *)

Emit[s \in Manager] ==
    [s EXCEPT !.shown = [events |-> s.view["events"], fallback |-> s.fallback]]

See(s, k, v) == [s EXCEPT !.view[k] = v]

\* The counter stops at the budget, beyond which no comparison tells it apart.
Failed(s) == [s EXCEPT !.attempts = IF @ < MaxAttempts THEN @ + 1 ELSE @]

Forgiven(s) == [s EXCEPT !.attempts = 0, !.fallback = FALSE]

Schedule(s, k) == [s EXCEPT !.timers[k] = TRUE]

CloseSocket(s, k) == [s EXCEPT !.sockets[k] = "none"]

\* The budget is spent: poll, and let the other socket's timer be.
FallBack(s, k) ==
    Emit[[s EXCEPT !.fallback = TRUE,
                   !.view = [events |-> "polling",
                             notifications |->
                                 IF s.sockets["notifications"] # "none" THEN "open"
                                 ELSE IF s.want THEN "closed" ELSE "skipped"],
                   !.timers[k] = FALSE]]

\* handleClose for any code but 4001.
HandleClose(s, k) ==
    LET closed == [See(s, k, "closed") EXCEPT !.authRetries = 0]
        failed == Failed(closed)
    IN IF ~s.running THEN s
       ELSE IF k = "notifications" /\ s.sockets["events"] # "none"
            THEN Schedule(Emit[closed], k)
       ELSE IF failed.attempts >= MaxAttempts THEN FallBack(failed, k)
       ELSE Schedule(Emit[See(failed, k, "reconnecting")], k)

\* Mutant: an open socket renews the budget of refreshes too.
HandleOpenRenews(s, k) ==
    Emit[[Forgiven(See(s, k, "open")) EXCEPT !.authRetries = 0]]

\* Mutant: the banner's flag is left to the next poll.
HandleOpenKeepsFallback(s, k) == Emit[See([s EXCEPT !.attempts = 0], k, "open")]

HandleOpen(s, k) ==
    LET seen == See(s, k, "open")
    IN Emit[IF k = "events" THEN Forgiven(seen) ELSE seen]

OpenSocket(s, k) ==
    LET degraded == s.attempts > 0 \/ s.fallback
        trying == Emit[See(s, k, IF degraded THEN "reconnecting" ELSE "connecting")]
    IN IF ~s.running THEN s
       ELSE IF k = "notifications" /\ ~s.want THEN See(s, k, "skipped")
       ELSE IF s.sockets[k] # "none" THEN s
       ELSE CASE s.ctor = "none"   -> Emit[See(s, k, "closed")]
              [] s.ctor = "throws" -> HandleClose(trying, k)
              [] s.ctor = "ok"     -> [trying EXCEPT !.sockets[k] = "pending",
                                                     !.lost = @ \ {k}]

\* Mutant: the events socket is left to its own timer.
OpenAllButEvents(s) == OpenSocket(s, "notifications")

OpenAll(s) == OpenSocket(OpenSocket(s, "events"), "notifications")

\* Mutant: the new principal's view is set, the old one's socket stays.
SyncNotificationsKeeps(s) ==
    IF ~s.want THEN Emit[See(s, "notifications", "skipped")] ELSE s

SyncNotifications(s) ==
    IF ~s.want THEN Emit[See(CloseSocket(s, "notifications"), "notifications", "skipped")]
    ELSE IF s.sockets["notifications"] = "none" /\ ~s.fallback
         THEN Emit[OpenSocket(s, "notifications")]
         ELSE s

StartManager(s, openNotifications) ==
    LET wanted == [s EXCEPT !.want = openNotifications]
    IN IF s.running THEN SyncNotifications(wanted)
       ELSE Emit[OpenAll([Forgiven(wanted) EXCEPT !.running = TRUE, !.authRetries = 0])]

StopManager(s) ==
    Emit[[s EXCEPT !.running = FALSE, !.timers = Both(FALSE), !.sockets = Both("none"),
                   !.attempts = 0, !.fallback = FALSE, !.lost = {},
                   !.view = [events |-> "closed",
                             notifications |-> IF s.want THEN "closed" ELSE "skipped"]]]

RetryManager(s) ==
    IF ~s.running THEN s
    ELSE OpenAll(Emit[Forgiven([s EXCEPT !.timers = Both(FALSE)])])

\* The rest of handleAuthClose, once the shared refresh has answered.  The
\* branch of a failed refresh does not ask whether the manager still runs.
AfterRefresh(s, k, answer) ==
    LET failed == Failed(s)
        gaveUp(t) == [t EXCEPT !.lost = @ \cup {k}]
    IN IF answer # "ok"
       THEN IF failed.attempts >= MaxAttempts
            THEN Emit[gaveUp([failed EXCEPT !.timers[k] = FALSE])]
            ELSE Schedule(Emit[See(failed, k, "reconnecting")], k)
       ELSE IF ~s.running THEN s
       ELSE IF s.authRetries >= MaxAuthRetries THEN gaveUp(s)
       ELSE OpenAll(Emit[[Forgiven(s) EXCEPT !.authRetries = @ + 1]])

-------------------------------------------------------------------------------
(* The application: sign-in, sign-out, a list's poll or the banner's button *)

Start == \E openNotifications \in BOOLEAN :
    /\ m' = StartManager(m, openNotifications)
    /\ UNCHANGED <<waiting, environment>>

Stop == /\ m' = StopManager(m)
        /\ UNCHANGED <<waiting, environment>>

\* notifyRealtimePollSuccess: after a successful poll, or from the banner.
PollSuccess ==
    /\ m.fallback
    /\ server # "down"
    /\ m' = RetryManager(m)
    /\ UNCHANGED <<waiting, environment>>

Timer(k) ==
    /\ m.timers[k]
    /\ m' = OpenSocket([m EXCEPT !.timers[k] = FALSE], k)
    /\ UNCHANGED <<waiting, environment>>

(* The sockets *)

Accepted(k) ==
    /\ m.sockets[k] = "pending" /\ server # "down"
    /\ m' = HandleOpen([m EXCEPT !.sockets[k] = "accepted"], k)
    /\ UNCHANGED <<waiting, environment>>

\* The server admits the socket; the client sees nothing of it.
Admitted(k) ==
    /\ m.sockets[k] = "accepted" /\ server = "up" /\ token = "valid"
    /\ m' = [m EXCEPT !.sockets[k] = "live"]
    /\ UNCHANGED <<waiting, environment>>

\* Refused, closed with 1013, or dropped: every close but 4001.
Dropped(k) ==
    /\ \/ m.sockets[k] # "none" /\ server = "down"
       \/ m.sockets[k] = "accepted" /\ server = "busy" /\ token = "valid"
    /\ m' = HandleClose(CloseSocket(m, k), k)
    /\ UNCHANGED <<waiting, environment>>

AuthClosed(k) ==
    /\ m.sockets[k] = "accepted" /\ server # "down" /\ token = "expired"
    /\ Len(waiting) < MaxWaiting
    /\ m' = Emit[See(CloseSocket(m, k), k, "closed")]
    /\ waiting' = Append(waiting, k)
    /\ UNCHANGED environment

\* The single-flight refresh answers everyone who waits for it; a 401 signs the
\* session out (and so stops the manager) before any of them goes on.
RefreshAnswers(answer) ==
    /\ waiting # <<>>
    /\ answer = "error" \/ server # "down"
    /\ LET first == IF answer = "expired" THEN StopManager(m) ELSE m
           after[n \in 0 .. Len(waiting)] ==
               IF n = 0 THEN first ELSE AfterRefresh(after[n - 1], waiting[n], answer)
       IN  m' = after[Len(waiting)]
    /\ waiting' = <<>>
    /\ token' = IF answer = "ok" THEN "valid" ELSE token
    /\ UNCHANGED server

Refresh == \E answer \in {"ok", "error", "expired"} : RefreshAnswers(answer)

(* The world *)

ServerChanges == /\ server' \in {"up", "busy", "down"} \ {server}
                 /\ UNCHANGED <<m, waiting, token>>

TokenExpires == /\ token = "valid" /\ token' = "expired"
                /\ UNCHANGED <<m, waiting, server>>

SignsInElsewhere == /\ token = "expired" /\ token' = "valid"
                    /\ UNCHANGED <<m, waiting, server>>

Sockets == \E k \in Kinds : \/ Timer(k) \/ Accepted(k) \/ Admitted(k)
                            \/ Dropped(k) \/ AuthClosed(k)

Next == \/ Start \/ Stop \/ PollSuccess \/ Sockets \/ Refresh
        \/ ServerChanges \/ TokenExpires \/ SignsInElsewhere

\* Timers fire, sockets are answered, a request ends, and a list keeps polling.
Fairness == /\ \A k \in Kinds : /\ WF_vars(Timer(k)) /\ WF_vars(Accepted(k))
                                /\ WF_vars(Admitted(k)) /\ WF_vars(Dropped(k))
                                /\ WF_vars(AuthClosed(k))
            /\ WF_vars(Refresh) /\ WF_vars(PollSuccess)

Spec == Init /\ [][Next]_vars /\ Fairness

-------------------------------------------------------------------------------
(* Safety *)

Heard(k) == m.sockets[k] \in {"accepted", "live"}

\* What the top bar and the banner under it say of the events stream.
Pill == CASE ~m.want -> "Polling"
          [] m.want /\ m.shown.events = "open" -> "Live"
          [] m.want /\ m.shown.events = "polling" -> "Polling"
          [] OTHER -> "Not live"
Banner == m.want /\ m.shown.fallback

\* After a sign-out no socket is left and none is ever opened, whatever timer or
\* refresh was still pending: openSocket is reached from both.
StoppedIsSilent == ~m.running => m.sockets = Both("none")

\* An API client's session never holds a notifications socket, although the
\* principal may change under a pending timer or refresh.
PrincipalRespected == ~m.want => m.sockets["notifications"] = "none"

\* The pill and the banner never flatter the events stream: they show the state
\* (no emit is missing), "Live" is only said of a socket that is open, and the
\* fallback is never announced beside an open stream.
NeverFlattered ==
    /\ m.shown = [events |-> m.view["events"], fallback |-> m.fallback]
    /\ Pill = "Live" => Heard("events")
    /\ Banner => ~Heard("events")

\* While the manager runs, an events stream that is down is being brought back:
\* a timer, a refresh or the fallback's polling answers for it.  The one way to
\* forget it is the auth path giving up.
EventsTracked ==
    m.running /\ m.ctor # "none" /\ m.sockets["events"] = "none" =>
        \/ m.timers["events"] \/ m.fallback
        \/ \E i \in DOMAIN waiting : waiting[i] = "events"
        \/ "events" \in m.lost

\* Whatever timer, refresh or close comes late: no socket after a sign-out, none
\* the principal may not hold, and no events stream that nothing will bring back.
SocketsInOrder == TypeOK /\ StoppedIsSilent /\ PrincipalRespected /\ EventsTracked

-------------------------------------------------------------------------------
(* Liveness *)

\* Once the server stays up and the cookie good, the events stream comes back
\* by itself, from the polling fallback too, unless the auth path gave it up.
EventsReturn ==
    <>[](server = "up" /\ token = "valid" /\ m.ctor = "ok")
        => []<>(~m.running \/ m.sockets["events"] = "live" \/ "events" \in m.lost)

\* A server that keeps closing 4001 after successful refreshes does not keep the
\* client refreshing for ever: only ordinary closes or sign-ins renew its budget.
StormEnds ==
    []<><<RefreshAnswers("ok")>>_vars
        => []<><<Start \/ \E k \in Kinds : Dropped(k)>>_vars

===============================================================================
