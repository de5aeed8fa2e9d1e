------------------------------ MODULE AuthSession ------------------------------
(***************************************************************************)
(* The signed-in session of one browser tab (mirrorr-web/src/api/auth.ts     *)
(* and client.ts): the boot's /auth/me, sign-in and sign-out, the calls that *)
(* answer a 401 with one shared refresh and one retry, the latch that makes   *)
(* an expiry one forced logout, and the proactive refresh timer.  The core    *)
(* rotates the refresh token at every refresh and takes a revoked one, be it    *)
(* used before or signed out, for stolen.  The page is the router's: /login    *)
(* and /register are public, every other route asks for a session.           *)
(***************************************************************************)
EXTENDS Naturals, Sequences, FiniteSets

CONSTANTS MaxSessions,   \* bound: sign-ins
          MaxTokens,     \* bound: refresh tokens the core mints
          MaxEntries,    \* bound: sign-ins on their way at once
          MaxTimers,     \* bound: proactive timers told apart
          MaxFaults,     \* bound: expiries, revocations, failed requests, reloads
          Flights        \* slots for /auth/refresh requests of this tab

ASSUME BoundsAssumption == /\ MaxSessions \in Nat \ {0}
                           /\ MaxTokens \in Nat \ {0}
                           /\ MaxEntries \in Nat \ {0}
                           /\ MaxTimers \in Nat \ {0}
                           /\ MaxFaults \in Nat
                           /\ IsFiniteSet(Flights) /\ Flights # {}

Sessions == 1 .. MaxSessions
Tokens == 1 .. MaxTokens
Nobody == 0
\* The calls this tab makes through apiFetch: the boot's and a view's query.
Calls == {"me", "query"}

VARIABLES c,        \* the tab's modules: auth.ts and client.ts
          calls,    \* each call's progress and the session its cookie named
          flights,  \* the refreshes on their way
          forms,    \* sign-ins, sign-outs and password changes on their way
          jar,      \* the browser's cookies
          core,     \* the core: its tokens and what became of them
          faults    \* how many faults have happened
vars == <<c, calls, flights, forms, jar, core, faults>>

TypeOK ==
    /\ c.status \in {"unknown", "authenticated", "anonymous"}
    /\ c.session \in Sessions \cup {Nobody}
    /\ c.page \in {"loading", "public", "app"}
    /\ c.latched \in BOOLEAN /\ c.proactive \in BOOLEAN
    /\ c.timers \in 0 .. MaxTimers /\ c.handle \in BOOLEAN
    /\ c.fresh \in BOOLEAN /\ c.ended \in SUBSET Sessions
    /\ \A k \in Calls : /\ calls[k].at \in {"idle", "sent", "waiting", "resent"}
                        /\ calls[k].carried \in Sessions \cup {Nobody}
                        /\ calls[k].on \in Flights
    /\ \A f \in Flights : /\ flights[f].at \in {"none", "sent", "rotated"}
                          /\ flights[f].token \in Tokens \cup {Nobody}
                          /\ flights[f].next \in Tokens \cup {Nobody}
                          /\ flights[f].timers \in 0 .. MaxTimers
    /\ forms.entries \in 0 .. MaxEntries
    /\ forms.leaving \in {"none", "menu", "settings", "password"}
    /\ forms.token \in Tokens \cup {Nobody}
    /\ jar.access \in Sessions \cup {Nobody} /\ jar.refresh \in Tokens \cup {Nobody}
    /\ core.minted \in 0 .. MaxTokens /\ core.sessions \in 0 .. MaxSessions
    /\ core.revoked \in SUBSET Tokens /\ core.spent \in SUBSET Tokens
    /\ core.lost \in SUBSET Tokens
    /\ core.closed \in SUBSET Sessions /\ core.removed \in SUBSET Sessions
    /\ faults \in 0 .. MaxFaults

NoFlight == [at |-> "none", token |-> Nobody, next |-> Nobody, timers |-> 0]
SomeFlight == CHOOSE f \in Flights : TRUE

\* A page just loaded: the modules' initial state.
Loaded == [status |-> "unknown", session |-> Nobody, page |-> "loading",
           latched |-> FALSE, proactive |-> FALSE, timers |-> 0, handle |-> FALSE,
           fresh |-> FALSE, ended |-> {}]
NoCalls == [k \in Calls |-> [at |-> "idle", carried |-> Nobody, on |-> SomeFlight]]
NoForms == [entries |-> 0, leaving |-> "none", token |-> Nobody]

\* A browser with the cookies of an earlier visit; one without them is the same
\* once they have expired.
Init ==
    /\ c = Loaded /\ calls = NoCalls /\ forms = NoForms
    /\ flights = [f \in Flights |-> NoFlight]
    /\ jar = [access |-> 1, refresh |-> 1]
    /\ core = [minted |-> 1, sessions |-> 1, owner |-> <<1>>, revoked |-> {},
               spent |-> {}, lost |-> {}, closed |-> {}, removed |-> {}]
    /\ faults = 0

-------------------------------------------------------------------------------
(* auth.ts *)

Armed(timers, n) == IF timers + n > MaxTimers THEN MaxTimers ELSE timers + n

\* startProactiveRefresh arms a timer unless one is installed.  The sockets that
\* come and go with the session are those of RealtimeSockets.
OnAuthenticated(s, session) ==
    [s EXCEPT !.status = "authenticated", !.session = session,
              !.proactive = TRUE, !.timers = IF s.proactive THEN @ ELSE Armed(@, 1),
              !.handle = @ \/ ~s.proactive]

\* stopProactiveRefresh knows the last timer armed; queryClient.clear() drops the
\* calls under way, and the generation tells fetchAuthMe that it was.
ClearSession(s) ==
    [s EXCEPT !.status = "anonymous", !.session = Nobody,
              !.proactive = FALSE,
              !.timers = IF s.proactive /\ s.handle THEN @ - 1 ELSE @,
              !.handle = @ /\ ~s.proactive,
              !.fresh = FALSE, !.ended = @ \cup ({s.session} \ {Nobody})]

ForceLogout(s) ==
    IF s.status = "authenticated"
    THEN [ClearSession(s) EXCEPT !.page = "public"]
    ELSE ClearSession(s)

NotifyAuthExhausted(s) ==
    IF s.latched THEN s ELSE ForceLogout([s EXCEPT !.latched = TRUE])

\* The router's guards, when a navigation that waited for /auth/me goes on.
Land(s) == [s EXCEPT !.page = IF s.status = "authenticated" THEN "app" ELSE "public"]

\* Mutant: the generation is not compared after the await.
MeAnsweredAnyway(s, session) == OnAuthenticated(s, session)

\* fetchAuthMe's end, with the session the answer names or the error's status.
MeAnswered(s, session) ==
    IF s.fresh THEN OnAuthenticated(s, session)
    ELSE IF s.status # "anonymous" THEN ClearSession(s) ELSE s
MeUnauthorized(s) == IF s.status # "anonymous" THEN ClearSession(s) ELSE s

-------------------------------------------------------------------------------
(* client.ts *)

Works(session) == session # Nobody /\ session \notin core.closed

\* Mutant: every 401 sends its own refresh while there is room.
JoinedNever(f) == (\E g \in Flights : flights[g].at = "none") => flights[f].at = "none"

\* refreshSession: join the refresh under way, else send one with the cookie.
Joined(f) == IF \E g \in Flights : flights[g].at # "none"
             THEN flights[f].at # "none"
             ELSE f = SomeFlight

Sending(f) == IF flights[f].at # "none" THEN flights[f]
              ELSE [NoFlight EXCEPT !.at = "sent", !.token = jar.refresh]

Send(k) ==
    /\ calls[k].at = "idle"
    /\ calls' = [calls EXCEPT ![k].at = "sent", ![k].carried = jar.access]
    /\ c' = [c EXCEPT !.fresh = @ \/ k = "me"]
    /\ UNCHANGED <<flights, forms, jar, core>>

\* beforeLoad of the root route: the boot, and any navigation while unknown.
SendMe == c.status = "unknown" /\ Send("me")

\* A mounted view's query: first load, poll or refetch.
SendQuery == c.page = "app" /\ Send("query")

Finish(k, s) == /\ calls' = [calls EXCEPT ![k].at = "idle", ![k].carried = Nobody]
                /\ c' = IF k = "me" THEN [Land(s) EXCEPT !.fresh = FALSE] ELSE s

Answered(k) ==
    /\ calls[k].at \in {"sent", "resent"} /\ Works(calls[k].carried)
    /\ Finish(k, IF k = "me" THEN MeAnswered(c, calls[k].carried) ELSE c)
    /\ UNCHANGED <<flights, forms, jar, core>>

\* The first 401 awaits the shared refresh.
Unauthorized(k) ==
    /\ calls[k].at = "sent" /\ ~Works(calls[k].carried)
    /\ \E f \in Flights :
          /\ Joined(f)
          /\ flights' = [flights EXCEPT ![f] = Sending(f)]
          /\ calls' = [calls EXCEPT ![k].at = "waiting", ![k].carried = Nobody,
                                    ![k].on = f]
    /\ UNCHANGED <<c, forms, jar, core>>

\* The second 401, after a refresh that succeeded: one logout, no retry storm.
UnauthorizedAgain(k) ==
    /\ calls[k].at = "resent" /\ ~Works(calls[k].carried)
    /\ LET s == NotifyAuthExhausted(c)
       IN Finish(k, IF k = "me" THEN MeUnauthorized(s) ELSE s)
    /\ UNCHANGED <<flights, forms, jar, core>>

\* No connection, or an answer of 5xx.
CallFails(k) ==
    /\ calls[k].at \in {"sent", "resent"}
    /\ Finish(k, c)
    /\ UNCHANGED <<flights, forms, jar, core>>

-------------------------------------------------------------------------------
(* The shared refresh *)

Waiting(f) == {k \in Calls : calls[k].at = "waiting" /\ calls[k].on = f}

\* Those who wait fail with the refresh's error; "me" lets its navigation go on.
WaitersFail(f, s) ==
    /\ calls' = [k \in Calls |-> IF k \in Waiting(f)
                                 THEN [calls[k] EXCEPT !.at = "idle", !.carried = Nobody]
                                 ELSE calls[k]]
    /\ c' = IF "me" \in Waiting(f) THEN [Land(s) EXCEPT !.fresh = FALSE] ELSE s
    /\ flights' = [flights EXCEPT ![f] = NoFlight]

\* Mutant: only a refresh that succeeded arms the timer again.
RearmedIfRotated(s, f) ==
    IF flights[f].at = "rotated"
    THEN [s EXCEPT !.timers = Armed(@, flights[f].timers),
                   !.handle = @ \/ flights[f].timers > 0]
    ELSE s

\* A proactive timer whose refresh did not end in 401 is armed again, also when
\* it was stopped in the meantime.
Rearmed(s, f) == [s EXCEPT !.timers = Armed(@, flights[f].timers),
                           !.handle = @ \/ flights[f].timers > 0]

\* The record of a token says that it was rotated, signed out or revoked by a
\* change of password; the records go with the account.
MarkedRevoked(token) ==
    token \in core.spent \cup core.revoked /\ core.owner[token] \notin core.removed

Usable(token) ==
    /\ token # Nobody /\ token \notin core.spent \cup core.revoked
    /\ core.owner[token] \notin core.removed

\* The core rotates the token and sends the next one.
CoreRotates(f) ==
    /\ flights[f].at = "sent" /\ Usable(flights[f].token) /\ core.minted < MaxTokens
    /\ core' = [core EXCEPT !.minted = @ + 1, !.spent = @ \cup {flights[f].token},
                            !.owner = Append(@, core.owner[flights[f].token])]
    /\ flights' = [flights EXCEPT ![f].at = "rotated", ![f].next = core.minted + 1]
    /\ UNCHANGED <<c, calls, forms, jar>>

\* A refresh this page no longer waits for, served after all: the cookies of its
\* answer reach nobody.
ServedLate ==
    /\ core.minted < MaxTokens
    /\ \E t \in core.lost :
          /\ Usable(t)
          /\ core' = [core EXCEPT !.minted = @ + 1, !.spent = @ \cup {t},
                                  !.owner = Append(@, core.owner[t])]
    /\ UNCHANGED <<c, calls, flights, forms, jar>>

\* Its answer sets the cookies, lowers the latch and has every waiter ask again.
Refreshed(f) ==
    /\ flights[f].at = "rotated"
    /\ jar' = [access |-> core.owner[flights[f].next], refresh |-> flights[f].next]
    /\ c' = [Rearmed(c, f) EXCEPT !.latched = FALSE]
    /\ calls' = [k \in Calls |-> IF k \in Waiting(f)
                                 THEN [calls[k] EXCEPT !.at = "resent", !.carried = jar'.access]
                                 ELSE calls[k]]
    /\ flights' = [flights EXCEPT ![f] = NoFlight]
    /\ UNCHANGED <<forms, core>>

\* The core takes a token that is revoked already for stolen.  The update that
\* would revoke the account's other tokens goes with the uncommitted database
\* session: the refusal changes none of them.
TakenForStolen(f) == flights[f].at = "sent" /\ MarkedRevoked(flights[f].token)

\* Mutant: a refused refresh is an error like any other.
RefreshRefusedQuietly(f) ==
    /\ flights[f].at = "sent" /\ flights[f].token # Nobody /\ ~Usable(flights[f].token)
    /\ WaitersFail(f, c)
    /\ UNCHANGED <<forms, jar, core>>

\* 401: the latch, then the waiters' own errors.
RefreshRefused(f) ==
    /\ flights[f].at = "sent" /\ flights[f].token # Nobody /\ ~Usable(flights[f].token)
    /\ LET s == NotifyAuthExhausted(c)
       IN WaitersFail(f, IF "me" \in Waiting(f) THEN MeUnauthorized(s) ELSE s)
    /\ UNCHANGED <<forms, jar, core>>

\* 400, as the browser had no refresh cookie to send, or a 5xx.
RefreshErrs(f) ==
    /\ flights[f].at = "sent"
    /\ flights[f].token = Nobody \/ Usable(flights[f].token)
    /\ WaitersFail(f, Rearmed(c, f))
    /\ UNCHANGED <<forms, jar, core>>

\* The connection fails before the core saw the request, or after.
RefreshFails(f) ==
    /\ flights[f].at # "none"
    /\ WaitersFail(f, Rearmed(c, f))
    /\ core' = [core EXCEPT !.lost = @ \cup ({flights[f].token} \ {Nobody})]
    /\ UNCHANGED <<forms, jar>>

\* The 23-hour timer; whichever fires forgets the handle of the last one armed.
TimerFires ==
    /\ c.timers > 0
    /\ \E f \in Flights :
          /\ Joined(f)
          /\ flights' = [flights EXCEPT ![f] = [Sending(f) EXCEPT !.timers = Armed(@, 1)]]
    /\ c' = [c EXCEPT !.timers = @ - 1, !.handle = FALSE]
    /\ UNCHANGED <<calls, forms, jar, core>>

\* The tab is shown again an hour or more after the last refresh.
VisibleAgain ==
    /\ c.proactive
    /\ \E f \in Flights : Joined(f) /\ flights' = [flights EXCEPT ![f] = Sending(f)]
    /\ UNCHANGED <<c, calls, forms, jar, core>>

-------------------------------------------------------------------------------
(* The forms and the router *)

\* Sign-in or registration; another view may submit while one is on its way.
SubmitEntry ==
    /\ c.page = "public" /\ forms.entries < MaxEntries
    /\ forms' = [forms EXCEPT !.entries = @ + 1]
    /\ UNCHANGED <<c, calls, flights, jar, core>>

\* The new session's cookies, the latch down, and the page it may see.
EntryAccepted ==
    LET session == core.sessions + 1
        token == core.minted + 1
    IN /\ forms.entries > 0 /\ session \in Sessions /\ token \in Tokens
       /\ forms' = [forms EXCEPT !.entries = @ - 1]
       /\ core' = [core EXCEPT !.sessions = session, !.minted = token,
                               !.owner = Append(@, session)]
       /\ jar' = [access |-> session, refresh |-> token]
       /\ c' = Land(OnAuthenticated([c EXCEPT !.latched = FALSE], session))
       /\ UNCHANGED <<calls, flights>>

\* Refused, pending an admin's approval, or no connection.
EntryRefused ==
    /\ forms.entries > 0
    /\ forms' = [forms EXCEPT !.entries = @ - 1]
    /\ UNCHANGED <<c, calls, flights, jar, core>>

\* The account menu's and the settings' sign-out, and the password form.
Leave(how) ==
    /\ c.page = "app" /\ forms.leaving = "none"
    /\ how = "password" => c.status = "authenticated"
    /\ forms' = [forms EXCEPT !.leaving = how, !.token = jar.refresh]
    /\ UNCHANGED <<c, calls, flights, jar, core>>

Left == [forms EXCEPT !.leaving = "none", !.token = Nobody]

\* The local clear does not wait for a good answer; only the settings navigate.
SignedOut ==
    /\ forms.leaving \in {"menu", "settings"}
    /\ c' = IF forms.leaving = "settings" THEN Land(ClearSession(c)) ELSE ClearSession(c)
    /\ forms' = Left
    /\ UNCHANGED <<calls, flights>>

LogoutAnswered ==
    /\ SignedOut
    /\ core' = [core EXCEPT !.revoked = @ \cup ({forms.token} \ {Nobody})]
    /\ jar' = [access |-> Nobody, refresh |-> Nobody]

LogoutFails == SignedOut /\ UNCHANGED <<jar, core>>

\* A new password revokes every token of the account and voids its access tokens.
WithNewPassword(session) ==
    [core EXCEPT !.closed = @ \cup {session},
                 !.revoked = @ \cup {t \in 1 .. core.minted : core.owner[t] = session}]

\* The settings' form: then the forced logout.
PasswordChanged ==
    /\ forms.leaving = "password" /\ forms.token # Nobody
    /\ core' = WithNewPassword(core.owner[forms.token])
    /\ c' = ForceLogout(c)
    /\ forms' = Left
    /\ UNCHANGED <<calls, flights, jar>>

PasswordRefused ==
    /\ forms.leaving = "password"
    /\ forms' = Left
    /\ UNCHANGED <<c, calls, flights, jar, core>>

\* A link: the guards decide at once when the status is known.
Navigate ==
    /\ c.page # "loading" /\ c.status # "unknown"
    /\ c' = Land(c)
    /\ UNCHANGED <<calls, flights, forms, jar, core>>

\* The page is loaded again: what was on its way is never heard of, whether the
\* core has served it or not.
Reload ==
    /\ c' = Loaded /\ calls' = NoCalls /\ forms' = NoForms
    /\ flights' = [f \in Flights |-> NoFlight]
    /\ core' = [core EXCEPT !.lost = @ \cup ({flights[f].token : f \in Flights} \ {Nobody})]
    /\ UNCHANGED jar

(* The world *)

AccessExpires ==
    /\ jar.access # Nobody
    /\ jar' = [jar EXCEPT !.access = Nobody]
    /\ UNCHANGED <<c, calls, flights, forms, core>>

RefreshCookieExpires ==
    /\ jar.refresh # Nobody
    /\ jar' = [jar EXCEPT !.refresh = Nobody]
    /\ UNCHANGED <<c, calls, flights, forms, core>>

\* The account's password is changed on another device, or the account removed.
RevokedElsewhere ==
    /\ jar.refresh # Nobody
    /\ LET session == core.owner[jar.refresh]
       IN \/ core' = WithNewPassword(session)
          \/ core' = [core EXCEPT !.closed = @ \cup {session},
                                  !.removed = @ \cup {session}]
    /\ UNCHANGED <<c, calls, flights, forms, jar>>

-------------------------------------------------------------------------------
Call(k) == Answered(k) \/ Unauthorized(k) \/ UnauthorizedAgain(k)
\* With its tokens spent, the bounded core answers a refresh with an error.
Flight(f) == \/ CoreRotates(f) \/ Refreshed(f) \/ RefreshRefused(f)
             \/ (flights[f].token # Nobody => core.minted = MaxTokens) /\ RefreshErrs(f)
Faults == \/ Reload \/ AccessExpires \/ RefreshCookieExpires \/ RevokedElsewhere
         \/ \E k \in Calls : CallFails(k)
         \/ \E f \in Flights : RefreshFails(f) \/ RefreshErrs(f)
Person == \/ SubmitEntry \/ Navigate \/ VisibleAgain
          \/ \E how \in {"menu", "settings", "password"} : Leave(how)
Forms == \/ EntryAccepted \/ EntryRefused \/ LogoutAnswered \/ LogoutFails
         \/ PasswordChanged \/ PasswordRefused

Next == \/ /\ UNCHANGED faults
           /\ \/ SendMe \/ SendQuery \/ TimerFires \/ Person \/ Forms \/ ServedLate
              \/ \E k \in Calls : Call(k)
              \/ \E f \in Flights : Flight(f)
        \/ faults < MaxFaults /\ faults' = faults + 1 /\ Faults

\* Views keep asking, and every request is answered.
Fairness == /\ WF_vars(SendMe /\ UNCHANGED faults) /\ WF_vars(SendQuery /\ UNCHANGED faults)
            /\ \A k \in Calls : WF_vars(Call(k) /\ UNCHANGED faults)
            /\ \A f \in Flights : WF_vars(Flight(f) /\ UNCHANGED faults)

Spec == Init /\ [][Next]_vars /\ Fairness

-------------------------------------------------------------------------------
(* Safety *)

\* A session this page has signed out of never comes back through a late answer
\* of /auth/me: the generation is checked after every await.
SignedOutStaysOut == c.session \notin c.ended

\* The latch that makes an expiry one logout is never up in a live session,
\* whose own expiry would otherwise go unnoticed.
LatchIsOpenInSession == c.latched => c.status # "authenticated"

\* A session on screen always has its next proactive refresh ahead: a timer is
\* armed, or a timer's refresh is on its way and will arm it again.  The timer is
\* armed again from the callback of a refresh that may have been joined, failed,
\* or been overtaken by a sign-out and the next sign-in.
RefreshIsAhead ==
    c.status = "authenticated" =>
        c.timers > 0 \/ \E f \in Flights : flights[f].timers > 0

\* A session on screen can still be kept alive and can still be seen to end,
\* through every order of sign-ins, late answers, timers and expiries.
SessionConsistent == TypeOK /\ LatchIsOpenInSession /\ RefreshIsAhead

\* Parallel 401s, timers and visits of this tab never race the rotation: a refresh
\* the core will take for theft carries a token that was signed out or revoked with
\* a password, or one that was on its way before and whose answer was lost.
RotationNeverRaces ==
    \A f \in Flights :
       TakenForStolen(f) => flights[f].token \in core.revoked \cup core.lost

-------------------------------------------------------------------------------
(* Liveness *)

\* A session the core has ended for good ends in the tab as well, as long as the
\* browser still holds a refresh cookie to be refused with.
DeadSessionEnds ==
    <>[](jar.refresh # Nobody /\ ~Usable(jar.refresh) /\ ~Works(jar.access))
        => []<>(c.status # "authenticated")
===============================================================================
