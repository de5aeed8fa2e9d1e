--------------------------- MODULE AuthSessionProofs ---------------------------
(***************************************************************************)
(* The safety properties of AuthSession for every number of sign-ins,      *)
(* tokens, timers, faults and refresh slots.  The invariant is about what  *)
(* one module of the tab may assume of the others: which calls may still   *)
(* be trusted, which token a refresh carries, and who holds a timer.       *)
(***************************************************************************)
EXTENDS AuthSession, TLAPS

TabType == [status : {"unknown", "authenticated", "anonymous"},
            session : Sessions \cup {Nobody}, page : {"loading", "public", "app"},
            latched : BOOLEAN, proactive : BOOLEAN,
            timers : 0 .. MaxTimers, handle : BOOLEAN,
            fresh : BOOLEAN, ended : SUBSET Sessions]
CallType == [at : {"idle", "sent", "waiting", "resent"}, carried : Sessions \cup {Nobody},
             on : Flights]
FlightType == [at : {"none", "sent", "rotated"}, token : Tokens \cup {Nobody},
               next : Tokens \cup {Nobody}, timers : 0 .. MaxTimers]
FormType == [entries : 0 .. MaxEntries,
             leaving : {"none", "menu", "settings", "password"},
             token : Tokens \cup {Nobody}]
JarType == [access : Sessions \cup {Nobody}, refresh : Tokens \cup {Nobody}]
CoreType == [minted : Tokens, sessions : Sessions, owner : Seq(Sessions),
             revoked : SUBSET Tokens, spent : SUBSET Tokens, lost : SUBSET Tokens,
             closed : SUBSET Sessions, removed : SUBSET Sessions]

\* The tab, of n sessions so far.  The boot's call is fresh, or the status unknown,
\* only while nothing was signed out; the latch is up only where it is not fresh.
Steady(s, n) ==
    /\ s \in TabType
    /\ s.handle => s.timers > 0
    /\ s.proactive <=> s.status = "authenticated"
    /\ s.session \in 0 .. n /\ s.session \notin s.ended
    /\ s.ended \subseteq 1 .. n
    /\ s.status = "unknown" \/ s.fresh => s.ended = {}
Tab(s, n) ==
    /\ Steady(s, n)
    /\ s.latched => s.status = "anonymous" /\ ~s.fresh
\* What RefreshIsAhead says of the tab s.
Ahead(s) ==
    s.status = "authenticated" =>
        s.timers > 0 \/ \E f \in Flights : flights[f].timers > 0

CallInv == /\ calls \in [Calls -> CallType]
           /\ \A k \in Calls : calls[k].carried \in 0 .. core.sessions
\* One refresh is on its way at most, with the timers that wait for it, and the
\* token it brings back is new.
FlightInv ==
    /\ flights \in [Flights -> FlightType]
    /\ \A f \in Flights :
         /\ flights[f].at # "none" => f = SomeFlight
         /\ flights[f].at = "none" => flights[f].timers = 0
         /\ flights[f].token \in 0 .. core.minted
         /\ flights[f].next \in 0 .. core.minted
         /\ flights[f].at = "rotated" =>
               flights[f].next \in (1 .. core.minted) \ (core.spent \cup core.lost)
FormInv == forms \in FormType /\ forms.token \in 0 .. core.minted
JarInv == /\ jar \in JarType
          /\ jar.access \in 0 .. core.sessions
          /\ jar.refresh \in 0 .. core.minted
CoreInv == /\ core \in CoreType
           /\ Len(core.owner) = core.minted
           /\ \A t \in 1 .. core.minted : core.owner[t] \in 1 .. core.sessions
           /\ core.spent \subseteq 1 .. core.minted
           /\ core.lost \subseteq 1 .. core.minted
\* A spent token whose answer was not lost is nowhere but in the jar that waits for
\* the answer to its rotation.
SpentInv ==
    /\ \A f \in Flights : flights[f].at = "sent" /\ flights[f].token \in core.spent
                           => flights[f].token \in core.lost
    /\ jar.refresh \in core.spent =>
         \/ jar.refresh \in core.lost
         \/ flights[SomeFlight].at = "rotated" /\ flights[SomeFlight].token = jar.refresh

Inv == /\ Tab(c, core.sessions) /\ CallInv /\ FlightInv /\ FormInv /\ JarInv
       /\ CoreInv /\ SpentInv /\ RefreshIsAhead /\ faults \in 0 .. MaxFaults

\* What the invariant gives is what the runs check.
LEMMA InvImplies ==
    Inv => SignedOutStaysOut /\ SessionConsistent /\ RotationNeverRaces
<1> SUFFICES ASSUME Inv
             PROVE  SignedOutStaysOut /\ SessionConsistent /\ RotationNeverRaces
  OBVIOUS
<1>1. SignedOutStaysOut /\ RefreshIsAhead /\ LatchIsOpenInSession
  BY DEF Inv, Tab, Steady, SignedOutStaysOut, LatchIsOpenInSession
<1>2. RotationNeverRaces
  BY DEF Inv, SpentInv, RotationNeverRaces, TakenForStolen, MarkedRevoked
<1>3. TypeOK
  <2>1. c \in TabType /\ calls \in [Calls -> CallType]
        /\ flights \in [Flights -> FlightType] /\ forms \in FormType
        /\ jar \in JarType /\ core \in CoreType /\ faults \in 0 .. MaxFaults
    BY DEF Inv, Tab, Steady, CallInv, FlightInv, FormInv, JarInv, CoreInv
  <2>2. core.minted \in 0 .. MaxTokens /\ core.sessions \in 0 .. MaxSessions
    BY <2>1, BoundsAssumption DEF CoreType, Sessions, Tokens
  <2>3. \A f \in Flights : flights[f] \in FlightType
    BY <2>1
  <2>4. \A k \in Calls : calls[k] \in CallType
    BY <2>1
  <2> QED
    BY <2>1, <2>2, <2>3, <2>4
    DEF TypeOK, TabType, CallType, FlightType, FormType, JarType, CoreType
<1> QED BY <1>1, <1>2, <1>3 DEF SessionConsistent

LEMMA SomeFlightIn == SomeFlight \in Flights
  BY BoundsAssumption, Zenon DEF SomeFlight

(***************************************************************************)
(* auth.ts: each function leaves a consistent tab.                         *)
(***************************************************************************)
LEMMA ArmedFacts ==
    ASSUME NEW t \in 0 .. MaxTimers, NEW n \in 0 .. MaxTimers
    PROVE  Armed(t, n) \in 0 .. MaxTimers /\ Armed(t, n) >= t
           /\ (n > 0 => Armed(t, n) > 0)
  BY BoundsAssumption DEF Armed

LEMMA ClearedType ==
    ASSUME NEW s \in TabType, NEW t \in 0 .. MaxTimers, NEW h \in BOOLEAN,
           NEW e \in SUBSET Sessions
    PROVE  [s EXCEPT !.status = "anonymous", !.session = Nobody,
                     !.proactive = FALSE, !.timers = t, !.handle = h, !.fresh = FALSE,
                     !.ended = e] \in TabType
  BY DEF TabType, Nobody

LEMMA ClearTab ==
    ASSUME NEW s, NEW n \in Nat, n <= MaxSessions, Steady(s, n)
    PROVE  LET r == ClearSession(s)
           IN  Tab(r, n) /\ r.status = "anonymous" /\ ~r.fresh
               /\ r.latched = s.latched /\ r.page = s.page
<1>1. Nobody = 0 /\ 1 .. n \subseteq Sessions
  BY BoundsAssumption DEF Nobody, Sessions
<1> DEFINE r == ClearSession(s)
<1>2. s \in TabType
  BY DEF Steady
<1>3. /\ r.status = "anonymous" /\ r.session = Nobody /\ r.page = s.page
      /\ r.latched = s.latched /\ r.proactive = FALSE
      /\ r.timers = IF s.proactive /\ s.handle THEN s.timers - 1 ELSE s.timers
      /\ r.handle = (s.handle /\ ~s.proactive)
      /\ ~r.fresh /\ r.ended = s.ended \cup ({s.session} \ {Nobody})
  BY <1>2 DEF ClearSession, TabType
<1>4. r.timers \in 0 .. MaxTimers /\ (r.handle => r.timers > 0)
  <2>1. /\ s.timers \in 0 .. MaxTimers /\ s.handle \in BOOLEAN /\ s.proactive \in BOOLEAN
        /\ s.handle => s.timers > 0
    BY <1>2 DEF Steady, TabType
  <2> HIDE DEF r
  <2>2. r.handle => s.handle /\ ~s.proactive
    BY <1>3, Zenon
  <2>3. r.timers = IF s.proactive /\ s.handle THEN s.timers - 1 ELSE s.timers
    BY <1>3
  <2>4. CASE s.proactive /\ s.handle
    BY <2>1, <2>2, <2>3, <2>4, BoundsAssumption
  <2>5. CASE ~(s.proactive /\ s.handle)
    BY <2>1, <2>2, <2>3, <2>5
  <2> QED BY <2>4, <2>5
<1>5. r.ended \subseteq 1 .. n
  BY <1>1, <1>2, <1>3 DEF Steady, TabType
<1>6. r \in TabType
  <2>1. /\ (IF s.proactive /\ s.handle THEN s.timers - 1 ELSE s.timers) \in 0 .. MaxTimers
        /\ (s.handle /\ ~s.proactive) \in BOOLEAN
        /\ (s.ended \cup ({s.session} \ {Nobody})) \in SUBSET Sessions
    BY <1>1, <1>3, <1>4, <1>5
  <2> QED BY <1>2, <2>1, ClearedType DEF ClearSession
<1> HIDE DEF r
<1>7. Tab(r, n)
  BY <1>1, <1>3, <1>4, <1>5, <1>6 DEF Steady, Tab
<1> QED BY <1>3, <1>7 DEF r

LEMMA LogoutTab ==
    ASSUME NEW s, NEW n \in Nat, n <= MaxSessions, Steady(s, n)
    PROVE  LET r == ForceLogout(s)
           IN  Tab(r, n) /\ r.status = "anonymous" /\ ~r.fresh
               /\ r.latched = s.latched
<1> DEFINE r == ClearSession(s)
<1>1. Tab(r, n) /\ r.status = "anonymous" /\ ~r.fresh /\ r.latched = s.latched
  BY ClearTab
<1> HIDE DEF r
<1>2. LET q == [r EXCEPT !.page = "public"]
      IN  Tab(q, n) /\ q.status = "anonymous" /\ ~q.fresh /\ q.latched = s.latched
  BY <1>1 DEF Tab, Steady, TabType
<1> QED BY <1>1, <1>2 DEF ForceLogout, r

\* The latch goes up only with the logout it stands for.
LEMMA ExhaustedTab ==
    ASSUME NEW s, NEW n \in Nat, n <= MaxSessions, Tab(s, n)
    PROVE  Tab(NotifyAuthExhausted(s), n)
<1> DEFINE raised == [s EXCEPT !.latched = TRUE]
<1>1. Steady(raised, n)
  BY DEF Tab, Steady, TabType
<1> HIDE DEF raised
<1>2. Tab(ForceLogout(raised), n)
  BY <1>1, LogoutTab
<1> QED BY <1>2 DEF NotifyAuthExhausted, raised

LEMMA AuthenticatedTab ==
    ASSUME NEW s, NEW n \in Nat, n <= MaxSessions, Tab(s, n), ~s.latched,
           NEW session \in 0 .. n, session \notin s.ended
    PROVE  Tab(OnAuthenticated(s, session), n)
<1> DEFINE t == IF s.proactive THEN s.timers ELSE Armed(s.timers, 1)
           h == s.handle \/ ~s.proactive
           r == [s EXCEPT !.status = "authenticated", !.session = session,
                          !.proactive = TRUE, !.timers = t,
                          !.handle = h]
<1>1. s \in TabType
  BY DEF Tab, Steady
<1>2. t \in 0 .. MaxTimers /\ (h => t > 0) /\ h \in BOOLEAN
  <2>1. s.timers \in 0 .. MaxTimers /\ (s.handle => s.timers > 0)
        /\ s.handle \in BOOLEAN /\ s.proactive \in BOOLEAN
    BY <1>1 DEF Tab, Steady, TabType
  <2>2. 1 \in 0 .. MaxTimers
    BY BoundsAssumption
  <2>3. Armed(s.timers, 1) \in 0 .. MaxTimers /\ Armed(s.timers, 1) > 0
    BY <2>1, <2>2, BoundsAssumption DEF Armed
  <2> QED BY <2>1, <2>3
<1>3. r = OnAuthenticated(s, session)
  BY DEF OnAuthenticated
<1> HIDE DEF t, h
<1>4. session \in Sessions \cup {Nobody}
  BY BoundsAssumption DEF Sessions, Nobody
<1>5. r \in TabType
  BY <1>1, <1>2, <1>4 DEF TabType
<1>6. /\ r.status = "authenticated" /\ r.session = session
      /\ r.proactive = TRUE /\ r.timers = t /\ r.handle = h
      /\ r.latched = s.latched /\ r.fresh = s.fresh /\ r.ended = s.ended
  BY <1>1 DEF TabType
<1> HIDE DEF r
<1>7. Tab(r, n)
  BY <1>2, <1>5, <1>6 DEF Tab, Steady
<1> QED BY <1>3, <1>7

\* The parts of the tab that no clause relates to another.
LEMMA TabEdits ==
    ASSUME NEW s, NEW n \in Nat, Tab(s, n),
           NEW page \in {"loading", "public", "app"}, NEW calm \in BOOLEAN,
           calm => s.fresh
    PROVE  /\ Tab([s EXCEPT !.page = page], n)
           /\ Tab([s EXCEPT !.fresh = calm], n)
           /\ Tab([s EXCEPT !.latched = FALSE], n)
  BY DEF Tab, Steady, TabType

LEMMA LandTab ==
    ASSUME NEW s, NEW n \in Nat, Tab(s, n)
    PROVE  Tab(Land(s), n)
  BY TabEdits DEF Land, Tab, Steady, TabType

LEMMA MeTab ==
    ASSUME NEW s, NEW n \in Nat, n <= MaxSessions, Tab(s, n), NEW session \in 0 .. n
    PROVE  Tab(MeAnswered(s, session), n) /\ Tab(MeUnauthorized(s), n)
<1>1. Tab(ClearSession(s), n)
  BY ClearTab DEF Tab
<1>2. CASE s.fresh
  <2>1. ~s.latched /\ s.ended = {}
    BY <1>2 DEF Tab, Steady
  <2>2. Tab(OnAuthenticated(s, session), n)
    BY <2>1, AuthenticatedTab
  <2> QED BY <1>1, <1>2, <2>2 DEF MeAnswered, MeUnauthorized
<1> QED BY <1>1, <1>2 DEF MeAnswered, MeUnauthorized

LEMMA RearmedTab ==
    ASSUME NEW s, NEW n \in Nat, Tab(s, n), NEW f \in Flights,
           flights[f].timers \in 0 .. MaxTimers
    PROVE  Tab(Rearmed(s, f), n)
<1> DEFINE t == Armed(s.timers, flights[f].timers)
           h == s.handle \/ flights[f].timers > 0
<1>1. s \in TabType
  BY DEF Tab, Steady
<1>2. t \in 0 .. MaxTimers /\ (h => t > 0) /\ h \in BOOLEAN
  <2>1. s.timers \in 0 .. MaxTimers /\ (s.handle => s.timers > 0)
        /\ s.handle \in BOOLEAN
    BY <1>1 DEF Tab, Steady, TabType
  <2>2. t \in 0 .. MaxTimers /\ t >= s.timers /\ (flights[f].timers > 0 => t > 0)
    BY <2>1, ArmedFacts
  <2> QED BY <2>1, <2>2
<1> HIDE DEF t, h
<1>3. Tab([s EXCEPT !.timers = t, !.handle = h], n)
  BY <1>1, <1>2 DEF Tab, Steady, TabType
<1> QED BY <1>3 DEF Rearmed, t, h

\* None of them leaves a session without its next refresh ahead.
LEMMA AuthenticatedAhead ==
    ASSUME NEW s, NEW n \in Nat, Steady(s, n), Ahead(s), NEW session
    PROVE  Ahead(OnAuthenticated(s, session))
<1>1. s \in TabType /\ s.timers \in 0 .. MaxTimers
  BY DEF Steady, TabType
<1>2. OnAuthenticated(s, session).timers
        = IF s.proactive THEN s.timers ELSE Armed(s.timers, 1)
  BY <1>1 DEF OnAuthenticated, TabType
<1>3. CASE s.proactive
  BY <1>2, <1>3 DEF Steady, Ahead
<1>4. CASE ~s.proactive
  <2>1. 1 \in 0 .. MaxTimers
    BY BoundsAssumption
  <2>2. Armed(s.timers, 1) > 0
    BY <1>1, <2>1, BoundsAssumption DEF Armed
  <2> QED BY <1>2, <1>4, <2>2 DEF Ahead
<1> QED BY <1>3, <1>4

LEMMA AnonymousAhead ==
    ASSUME NEW s, NEW n \in Nat, n <= MaxSessions, Tab(s, n)
    PROVE  /\ Ahead(ClearSession(s)) /\ Ahead(Land(ClearSession(s)))
           /\ Ahead(ForceLogout(s)) /\ NotifyAuthExhausted(s).status = "anonymous"
<1>1. ClearSession(s).status = "anonymous" /\ Tab(ClearSession(s), n)
  BY ClearTab DEF Tab
<1>2. ForceLogout(s).status = "anonymous"
  BY LogoutTab DEF Tab
<1> DEFINE r == ClearSession(s)
<1> HIDE DEF r
<1>3. r.status = "anonymous" => Land(r).status # "authenticated"
  <2>1. Land(r) = [r EXCEPT !.page = IF r.status = "authenticated" THEN "app" ELSE "public"]
    BY DEF Land
  <2> QED BY <1>1, <2>1 DEF r, Tab, Steady, TabType
<1>4. NotifyAuthExhausted(s).status = "anonymous"
  <2> DEFINE raised == [s EXCEPT !.latched = TRUE]
  <2>1. Steady(raised, n)
    BY DEF Tab, Steady, TabType
  <2> HIDE DEF raised
  <2>2. ForceLogout(raised).status = "anonymous"
    BY <2>1, LogoutTab
  <2> QED BY <2>2 DEF NotifyAuthExhausted, raised, Tab
<1> QED BY <1>1, <1>2, <1>3, <1>4 DEF Ahead, r

LEMMA MeAhead ==
    ASSUME NEW s, NEW n \in Nat, n <= MaxSessions, Tab(s, n), Ahead(s), NEW session
    PROVE  Ahead(MeAnswered(s, session)) /\ Ahead(MeUnauthorized(s))
<1>1. Ahead(OnAuthenticated(s, session)) /\ Ahead(ClearSession(s))
  BY AuthenticatedAhead, AnonymousAhead DEF Tab
<1> QED BY <1>1 DEF MeAnswered, MeUnauthorized

\* Where the page goes, the latch and the freshness of a call do not matter to it.
LEMMA AheadEdits ==
    ASSUME NEW s \in TabType, Ahead(s), NEW p, NEW calm
    PROVE  /\ Ahead([s EXCEPT !.page = p]) /\ Ahead([s EXCEPT !.fresh = calm])
           /\ Ahead([s EXCEPT !.latched = calm]) /\ Ahead(Land(s))
           /\ Ahead([Land(s) EXCEPT !.fresh = calm])
<1>1. \A r : r.status = s.status /\ r.timers = s.timers => Ahead(r)
  BY DEF Ahead
<1> QED BY <1>1 DEF Land, TabType

(***************************************************************************)
(* The steps.                                                              *)
(***************************************************************************)
LEMMA Sizes ==
    ASSUME Inv
    PROVE  /\ core.sessions \in Nat /\ core.sessions >= 1 /\ core.sessions <= MaxSessions
           /\ core.minted \in Nat /\ core.minted >= 1 /\ core.minted <= MaxTokens
           /\ \A k \in Calls : calls[k] \in CallType
           /\ \A f \in Flights : flights[f] \in FlightType
  BY BoundsAssumption
  DEF Inv, CoreInv, CoreType, CallInv, FlightInv, Sessions, Tokens

LEMMA InitInv == Init => Inv
<1> SUFFICES ASSUME Init PROVE Inv
  OBVIOUS
<1> USE BoundsAssumption, SomeFlightIn DEF Init, Sessions, Tokens, Nobody
<1>1. Tab(c, core.sessions)
  BY DEF Loaded, Tab, Steady, TabType
<1>2. CallInv
  BY DEF CallInv, CallType, NoCalls
<1>3. FlightInv
  BY DEF FlightInv, FlightType, NoFlight
<1>4. FormInv
  BY DEF FormInv, FormType, NoForms
<1>5. JarInv
  BY DEF JarInv, JarType
<1>6. CoreInv
  BY DEF CoreInv, CoreType
<1>7. SpentInv /\ RefreshIsAhead
  BY DEF SpentInv, NoFlight, RefreshIsAhead, Loaded
<1> QED BY <1>1, <1>2, <1>3, <1>4, <1>5, <1>6, <1>7 DEF Inv

\* A tab's own step: the core and what it sent stay as they are.
LEMMA TabStep ==
    ASSUME Inv, Tab(c', core.sessions), Ahead(c'), CallInv', FormInv',
           UNCHANGED <<flights, jar, core>>, faults' \in 0 .. MaxFaults
    PROVE  Inv'
  BY DEF Inv, FlightInv, JarInv, CoreInv, SpentInv, Ahead, RefreshIsAhead

\* Finish: the call ends, and with it what it does to the tab.
LEMMA FinishStep ==
    ASSUME Inv, NEW k \in Calls, NEW s, Tab(s, core.sessions), Ahead(s), Finish(k, s),
           UNCHANGED core
    PROVE  CallInv' /\ Tab(c', core.sessions) /\ Ahead(c')
<1>1. CallInv'
  <2>1. calls' = [calls EXCEPT ![k].at = "idle", ![k].carried = Nobody]
    BY DEF Finish
  <2>2. calls \in [Calls -> CallType]
        /\ \A j \in Calls : calls[j].carried \in 0 .. core.sessions
    BY DEF Inv, CallInv
  <2>3. calls' \in [Calls -> CallType]
    BY <2>1, <2>2 DEF CallType
  <2>4. \A j \in Calls : calls'[j].carried = IF j = k THEN 0 ELSE calls[j].carried
    BY <2>1, <2>2 DEF CallType, Nobody
  <2> QED BY <2>2, <2>3, <2>4, Sizes DEF CallInv
<1>2. Tab(Land(s), core.sessions) /\ s \in TabType /\ Land(s) \in TabType
  BY Sizes, LandTab DEF Tab, Steady
<1>3. CASE k = "me"
  <2>1. c' = [Land(s) EXCEPT !.fresh = FALSE]
    BY <1>3 DEF Finish
  <2>2. Land(s).page \in {"loading", "public", "app"}
    BY <1>2 DEF TabType
  <2>3. Tab(c', core.sessions)
    BY <1>2, <2>1, <2>2, Sizes, TabEdits
  <2> QED BY <1>1, <1>2, <2>1, <2>3, AheadEdits
<1>4. CASE k # "me"
  BY <1>1, <1>4 DEF Finish
<1> QED BY <1>3, <1>4

\* A refresh is joined, or sent with the jar's token when none is on its way; what
\* is new of it is the timers it will arm again.
LEMMA JoinStep ==
    ASSUME Inv, NEW f \in Flights, Joined(f), NEW t \in 0 .. MaxTimers,
           flights' = [flights EXCEPT ![f] = [Sending(f) EXCEPT !.timers = t]],
           UNCHANGED <<jar, core>>
    PROVE  FlightInv' /\ SpentInv' /\ \A g \in Flights : flights'[g].timers
                                        = IF g = f THEN t ELSE flights[g].timers
<1>1. FlightInv /\ JarInv /\ CoreInv /\ SpentInv
  BY DEF Inv
<1>2. f = SomeFlight /\ \A g \in Flights : g # f => flights[g].at = "none"
  BY <1>1 DEF Joined, FlightInv
<1>3. jar.refresh \in Tokens \cup {Nobody} /\ jar.refresh \in 0 .. core.minted
  BY <1>1 DEF JarInv, JarType
<1>4. flights[f] \in FlightType
  BY Sizes
<1>5. /\ Sending(f) \in FlightType
      /\ Sending(f).at \in {"sent", "rotated"}
      /\ Sending(f).token \in 0 .. core.minted /\ Sending(f).next \in 0 .. core.minted
      /\ Sending(f).at = "rotated" => Sending(f) = flights[f] /\ flights[f].at = "rotated"
      /\ Sending(f).at = "sent" =>
           \/ Sending(f) = flights[f]
           \/ Sending(f).token = jar.refresh /\ flights[f].at = "none"
  <2>1. CASE flights[f].at # "none"
    BY <1>1, <1>4, <2>1 DEF Sending, FlightType, FlightInv
  <2>2. CASE flights[f].at = "none"
    <3>1. Sending(f) = [at |-> "sent", token |-> jar.refresh, next |-> Nobody, timers |-> 0]
      BY <2>2 DEF Sending, NoFlight
    <3> QED BY <1>3, <2>2, <3>1, Sizes, BoundsAssumption DEF FlightType, Nobody
  <2> QED BY <2>1, <2>2
<1>6. FlightInv' /\ \A g \in Flights : flights'[g].timers
                               = IF g = f THEN t ELSE flights[g].timers
  BY <1>1, <1>2, <1>5 DEF FlightInv, FlightType
<1>7. SpentInv'
  BY <1>1, <1>2, <1>5 DEF SpentInv, FlightInv, FlightType
<1> QED BY <1>6, <1>7

\* A call is sent, answered, refused, told to wait or lost.
LEMMA CallStep ==
    ASSUME Inv, faults' \in 0 .. MaxFaults, NEW k \in Calls,
           SendMe \/ SendQuery \/ Call(k) \/ CallFails(k)
    PROVE  Inv'
<1>0. Tab(c, core.sessions) /\ c \in TabType /\ Ahead(c)
  BY DEF Inv, Tab, Steady, Ahead, RefreshIsAhead
<1>1. ASSUME NEW j \in Calls, Send(j), j = "me" => c.status = "unknown"
      PROVE  Inv'
  <2>1. CallInv'
    BY <1>1 DEF Send, Inv, CallInv, CallType, JarInv, JarType
  <2>2. Tab(c', core.sessions) /\ Ahead(c')
    <3>1. c' = [c EXCEPT !.fresh = c.fresh \/ j = "me"]
      BY <1>1 DEF Send
    <3>2. (c.fresh \/ j = "me") \in BOOLEAN
      BY <1>0 DEF TabType
    <3> QED BY <1>0, <1>1, <3>1, <3>2, AheadEdits DEF Tab, Steady, TabType
  <2>3. FormInv'
    BY <1>1 DEF Send, Inv, FormInv
  <2> QED BY <1>1, <2>1, <2>2, <2>3, TabStep DEF Send
<1>2. ASSUME NEW s, Tab(s, core.sessions), Ahead(s), Finish(k, s),
             UNCHANGED <<flights, forms, jar, core>>
      PROVE  Inv'
  <2>1. CallInv' /\ Tab(c', core.sessions) /\ Ahead(c')
    BY <1>2, FinishStep
  <2>2. FormInv'
    BY <1>2 DEF Inv, FormInv
  <2> QED BY <1>2, <2>1, <2>2, TabStep
<1>3. CASE SendMe \/ SendQuery
  BY <1>1, <1>3 DEF SendMe, SendQuery, Calls
<1>4. CASE Answered(k)
  <2>1. calls[k].carried \in 0 .. core.sessions
    BY DEF Inv, CallInv
  <2>2. Tab(MeAnswered(c, calls[k].carried), core.sessions)
        /\ Ahead(MeAnswered(c, calls[k].carried))
    BY <1>0, <2>1, Sizes, MeTab, MeAhead
  <2> QED BY <1>0, <1>2, <1>4, <2>2 DEF Answered
<1>5. CASE UnauthorizedAgain(k)
  <2>1. Tab(NotifyAuthExhausted(c), core.sessions) /\ Ahead(NotifyAuthExhausted(c))
    BY <1>0, Sizes, ExhaustedTab, AnonymousAhead DEF Ahead
  <2>2. Tab(MeUnauthorized(NotifyAuthExhausted(c)), core.sessions)
        /\ Ahead(MeUnauthorized(NotifyAuthExhausted(c)))
    BY <2>1, Sizes, MeTab, MeAhead
  <2> QED BY <1>2, <1>5, <2>1, <2>2 DEF UnauthorizedAgain
<1>6. CASE CallFails(k)
  BY <1>0, <1>2, <1>6 DEF CallFails
<1>7. CASE Unauthorized(k)
  <2>1. PICK f \in Flights :
          /\ Joined(f)
          /\ flights' = [flights EXCEPT ![f] = Sending(f)]
          /\ calls' = [calls EXCEPT ![k].at = "waiting", ![k].carried = Nobody,
                                   ![k].on = f]
    BY <1>7 DEF Unauthorized
  <2>2. UNCHANGED <<c, forms, jar, core>>
    BY <1>7 DEF Unauthorized
  <2>3. CallInv'
    <3>1. calls \in [Calls -> CallType] /\ Nobody \in Sessions \cup {Nobody}
          /\ \A j \in Calls : calls[j].carried \in 0 .. core.sessions
      BY DEF Inv, CallInv
    <3>2. calls' \in [Calls -> CallType]
      BY <2>1, <3>1 DEF CallType
    <3>3. \A j \in Calls : calls'[j].carried = IF j = k THEN 0 ELSE calls[j].carried
      BY <2>1, <3>1 DEF CallType, Nobody
    <3> QED BY <2>2, <3>1, <3>2, <3>3, Sizes DEF CallInv
  <2>4. [flights EXCEPT ![f] = Sending(f)]
          = [flights EXCEPT ![f] = [Sending(f) EXCEPT !.timers = Sending(f).timers]]
    BY Sizes, BoundsAssumption DEF Sending, NoFlight, FlightType
  <2>5. Sending(f).timers \in 0 .. MaxTimers
    BY Sizes, BoundsAssumption DEF Sending, NoFlight, FlightType
  <2>6. FlightInv' /\ SpentInv' /\ \A g \in Flights : flights'[g].timers
                                     = IF g = f THEN Sending(f).timers ELSE flights[g].timers
    BY <2>1, <2>2, <2>4, <2>5, JoinStep
  <2>7. Sending(f).timers = flights[f].timers
    BY DEF Inv, FlightInv, Sending, NoFlight
  <2>8. RefreshIsAhead'
    BY <2>2, <2>6, <2>7 DEF Inv, RefreshIsAhead
  <2> QED BY <2>2, <2>3, <2>6, <2>8 DEF Inv, FormInv, JarInv, CoreInv
<1> QED BY <1>3, <1>4, <1>5, <1>6, <1>7 DEF Call

\* The calls that waited for a refresh fail with it.
LEMMA WaitersStep ==
    ASSUME Inv, NEW f \in Flights, NEW s, Tab(s, core.sessions), WaitersFail(f, s),
           s.status = "authenticated" => s.timers > 0,
           core'.sessions = core.sessions, core'.minted = core.minted,
           core'.spent = core.spent, flights[f].at # "none"
    PROVE  CallInv' /\ Tab(c', core.sessions) /\ FlightInv' /\ RefreshIsAhead'
<1>1. CallInv'
  <2>1. \A k \in Calls : calls[k] \in CallType
                         /\ calls[k].carried \in 0 .. core.sessions
    BY Sizes DEF Inv, CallInv
  <2>2. \A k \in Calls :
          [calls[k] EXCEPT !.at = "idle", !.carried = Nobody] \in CallType
          /\ [calls[k] EXCEPT !.at = "idle", !.carried = Nobody].carried = 0
    BY <2>1 DEF CallType, Nobody
  <2>3. calls' = [k \in Calls |-> IF k \in Waiting(f)
                    THEN [calls[k] EXCEPT !.at = "idle", !.carried = Nobody]
                    ELSE calls[k]]
    BY DEF WaitersFail
  <2>4. calls' \in [Calls -> CallType]
    BY <2>1, <2>2, <2>3
  <2>5. \A k \in Calls : calls'[k].carried \in {0, calls[k].carried}
    BY <2>2, <2>3
  <2> QED BY <2>1, <2>4, <2>5, Sizes DEF CallInv
<1>2. Tab(c', core.sessions) /\ (c'.status = "authenticated" => c'.timers > 0)
  <2>1. Tab(Land(s), core.sessions) /\ s \in TabType /\ Land(s) \in TabType
    BY Sizes, LandTab DEF Tab, Steady
  <2>2. Land(s).status = s.status /\ Land(s).timers = s.timers
    BY <2>1 DEF Land, TabType
  <2>3. Land(s).page \in {"loading", "public", "app"}
    BY <2>1 DEF TabType
  <2>4. CASE "me" \in Waiting(f)
    <3>1. c' = [Land(s) EXCEPT !.fresh = FALSE]
      BY <2>4 DEF WaitersFail
    <3>2. Tab(c', core.sessions)
      BY <2>1, <2>3, <3>1, Sizes, TabEdits
    <3>3. c'.status = s.status /\ c'.timers = s.timers
      BY <2>1, <2>2, <3>1 DEF TabType
    <3> QED BY <3>2, <3>3
  <2>5. CASE "me" \notin Waiting(f)
    BY <2>5 DEF WaitersFail
  <2> QED BY <2>4, <2>5
<1>3. FlightInv'
  <2>1. flights' = [flights EXCEPT ![f] = NoFlight]
    BY DEF WaitersFail
  <2>2. \A g \in Flights : flights'[g] = IF g = f THEN NoFlight ELSE flights[g]
    BY <2>1 DEF Inv, FlightInv
  <2>3. \A g \in Flights : flights'[g].at = "none"
    BY <2>2 DEF Inv, FlightInv, NoFlight
  <2>4. flights' \in [Flights -> FlightType]
    BY <2>1, BoundsAssumption DEF Inv, FlightInv, FlightType, NoFlight, Nobody
  <2> QED BY <2>2, <2>3, <2>4, Sizes DEF Inv, FlightInv, NoFlight, Nobody
<1> QED BY <1>1, <1>2, <1>3 DEF RefreshIsAhead

\* A refresh that ends leaves the jar's token as it is, unless its rotation's answer
\* was lost.
LEMMA EndedStep ==
    ASSUME Inv, NEW f \in Flights, flights[f].at # "none", UNCHANGED jar,
           flights' = [flights EXCEPT ![f] = NoFlight],
           core.lost \subseteq core'.lost, core'.spent = core.spent,
           flights[f].at = "rotated" => flights[f].token \in core'.lost \cup {Nobody}
    PROVE  SpentInv'
<1>1. f = SomeFlight /\ \A g \in Flights : g # f => flights[g].at = "none"
  BY DEF Inv, FlightInv
<1>2. flights \in [Flights -> FlightType] /\ 0 \notin core.spent
  BY DEF Inv, FlightInv, CoreInv
<1>3. \A g \in Flights : flights'[g].at = "none"
  BY <1>1, <1>2 DEF NoFlight, FlightType
<1> QED BY <1>1, <1>2, <1>3 DEF Inv, SpentInv, Nobody

LEMMA FlightStep ==
    ASSUME Inv, faults' \in 0 .. MaxFaults, NEW f \in Flights,
           Flight(f) \/ RefreshFails(f) \/ RefreshErrs(f)
    PROVE  Inv'
<1>0. /\ Tab(c, core.sessions) /\ CallInv /\ FlightInv /\ FormInv /\ JarInv
      /\ CoreInv /\ SpentInv
  BY DEF Inv
<1>1. flights[f] \in FlightType /\ flights \in [Flights -> FlightType]
  BY <1>0, Sizes DEF FlightInv
<1>2. Tab(Rearmed(c, f), core.sessions)
  BY <1>0, <1>1, Sizes, RearmedTab DEF FlightType
<1>a. flights[f].at # "none" /\ c.status = "authenticated" =>
         Armed(c.timers, flights[f].timers) > 0
  <2>1. \A g \in Flights : g # f /\ flights[f].at # "none" => flights[g].timers = 0
    BY <1>0 DEF FlightInv
  <2>2. c.timers \in 0 .. MaxTimers /\ flights[f].timers \in 0 .. MaxTimers
    BY <1>0, <1>1 DEF Tab, Steady, TabType, FlightType
  <2>3. flights[f].at # "none" /\ c.status = "authenticated" =>
          c.timers > 0 \/ flights[f].timers > 0
    BY <2>1 DEF Inv, RefreshIsAhead
  <2> QED BY <2>2, <2>3, ArmedFacts
<1>3. CASE CoreRotates(f)
  <2>1. /\ flights[f].at = "sent" /\ core.minted < MaxTokens
        /\ flights[f].token \in 1 .. core.minted
        /\ core' = [core EXCEPT !.minted = core.minted + 1,
                                !.spent = core.spent \cup {flights[f].token},
                                !.owner = Append(core.owner,
                                                 core.owner[flights[f].token])]
        /\ flights' = [flights EXCEPT ![f].at = "rotated", ![f].next = core.minted + 1]
        /\ UNCHANGED <<c, calls, forms, jar>>
    BY <1>0, <1>3, Sizes DEF CoreRotates, Usable, FlightInv, Nobody
  <2>2. /\ core'.minted = core.minted + 1 /\ core'.sessions = core.sessions
        /\ core'.spent = core.spent \cup {flights[f].token}
        /\ core'.lost = core.lost
        /\ core'.owner = Append(core.owner, core.owner[flights[f].token])
    BY <1>0, <2>1 DEF CoreInv, CoreType
  <2>3. core' \in CoreType
    <3>1. core \in CoreType /\ core.owner \in Seq(Sessions)
          /\ core.owner[flights[f].token] \in Sessions
      BY <1>0, <2>1, Sizes, BoundsAssumption DEF CoreInv, CoreType, Sessions
    <3>2. core.minted + 1 \in Tokens /\ flights[f].token \in Tokens
      BY <2>1, Sizes, BoundsAssumption DEF Tokens
    <3>3. Append(core.owner, core.owner[flights[f].token]) \in Seq(Sessions)
      BY <3>1
    <3>4. core.spent \cup {flights[f].token} \in SUBSET Tokens
      BY <3>1, <3>2 DEF CoreType
    <3> QED BY <2>1, <3>1, <3>2, <3>3, <3>4 DEF CoreType
  <2>4. CoreInv'
    BY <1>0, <2>1, <2>2, <2>3, Sizes DEF CoreInv, CoreType
  <2>5. FlightInv'
    <3>1. core.minted + 1 \in Tokens /\ core.minted + 1 \notin core'.spent \cup core'.lost
      BY <1>0, <2>1, <2>2, Sizes, BoundsAssumption DEF CoreInv, Tokens
    <3>2. flights' \in [Flights -> FlightType]
      BY <1>1, <2>1, <3>1 DEF FlightType
    <3>3. \A g \in Flights : g # f => flights'[g] = flights[g] /\ flights[g].at = "none"
      BY <1>0, <1>1, <2>1 DEF FlightInv
    <3>4. /\ flights'[f].at = "rotated" /\ flights'[f].token = flights[f].token
          /\ flights'[f].next = core.minted + 1 /\ flights'[f].timers = flights[f].timers
      BY <1>1, <2>1 DEF FlightType
    <3>5. f = SomeFlight
      BY <1>0, <2>1 DEF FlightInv
    <3> QED BY <1>0, <2>1, <2>2, <3>1, <3>2, <3>3, <3>4, <3>5, Sizes DEF FlightInv
  <2>6. SpentInv' /\ RefreshIsAhead'
    <3>1. \A g \in Flights : /\ flights'[g].token = flights[g].token
                             /\ flights'[g].timers = flights[g].timers
                             /\ flights'[g].at = IF g = f THEN "rotated" ELSE flights[g].at
      BY <1>1, <2>1 DEF FlightType
    <3>2. RefreshIsAhead'
      BY <2>1, <3>1 DEF Inv, RefreshIsAhead
    <3>3. f = SomeFlight /\ \A g \in Flights : g # f => flights[g].at = "none"
      BY <1>0, <2>1 DEF FlightInv
    <3>4. SpentInv'
      <4>1. \A g \in Flights : flights'[g].at # "sent"
        BY <3>1, <3>3
      <4>2. flights'[f].at = "rotated" /\ flights'[f].token = flights[f].token
        BY <3>1
      <4>3. jar'.refresh \in core'.spent => jar.refresh \in core.lost
                                            \/ jar.refresh = flights[f].token
        BY <1>0, <2>1, <2>2, <3>3 DEF SpentInv
      <4> QED BY <2>1, <2>2, <3>3, <4>1, <4>2, <4>3 DEF SpentInv
    <3> QED BY <3>2, <3>4
  <2>7. CallInv' /\ FormInv' /\ JarInv' /\ Tab(c', core'.sessions)
    BY <1>0, <2>1, <2>2, Sizes DEF CallInv, FormInv, JarInv
  <2> QED BY <2>4, <2>5, <2>6, <2>7 DEF Inv
<1>4. CASE Refreshed(f)
  <2> DEFINE access == core.owner[flights[f].next]
  <2>1. /\ flights[f].at = "rotated"
        /\ flights[f].next \in (1 .. core.minted) \ (core.spent \cup core.lost)
        /\ core.owner[flights[f].next] \in 1 .. core.sessions
    BY <1>0, <1>4 DEF Refreshed, FlightInv, CoreInv
  <2>2. access \in Sessions /\ access \in 0 .. core.sessions
    BY <2>1, Sizes, BoundsAssumption DEF Sessions
  <2>3. /\ jar' = [access |-> access, refresh |-> flights[f].next]
        /\ c' = [Rearmed(c, f) EXCEPT !.latched = FALSE]
        /\ flights' = [flights EXCEPT ![f] = NoFlight]
        /\ calls' = [k \in Calls |-> IF k \in Waiting(f)
                         THEN [calls[k] EXCEPT !.at = "resent", !.carried = access]
                         ELSE calls[k]]
        /\ UNCHANGED <<forms, core>>
    BY <1>4 DEF Refreshed
  <2> HIDE DEF access
  <2>4. JarInv'
    <3>1. flights[f].next \in Tokens /\ flights[f].next \in 0 .. core.minted
      BY <2>1, Sizes, BoundsAssumption DEF Tokens
    <3>2. jar'.access = access /\ jar'.refresh = flights[f].next
      BY <2>3
    <3> QED BY <2>2, <2>3, <3>1, <3>2 DEF JarInv, JarType
  <2>5. Tab(c', core.sessions)
    <3> DEFINE r == Rearmed(c, f)
    <3>1. r.fresh \in BOOLEAN /\ r.page \in {"loading", "public", "app"}
      BY <1>2 DEF Tab, Steady, TabType
    <3> HIDE DEF r
    <3>2. Tab([r EXCEPT !.latched = FALSE], core.sessions)
      BY <1>2, <3>1, Sizes, TabEdits DEF r
    <3> QED BY <2>3, <3>2 DEF r
  <2>6. FlightInv'
    <3>1. NoFlight \in FlightType /\ NoFlight.at = "none"
          /\ NoFlight.token = 0 /\ NoFlight.next = 0 /\ NoFlight.timers = 0
      BY BoundsAssumption DEF NoFlight, FlightType, Nobody
    <3> HIDE DEF NoFlight
    <3>2. flights' = [flights EXCEPT ![f] = NoFlight] /\ core' = core
      BY <2>3
    <3>3. \A g \in Flights : flights'[g] = IF g = f THEN NoFlight ELSE flights[g]
      BY <1>1, <3>2
    <3>4. flights' \in [Flights -> FlightType]
      BY <1>1, <3>1, <3>2
    <3>5. 0 \in 0 .. core.minted
      BY Sizes
    <3> QED BY <1>0, <3>1, <3>2, <3>3, <3>4, <3>5 DEF FlightInv
  <2>7. CallInv'
    <3>1. \A k \in Calls :
            [calls[k] EXCEPT !.at = "resent", !.carried = access] \in CallType
            /\ [calls[k] EXCEPT !.at = "resent", !.carried = access].carried = access
      BY <2>2, Sizes DEF CallType
    <3> QED BY <1>0, <2>2, <2>3, <3>1, Sizes DEF CallInv
  <2>8. SpentInv'
    BY <1>0, <1>1, <2>1, <2>3 DEF SpentInv, FlightInv, FlightType, NoFlight
  <2>9. RefreshIsAhead'
    <3>1. c'.status = c.status /\ c'.timers = Armed(c.timers, flights[f].timers)
      BY <1>0, <2>3 DEF Rearmed, Tab, Steady, TabType
    <3>2. c.status = "authenticated" => Armed(c.timers, flights[f].timers) > 0
      BY <1>a, <2>1
    <3> QED BY <3>1, <3>2 DEF RefreshIsAhead
  <2> QED BY <1>0, <2>3, <2>4, <2>5, <2>6, <2>7, <2>8, <2>9 DEF Inv, FormInv, CoreInv
<1>5. ASSUME NEW s, Tab(s, core.sessions), WaitersFail(f, s), UNCHANGED <<forms, jar>>,
             s.status = "authenticated" => s.timers > 0, flights[f].at # "none",
             NEW lost \in SUBSET (1 .. core.minted), core.lost \subseteq lost,
             core' = [core EXCEPT !.lost = lost],
             flights[f].at = "rotated" => flights[f].token \in lost \cup {Nobody}
      PROVE  Inv'
  <2>1. /\ core'.sessions = core.sessions /\ core'.minted = core.minted
        /\ core'.spent = core.spent /\ core'.lost = lost /\ core'.owner = core.owner
    BY <1>0, <1>5 DEF CoreInv, CoreType
  <2>2. CallInv' /\ Tab(c', core.sessions) /\ FlightInv' /\ RefreshIsAhead'
    BY <1>5, <2>1, WaitersStep
  <2>3. CoreInv'
    <3>1. lost \in SUBSET Tokens
      BY Sizes, BoundsAssumption DEF Tokens
    <3>2. core' \in CoreType
      BY <1>0, <1>5, <3>1 DEF CoreInv, CoreType
    <3> QED BY <1>0, <2>1, <3>2 DEF CoreInv
  <2>4. FormInv' /\ JarInv'
    BY <1>0, <1>5, <2>1 DEF FormInv, JarInv
  <2>5. SpentInv'
    BY <1>5, <2>1, EndedStep DEF WaitersFail
  <2> QED BY <2>1, <2>2, <2>3, <2>4, <2>5 DEF Inv
<1>b. /\ core.lost \in SUBSET (1 .. core.minted)
       /\ core = [core EXCEPT !.lost = core.lost]
  BY <1>0 DEF CoreInv, CoreType
<1>c. flights[f].at # "none" /\ Rearmed(c, f).status = "authenticated" =>
          Rearmed(c, f).timers > 0
  BY <1>0, <1>a DEF Rearmed, Tab, Steady, TabType
<1>6. CASE RefreshRefused(f)
  <2> DEFINE s == NotifyAuthExhausted(c)
             r == IF "me" \in Waiting(f) THEN MeUnauthorized(s) ELSE s
  <2>1. Tab(s, core.sessions) /\ s.status = "anonymous"
    BY <1>0, Sizes, ExhaustedTab, AnonymousAhead
  <2>2. MeUnauthorized(s) = s
    BY <2>1 DEF MeUnauthorized
  <2>3. Tab(r, core.sessions) /\ WaitersFail(f, r) /\ UNCHANGED <<forms, jar, core>>
        /\ flights[f].at = "sent" /\ r.status = "anonymous"
    BY <1>6, <2>1, <2>2 DEF RefreshRefused
  <2> HIDE DEF r, s
  <2> QED BY <1>5, <1>b, <2>3
<1>7. CASE RefreshErrs(f)
  <2>1. WaitersFail(f, Rearmed(c, f)) /\ UNCHANGED <<forms, jar, core>>
        /\ flights[f].at = "sent"
    BY <1>7 DEF RefreshErrs
  <2> QED BY <1>2, <1>5, <1>b, <1>c, <2>1
<1>8. CASE RefreshFails(f)
  <2> DEFINE lost == core.lost \cup ({flights[f].token} \ {Nobody})
  <2>1. /\ WaitersFail(f, Rearmed(c, f)) /\ UNCHANGED <<forms, jar>>
        /\ flights[f].at # "none" /\ core' = [core EXCEPT !.lost = lost]
    BY <1>8 DEF RefreshFails
  <2>2. lost \in SUBSET (1 .. core.minted)
    BY <1>0, <1>b, Sizes DEF FlightInv, Nobody
  <2>3. core.lost \subseteq lost /\ flights[f].token \in lost \cup {Nobody}
    OBVIOUS
  <2> HIDE DEF lost
  <2> QED BY <1>2, <1>5, <1>c, <2>1, <2>2, <2>3
<1> QED BY <1>3, <1>4, <1>6, <1>7, <1>8 DEF Flight

\* A timer that fires, and a tab that is shown again.
LEMMA WakeStep ==
    ASSUME Inv, faults' \in 0 .. MaxFaults, TimerFires \/ VisibleAgain
    PROVE  Inv'
<1>0. Tab(c, core.sessions) /\ CallInv /\ FormInv /\ JarInv /\ CoreInv
  BY DEF Inv
<1>1. \A f \in Flights : Sending(f).timers \in 0 .. MaxTimers
                        /\ Sending(f) = [Sending(f) EXCEPT !.timers = Sending(f).timers]
  <2>1. ASSUME NEW f \in Flights
        PROVE  Sending(f) \in FlightType
    <3>1. jar.refresh \in Tokens \cup {Nobody}
      BY <1>0 DEF JarInv, JarType
    <3>2. flights[f] \in FlightType
      BY Sizes
    <3>3. CASE flights[f].at = "none"
      <4>1. Sending(f) = [at |-> "sent", token |-> jar.refresh, next |-> Nobody, timers |-> 0]
        BY <3>3 DEF Sending, NoFlight
      <4> QED BY <3>1, <4>1, BoundsAssumption DEF FlightType, Nobody
    <3> QED BY <3>2, <3>3 DEF Sending
  <2> QED BY <2>1 DEF FlightType
<1>2. PICK f \in Flights, t \in 0 .. MaxTimers :
        /\ Joined(f) /\ flights' = [flights EXCEPT ![f] = [Sending(f) EXCEPT !.timers = t]]
        /\ t > 0 \/ (UNCHANGED c /\ t = Sending(f).timers)
  <2>1. CASE TimerFires
    <3>1. \A n \in 0 .. MaxTimers : Armed(n, 1) \in 0 .. MaxTimers /\ Armed(n, 1) > 0
      BY BoundsAssumption DEF Armed
    <3>2. PICK f \in Flights :
            Joined(f) /\ flights' = [flights EXCEPT
                ![f] = [Sending(f) EXCEPT !.timers = Armed(Sending(f).timers, 1)]]
      BY <2>1 DEF TimerFires
    <3> QED BY <1>1, <3>1, <3>2
  <2>2. CASE VisibleAgain
    <3>1. PICK f \in Flights : Joined(f) /\ flights' = [flights EXCEPT ![f] = Sending(f)]
      BY <2>2 DEF VisibleAgain
    <3>2. flights' = [flights EXCEPT
                        ![f] = [Sending(f) EXCEPT !.timers = Sending(f).timers]]
      BY <1>1, <3>1
    <3>3. UNCHANGED c
      BY <2>2 DEF VisibleAgain
    <3> QED BY <1>1, <3>1, <3>2, <3>3
  <2> QED BY <2>1, <2>2
<1>3. UNCHANGED <<calls, forms, jar, core>>
  BY DEF TimerFires, VisibleAgain
<1>4. FlightInv' /\ SpentInv' /\ \A g \in Flights : flights'[g].timers
                                   = IF g = f THEN t ELSE flights[g].timers
  BY <1>2, <1>3, JoinStep
<1>5. Tab(c', core.sessions)
  <2>1. CASE TimerFires
    <3>1. c' = [c EXCEPT !.timers = c.timers - 1, !.handle = FALSE] /\ c.timers > 0
      BY <2>1 DEF TimerFires
    <3>2. c.timers - 1 \in 0 .. MaxTimers
      BY <1>0, <3>1, BoundsAssumption DEF Tab, Steady, TabType
    <3> QED BY <1>0, <3>1, <3>2 DEF Tab, Steady, TabType
  <2>2. CASE VisibleAgain
    BY <1>0, <2>2 DEF VisibleAgain
  <2> QED BY <2>1, <2>2
<1>6. RefreshIsAhead'
  <2>1. CASE t > 0
    BY <1>4, <2>1 DEF RefreshIsAhead
  <2>2. CASE UNCHANGED c /\ t = Sending(f).timers
    <3>1. Sending(f).timers = flights[f].timers
      BY DEF Inv, FlightInv, Sending, NoFlight
    <3> QED BY <1>4, <2>2, <3>1 DEF Inv, RefreshIsAhead
  <2> QED BY <1>2, <2>1, <2>2
<1> QED BY <1>0, <1>3, <1>4, <1>5, <1>6 DEF Inv, CallInv, FormInv, JarInv, CoreInv

\* What the person does before the core is asked.
LEMMA PersonStep ==
    ASSUME Inv, faults' \in 0 .. MaxFaults,
           \/ SubmitEntry \/ Navigate
           \/ \E how \in {"menu", "settings", "password"} : Leave(how)
    PROVE  Inv'
<1>0. /\ Tab(c, core.sessions) /\ CallInv /\ FormInv /\ Ahead(c)
      /\ c \in TabType
  BY DEF Inv, Ahead, RefreshIsAhead, Tab, Steady
<1>1. CASE SubmitEntry
  <2>1. forms' = [forms EXCEPT !.entries = forms.entries + 1] /\ forms.entries < MaxEntries
    BY <1>1 DEF SubmitEntry
  <2>2. forms.entries + 1 \in 0 .. MaxEntries
    BY <1>0, <2>1, BoundsAssumption DEF FormInv, FormType
  <2>3. FormInv'
    BY <1>0, <1>1, <2>1, <2>2 DEF SubmitEntry, FormInv, FormType
  <2> QED BY <1>0, <1>1, <2>3, TabStep DEF SubmitEntry, CallInv
<1>2. CASE Navigate
  <2>1. Tab(c', core.sessions) /\ Ahead(c')
    BY <1>0, <1>2, Sizes, LandTab, AheadEdits DEF Navigate
  <2> QED BY <1>0, <1>2, <2>1, TabStep DEF Navigate, CallInv, FormInv
<1>3. ASSUME NEW how \in {"menu", "settings", "password"}, Leave(how)
      PROVE  Inv'
  <2>1. FormInv'
    BY <1>0, <1>3 DEF Leave, Inv, FormInv, FormType, JarInv, JarType
  <2> QED BY <1>0, <1>3, <2>1, TabStep DEF Leave, CallInv
<1> QED BY <1>1, <1>2, <1>3

LEMMA LeftInv ==
    ASSUME Inv, forms' = Left, core'.minted = core.minted
    PROVE  FormInv'
<1>1. forms \in FormType /\ 0 \in 0 .. core.minted
  BY Sizes DEF Inv, FormInv
<1>2. forms' \in FormType /\ forms'.token = 0
  BY <1>1 DEF FormType, Left, Nobody
<1> QED BY <1>1, <1>2 DEF FormInv

\* A new account session, with a token of its own.
LEMMA EntryStep ==
    ASSUME Inv, faults' \in 0 .. MaxFaults, EntryAccepted
    PROVE  Inv'
<1> DEFINE session == core.sessions + 1
           token   == core.minted + 1
           calm    == [c EXCEPT !.latched = FALSE]
<1>0. /\ Tab(c, core.sessions) /\ CallInv /\ FlightInv /\ FormInv /\ JarInv
      /\ CoreInv /\ SpentInv
  BY DEF Inv
<1>1. /\ forms.entries > 0 /\ session \in Sessions /\ token \in Tokens
      /\ forms' = [forms EXCEPT !.entries = forms.entries - 1]
      /\ core' = [core EXCEPT !.sessions = session, !.minted = token,
                              !.owner = Append(core.owner, session)]
      /\ jar' = [access |-> session, refresh |-> token]
      /\ c' = Land(OnAuthenticated(calm, session))
      /\ UNCHANGED <<calls, flights>>
  BY DEF EntryAccepted
<1>2. session \in Nat /\ session <= MaxSessions /\ token \in Nat
  BY <1>1, BoundsAssumption DEF Sessions, Tokens
<1>3. /\ core'.sessions = session /\ core'.minted = token
      /\ core'.owner = Append(core.owner, session)
      /\ core'.spent = core.spent /\ core'.lost = core.lost
  BY <1>0, <1>1 DEF CoreInv, CoreType
<1>4. core' \in CoreType
  <2>1. Append(core.owner, session) \in Seq(Sessions)
    BY <1>0, <1>1 DEF CoreInv, CoreType
  <2> QED BY <1>0, <1>1, <2>1 DEF CoreInv, CoreType
<1>5. CoreInv'
  BY <1>0, <1>3, <1>4, Sizes DEF CoreInv, CoreType
<1>6. Tab(c', session) /\ Ahead(c')
  <2>1. Tab(c, session)
    BY <1>0, Sizes DEF Tab, Steady
  <2>2. c.fresh \in BOOLEAN /\ c.page \in {"loading", "public", "app"}
        /\ c \in TabType
    BY <1>0 DEF Tab, Steady, TabType
  <2>3. Tab(calm, session)
    BY <1>2, <2>1, <2>2, TabEdits
  <2>4. session \notin c.ended
    BY <1>0, Sizes DEF Tab, Steady
  <2>5. calm.latched = FALSE /\ calm.ended = c.ended
    BY <2>2 DEF TabType
  <2> HIDE DEF calm
  <2>6. session \in 0 .. session
    BY <1>2
  <2> HIDE DEF session
  <2>7. Tab(OnAuthenticated(calm, session), session)
    BY <1>2, <2>3, <2>4, <2>5, <2>6, AuthenticatedTab
  <2>8. Ahead(OnAuthenticated(calm, session))
    <3>1. Ahead(calm)
      BY <2>2, AheadEdits DEF calm, Inv, Ahead, RefreshIsAhead
    <3> QED BY <1>2, <2>3, <3>1, AuthenticatedAhead DEF Tab
  <2>9. OnAuthenticated(calm, session) \in TabType
    BY <2>7 DEF Tab, Steady
  <2> QED BY <1>1, <1>2, <2>7, <2>8, <2>9, LandTab, AheadEdits
<1>7. FormInv'
  <2>1. forms.entries - 1 \in 0 .. MaxEntries
    BY <1>0, <1>1, BoundsAssumption DEF FormInv, FormType
  <2> QED BY <1>0, <1>1, <1>3, <2>1, Sizes DEF FormInv, FormType
<1>8. JarInv'
  BY <1>1, <1>2, <1>3 DEF JarInv, JarType
<1>9. CallInv' /\ FlightInv' /\ RefreshIsAhead'
  BY <1>0, <1>1, <1>3, <1>6, Sizes DEF CallInv, FlightInv, Ahead, RefreshIsAhead
<1>10. SpentInv'
  <2>1. token \notin core.spent /\ jar'.refresh = token
    BY <1>0, <1>1, Sizes DEF CoreInv
  <2> QED BY <1>0, <1>1, <1>3, <2>1 DEF SpentInv
<1> QED BY <1>3, <1>5, <1>6, <1>7, <1>8, <1>9, <1>10 DEF Inv

\* The core's answers to the other forms, and the ends of a sign-out.
LEMMA FormStep ==
    ASSUME Inv, faults' \in 0 .. MaxFaults, Forms
    PROVE  Inv'
<1>0. /\ Tab(c, core.sessions) /\ CallInv /\ FlightInv /\ FormInv /\ JarInv
      /\ CoreInv /\ SpentInv /\ Ahead(c)
  BY DEF Inv, Ahead, RefreshIsAhead
<1>1. /\ Tab(ClearSession(c), core.sessions)
      /\ Tab(Land(ClearSession(c)), core.sessions)
      /\ Tab(ForceLogout(c), core.sessions)
      /\ Ahead(ClearSession(c)) /\ Ahead(Land(ClearSession(c))) /\ Ahead(ForceLogout(c))
  BY <1>0, Sizes, ClearTab, LogoutTab, LandTab, AnonymousAhead DEF Tab
<1>2. CASE EntryRefused
  <2>1. forms' = [forms EXCEPT !.entries = forms.entries - 1] /\ forms.entries > 0
    BY <1>2 DEF EntryRefused
  <2>2. forms.entries - 1 \in 0 .. MaxEntries
    BY <1>0, <2>1, BoundsAssumption DEF FormInv, FormType
  <2>3. FormInv'
    BY <1>0, <1>2, <2>1, <2>2 DEF EntryRefused, FormInv, FormType
  <2> QED BY <1>0, <1>2, <2>3, TabStep DEF EntryRefused, CallInv
<1>3. CASE PasswordRefused
  <2>1. FormInv'
    BY <1>3, LeftInv DEF PasswordRefused
  <2> QED BY <1>0, <1>3, <2>1, TabStep DEF PasswordRefused, CallInv
<1>4. ASSUME SignedOut
      PROVE  Tab(c', core.sessions) /\ Ahead(c') /\ UNCHANGED <<calls, flights>>
             /\ forms' = Left
  BY <1>1, <1>4 DEF SignedOut
<1>5. CASE LogoutFails
  <2>1. /\ Tab(c', core.sessions) /\ Ahead(c')
        /\ UNCHANGED <<calls, flights, jar, core>> /\ forms' = Left
    BY <1>4, <1>5 DEF LogoutFails
  <2>2. FormInv'
    BY <2>1, LeftInv
  <2> QED BY <1>0, <2>1, <2>2, TabStep DEF CallInv
<1>6. ASSUME UNCHANGED <<calls, flights>>, Tab(c', core.sessions), Ahead(c'),
             forms' = Left,
             NEW revoked \in SUBSET Tokens, NEW closed \in SUBSET Sessions,
             core' = [core EXCEPT !.revoked = revoked, !.closed = closed],
             jar' \in {jar, [access |-> Nobody, refresh |-> Nobody]}
      PROVE  Inv'
  <2>1. /\ core'.sessions = core.sessions /\ core'.minted = core.minted
        /\ core'.owner = core.owner /\ core'.spent = core.spent
        /\ core'.lost = core.lost
    BY <1>0, <1>6 DEF CoreInv, CoreType
  <2>2. CoreInv'
    <3>1. core' \in CoreType
      BY <1>0, <1>6 DEF CoreInv, CoreType
    <3> QED BY <1>0, <2>1, <3>1 DEF CoreInv
  <2>3. FormInv'
    BY <1>6, <2>1, LeftInv
  <2>4. JarInv'
    <3>1. CASE jar' = jar
      BY <1>0, <2>1, <3>1 DEF JarInv
    <3>2. CASE jar' = [access |-> Nobody, refresh |-> Nobody]
      <4>1. jar' \in JarType /\ jar'.access = 0 /\ jar'.refresh = 0
        BY <3>2 DEF JarType, Nobody
      <4> QED BY <2>1, <4>1, Sizes DEF JarInv
    <3> QED BY <1>6, <3>1, <3>2
  <2>5. CallInv' /\ FlightInv' /\ RefreshIsAhead'
    BY <1>0, <1>6, <2>1 DEF CallInv, FlightInv, Ahead, RefreshIsAhead
  <2>6. SpentInv'
    <3>1. 0 \notin core.spent
      BY <1>0 DEF CoreInv
    <3>2. jar'.refresh \in {jar.refresh, 0}
      BY <1>6 DEF Nobody
    <3> QED BY <1>0, <1>6, <2>1, <3>1, <3>2 DEF SpentInv
  <2> QED BY <1>6, <2>1, <2>2, <2>3, <2>4, <2>5, <2>6 DEF Inv
<1>7. CASE LogoutAnswered
  <2> DEFINE revoked == core.revoked \cup ({forms.token} \ {Nobody})
  <2>1. revoked \in SUBSET Tokens /\ core.closed \in SUBSET Sessions
    BY <1>0 DEF FormInv, FormType, CoreInv, CoreType
  <2>2. core' = [core EXCEPT !.revoked = revoked, !.closed = core.closed]
    BY <1>0, <1>7 DEF LogoutAnswered, CoreInv, CoreType
  <2>3. SignedOut /\ jar' = [access |-> Nobody, refresh |-> Nobody]
    BY <1>7 DEF LogoutAnswered
  <2> HIDE DEF revoked
  <2> QED BY <1>4, <1>6, <2>1, <2>2, <2>3
<1>8. CASE PasswordChanged
  <2> DEFINE session == core.owner[forms.token]
             revoked == core.revoked \cup
                          {t \in 1 .. core.minted : core.owner[t] = session}
  <2>1. core' = [core EXCEPT !.closed = core.closed \cup {session}, !.revoked = revoked]
    BY <1>8 DEF PasswordChanged, WithNewPassword
  <2>2. /\ c' = ForceLogout(c) /\ forms' = Left /\ UNCHANGED <<calls, flights, jar>>
        /\ forms.token # Nobody
    BY <1>8 DEF PasswordChanged
  <2>3. session \in Sessions
    BY <1>0, <2>2, Sizes, BoundsAssumption
    DEF FormInv, CoreInv, Sessions, Nobody
  <2>4. revoked \in SUBSET Tokens /\ core.closed \cup {session} \in SUBSET Sessions
    BY <1>0, <2>3, Sizes, BoundsAssumption DEF CoreInv, CoreType, Tokens
  <2> HIDE DEF session, revoked
  <2>5. core' = [core EXCEPT !.revoked = revoked, !.closed = core.closed \cup {session}]
    BY <1>0, <2>1 DEF CoreInv, CoreType
  <2> QED BY <1>1, <1>6, <2>2, <2>4, <2>5
<1> QED BY <1>2, <1>3, <1>5, <1>7, <1>8, EntryStep DEF Forms

\* The page loaded anew: nothing was signed out of in it, and what was on its way
\* is lost.
LEMMA ReloadStep ==
    ASSUME Inv, faults' \in 0 .. MaxFaults, Reload
    PROVE  Inv'
<1> USE DEF Nobody
<1>0. FlightInv /\ JarInv /\ CoreInv /\ SpentInv
  BY DEF Inv
<1> DEFINE lost == core.lost \cup ({flights[f].token : f \in Flights} \ {Nobody})
<1>1. /\ c' = Loaded /\ calls' = NoCalls /\ forms' = NoForms
      /\ flights' = [f \in Flights |-> NoFlight]
      /\ core' = [core EXCEPT !.lost = lost] /\ jar' = jar
  BY DEF Reload
<1>2. /\ lost \subseteq 1 .. core.minted /\ lost \in SUBSET Tokens
      /\ core.lost \subseteq lost
      /\ \A f \in Flights : flights[f].token \in lost \cup {0}
  BY <1>0, Sizes, BoundsAssumption DEF CoreInv, CoreType, FlightInv, Tokens
<1> HIDE DEF lost
<1>3. /\ core' \in CoreType /\ core'.sessions = core.sessions
      /\ core'.minted = core.minted /\ core'.owner = core.owner
      /\ core'.spent = core.spent /\ core'.lost = lost
  BY <1>0, <1>1, <1>2 DEF CoreInv, CoreType
<1>4. Tab(c', core.sessions)
  BY <1>1, Sizes, BoundsAssumption DEF Loaded, Tab, Steady, TabType
<1>5. CallInv'
  BY <1>1, <1>3, Sizes, SomeFlightIn DEF CallInv, CallType, NoCalls
<1>6. FlightInv'
  BY <1>1, <1>3, Sizes, BoundsAssumption DEF FlightInv, FlightType, NoFlight
<1>7. FormInv'
  BY <1>1, <1>3, Sizes, BoundsAssumption DEF FormInv, FormType, NoForms
<1>8. JarInv' /\ CoreInv' /\ RefreshIsAhead'
  BY <1>0, <1>1, <1>2, <1>3 DEF JarInv, CoreInv, RefreshIsAhead, Loaded
<1>9. SpentInv'
  <2>1. \A f \in Flights : flights'[f].at = "none"
    BY <1>1 DEF NoFlight
  <2>2. 0 \notin core.spent
    BY <1>0 DEF CoreInv
  <2> QED BY <1>0, <1>1, <1>2, <1>3, <2>1, <2>2, SomeFlightIn DEF SpentInv
<1> QED BY <1>3, <1>4, <1>5, <1>6, <1>7, <1>8, <1>9 DEF Inv

\* Cookies that expire, an account session that ends elsewhere, a refresh served
\* after its page stopped waiting.
LEMMA WorldStep ==
    ASSUME Inv, faults' \in 0 .. MaxFaults,
           AccessExpires \/ RefreshCookieExpires \/ RevokedElsewhere \/ ServedLate
    PROVE  Inv'
<1> USE DEF Nobody
<1>0. /\ Tab(c, core.sessions) /\ CallInv /\ FlightInv /\ FormInv /\ JarInv
      /\ CoreInv /\ SpentInv
  BY DEF Inv
<1>1. CASE AccessExpires
  <2>1. jar' = [jar EXCEPT !.access = 0] /\ UNCHANGED <<c, calls, flights, forms, core>>
    BY <1>1 DEF AccessExpires
  <2>2. JarInv' /\ jar'.refresh = jar.refresh
    BY <1>0, <2>1, Sizes DEF JarInv, JarType
  <2> QED BY <1>0, <2>1, <2>2 DEF Inv, CallInv, FlightInv, FormInv, CoreInv, SpentInv,
          RefreshIsAhead
<1>2. CASE RefreshCookieExpires
  <2>1. jar' = [jar EXCEPT !.refresh = 0] /\ UNCHANGED <<c, calls, flights, forms, core>>
    BY <1>2 DEF RefreshCookieExpires
  <2>2. JarInv' /\ jar'.refresh = 0
    BY <1>0, <2>1, Sizes DEF JarInv, JarType
  <2>3. 0 \notin core.spent
    BY <1>0 DEF CoreInv
  <2> QED BY <1>0, <2>1, <2>2, <2>3 DEF Inv, CallInv, FlightInv, FormInv, CoreInv, SpentInv,
          RefreshIsAhead
<1>3. CASE RevokedElsewhere
  <2> DEFINE session == core.owner[jar.refresh]
             owned   == {t \in 1 .. core.minted : core.owner[t] = session}
  <2>1. /\ jar.refresh # 0 /\ UNCHANGED <<c, calls, flights, forms, jar>>
        /\ \/ core' = [core EXCEPT !.closed = core.closed \cup {session},
                                   !.revoked = core.revoked \cup owned]
           \/ core' = [core EXCEPT !.closed = core.closed \cup {session},
                                   !.removed = core.removed \cup {session}]
    BY <1>3 DEF RevokedElsewhere, WithNewPassword
  <2>2. session \in Sessions /\ owned \in SUBSET Tokens
    BY <1>0, <2>1, Sizes, BoundsAssumption DEF JarInv, JarType, CoreInv, Sessions, Tokens
  <2> HIDE DEF session, owned
  <2>3. /\ core' \in CoreType /\ core'.sessions = core.sessions
        /\ core'.minted = core.minted /\ core'.owner = core.owner
        /\ core'.spent = core.spent /\ core'.lost = core.lost
    <3>1. core.closed \cup {session} \in SUBSET Sessions
          /\ core.removed \cup {session} \in SUBSET Sessions
          /\ core.revoked \cup owned \in SUBSET Tokens
      BY <1>0, <2>2 DEF CoreInv, CoreType
    <3>2. CASE core' = [core EXCEPT !.closed = core.closed \cup {session},
                                    !.revoked = core.revoked \cup owned]
      BY <1>0, <3>1, <3>2 DEF CoreInv, CoreType
    <3>3. CASE core' = [core EXCEPT !.closed = core.closed \cup {session},
                                    !.removed = core.removed \cup {session}]
      BY <1>0, <3>1, <3>3 DEF CoreInv, CoreType
    <3> QED BY <2>1, <3>2, <3>3
  <2> QED BY <1>0, <2>1, <2>3
          DEF Inv, CallInv, FlightInv, FormInv, JarInv, CoreInv, SpentInv, RefreshIsAhead
<1>4. CASE ServedLate
  <2>1. PICK t \in core.lost :
          /\ core' = [core EXCEPT !.minted = core.minted + 1,
                                  !.spent = core.spent \cup {t},
                                  !.owner = Append(core.owner, core.owner[t])]
    BY <1>4 DEF ServedLate
  <2>2. core.minted < MaxTokens /\ UNCHANGED <<c, calls, flights, forms, jar>>
    BY <1>4 DEF ServedLate
  <2>3. /\ t \in 1 .. core.minted /\ t \in Tokens /\ core.owner[t] \in 1 .. core.sessions
        /\ core.owner[t] \in Sessions /\ core.minted + 1 \in Tokens
    BY <1>0, <2>2, Sizes, BoundsAssumption DEF CoreInv, CoreType, Sessions, Tokens
  <2>4. /\ core'.minted = core.minted + 1 /\ core'.sessions = core.sessions
        /\ core'.spent = core.spent \cup {t} /\ core'.lost = core.lost
        /\ core'.owner = Append(core.owner, core.owner[t])
    BY <1>0, <2>1 DEF CoreInv, CoreType
  <2>5. core' \in CoreType
    <3>1. Append(core.owner, core.owner[t]) \in Seq(Sessions)
      BY <1>0, <2>3 DEF CoreInv, CoreType
    <3> QED BY <1>0, <2>1, <2>3, <3>1 DEF CoreInv, CoreType
  <2>6. CoreInv'
    BY <1>0, <2>3, <2>4, <2>5, Sizes DEF CoreInv, CoreType
  <2>7. FlightInv'
    BY <1>0, <2>2, <2>3, <2>4, Sizes DEF FlightInv
  <2>8. SpentInv' /\ RefreshIsAhead'
    BY <1>0, <2>1, <2>2, <2>4 DEF SpentInv, Inv, RefreshIsAhead
  <2>9. CallInv' /\ FormInv' /\ JarInv' /\ Tab(c', core'.sessions)
    BY <1>0, <2>2, <2>4, Sizes DEF CallInv, FormInv, JarInv
  <2> QED BY <2>6, <2>7, <2>8, <2>9 DEF Inv
<1> QED BY <1>1, <1>2, <1>3, <1>4

LEMMA StepInv == Inv /\ [Next]_vars => Inv'
<1> SUFFICES ASSUME Inv, [Next]_vars PROVE Inv'
  OBVIOUS
<1>1. CASE UNCHANGED vars
  BY <1>1 DEF vars, Inv, CallInv, FlightInv, FormInv, JarInv, CoreInv, SpentInv,
     RefreshIsAhead
<1>2. CASE Next
  <2>1. faults' \in 0 .. MaxFaults
    BY <1>2, BoundsAssumption DEF Next, Inv
  <2>2. CASE SendMe \/ SendQuery
    BY <2>1, <2>2, CallStep DEF Calls
  <2>3. CASE \E k \in Calls : Call(k) \/ CallFails(k)
    BY <2>1, <2>3, CallStep
  <2>4. CASE \E f \in Flights : Flight(f) \/ RefreshFails(f) \/ RefreshErrs(f)
    BY <2>1, <2>4, FlightStep
  <2>5. CASE TimerFires \/ Person
    BY <2>1, <2>5, WakeStep, PersonStep DEF Person
  <2>6. CASE Forms
    BY <2>1, <2>6, FormStep
  <2>7. CASE Reload \/ AccessExpires \/ RefreshCookieExpires \/ RevokedElsewhere
             \/ ServedLate
    BY <2>1, <2>7, ReloadStep, WorldStep
  <2> QED BY <1>2, <2>2, <2>3, <2>4, <2>5, <2>6, <2>7 DEF Next, Faults
<1> QED BY <1>1, <1>2

(***************************************************************************)
(* The checked properties, for every bound.                                *)
(***************************************************************************)
LEMMA Invariance == Spec => []Inv
  BY InitInv, StepInv, PTL DEF Spec

\* However sign-outs, late answers and reloads interleave, a session the page has
\* signed out of never comes back.
THEOREM SignOutHolds == Spec => []SignedOutStaysOut
  BY Invariance, InvImplies, PTL

\* A session on screen can be kept and can be seen to end: its next proactive refresh
\* is ahead, through joined, failed and overtaken refreshes, and the latch that makes
\* its expiry one logout is down.
THEOREM TabConsistent == Spec => []SessionConsistent
  BY Invariance, InvImplies, PTL

\* Any number of parallel 401s, timers and visits of the tab never has the core take
\* a token for stolen that was neither signed out, nor revoked with a password, nor
\* on its way when its answer was lost.
THEOREM RotationSafe == Spec => []RotationNeverRaces
  BY Invariance, InvImplies, PTL
===============================================================================
