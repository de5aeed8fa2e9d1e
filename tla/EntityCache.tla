----------------------------- MODULE EntityCache -----------------------------
(***************************************************************************)
(* What one tab caches of one resource (mirrorr-web/src/api/realtime/       *)
(* event-table.ts, entity-store.ts, infinite-lists.ts, query-keys.ts,        *)
(* hooks/use-entity-list.ts, polling.ts): the pages of the mounted list and   *)
(* the detail entries, written by four parties that do not wait for each     *)
(* other: the frames of the events socket, coalesced for 30 ms; the list     *)
(* and detail answers, each as old as the moment the core read its rows; the  *)
(* answers of the views' own deletes; and the user who walks between pages.   *)
(* The query library (its fetches, their cancelling, its observers) is        *)
(* modelled from how the code uses it.                                        *)
(***************************************************************************)
EXTENDS Integers, SequencesExt, FiniteSetsExt

CONSTANTS Kinds,       \* resources: a some of "session", "autorun", "recording", "profile"
          Ids,         \* row ids the core may hand out, 1 .. n
          Visited,     \* bound: ids whose detail entry is followed
          PageSize,    \* PAGE_SIZE
          MaxVersion,  \* bound: writes of the core
          MaxEvents,   \* bound: events the core has emitted and not relayed
          MaxFaults    \* bound: frames lost, delete requests failed

ASSUME CacheAssumption == /\ Kinds \subseteq {"session", "autorun", "recording", "profile"}
                          /\ IsFiniteSet(Ids) /\ Ids = 1 .. Cardinality(Ids) /\ Visited \subseteq Ids
                          /\ PageSize \in Nat \ {0}
                          /\ MaxVersion \in Nat \ {0} /\ {MaxEvents, MaxFaults} \subseteq Nat

VARIABLES kind,     \* the resource
          rows,     \* the core's table: id -> row
          version,  \* writes so far; a row carries the number of its last one
          events,   \* emitted by the core, not relayed yet
          buffer,   \* the event table's coalescing buffer, in Map order
          tab,      \* the tab's caches, tombstones and page
          list,     \* the list query's fetch in flight
          detail,   \* the detail queries' fetches in flight
          req,      \* the view's delete
          mine,     \* history: ids this tab deleted from its list page
          faults,
          habit     \* bound: a user deletes or visits detail pages, not both
vars == <<kind, rows, version, events, buffer, tab, list, detail, req, mine, faults, habit>>
core == <<kind, rows, version, events, habit>>

Gone == [v |-> 0, end |-> "none"]
Row == [v : 0 .. MaxVersion, end : {"none", "completed", "failed"}]
Done(row) == row.end # "none"
Verbs == {"created", "updated", "stopped", "crashed", "deleted"}
Page == [items : [Ids -> Row], more : BOOLEAN, next : Ids \cup {0}]
ListFetch == [on : {"idle", "pages", "next"}, base : Seq(Page), got : Seq(Page), need : Nat]
Idle == [on |-> "idle", base |-> <<>>, got |-> <<>>, need |-> 0]
DetailFetch == [on : {"idle", "asked", "read"}, row : Row]
NoFetch == [on |-> "idle", row |-> Gone]
Quiet == [on |-> FALSE, ids |-> <<>>, deleted |-> {}]

\* "page" is 0 on the list and an id on that detail page; "watched" whether its
\* query still has the page as observer.  "stale" are the keys (0 the list) that
\* invalidateQueries named during the handler at hand, "cut" the details removed.
TypeOK ==
    /\ kind \in Kinds
    /\ rows \in [Ids -> Row] /\ version \in 0 .. MaxVersion
    /\ \A k \in DOMAIN events : events[k] \in [verb : Verbs, id : Ids]
    /\ Len(events) <= MaxEvents
    /\ \A k \in DOMAIN buffer : buffer[k] \in [verb : Verbs, id : Ids, row : Row]
    /\ \A k, j \in DOMAIN buffer : buffer[k].verb = buffer[j].verb /\ buffer[k].id = buffer[j].id => k = j
    /\ \A k \in DOMAIN tab.pages : tab.pages[k] \in Page
    /\ tab.detail \in [Visited -> Row] /\ tab.gone \subseteq Ids
    /\ tab.page \in Visited \cup {0} /\ tab.watched \in BOOLEAN
    /\ tab.stale = {} /\ tab.cut = {}
    /\ list.on \in {"idle", "pages", "next"} /\ \A k \in DOMAIN list.got : list.got[k] \in Page
    /\ detail \in [Visited -> DetailFetch] /\ faults \in 0 .. MaxFaults /\ habit \in {"deletes", "browses"}
    /\ req.deleted \cup mine \cup ToSet(req.ids) \subseteq Ids /\ req.on \in BOOLEAN

-------------------------------------------------------------------------------
(* The core: every committed write emits one event; ids are handed out again.   *)

Write(i, row, verbs) ==
    /\ version < MaxVersion /\ Len(events) + Len(verbs) <= MaxEvents
    /\ version' = version + 1
    /\ rows' = [rows EXCEPT ![i] = row]
    /\ events' = events \o [k \in DOMAIN verbs |-> [verb |-> verbs[k], id |-> i]]
    /\ mine' = IF row = Gone THEN mine ELSE mine \ {i}
    /\ UNCHANGED <<kind, buffer, tab, list, detail, faults, habit>>

\* A session takes the smallest id that is free, any other row the one past the largest.
Free == {i \in Ids : rows[i] = Gone}
NextId == IF kind = "session" THEN Min(Free) ELSE Max({0} \cup (Ids \ Free)) + 1
CoreCreates ==
    \E i \in Ids : /\ req' = req /\ Free # {} /\ i = NextId
                   /\ Write(i, [v |-> version + 1, end |-> "none"], <<"created">>)

CoreUpdates ==
    \E i \in Ids : /\ req' = req /\ rows[i] # Gone
                   /\ Write(i, [rows[i] EXCEPT !.v = version + 1], <<"updated">>)

CoreFinishes ==
    \E i \in Ids, end \in {"completed", "failed"} :
        /\ req' = req /\ kind = "session" /\ rows[i] # Gone /\ ~Done(rows[i])
        /\ Write(i, [v |-> version + 1, end |-> end],
                 <<"updated", IF end = "failed" THEN "crashed" ELSE "stopped">>)

CoreDeletes == \E i \in Ids : req' = req /\ rows[i] # Gone /\ Write(i, Gone, <<"deleted">>)

-------------------------------------------------------------------------------
(* Lists: pages of rows, newest ids first, each with a cursor to the next.      *)

Kth(S, k) == CHOOSE i \in S : Cardinality({j \in S : j >= i}) = k

\* A page as the core reads it: the PageSize largest ids below the cursor.
PageBelow(cursor) ==
    LET under == {i \in Ids : rows[i] # Gone /\ (cursor = 0 \/ i < cursor)}
        full == Cardinality(under) > PageSize
        items == IF full THEN {i \in under : i >= Kth(under, PageSize)} ELSE under
    IN  [items |-> [i \in Ids |-> IF i \in items THEN rows[i] ELSE Gone],
         more |-> full, next |-> IF full THEN Kth(under, PageSize) ELSE 0]

\* A tab whose list has just loaded its first page; the core holds a row per id.
Init ==
    /\ kind \in Kinds
    /\ rows = [i \in Ids |-> [v |-> 1, end |-> "none"]]
    /\ version = 1 /\ events = <<>> /\ buffer = <<>>
    /\ tab = [pages |-> <<PageBelow(0)>>, detail |-> [i \in Visited |-> Gone], gone |-> {},
              page |-> 0, watched |-> FALSE, stale |-> {}, cut |-> {}]
    /\ list = Idle /\ detail = [i \in Visited |-> NoFetch] /\ req = Quiet
    /\ mine = {} /\ faults = 0 /\ habit \in {"deletes", "browses"}

\* The cursor of the page after p; 0 when there is none.
NextCursor(p) == IF p.more THEN p.next ELSE 0

\* What the view lists: the rows of all the pages (an id on two pages shows twice).
Shown(c) == {i \in Ids : \E k \in DOMAIN c.pages : c.pages[k].items[i] # Gone}

\* Every page that holds i gets the row in its place, Gone for none.
OnPages(c, i, row) ==
    LET Held(p) == IF p.items[i] = Gone THEN p ELSE [p EXCEPT !.items[i] = row]
    IN  [c EXCEPT !.pages = [k \in DOMAIN c.pages |-> Held(c.pages[k])]]

RemoveFromPages(c, i) == OnPages(c, i, Gone)

UpsertPages(c, i, row) ==
    IF i \in Shown(c) THEN OnPages(c, i, row)
    ELSE IF c.pages = <<>> THEN c ELSE [c EXCEPT !.pages[1].items[i] = row]

UpsertDetail(c, i, row) == IF i \notin Visited THEN c ELSE [c EXCEPT !.detail[i] = row]

RemoveDetail(c, i) ==
    IF i \notin Visited THEN c ELSE
    [c EXCEPT !.detail[i] = Gone, !.cut = @ \cup {i}, !.watched = IF c.page = i THEN FALSE ELSE @]

Invalidate(c, keys) == [c EXCEPT !.stale = @ \cup keys]

-------------------------------------------------------------------------------
(* The event table: one handler per event, over the caches.                     *)

\* Mutant: a created frame leaves the tombstone of a former row with its id.
OnCreatedKeepsTombstone(c, f) ==
    IF kind = "recording" \/ f.row = Gone THEN Invalidate(c, {0})
    ELSE UpsertPages(c, f.id, f.row)

OnCreated(c, f) ==
    IF kind = "recording" \/ f.row = Gone THEN Invalidate(c, {0})
    ELSE LET cleared == UpsertPages([c EXCEPT !.gone = @ \ {f.id}], f.id, f.row)
         IN  IF kind = "autorun" THEN UpsertDetail(cleared, f.id, f.row) ELSE cleared

\* A crash, and the first frame that shows the row failed, ask for the detail again.
AsksAgain(c, f) ==
    \/ f.verb = "crashed"
    \/ f.row.end = "failed" /\ (f.id \in Visited => c.detail[f.id].end # "failed")

OnUpdated(c, f) ==
    IF f.row = Gone
    THEN Invalidate(c, IF kind = "session" THEN {0, f.id} ELSE {0})
    ELSE IF f.id \in c.gone THEN c
    ELSE IF kind = "recording" THEN UpsertPages(c, f.id, f.row)
    ELSE LET both == UpsertPages(UpsertDetail(c, f.id, f.row), f.id, f.row)
         IN  IF AsksAgain(c, f) THEN Invalidate(both, {f.id}) ELSE both

OnDeleted(c, f) ==
    LET closed == IF c.page = f.id /\ c.watched THEN [c EXCEPT !.page = 0, !.watched = FALSE] ELSE c
        off == RemoveFromPages([closed EXCEPT !.gone = @ \cup {f.id}], f.id)
    IN  IF kind = "recording" THEN [off EXCEPT !.page = c.page, !.watched = c.watched]
        ELSE RemoveDetail(off, f.id)

Dispatch(c, f) ==
    IF kind = "profile" THEN Invalidate(c, {0})
    ELSE CASE f.verb = "created" -> OnCreated(c, f)
           [] f.verb = "deleted" -> OnDeleted(c, f)
           [] OTHER -> OnUpdated(c, f)

\* Map.set: a key that is there keeps its place and takes the newer frame.
Put(b, f) ==
    LET same == {k \in DOMAIN b : b[k].verb = f.verb /\ b[k].id = f.id}
    IN  IF same = {} THEN Append(b, f) ELSE [k \in DOMAIN b |-> IF k \in same THEN f ELSE b[k]]

\* The relay reads the row when it forwards the event; a deleted frame has no row.
FrameOf(e) == [verb |-> e.verb, id |-> e.id,
               row |-> IF e.verb = "deleted" THEN Gone ELSE rows[e.id]]

Relay ==
    /\ events # <<>>
    /\ events' = Tail(events)
    /\ buffer' = Put(buffer, FrameOf(Head(events)))
    /\ UNCHANGED <<kind, rows, version, tab, list, detail, req, mine, faults, habit>>

\* The socket is down, or the connection is lost with the frame on it.
FrameLost ==
    /\ events # <<>> /\ faults < MaxFaults
    /\ events' = Tail(events) /\ faults' = faults + 1
    /\ UNCHANGED <<kind, rows, version, buffer, tab, list, detail, req, mine, habit>>

-------------------------------------------------------------------------------
(* Fetches.  invalidateQueries cancels and restarts the fetch of a query on the *)
(* page (one that has no data yet keeps its first fetch).                        *)

StartPages(c) == [Idle EXCEPT !.on = "pages", !.need = Max({1, Len(c.pages)})]

ListAfter(c) ==
    IF 0 \in c.stale /\ c.page = 0 /\ (c.pages # <<>> \/ list.on = "idle")
    THEN StartPages(c) ELSE list

DetailAfter(c) ==
    [i \in Visited |->
        LET kept == IF i \in c.cut THEN NoFetch ELSE detail[i]
        IN  IF i \in c.stale /\ c.page = i /\ c.watched
               /\ (c.detail[i] # Gone \/ kept.on = "idle")
            THEN [NoFetch EXCEPT !.on = "asked"] ELSE kept]

\* What a handler leaves: its caches, and the fetches it restarted or dropped.
Leave(c) ==
    /\ tab' = [c EXCEPT !.stale = {}, !.cut = {}]
    /\ list' = ListAfter(c)
    /\ detail' = DetailAfter(c)

\* The frames of the buffer go to their handlers one after the other.
Dispatched ==
    LET after[k \in 0 .. Len(buffer)] == IF k = 0 THEN tab ELSE Dispatch(after[k - 1], buffer[k])
    IN  after[Len(buffer)]

Flush ==
    /\ buffer # <<>>
    /\ buffer' = <<>>
    /\ Leave(Dispatched)
    /\ UNCHANGED <<core, req, mine, faults>>

\* Mutant: only a list that has no data yet is fetched again.
PollsOnce == tab.page = 0 /\ tab.pages = <<>>

\* The list polls while it is on the page, whatever the socket does.
Polls == tab.page = 0

Poll ==
    /\ Polls /\ list.on = "idle"
    /\ list' = StartPages(tab)
    /\ UNCHANGED <<core, buffer, tab, detail, req, mine, faults>>

\* loadMore, and one turn of loadAll: the next page, on top of the pages of now.
LoadMore ==
    /\ tab.page = 0 /\ list.on # "next" /\ tab.pages # <<>>
    /\ NextCursor(Last(tab.pages)) # 0
    /\ list' = [on |-> "next", base |-> tab.pages, got |-> <<>>, need |-> 1]
    /\ UNCHANGED <<core, buffer, tab, detail, req, mine, faults>>

\* The pages a fetch is built on: those it read, else those it extends.
ReadPages == list.base \o list.got
Complete == list.got # <<>> /\ (Len(list.got) = list.need \/ NextCursor(Last(list.got)) = 0)

ListRead ==
    /\ list.on # "idle" /\ ~Complete
    /\ LET cursor == IF ReadPages = <<>> THEN 0 ELSE NextCursor(Last(ReadPages))
       IN  list' = [list EXCEPT !.got = Append(@, PageBelow(cursor))]
    /\ UNCHANGED <<core, buffer, tab, detail, req, mine, faults>>

ListAnswers ==
    /\ list.on # "idle" /\ Complete
    /\ tab' = [tab EXCEPT !.pages = ReadPages]
    /\ list' = Idle
    /\ UNCHANGED <<core, buffer, detail, req, mine, faults>>

\* Mutant: it polls what has ended.
DetailPollsSpent(i) == tab.detail[i] # Gone /\ Done(tab.detail[i])

\* The detail page polls while what it shows is live.
DetailPolls(i) == tab.detail[i] # Gone /\ ~Done(tab.detail[i])

DetailPoll ==
    \E i \in Visited :
        /\ tab.page = i /\ tab.watched /\ DetailPolls(i) /\ detail[i].on = "idle"
        /\ detail' = [detail EXCEPT ![i].on = "asked"]
        /\ UNCHANGED <<core, buffer, tab, list, req, mine, faults>>

DetailRead(i) ==
    /\ detail[i].on = "asked"
    /\ detail' = [detail EXCEPT ![i] = [on |-> "read", row |-> rows[i]]]
    /\ UNCHANGED <<core, buffer, tab, list, req, mine, faults>>

\* A 404 leaves the data that was there.
DetailAnswers(i) ==
    /\ detail[i].on = "read"
    /\ tab' = IF detail[i].row = Gone THEN tab ELSE UpsertDetail(tab, i, detail[i].row)
    /\ detail' = [detail EXCEPT ![i] = NoFetch]
    /\ UNCHANGED <<core, buffer, list, req, mine, faults>>

-------------------------------------------------------------------------------
(* The user: walks between the list and the detail pages, and deletes.          *)

OpenDetail ==
    \E i \in Shown(tab) \cap Visited :
        /\ kind \in {"session", "autorun"} /\ habit = "browses" /\ tab.page = 0
        /\ tab' = [tab EXCEPT !.page = i, !.watched = TRUE]
        /\ detail' = [detail EXCEPT ![i].on = IF @ = "idle" THEN "asked" ELSE @]
        /\ UNCHANGED <<core, buffer, list, req, mine, faults>>

BackToList ==
    /\ tab.page # 0
    /\ tab' = [tab EXCEPT !.page = 0, !.watched = FALSE]
    /\ UNCHANGED <<core, buffer, list, detail, req, mine, faults>>

\* One row's delete button, or the selection's.
BeginDelete ==
    /\ ~req.on /\ habit = "deletes"
    /\ \E S \in SUBSET Shown(tab) \ {{}} :
           req' = [Quiet EXCEPT !.on = TRUE, !.ids = [k \in 1 .. Cardinality(S) |-> Kth(S, k)]]
    /\ UNCHANGED <<core, buffer, tab, list, detail, mine, faults>>

\* The ids go one request at a time; one that fails does not stop the rest.
ServeDelete ==
    /\ req.ids # <<>> /\ rows[Head(req.ids)] # Gone
    /\ req' = [req EXCEPT !.ids = Tail(@), !.deleted = @ \cup {Head(req.ids)}]
    /\ Write(Head(req.ids), Gone, <<"deleted">>)

RefuseDelete ==
    /\ req.ids # <<>>
    /\ \/ rows[Head(req.ids)] = Gone /\ faults' = faults
       \/ faults < MaxFaults /\ faults' = faults + 1
    /\ req' = [req EXCEPT !.ids = Tail(@)]
    /\ UNCHANGED <<core, buffer, tab, list, detail, mine>>

\* The pages and the details without them.
Removed(c, ids) ==
    LET Without(p) == [p EXCEPT !.items = [i \in Ids |-> IF i \in ids THEN Gone ELSE p.items[i]]]
    IN  [c EXCEPT !.pages = [k \in DOMAIN c.pages |-> Without(c.pages[k])],
                  !.detail = [i \in Visited |-> IF i \in ids THEN Gone ELSE c.detail[i]],
                  !.cut = @ \cup (ids \cap Visited), !.watched = @ /\ c.page \notin ids]

\* onSuccess: every deleted id leaves the caches, then the list is invalidated.
AfterDelete(c, ids) == Invalidate(Removed(c, ids), {0} \cup ids)

DeleteAnswers ==
    /\ req.on /\ req.ids = <<>>
    /\ Leave(AfterDelete(tab, req.deleted))
    /\ req' = Quiet
    /\ mine' = IF tab.page = 0 THEN mine \cup {i \in req.deleted : rows[i] = Gone} ELSE mine
    /\ UNCHANGED <<core, buffer, faults>>

Core == CoreCreates \/ CoreUpdates \/ CoreFinishes \/ CoreDeletes
User == LoadMore \/ OpenDetail \/ BackToList \/ BeginDelete
Tab == \/ Flush \/ Poll \/ ListAnswers \/ DetailPoll \/ DeleteAnswers
       \/ \E i \in Visited : DetailAnswers(i)
Requests == ListRead \/ ServeDelete \/ RefuseDelete \/ \E i \in Visited : DetailRead(i)
Next == Core \/ User \/ Tab \/ Requests \/ Relay \/ FrameLost

Spec == Init /\ [][Next]_vars

\* Polls come due and requests are answered.  Frames need never arrive, and
\* neither the core nor the user has to act.
Fairness ==
    /\ WF_vars(Poll) /\ WF_vars(ListRead \/ ListAnswers) /\ WF_vars(DetailPoll)
    /\ \A i \in Visited : WF_vars(DetailRead(i) \/ DetailAnswers(i))
FairSpec == Spec /\ Fairness

-------------------------------------------------------------------------------
(* Properties.                                                                   *)

\* A row that gets a deleted row's id is heard of: a flush whose last frame about
\* the id announces it leaves no tombstone (event-table.ts, "a created clears it").
LastFrame(i) ==
    LET its == {k \in DOMAIN buffer : buffer[k].id = i} IN buffer[Max(its)]
Announced(i) == /\ buffer # <<>> /\ buffer' = <<>>
                /\ \E k \in DOMAIN buffer : buffer[k].id = i
                /\ LastFrame(i).verb = "created" /\ LastFrame(i).row # Gone
RecycledIdHeard ==
    \A i \in Ids : kind # "recording" /\ kind # "profile" /\ Announced(i) => i \notin tab'.gone

\* The page of a row that another client deletes is left as the news arrives,
\* also when other frames about the row come in the same flush.
DeadPageLeft ==
    \A i \in Visited : tab.page = i /\ tab.watched /\ i \in tab'.gone \ tab.gone => tab'.page = 0

\* A refetch that was in flight while the user deleted rows from the list cannot
\* bring them back: the answer of the delete restarted it.
OwnDeleteHolds ==
    list.on = "pages" /\ list' = Idle /\ tab'.pages # tab.pages => Shown(tab') \cap mine \subseteq Shown(tab)

\* A deletion is final for the row it was of, and for that row only.
DeletionsHold == [][TypeOK /\ TypeOK' /\ RecycledIdHeard /\ DeadPageLeft /\ OwnDeleteHolds]_vars

\* The list the user stays on comes to show what the core holds, each row once,
\* whatever frames were lost, reordered or overtaken by answers.
Mirrors ==
    /\ tab.pages # <<>>
    /\ LET low == NextCursor(Last(tab.pages))
       IN  \A i \in Ids :
             LET on == {k \in DOMAIN tab.pages : tab.pages[k].items[i] # Gone}
             IN  IF i >= low /\ rows[i] # Gone
                 THEN Cardinality(on) = 1 /\ \A k \in on : tab.pages[k].items[i] = rows[i]
                 ELSE on = {}
ListCatchesUp == <>[](tab.page = 0 /\ ~req.on) => <>[]Mirrors

\* A detail page does not show an ended row as live for ever.
DetailSettles ==
    <>[](\A i \in Visited : tab.page = i /\ tab.watched /\ tab.detail[i] # Gone /\ rows[i] # Gone
                          => (Done(rows[i]) => Done(tab.detail[i])))
===============================================================================
