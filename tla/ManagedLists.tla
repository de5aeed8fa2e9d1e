---------------------------- MODULE ManagedLists ----------------------------
(***************************************************************************)
(* The five pages that list rows and act on them: sessions, recordings,    *)
(* profiles, sources and autoruns. A row has an id the database may use    *)
(* again (birth tells two rows of one id apart) and a status, which is     *)
(* also what the search of this model looks for. The list is read whole;   *)
(* paging is in EntityCache.                                               *)
(***************************************************************************)
EXTENDS Naturals

CONSTANTS
    RowIds,       \* the ids rows may have
    StartRows,    \* the rows to begin with
    Protected,    \* ids of rows the person may see and not change
    MaxBirths,    \* bound: rows that ever carry one id
    MaxEvents,    \* bound: what others do to the rows
    MaxOrders,    \* bound: removals, exports and profile changes the person asks for
    MaxReads      \* bound: reads of the list

VARIABLES
    panel,     \* the page that is open
    held,      \* the rows of the core
    shown,     \* the rows of the list
    reading,   \* the read of the list on its way
    ticked,    \* the ids ticked
    scope,     \* the filter buttons
    search,    \* the search box
    asked,     \* the dialog that is open, and the row it is about
    work,      \* the removal or profile change running
    bundle,    \* the export running
    births,    \* how many rows have carried each id
    gone,      \* rows reported removed
    listBudget

listVars == <<panel, held, shown, reading, ticked, scope, search, asked, work, bundle, births, gone, listBudget>>

Panels == {"sessions", "recordings", "profiles", "sources", "autoruns"}
\* These two filter by status, take only rows on screen and go on after a refusal.
Scoped == panel \in {"sessions", "autoruns"}
NoAsk == [about |-> "nothing", id |-> 0]
NoWork == [kind |-> "none", todo |-> {}, done |-> {}, failed |-> {}, rows |-> {}]
NoExport == [todo |-> {}, file |-> {}, rows |-> {}]
NoRead == [at |-> "idle", rows |-> {}]
ReadOwed == [at |-> "asked", rows |-> {}]

MatchesFilter(row) == scope = "all" \/ row.status = scope
RankBySearch(row) == search = "" \/ row.status = search
Rows == {row \in shown : MatchesFilter(row) /\ RankBySearch(row)}
TickedRows == {row \in (IF Scoped THEN Rows ELSE shown) : row.id \in ticked}
\* What a bulk removal is given: the ticked rows on screen, or every ticked id.
SelectedIds == IF Scoped THEN {row.id : row \in TickedRows} ELSE ticked
SameRow(a, b) == a.id = b.id /\ a.birth = b.birth
StillHeld(row) == \E other \in held : SameRow(row, other)
Spends(what) == listBudget[what] > 0 /\ listBudget' = [listBudget EXCEPT ![what] = @ - 1]

ListsInit ==
    /\ panel \in Panels /\ held = StartRows /\ shown = StartRows
    /\ reading = NoRead /\ ticked = {} /\ scope = "all" /\ search = ""
    /\ asked = NoAsk /\ work = NoWork /\ bundle = NoExport
    /\ births = [id \in RowIds |-> IF \E row \in StartRows : row.id = id THEN 1 ELSE 0] /\ gone = {}
    /\ listBudget = [events |-> MaxEvents, orders |-> MaxOrders, reads |-> MaxReads]

\* ---- the core, on behalf of others ----
\* SQLite gives a new row the id after the highest one in use.
NextId(id) == (\A row \in held : row.id < id) /\ (id = 1 \/ \E row \in held : row.id = id - 1)
RowAppears ==
    /\ Spends("events")
    /\ \E id \in RowIds :
         /\ NextId(id) /\ births[id] < MaxBirths
         /\ births' = [births EXCEPT ![id] = @ + 1]
         /\ held' = held \cup {[id |-> id, birth |-> births[id] + 1, status |-> "open", profile |-> "own"]}
    /\ UNCHANGED <<panel, shown, reading, ticked, scope, search, asked, work, bundle, gone>>
RowGoes ==
    /\ Spends("events") /\ \E row \in held : held' = held \ {row}
    /\ UNCHANGED <<panel, shown, reading, ticked, scope, search, asked, work, bundle, births, gone>>
RowEnds ==
    /\ Spends("events")
    /\ \E row \in held : row.status = "open" /\ held' = (held \ {row}) \cup {[row EXCEPT !.status = "spent"]}
    /\ UNCHANGED <<panel, shown, reading, ticked, scope, search, asked, work, bundle, births, gone>>

\* ---- reading the list ----
\* The refresh button, a poll or a frame; a read that is running is left alone.
Refetch ==
    /\ Spends("reads") /\ reading.at = "idle" /\ reading' = ReadOwed
    /\ UNCHANGED <<panel, held, shown, ticked, scope, search, asked, work, bundle, births, gone>>
ReadServed ==
    /\ reading.at = "asked" /\ reading' = [at |-> "served", rows |-> held]
    /\ UNCHANGED <<panel, held, shown, ticked, scope, search, asked, work, bundle, births, gone, listBudget>>
ReadLands ==
    /\ reading.at = "served" /\ shown' = reading.rows /\ reading' = NoRead
    /\ UNCHANGED <<panel, held, ticked, scope, search, asked, work, bundle, births, gone, listBudget>>

\* ---- choosing rows ----
Calm == asked = NoAsk
\* A filter button drops the ticks, typing in the search box does not.
ToggleToken ==
    /\ Calm /\ \E token \in {"all", "open", "spent"} \ {scope} : scope' = token
    /\ ticked' = {}
    /\ UNCHANGED <<panel, held, shown, reading, search, asked, work, bundle, births, gone, listBudget>>
TypeSearch ==
    /\ Calm /\ \E term \in {"", "open"} \ {search} : search' = term
    /\ UNCHANGED <<panel, held, shown, reading, ticked, scope, asked, work, bundle, births, gone, listBudget>>
Toggle ==
    /\ Calm
    /\ \E row \in Rows : ticked' = IF row.id \in ticked THEN ticked \ {row.id} ELSE ticked \cup {row.id}
    /\ UNCHANGED <<panel, held, shown, reading, scope, search, asked, work, bundle, births, gone, listBudget>>
SelectAll ==
    /\ Calm /\ Rows # {}
    /\ ticked' = IF {row.id : row \in Rows} \subseteq ticked THEN {} ELSE {row.id : row \in Rows}
    /\ UNCHANGED <<panel, held, shown, reading, scope, search, asked, work, bundle, births, gone, listBudget>>
ClearTicks ==
    /\ Calm /\ Rows # {} /\ ticked # {} /\ ticked' = {}
    /\ UNCHANGED <<panel, held, shown, reading, scope, search, asked, work, bundle, births, gone, listBudget>>

\* ---- removing ----
BulkBar == Calm /\ Rows # {} /\ ticked # {}
AskOne ==
    /\ Calm /\ \E row \in Rows : asked' = [about |-> "one", id |-> row.id]
    /\ UNCHANGED <<panel, held, shown, reading, ticked, scope, search, work, bundle, births, gone, listBudget>>
AskBulk ==
    /\ BulkBar /\ asked' = [about |-> "bulk", id |-> 0]
    /\ UNCHANGED <<panel, held, shown, reading, ticked, scope, search, work, bundle, births, gone, listBudget>>
Cancel ==
    /\ asked # NoAsk /\ work = NoWork /\ asked' = NoAsk
    /\ UNCHANGED <<panel, held, shown, reading, ticked, scope, search, work, bundle, births, gone, listBudget>>
Starts(kind, ids) ==
    /\ Spends("orders") /\ work = NoWork
    /\ work' = [NoWork EXCEPT !.kind = kind, !.todo = ids, !.rows = {row \in shown : row.id \in ids}]
    /\ UNCHANGED <<panel, held, shown, reading, ticked, scope, search, asked, bundle, births, gone>>
ConfirmOne == asked.about = "one" /\ Starts("one", {asked.id})
ConfirmBulk == asked.about = "bulk" /\ Starts("bulk", SelectedIds)

\* The core answers a removal; the answer may be lost. The ids are asked for
\* one after another, in the order of the set or of the screen.
Removable(id) == id \notin Protected /\ \E row \in held : row.id = id
CoreRemoves(id) == held' = IF Removable(id) THEN {row \in held : row.id # id} ELSE held
Finishes == work' = NoWork /\ asked' = NoAsk
\* One refusal ends the removal with a message and nothing else.
StopAtFailure(id) == CoreRemoves(id) /\ Finishes /\ UNCHANGED <<shown, reading, ticked, births, gone>>
SkipFailed(id) ==
    /\ CoreRemoves(id) /\ work' = [work EXCEPT !.todo = @ \ {id}, !.failed = @ \cup {id}]
    /\ UNCHANGED <<shown, reading, ticked, asked, births, gone>>
RemoveOne ==
    /\ work.kind = "one"
    /\ \E id \in work.todo :
         \/ /\ Removable(id) /\ CoreRemoves(id)
            /\ work' = [work EXCEPT !.todo = {}, !.done = {row \in held : row.id = id}]
            /\ UNCHANGED <<shown, reading, ticked, asked, births, gone>>
         \/ StopAtFailure(id)
    /\ UNCHANGED <<panel, scope, search, bundle, listBudget>>
RemoveNext ==
    /\ work.kind = "bulk"
    /\ \E id \in work.todo :
         \/ /\ Removable(id) /\ CoreRemoves(id)
            /\ work' = [work EXCEPT !.todo = @ \ {id}, !.done = @ \cup {row \in held : row.id = id}]
            /\ UNCHANGED <<shown, reading, ticked, asked, births, gone>>
         \/ Scoped /\ SkipFailed(id)
         \/ ~Scoped /\ StopAtFailure(id)
    /\ UNCHANGED <<panel, scope, search, bundle, listBudget>>
\* Mutant: the removed rows leave the list and the list is not read again.
ForgetRemovedUnread ==
    /\ shown' = {row \in shown : \A old \in work.done : old.id # row.id}
    /\ gone' = gone \cup work.done
    /\ UNCHANGED reading
\* Dropped from every list; the read that was running is given up for a new one.
ForgetRemoved ==
    /\ shown' = {row \in shown : \A old \in work.done : old.id # row.id}
    /\ gone' = gone \cup work.done
    /\ reading' = ReadOwed
\* A removal that skipped rows leaves those ticked; the others stop at the first.
TicksLeft == IF Scoped THEN work.failed ELSE {}
RemovalEnds ==
    /\ work.kind \in {"one", "bulk"} /\ work.todo = {}
    /\ ForgetRemoved
    /\ ticked' = IF work.kind = "bulk" THEN TicksLeft ELSE ticked
    /\ Finishes
    /\ UNCHANGED <<panel, held, scope, search, bundle, births, listBudget>>

\* ---- one profile on many scheduled recordings ----
AskProfile ==
    /\ BulkBar /\ asked' = [about |-> "profile", id |-> 0]
    /\ UNCHANGED <<panel, held, shown, reading, ticked, scope, search, work, bundle, births, gone, listBudget>>
ApplyProfile == asked.about = "profile" /\ Starts("profile", {row.id : row \in TickedRows})
\* A row is spent once its run has started: the core refuses it while it runs and
\* when it is over, and takes it while it is torn down.
Settable(id, torndown) ==
    id \notin Protected /\ \E row \in held : row.id = id /\ (row.status = "open" \/ torndown)
SetNext ==
    /\ work.kind = "profile"
    /\ \E id \in work.todo, lost \in BOOLEAN, torndown \in BOOLEAN :
         /\ held' = {IF row.id = id /\ Settable(id, torndown) THEN [row EXCEPT !.profile = "chosen"] ELSE row : row \in held}
         /\ work' = [work EXCEPT !.todo = @ \ {id}, !.failed = IF Settable(id, torndown) /\ ~lost THEN @ ELSE @ \cup {id}]
    /\ UNCHANGED <<panel, shown, reading, ticked, scope, search, asked, bundle, births, gone, listBudget>>
\* The dialog closes and the ticks go, whatever was refused.
SetEnds ==
    /\ work.kind = "profile" /\ work.todo = {}
    /\ reading' = ReadOwed /\ ticked' = {}
    /\ Finishes
    /\ UNCHANGED <<panel, held, shown, scope, search, bundle, births, gone, listBudget>>

\* ---- exporting ----
Export ==
    /\ BulkBar /\ bundle = NoExport /\ TickedRows # {} /\ Spends("orders")
    /\ bundle' = [NoExport EXCEPT !.todo = {row.id : row \in TickedRows}, !.rows = TickedRows]
    /\ UNCHANGED <<panel, held, shown, reading, ticked, scope, search, asked, work, births, gone>>
\* The rows are read together; one that fails fails them all.
ExportNext ==
    /\ \E id \in bundle.todo :
         \/ /\ \E row \in held : row.id = id
            /\ bundle' = [bundle EXCEPT !.todo = @ \ {id}, !.file = @ \cup {row \in held : row.id = id}]
         \/ bundle' = NoExport
    /\ UNCHANGED <<panel, held, shown, reading, ticked, scope, search, asked, work, births, gone, listBudget>>
ExportEnds ==
    /\ bundle # NoExport /\ bundle.todo = {}
    /\ bundle' = NoExport /\ ticked' = {}
    /\ UNCHANGED <<panel, held, shown, reading, scope, search, asked, work, births, gone, listBudget>>

\* ---- the pages ----
SessionCard == panel = "sessions" /\ Toggle
RecordingCard == panel = "recordings" /\ (Toggle \/ AskOne)
ProfileRow == panel = "profiles" /\ (Toggle \/ AskOne)
SourceRow == panel = "sources" /\ (Toggle \/ AskOne)
AutorunCard == panel = "autoruns" /\ (Toggle \/ AskOne)

Confirms == Cancel \/ ConfirmOne \/ ConfirmBulk
BulkActions == ClearTicks \/ AskBulk
SessionsListView == panel = "sessions" /\ (ToggleToken \/ TypeSearch \/ SelectAll \/ BulkActions \/ Confirms)
RecordingsView == panel = "recordings" /\ (SelectAll \/ BulkActions \/ Confirms)
ProfilesPanel == panel = "profiles" /\ (TypeSearch \/ SelectAll \/ BulkActions \/ Export \/ Confirms)
SourcesPanel == panel = "sources" /\ (TypeSearch \/ SelectAll \/ BulkActions \/ Confirms)
AutorunsListView ==
    panel = "autoruns" /\ (ToggleToken \/ TypeSearch \/ SelectAll \/ BulkActions \/ AskProfile \/ Export \/ Confirms)

RemoveSessions == panel = "sessions" /\ (RemoveNext \/ RemovalEnds)
RemoveAutoruns == panel = "autoruns" /\ (RemoveOne \/ RemoveNext \/ RemovalEnds)
RemoveRecordings == panel = "recordings" /\ (RemoveOne \/ RemoveNext \/ RemovalEnds)
RemoveProfiles == panel = "profiles" /\ (RemoveOne \/ RemoveNext \/ RemovalEnds)
RemoveSources == panel = "sources" /\ (RemoveOne \/ RemoveNext \/ RemovalEnds)

ListsNext ==
    \/ RowAppears \/ RowGoes \/ RowEnds
    \/ Refetch \/ ReadServed \/ ReadLands
    \/ SessionCard \/ RecordingCard \/ ProfileRow \/ SourceRow \/ AutorunCard
    \/ SessionsListView \/ RecordingsView \/ ProfilesPanel \/ SourcesPanel \/ AutorunsListView
    \/ RemoveSessions \/ RemoveAutoruns \/ RemoveRecordings \/ RemoveProfiles \/ RemoveSources
    \/ ApplyProfile \/ SetNext \/ SetEnds
    \/ ExportNext \/ ExportEnds

ListsSpec == ListsInit /\ [][ListsNext]_listVars

ListsTypeOK ==
    /\ panel \in Panels /\ ticked \subseteq RowIds
    /\ \A row \in held \cup shown \cup gone : row.id \in RowIds /\ row.birth \in 1 .. MaxBirths
    /\ \A a, b \in held : a.id = b.id => a = b
    /\ work.kind \in {"none", "one", "bulk", "profile"} /\ work.todo \cup work.failed \subseteq RowIds

\* A row a person was told is removed never shows in the list again, however
\* the reads of the list overlap the removal.
RemovedStaysGone == \A row \in shown, old \in gone : ~SameRow(row, old)

\* A row that was confirmed for removal and is still there when the removal
\* ends is still ticked, so nothing that was skipped is forgotten (an export
\* that ends meanwhile clears the ticks, and these are left out).
SurvivorsStayTickedStep ==
    work.kind = "bulk" /\ work' = NoWork
         => \A row \in work.rows :
              row.id \in ticked /\ (\E other \in held' : SameRow(row, other)) => row.id \in ticked'

\* When a profile change ends and reports no failure, every recording it was
\* asked for that is still there has the profile.
SetMeansSetStep ==
    work.kind = "profile" /\ work' = NoWork /\ work.failed = {}
         => \A row \in work.rows, now \in held' : SameRow(row, now) => now.profile = "chosen"

\* An export that succeeds holds one entry for every row that was ticked for it.
ExportIsWholeStep ==
    bundle # NoExport /\ bundle.todo = {} /\ bundle' = NoExport
         => \A row \in bundle.rows : \E entry \in bundle.file : entry.id = row.id
==============================================================================
