# Mirrorr: specifications, model checking and proofs

Mirrorr mirrors live streams.  A FastAPI backend (`mirrorr-core`) runs one
operating-system process per *session*; each process resolves a source, starts
an engine (ffmpeg, yt-dlp, ...) that writes an HLS playlist, optionally records
it, and retries or falls back to other sources when it fails.  A React client
(`mirrorr-web`), called the console below, shows and controls the sessions over
REST and two WebSockets.

This directory models what decides what happens to a session in the core, and
what the console makes of it: its sign-in, its sockets, its caches and the forms
a person works in.  Paths below are relative to `mirrorr-core/src/mirrorr/` or,
for the console, to `mirrorr-web/src/`.

1. [The system](#1-the-system)
2. [The modules](#2-the-modules)
3. [How the models correspond to the code](#3-how-the-models-correspond-to-the-code)
4. [What the runs check](#4-what-the-runs-check)
5. [Fairness](#5-fairness)
6. [What is proved](#6-what-is-proved)
7. [Where the code and its documents disagree](#7-where-the-code-and-its-documents-disagree)
8. [What is not modelled](#8-what-is-not-modelled)
9. [Plan](#9-plan)

## 1. The system

| Part | State it keeps | Operations | Interacts with |
|---|---|---|---|
| session supervisor (`services/session_supervisor.py`, one process per session) | plan position, attempt and failure counters, engine processes, recorder, stop latch, playable latch | `run`, `_run_capture`, `_run_attempt`, `_close_capture`, `_finalize_*`, `_handle_control` | session row (`update_session`), NATS control channel, engine and resolver plugins, disk |
| session rows (`services/session_lifecycle.py`, `storage/crud.py`) | `Session`, `Autorun`, `Recording` tables, ids reused smallest first | `update_session`, `delete_session`, `update_autorun`, boot reconciliation | everybody |
| supervisor registry (`event_bus/handlers/handlers.py`) | `_supervisors`: session id to process | spawn on `SESSION_CREATED`, kill on `SESSION_DELETED`, watchdog, shutdown | NATS events, session rows |
| autorun scheduler (`services/autorun_scheduler.py`) | the `Autorun` rows | start what is due, stop what is over | session rows, control channel |
| API (`api/routers/`) | none of its own | create, stop, delete, update; access; sign-in; import and export | rows, events, control channel |
| recorder (`services/recording.py`) | stash folder, stash task | `start_stash`, `stop_stash`, `remux_capture`, `finalize` | disk, ffmpeg |
| fallback chain (`services/fallback_chain.py`) | pure | normalise, resolve, patch, reduce to rungs | API, scheduler, supervisor |
| housekeeping (`services/housekeeping.py`) | none | sweep orphan folders, prune recordings | rows, disk |
| relay (`api/ws.py`) | open sockets | accept, authenticate, forward what a client may see | NATS events, rows |
| console: sign-in and requests (`api/auth.ts`, `api/client.ts`) | status, generation, latch, timer, the refresh in flight | boot, sign-in, sign-out, refresh and retry of a 401 | cookies, router, every other part of the console |
| console: sockets (`api/realtime/manager.ts`) | two sockets, timers, failure budget | connect, reconnect, refresh after 4001, fall back to polling | relay, refresh, banner |
| console: caches (`api/realtime/event-table.ts`, `api/infinite-lists.ts`) | list pages, details, tombstones | merge frames, answers and own deletions | sockets, views |
| console: rules (`api/domain/`) | pure | chains, access plans, bundles, filters | forms |
| console: pages (`ui/views/`, `admin-access.tsx`) | drafts, selections, dialogs, requests in flight | one per button | caches, API |

`PROJECT.json` lists every part with its status, the ones left out included.

**How the parts interact.**  The core process and the supervisor processes
share the database and the bus, and nothing else.  The API, the scheduler and
the boot insert session rows and publish `SESSION_CREATED` after the commit; the
registry's handler answers it with a process.  That process writes the row
through `update_session`, which commits the session and then, in a second
commit, its autorun.  Stops and recording toggles reach the process as NATS
requests; its handler runs between any two awaits of the run.  Deletions go
straight to the row, then to the registry entry, then to the process.  The
watchdog compares rows with the registry and fails rows without a process.

Every committed write emits an event; the relay reads the row anew and forwards
it to the consoles that may see it.  A console merges such frames with the
answers of its own reads, which are as old as the moment the core read its rows,
and with what its own requests did.  Its forms are filled from those caches and
send what the person chose to a core that has moved on since.

**What is hard.**

- *Interleaving inside a supervisor*: `run` has some thirty awaits, and the
  control handler writes the same row and the same recorder between them.
- *Two processes, one row*: nothing but the row's existence orders a
  supervisor's writes against the API's, the scheduler's and the watchdog's.
- *Recycled ids*: `next_free_id` hands out the smallest free id, so an id held
  across an await (in an event, a list, the registry, an idempotency key, a
  tombstone, a selection) may name another row when it is used.
- *Partial failure*: events may fail to be published after their commit, a
  process may die at any point, the core may die between two commits; a bulk
  action of the console is a row of requests, any of which may fail.
- *Retries and timeouts*: attempts, failures to resolve, fallbacks, stops asked
  again at each tick, a join that gives up after 30 s; sockets reconnected
  against a shared budget; a refresh that many callers wait for.
- *Old reads*: what a form checks, plans and shows was read before.
- *One rule, two languages*: the console repeats the core's rules of chains,
  plugins and statuses, and lets a person act on its own verdict.

**What makes each part correct.**

- Supervisor: the plan is run in order and each source only after the failure
  of the one before; an attempt's engine is torn down before anything else
  happens; a recorder that is on has a stash task while the engine writes, and the
  task a folder to copy into; retries stay in their budget; at most one recording is filed; only a completed run
  deletes its row; a stop ends the run.
- Rows and autoruns: an autorun's slot starts one session ever; the unique key
  never raises; an orphan's retry is not lost; what was started is not scheduled
  again.
- Registry: one driver per session; every process is known to the shutdown; no
  row stays live without a driver; requests that wait for a process end.
- Scheduler: what is over is stopped.
- Sign-in: a session that was left does not come back; one that is shown has its
  next refresh ahead; refreshes do not race; a session the core ended ends in the tab.
- Sockets: none after a sign-out or for the wrong person; no stream forgotten;
  none refreshed against for ever; what is shown is no better than what is.
- Caches: the list comes to mirror the core; a recycled id is heard of; what was
  deleted here stays away.
- Forms: what was accepted on a fresh read is what the core does; what a person
  typed stays; nobody else's write is undone; a reported success is one, whole.

## 2. The modules

| Module | What it is |
|---|---|
| `CapturePlan` | the abstract promise of one session: captures in order, one verdict, at most one recording |
| `Supervisor` | one supervisor process and its control handler, the row, the engine, the world around; implements `CapturePlan` |
| `MCSupervisor` | retry modes for the instances, and `UndisturbedSpec` (no deletion, no error from outside) |
| `SupervisorProofs` | the inductive invariant of `Supervisor` and the theorems from it; the statuses of the row at each point of the run, and `FollowsWalk` from them |
| `SessionPhases` | the statuses as the core tells them apart, and the walk `Follows` a supervisor's writes take |
| `SessionCore` | the core process: tables, registry, bus, scheduler, watchdog, API requests, boot, crashes, any number of supervisors |
| `MCSessionCore` | sub-relations of `Next` for the runs, and `RecyclingSpec` (no new session gets an id the watchdog is about to fail) |
| `SessionCoreProofs` | type correctness and the two key properties of `SessionCore`; the registry and the watchdog under `RecyclingSpec` |
| `Induction` | induction and recursion over the naturals in a form a proof step can cite |
| `AuthSession` | one tab's session: boot, sign-in and sign-out, 401s, the shared refresh, the rotation in the core |
| `AuthSessionProofs` | the inductive invariant of `AuthSession` and its safety properties |
| `RealtimeSockets` | the two sockets, their timers and budget, the fallback to polling |
| `RealtimeProofs` | the invariant of `RealtimeSockets` and its safety properties |
| `EntityCache` | list pages, details and tombstones of one resource against frames, answers and deletions |
| `EntityCacheProofs` | what frames, refetches and answers leave in the cache, and `DeletionsHold` from it |
| `FallbackChain` | the console's rules for a chain: what a rung stands for, which rungs are dead, what is pruned |
| `CoreChain` | the core's own rules for the same chain: an independent translation of `fallback_chain.py` |
| `ChainForm` | a form that holds a chain, its cards, its save, what the core makes of it; brings the two together |
| `AccessPlan` | drafts of access, the requests that get an item there, what the core keeps of them |
| `AccessForms` | the panel of one item, the bulk dialog, the access section of a creation |
| `ImportExport` | bundles: loading, validation, choices, application, export |
| `ManagedLists` | the five lists with their selections and bulk actions |
| `AutorunForm` | a scheduled recording, its page and its form, against scheduler and other people |
| `PresetForm` | the dialog of profiles and saved sources, and the browsing panel |
| `SessionPage` | a session's page and its buttons against the run |
| `NewSession` | the dialog that starts a session |
| `SessionPreview` | the `<video>` of a session's card |
| `Console` | the pages composed, one of them shown: their instances and what is said of them |
| `MCConsole` | the values of an instance of `Console` |
| `ConsoleProofs` | the invariants of seven of the pages and their properties |
| `FormProofs` | the two forms whose work the core does again: what a plan of access requests holds, the invariant of the panels and `AccessAsAsked`; the two resolutions of a chain set side by side, the invariant of the editor, `ChainAgrees` and `ChainEditsKept` |

`Supervisor` and `SessionCore` meet in `SessionPhases`.  `SessionCore` reduces
a supervisor to row writes along `Follows`; `FollowsWalk`, proved of
`Supervisor`, says that the detailed process takes no other step.  Without that
link the composition would rest on an invented process.

`CoreChain` extends `FallbackChain` only for its vocabulary.  The two hold the
same rules translated from two sources; `ChainForm` has the console's verdict
decide what is sent and the core's what happens.  The loops of both are recursive
functions (`At` for the filters, `walk` for the core's walk, `after` for the passes of a
pruning), which the proofs unfold one rung at a time.

## 3. How the models correspond to the code

The map in `PROJECT.json` names the lines of every definition.  The choices a
reader needs to know:

### Supervisor

`pc` names the await the run is at; what runs between two awaits is one
action.  `ctl` is the same for the control handler: nats-py serves one
subscription with one task, so commands are serial among themselves and
interleave with the run.  `ending` is how `run` left its loop (`aborted` for an
exception).  `row` is what `update_session` writes; a write with no row raises,
which `RowMissing` turns into the exception that leaves `run`.

| Code | Model |
|---|---|
| `run`, loop over `capture_plan()` | `StopAtTop`, `BeginCapture`, `LoadCaptureFails`, `RecordCapture` |
| `_run_attempt` up to the engine | `StartAttempt` ... `StartEngine` |
| startup gate, run, stall watch | `PublishPending` ... `StallObserved`, `StopCleanup` |
| `_run_capture` after an attempt | `Judge`, `RetryCleanup`, `ResetForRetry` |
| `_close_capture` | `CloseCapture`, `RemuxNothing`, `RemuxDone`, `RecordCapture` |
| `_finalize_stopped`, `_finalize_session`, `_fail`, `_do_remux_and_finalize` | `Finish` ... `DeleteRow` |
| `_handle_control` | `StopCommand`, `EnableCommand`, `DisableCommand` and their second halves |
| `start_stash`, `use_folder`, `_stash_loop` | `StartStash`, `UseFolder`, `StashFails` |
| engine, shutdown event, API, plugins | `WriteSegment`, `EngineEnds`, `Shutdown`, `ApiDelete`, `ExternalError`, `CleanupRaises` |

`stash` is the recorder's stash task: `off` (never started, or stopped),
`running`, `astray` or `failed`.  `start_stash` returns when a task runs; a task
that runs while `use_folder` names another folder goes on there, and is `astray`
where that folder has no stash folder: each copy is then skipped.  A task that
an I/O error ended, or that could not be started, is `failed`, and is started
again by the next `start_stash`.  `playlist` says whether the folder in use has a
playlist: an attempt removes the one before it just before its engine starts, and
the gate looks at nothing else.

Abstractions: folders are named by the capture that owns them and segments are
a set of folders that hold some; `_cleanup` is atomic; the first end an attempt
signals counts; the race `asyncio.wait` decides among tasks done in the same
loop iteration is decided by the guards of the code after it; `should_retry` is
the default one of the plugin interface; delays are steps of no duration;
disk and stall guards give either verdict; unsubscribing cancels a command in
flight; a failing database is not modelled, a missing row is.
`attempt` saturates at `AttemptBound`, which is above every budget the retry
modes compare it with.

### SessionCore

A session is identified by its `birth` beyond its recycled id; no guard of the
code reads `birth`, only properties do (a process takes the birth of the row it
loaded, as a ghost).  Bus queues `created` and `deleted` are in order, may miss
an event (publication may fail after the commit) and die with the core.  A
request is a coroutine with the await it is at; the loops of the scheduler and
the watchdog keep what they carry over an await (`doomed`, `spread`).
`SupervisorWrites` is an `update_session`, `SupervisorPropagates` its second
commit; `SupervisorExits` may happen at any time.

| Code | Model |
|---|---|
| `_spawn_session`, `_tick` | `Spawn`, `StartSlot`, `StopAtEnd` |
| `_spawn_supervisor`, `_kill_supervisor`, `handle_session_deleted` | `OnCreated`, `Unregister`, `Join`, `OnDeleted`, `Reaped` |
| `create_session`, `delete_session`, `stop_session` and their helpers | `CreateSession`, `BeginDelete` ... `StopRecorded` |
| `update_session`, `delete_session` | `Written`, `Spreads`, `Propagate`, `SupervisorDeletes`, `SupervisorAnnounces` |
| `supervisor_watchdog_loop` | `Sweep`, `FailDoomed`, `Propagated` |
| `fail_orphaned_sessions`, `_retry_orphaned_autoruns` | `FailOrphan`, `OrphansFailed`, `RetryOrphan`, `Booted` |
| `kill_all_supervisors`, the end of the process | `Shutdown`, `Restart` |

Abstractions: statuses are phases; a creation is atomic (the database's unique
indexes refuse the second of two that chose one id); deleting a row that is gone
meanwhile goes on, because the request's database session still holds it; a
supervisor control answer of 400 or 502, which ends a request with an error
before it changed anything, is the request that was never made; the autorun's
`issue` flag and its deletion are in `AutorunForm`; `Walked` bounds the phases
supervisors write in one instance.

### AuthSession

One tab.  `c` is what `auth.ts` and `client.ts` keep, with the services they
start; `calls` are the boot's `/auth/me` and a view's query, each at the await it
is at; `flights` the refreshes on their way; `jar` the cookies, which the tab
cannot read; `core` the tokens minted, spent (rotated) and revoked (signed out, or
with a password).  A request carries the cookie of the moment it is sent.  `fresh`
says that the generation of `fetchAuthMe` has not changed since the boot's call was
sent, so that its answer still counts.  The core's rotation and its answer are two
steps, so that an answer may be lost between them, and a refresh the tab gave up may
be served after all (`ServedLate`).  The core is `routers/auth.py` as far as a
browser meets it: a token whose record is revoked, for whichever reason, is taken for
stolen (`TakenForStolen`) and refused with 401.  The update that would then revoke
the account's other tokens (`routers/auth.py:528`) is not committed, since the handler
raises and the request's database session (`dependencies.py:23`) commits nothing of
itself; the refusal changes no token, in the model as in the code.  `core.closed` are
the sessions whose access cookie the core no longer takes, `core.removed` those of a
removed account.  `core.lost` and `c.ended` are history.

### RealtimeSockets

`m` is the manager's fields; its methods are operators from its states to its
states, composed as the calls are; each action is the callback that runs them.
The server accepts a socket before it looks at the cookie (`ws.py`), so every
socket is `accepted` before it is refused with 4001 or 1013.  Everybody who waits
for the shared refresh goes on in the order of waiting, in one step: nothing runs
between two continuations of one promise (`RefreshAnswers`, a recursive function
over the waiting closes).  `ctor` is what `new WebSocket` does on
the host.  Delays are steps of no duration; the growth of the back-off is left
out.  `lost` and `shown` are history.

### EntityCache

One resource at a time (`kind`), in a tab that watches a list and may open
details.  The core's writes emit events; the relay forwards each with the row as
it reads it *then*; frames are put in the coalescing buffer, a JavaScript `Map`
whose key keeps its first place, and a flush hands them to the event table's
handlers in that order (`Dispatched`, a recursive function).  A fetch is asked, read by the core and answered in
separate steps; a list fetch reads page by page with cursors.
`invalidateQueries` cancels and restarts the fetch of a mounted query: each
handler collects the keys it names in `tab.stale` and `Leave` carries that out.
React Query itself is external, modelled from how the code uses it.
Sessions take the smallest free id, other rows one past the largest.

### The pages

Each module has the core's rows, what the page read of them, what the person
drafted, and the requests in flight, as separate variables; a request is sent,
served and answered in separate steps where something can come between.
A `...Step` operator states what every step of a page keeps; `Console` makes an
action property of it.

| Module | Code | Abstractions |
|---|---|---|
| `FallbackChain`, `CoreChain`, `ChainForm` | `domain/fallback-chain.ts`, `domain/fallback-sources.ts`, `chain-editor.tsx`, `rung-card.tsx`, `source-chain.tsx`, the dialogs that mount them; `fallback_chain.py`, the requests of `crud.py` | rows are model values, a config is a value, retry mode and config are one value; three forms stand for those that mount the editor |
| `AccessPlan`, `AccessForms` | `domain/access-plan.ts`, `admin-access.tsx`, `resource-access.tsx`, `access-panel.tsx`; `routers/auth.py` | users and groups are principals; membership is not looked into; the list of changes a person confirms is the set of items |
| `ImportExport` | `import-export-view.tsx`, `domain/bundle.ts`; `routers/import_export.py` | a name is a text and the numbers it ends in (`p_2_3` is `p` with 2 and 3), since the core appends a number to make it free; engine and resolver references are one reference; contents are values |
| `ManagedLists` | `profiles-view.tsx`, `sources-panel.tsx`, `sessions-list.tsx`, `recordings-view.tsx`, `autoruns-list.tsx`, `useSelection` | a search looks for one status; the list is read whole (paging is in `EntityCache`) |
| `AutorunForm` | `autorun-form-dialog.tsx`, `autorun-detail.tsx`, `autorun-actions.tsx`; `crud.py` and one tick of the scheduler | hours are a small clock; statuses are classes (`Active` for recording, too) |
| `PresetForm` | `presets-dialog.tsx`, `discovery-drawer.tsx`, `schema-form.tsx` | a config is told apart by the resolver it was written for, a retry config by its mode |
| `SessionPage` | `session-detail.tsx`, `session-timeline.tsx`, the buttons; the handlers behind them | the run is `Supervisor`'s in few steps; the sockets are down, so the page lives on its polls |
| `NewSession` | `new-session-dialog.tsx` | a chain's rungs are told apart by who wrote them |
| `SessionPreview` | `session-preview.tsx`, `session-preview-player.tsx`, `session-card.tsx` | a media element starts when it likes once it may |

`Console` composes them.  The router shows one page at a time and what a page
keeps dies with it, so a behaviour is a visit to one page, and thirteen cells hold
whichever module's variables are in use.  Every initial state picks a page; no
step changes it.  That makes one run of what would be nine, each of which keeps
its own bounds.  `Console` declares the constants of all pages, under a name of
its own where two pages use one name for two things.

## 4. What the runs check

Twelve runs, four of which find a counterexample (section 7); each property of a
passing run has a mutated definition in `PROJECT.json` under which TLC finds it
violated.  Several properties gather named parts that are about one concern
(`MediaFiledOnce`, `SocketsInOrder`, `SessionConsistent`, `DeletionsHold` and those of the console);
each part has its own definition and comment in its module.

| Run | Specification | Question |
|---|---|---|
| `supervisor_safety` | `Spec`, two captures, retry modes `count` and `exit_code` | plan order, teardown, stash, budget, recording, deletion, walk of statuses, refinement of `CapturePlan` |
| `supervisor_liveness` | `FairSpec`, one capture that always retries | a latched stop ends the run; a dead source does not loop |
| `core_safety` | `SafetySpec` | slots and keys, the registry and the watchdog: rows are deleted, ids used again, announcements repeated, and the core and supervisors die |
| `core_live` | `LiveSpec` | no row stays live without a driver, requests end, a closed window stops its session, starting or playing |
| `auth_session` | `AuthSession!Spec` | late answers revive no session; one that is shown has its next refresh ahead and the latch of an expiry down; refreshes never race; a dead session ends |
| `realtime` | `RealtimeSockets!Spec` | no socket for nobody, none for the wrong person, no stream forgotten, the stream returns, no endless refreshing |
| `entity_cache` | `EntityCache!FairSpec` | recycled ids, dead pages, own deletions, the list and the detail catch up |
| `console` | `ConsoleSpec` | ten properties of nine pages, below |
| `supervisor_RemuxKeepsRun`, `supervisor_StashHasFolder`, `core_RetryNotLost`, `page_RemuxNotCut` | | section 7 |

What the `console` run says, page by page:

| Page | Property | It says |
|---|---|---|
| chain | `ChainAgrees` | console and core agree on what is refused and what is run; a profile made of a run plans that run again; after a prune nothing blocks the form but names of what is gone |
| chain | `ChainEditsKept` | pruning costs no capture; a card's draft stays with its rung |
| access | `AccessAsAsked` | a plan writes only the principals it changes and ends as shown; a bulk success holds on every item; bulk removes no owner; the panel goes on from what it wrote (the grants of the user who holds the crown, which the core does not list, aside: section 6) |
| imports | `ImportAsReported` | what is made is what the report announced, unless it announces a name twice or one that is taken; a name made is free until the numbers are used up; what was unticked is not made; a repeated request makes no second profile; an export imported here changes nothing, namesakes apart |
| lists | `BulkWorkIsHonest` | a removed row does not come back with an old read; what could not be deleted stays ticked; a reported change or export is whole |
| autorun | `SavesWhatWasTouched` | what was typed stays; what was started is not scheduled again; a save leaves alone what it does not send and clears only the flag it saw |
| presets | `PresetFits` | a config is of its resolver, a retry mode of its engine, an offer of what is asked now |
| session | `PageTellsTheRun` | the timeline shows each attempt once; the page deletes nothing it did not see end or tell to stop |
| start | `StarterIsHonest` | an error means that no session was started, unless the answer to the request that started it was lost; lists read late change nothing |
| preview | `PreviewFollowsWatcher` | only the card's present element plays, only while watched; a watched card that can play does |

The type invariant of each page is a part of its property.  `Keeps` in
`Console` states an invariant as part of an action property, so that one name
covers what a page always satisfies and what its steps keep.

**Bounds.**  Two captures are the least with a hand-over, and the properties
relate neighbours in the plan; the proofs lift this to any length.  `RetryCount`
1 gives one retry and one refusal, `MaxResolveFailures` 2 one retry and the
limit, `AttemptBound` 3 one more than any comparison needs.  In the core two ids
are the least with a recycled and a fresh one; three ids and four births
(`core_safety`) let a retry's key, an orphan with the same id and a third session
coexist, and a deleted session's id be announced again while its own announcement or
its process is still there.  Two births (`core_live`) are a session and another, on
its id or beside it; its supervisors write "playing" and "completed", so that the
window closes on a session that starts as well as on one that plays.  Every instance
bounds births; a bound on births only ever disables a creation.

`auth_session`: two sign-ins give a session to leave and one to confuse it with;
three tokens a rotation in each order around the second sign-in; two flights
suffice to break the single-flight rule; two faults allow an expiry and a lost
answer, or an expiry and a revocation, in one behaviour.  `realtime`: a budget
of three lets each socket fail, then both, and the last failure be either's; two
refreshes are one renewed budget apart from giving up; at most two closes wait,
one per socket.  `entity_cache`: two ids and pages of one row make every cursor
lie on a page's border and let a row move between pages; three versions are one
write beyond the two that make an answer stale; of two events in flight one may
overtake; a habit (a person deletes or browses) keeps two independent halves
apart, since the deletion on a detail page works on the entry of the detail
alone.

`console`: the chain page has two engines, resolvers, configs and profiles, one
of which carries a chain of the former kind, so that a rung may equal the base,
an earlier rung or neither; three edits fill, alter and move; one change by
somebody else makes the lookups stale.  The access page has two users, a group
and two items, which is a plan with one item to fail and one to go on with, and an
owner who was granted something before being handed the crown.  Imports go twice.
A list has two rows, one of them not the person's to change, and an id used
twice.  The clock of the autorun page has a before, a within and an after.  A
session's run has two sources and two attempts.  All budgets are independent of
each other, and each is large enough that every mutant is found.

**Sub-specifications.**  `Next` of `SessionCore` with everything in it is large,
so `MCSessionCore` restricts it per question.

`SafetySpec` has behaviours of two sorts.  In the first, sessions of autoruns and of
users are started, deleted and retried through crashes of the core while no
supervisor is spawned, which is where keys and slots are decided.  In the second,
users start and delete sessions and supervisors drive them: spawned, told, killed,
hanging, dying, shut down with the core.  In neither is a stop asked through the API,
nor does the scheduler's second phase run; the proofs of the four properties include
both.  Both sorts leave one thing out, `Undoomed`: between the watchdog's sweep and
its write, an id on its list is not deleted *and* given to a new session.  There the
code drops the new supervisor's entry (section 7), so that neither `DriversKnown` nor
`WatchdogFailsDead` holds.

`LiveSpec` has sessions of users or sessions of the autorun, one kind in each
behaviour, and everything else: deletions and stops through the API, the scheduler's
stops, handlers, watchdog, crashes and boots.

The restrictions are no substitute for the whole: the safety properties are proved
for the complete `Next`, with `Undoomed` where they need it (section 6).

Deadlock checking is off in every run: a run of a supervisor ends, the core
may rest, a visit to a page ends with its budgets.

## 5. Fairness

`Supervisor!FairSpec` is weak fairness of the run as a whole and of the second
halves of control commands.  That is what an event loop gives: a coroutine that
is ready is run.  It assumes that plugin calls, the database and ffmpeg return:
`resolver.resolve` and `engine.start` have no timeout, so a plugin that hangs
does hang the run, stop or not.  No command has to be sent, no engine has to
end, no stall has to happen.

`SessionCore!Fairness` is weak fairness of the core's loops, of each bus
handler and of each request, whose awaits all have a timeout.  Of a supervisor
it assumes only that loading ends and that a process with nothing left to do
leaves; one that runs may run for ever, which is why `NoRowStranded` and
`RequestsEnd` need neither its cooperation nor its death.  `WindowCloses` is the one
property about the effect of a stop, and has `Obedience` as its premise: a supervisor
told to stop ends, which is `StopEndsRun` of the other model.

In the console a timer that is set fires, a query that polls (`refetchInterval`)
asks again, and a request is answered or fails: the browser's event loop and its
network stack give that.  `AuthSession` assumes it of `/auth/me`, of a view's
query and of the refreshes, and of nothing a person does.  `RealtimeSockets`
assumes it of timers, sockets, the refresh and a list's poll during the fallback;
the server may stay down for ever, and `EventsReturn` speaks only of behaviours
where it does not.  `EntityCache` assumes it of the polls and of reads; frames
need never arrive.  `ConsoleSpec` states no fairness: what it says of the pages is
about steps, and that a detail page comes to show how its session ended is
`DetailSettles` of `EntityCache`.

## 6. What is proved

TLAPS checks these for every value of the constants, from the named assumptions
of the modules alone, all of which TLC evaluates on the instances:

| Assumption | It says |
|---|---|
| `PlanAssumption`, `RetryAssumption` (`Supervisor`) | a plan has at least one entry, each with a known mode; limits are positive; the attempt counter does not saturate below what it is compared with |
| `CoreAssumption` (`SessionCore`) | ids and births are positive |
| `BoundsAssumption` (`AuthSession`) | a tab has a slot for a refresh, and its bounds are numbers |
| `BudgetAssumption` (`RealtimeSockets`) | the failure budget and the number of closes that may wait are positive |
| `CacheAssumption` (`EntityCache`) | ids are 1 .. n for some n; a page holds at least one row and a history one write; bounds are numbers |
| `PresetAssumption` (`Console`) | stored profiles and sources name plugins there are, or none |
| `FormAssumption` (`Console`) | there is a profile to make a schedule from; no row has the status of a row that is not there; bounds are numbers |
| `ListsAssumption` (`Console`) | a table has one row per id, the first to carry it |
| `MountsAssumption` (`Console`) | a card may be mounted at all |
| `AccessAssumption` (`Console`) | accounts, groups and items are finitely many and none of them is a mark (no crown, not read); VIEW is a capability; what items carry to begin with is closed under it, as the core keeps it |
| `ChainAssumption` (`Console`) | stored profiles, and the one somebody else makes of one, name plugins there are; what is filled in is a capture or a rung; a stored chain is within the bound; what is left out is none of the things there are |
| `ImportAssumption` (`Console`) | bundles hold text, names and references to plugins; the person's profiles are finitely many rows, of installed plugins, numbered within the table's size; no bundle is the mark for none |

**`SupervisorProofs`.**  No property is inductive on its own, so they are proved
together from

    IInv == TypeOK /\ EndingInv /\ PlaceInv /\ RecordInv /\ OutcomeInv
            /\ TriesInv /\ HoldInv /\ ArtifactInv /\ FiledInv

`EndingInv` ties the program point to how the loop was left; `PlaceInv` says at
each point how many records there are and whose folder is in use; `RecordInv`
that all records of a loop that still runs are failures; `OutcomeInv` which
outcomes each point may have; `TriesInv` that an attempt about to start is still
within the budget; `HoldInv` that a started attempt holds its folder and its teardown is still
due, and that a recorder has had its stash task started wherever the engine writes; `ArtifactInv` that the running capture has no artifact
before its own remux, which is what keeps a second one out; `FiledInv` that
nothing is filed before the merge.  One lemma shows that
`Init` gives it and one per group of conjuncts that a step keeps it, an action
at a time.  From it follow

- `TypeCorrect`, `PlanRunsInOrder`, `MediaMergedOnce`, `EngineTornDown`,
  `RecorderStashes`, `BudgetKept`, `OneRecording`, and `MediaIsFiledOnce` from two of
  them (the invariants of the run `supervisor_safety`, `PlanInOrder` being implied
  there by `ImplementsPlan`),
- `DeletionAfterCompletion` (an action property),
- `PlanImplemented`: `Spec => Plan!Spec`, each step being a step of the abstract
  plan or a stutter.

**The walk** (the end of `SupervisorProofs`).  `FollowsWalk` relates two successive statuses; what it needs is
which statuses the row may have at each point of the run, the commands of the
control handler included, which may write theirs between any two awaits.
`StatusInv` says that, over `IInv`: until the loop is left the status is a playing
one, an early one or TERMINATING; during the merge that of a command or REMUXING;
before the final write FINALIZING too, or REMUXING after a plan that is exhausted.
Which writes are then steps of the walk is one lemma (`Writes`).

**`SessionCoreProofs`.**  `TypeCorrect` needs `Addressed`: whatever acts on an
id holds one that is not 0.  `KeysUnique` goes by what a step may do to the
table: it writes a row without touching its key, deletes it, or inserts one
whose key it has just found unused (`RowSteps`).  `SlotsOnce` needs that a slot
whose autorun is still `scheduled` has not started: the spawn flips the autorun
in the commit that inserts the row, and `AutorunSteps` shows that nothing sets
an autorun back to `scheduled`.  Both hold for the complete `Next`, deletions,
crashes and recycled ids included.

**The registry** (the end of `SessionCoreProofs`) is about `RecyclingSpec`: the
complete `Next`, but for a new session under an id the watchdog is about to fail.
`KnownInv` says that a process nobody told to stop is the one the registry names for
its id, that what the registry names was spawned, and that what the watchdog is about
to fail has neither a living process in the registry nor an announcement on its way.
Of an announcement nothing is assumed: it may be repeated, or be of a session that is
gone and whose id another one has; the guard of `_spawn_supervisor` keeps it from
making a second process.  Most steps announce and spawn nothing, end processes or
tell them, and keep the entry of one they did not tell: `Calm` says so once for all of
them.  `DriversAreKnown` and `WatchdogIsRight` follow.

**`AuthSessionProofs`.**  One invariant for all three theorems, by what one part of
the tab may assume of the others.  `Tab`: a call to `/auth/me` whose answer still
counts, or a status not yet known, exists only while nothing was signed out; the
latch is up only where no such call is, and only in a tab that is signed out.
`Ahead`: while a session is shown a timer is armed or a timer's refresh is on its way,
whose end arms it again, unless it ends the session.  `FlightInv`: one refresh is on
its way at most, only it has timers that wait for it, and the token that comes back is
new.  `SpentInv`: until an answer is lost a spent token is nowhere but in the jar that
waits for the answer to its rotation.  Each function of `auth.ts` has a lemma saying
that it leaves a consistent tab, and the steps cite these.

**`RealtimeProofs`.**  `Inv` is what a manager between two callbacks looks like:
no socket after a stop or for the wrong person and no fallback beside an open
stream (`Sound`; a timer may be armed even then, which a late refusal of a refresh
schedules, and which finds the manager stopped when it fires), a view "open" only over an open socket (`Honest`), what was last
told is what is (`Shows`); and where the events stream is down, a timer, the
fallback or a close that waits for the refresh answers for it (`EventsTracked`, the
part `Held` of which is relative to who else may answer).  Each method has a lemma
that it makes a sound manager of a sound one, and what it leaves alone.  A refresh
runs one continuation per waiting close, in a recursive function; that the invariant
survives it is by induction over the closes, whose hypothesis is `Held` with the
closes still to come.  The library's induction theorems take the induction's
predicate as an operator, which the provers cannot instantiate; `Induction` derives
from the least element of a set of naturals (`WFMin`) a form that speaks of sets
(`SetInduction`), and the existence of a function defined by recursion up to a
number (`Recursion`, and `Unfolding` for sets that are expressions).  `SocketsStayInOrder` and `ShownIsTrue` follow.

**`EntityCacheProofs`.**  `DeletionsStand` (`Spec => DeletionsHold`) says that a deletion is
final for the row it was of and for that row only.  `CoreInv` says that the core has none of the rows this tab deleted; `TabInv` what
pages, buffer and details look like between two tasks, nothing being left stale or
cut; `ListInv` that a refetch under way has read no such row, since the answer to
the deletion starts it anew.  Each handler of the event table has a lemma that says
what it makes of the tab: it puts a tombstone on no id but its frame's, a creation
with its row leaves none there, and a page that is watched stays so until the frame
that deletes its row, which leaves it.  A flush hands the frames over one after the
other in a recursive function, so these are carried through by induction over the
frames: a row whose last frame says that it was created has no tombstone in the
end, whatever was said of its id before.  That the k-th largest id under a cursor
exists, on which the pages of the core rest, is a lemma about finite sets of
numbers.

**`ConsoleProofs`.**  One page is shown, so each page has an argument of its own
over the cells it uses, an invariant its first state has (`...Begins`), each of its
steps keeps (`...Keeps`), and from which the property follows (`...Shows` and a
lemma per `...Step`):

- `StarterHonest`: while a session is asked for the dialog stays and shows no error;
  a dialog that may show one has started no session, unless an answer was lost;
- `PresetsFit`: whatever a body may be filled from (a row, a profile, defaults, what
  was found, an answer of the search) is a body whose config is of its resolver and
  whose retry is of its engine (`FitBodies`), and every field that is typed keeps it
  one; answers kept are of the search asked now;
- `PreviewFollows`: an element that has an address and no frame yet listens, one that
  has a frame plays if it is active, one that was put away has no address (`Sane`);
  the mounted one has the card's address and is as active as the card;
- `DetailTells`: every status that offers a deletion, in the row, in a read under way
  or on the page, was written by a run that was told to stop or had ended, which
  cannot be taken back (`Halted`);
- `ListsHonest`: a row is told from a later one with its id by its birth, so that
  what was read before a removal may hold no removed row once it was served after it
  (`ShownInv`); of the rows a bulk work was given, each is still to be tried, was
  refused, or is as asked, in the core (`WorkTells`);
- `SavesTouchLittle`: a body on its way has the fields it was made of and no others
  (`IsBody`), and the row a patch makes is the old one outside them; no rank of a
  status falls;
- `ImportsAsReported`: a report that is shown is what the core answered for some
  table, the choices are of its items, and a body on its way is of a bundle that was
  loaded and leaves out what was unticked (`ImportInv`).  What the core makes of a
  body is said of its walk, two recursive functions, by induction over the entries:
  every table on the way is finite and numbered within its size (`Table`), so that
  "the last of a name" exists; each row made is of an entry that was not left out and
  has a name no row had, or the last number (`Grown`); each entry so far became what
  the report says, as long as the report announces no name twice and none that is
  taken (`ToldIsMade`): a name made for an earlier entry cannot then take the number
  of a later one (`SameNumber`).  A bundle whose every profile is found makes none
  (`AllFound`), which is the case of a repeated import and of an export imported back.

The ids, names, rows, profiles, bundles, plugins, modes and budgets are any there may
be.  The attempt to prove the last of these changed its model: a name was a stem and
one number, by which `p_2` renamed is `p_3`, where the core makes it `p_2_2`; and
with names as they are, three of its promises hold only with the exceptions they now
state (section 7, "Import and export").

**`FormProofs`, the access panels.**  `PanelsKeepTheirWord` (`ConsoleSpec => AccessAsAsked`), for any
accounts, groups, capabilities and items.  The first part is about the requests of
one plan.  `PlanOps` strings together lists of finite sets, one pair per capability,
in a recursive function; `PlanOpsFacts` says that what comes out asks for every
difference between what was read and what is wanted, and for nothing else, by
induction over the capabilities (`ListAll`).  Two relations then carry the argument.
`Between(item, from, to)`: each part of the item, its crown, each owner, each grant, is
as it was read or as it is wanted.  `Due(item, from, to, ops)`: each part is as
wanted or a request for it is among those still to be sent.  A plan made of an item
that is between is due (`PlanIsDue`), and a request keeps both (`RequestFacts`); when
none is left, due says that the item is as asked.  The invariant says of each item
nobody else wrote to that the plan under way for it is due, and, of the bulk dialog,
that every item stays between what was read of it and what the dialog asks for
however many attempts fail midway, and is there once its plan is through
(`OnItsWay`).  This is why a repeated attempt may plan with what was read before the
first, and why a change of the mode while plans are sent spoils it.

The attempt to prove this showed that a promise was worded too well.  The core
does not list what the user who holds the crown was granted before
(`_access_view`, `routers/auth.py:966`), so no plan can take it away, and it counts
again once the crown is handed on, also by the very bulk revoke that names that
user.  TLC finds such a run once four edits are allowed.  `PlansEndAsShown` and
`BulkHolds` therefore leave out what was not listed (`Unlisted`), in the modes where
that makes a difference, and for nobody else.

**`FormProofs`, the chain editor.**  `ChainPlansAgree` (`ConsoleSpec => ChainAgrees`) and
`ChainEditsStay` (`ConsoleSpec => []ChainEditsKept`), for chains of any length and any
profiles, plugins and edits of other users.  The argument goes from one rung to
the form:

- *one rung*: console and core make the same capture of it, or both none
  (`SpecFacts`), though one reads the row it has and the other the row there is;
- *one chain*: the core's walk, by induction over the rungs, has seen the keys of all
  that run; a strict walk takes a chain if and only if it is `Clean`, every rung
  running and none repeating a key (`WalkFacts`).  The console compares each rung with
  those before it instead, and shows no problem under the same condition, with the
  same captures (`StepFacts`, `CleanShown`);
- *pruning*: one pass drops the very rungs a lenient walk would drop, so the walk's
  result is the same (`PassCostsNothing`), and what stays in the way then names
  something that is gone (`PassFacts`); by induction the same holds after all the
  passes the console makes (`PruneFacts`);
- *a run saved as a profile*: each rung reduced from a capture has that capture's key
  again under the base without its profile, and as the keys of a run are distinct no
  rung is lost (`PlanRebuilt`).

The invariant `ChainInv` is needed for what lies between two steps.  A save in flight was
checked, on the lookups of its moment, against the base the form still names
(`ChainSent`): the form cannot name another while it waits, even if the lookups are
read again, which may prune its chain.  A run tries no capture twice (`ChainRan`), without which
the last point would lose a rung.  Edits not yet applied are those of the rung at their card's
place (`ChainTouched`).

**Only model-checked.**  Liveness (`StopEndsRun`, `ResolveFailuresEnd`,
`NoRowStranded`, `RequestsEnd`, `WindowCloses`, `DeadSessionEnds`, `EventsReturn`,
`StormEnds`, `ListCatchesUp`, `DetailSettles`), since the prover does not handle
fairness and `ENABLED`.

Notes for who extends the proofs.  The SMT translation of tlapm 1.4.5 handles
`[f EXCEPT ![r].a = x, ![r].b = y]` wrongly, so an update of several fields of
one element is written `[f EXCEPT ![r] = [@ EXCEPT !.a = x, !.b = y]]`; an `@` of
the outer update inside an inner one is expanded wrongly, so that inner records are
named with LET.  `@@` of the module TLC is opaque to it, hence `Over` in
`AutorunForm`.  A local definition of a proof may not carry the name of a definition
of its module: tlapm accepts it and SANY does not.

## 7. Where the code and its documents disagree

Four have a run with a counterexample.

| Run | What the code does |
|---|---|
| `supervisor_RemuxKeepsRun` | `_close_capture` reads `self._recording` after the remux (`session_supervisor.py:380`); a disable command meanwhile has set it to None, and the session that ended normally is FAILED |
| `supervisor_StashHasFolder` | recording is enabled between two captures, or while one is closed: the stash task starts in the old folder; the next capture's `use_folder` (`recording.py:124`) points it to a folder that has no stash folder, and the attempt's own `start_stash` returns because a task runs (`recording.py:65`): every copy fails as if its segment were gone and is skipped, so the recording holds only what the playlist's window still has at the end |
| `core_RetryNotLost` | the boot fails the orphans in one transaction and retries them in another (`session_lifecycle.py:288`): if the core dies in between, its next boot finds no live row, and an autorun that opted into `retry` loses the rest of its window, against the docstring of `fail_orphaned_sessions` |
| `page_RemuxNotCut` | a stop pressed on a page that has not seen the remux writes TERMINATING over REMUXING (`session_supervisor.py:787`), and `delete_session` refuses only REMUXING: the deletion that may not interrupt a remux does |

The models show more.  It is stated here and not run, because no document says
otherwise as clearly, because it is the same cause, or because the properties are
stated so as to leave it out; such a property names its exception.

**Sessions in the core**

- a recording toggle decides its status before an await, and a retry that happens
  in it has put the row back to INITIALIZING, which the toggle writes over
  (`session_supervisor.py:797`); the same goes for the gate's own status
  (`:559`), and a retry's `_reset_for_retry` and the publication of INITIALIZING
  overwrite the TERMINATING of a stop that is already accepted (`:455`);
- a stop writes TERMINATING at any time, also over the final status when it
  arrives after the run's last write (`:784`); `resolver.resolve` and
  `engine.start` have no timeout, so a plugin that hangs hides a stop (`:473`);
- enabling recording before the first folder exists sets the intent and then
  fails, and the row never says so; enabled between a stop and the final remux it
  makes a recorder with nothing to merge, and the run ends FAILED (`:791`);
- the stash copies the oldest batch of segments per sleep and may miss those that
  expire faster (`recording.py:108`);
- the newest session of an autorun is taken to be the one with the largest id
  (`session_lifecycle.py:200`), and a key of an orphan's retry is made of the
  orphan's id (`:326`), though ids are recycled, so that the retry of an id that is an
  orphan's again may find its key used; a crash between the
  two commits of `update_session` leaves the autorun with the old status (`:189`);
- `SESSION_CREATED` for a recycled id is taken for a duplicate while the former
  supervisor is still leaving (`handlers.py:22`); the registry entry is dropped
  before the join, so a second request removes the folder under the running
  process (`:42`); a late `SESSION_DELETED` kills the supervisor of the session
  that has taken the id (`:70`); the watchdog's list may name an id recycled
  since, and it then drops the entry of the new supervisor (`:332`);
- a session deleted while an unanswered stop kills its supervisor makes the stop
  fail (`crud.py:1677`); the API gives a command up after five seconds while the
  supervisor still runs it (`crud.py:1636`), and a row may be gone before its
  supervisor is (`crud.py:964`);
- only the running capture's folder is published (`session_supervisor.py:459`), so
  after an hour the sweep removes the first capture's media during a fallback
  (`housekeeping.py:173`).

**Sign-in**

- a refresh without its cookie is answered 400, not 401, so the session is not
  ended by it; a sign-out served while a refresh is on its way, like a lost answer to
  a rotation, makes the core take that refresh, or the next, for stolen, and "all
  sessions revoked" of its answer (`routers/auth.py:533`) is rolled back;
- a timer whose refresh was in flight when it was stopped is armed again
  (`auth.ts`, the proactive timer), and its answer overwrites the cookies of a
  newer session; a 401 of the old session's refresh logs a new session out;
- the error `fetchAuthMe` throws for a session that changed is caught by its own
  handler and clears the newer session;
- after a sign-out whose request failed, a reload restores the session; the
  account menu's sign-out does not navigate.

**Sockets**

- an authentication close that finds the retry budget used up leaves the socket
  closed for good (`manager.ts:321`); a failure of the notifications socket that
  spends the shared budget while the events timer is pending leaves the
  notifications closed;
- an error of a refresh that ends after stop and start marks an open stream
  "reconnecting", or sets a timer after the stop; `startFallback` shows the
  notifications "open" for a socket that is only connecting;
- the server accepts before it closes with 1013, which resets the failure budget,
  so the fallback is never reached while NATS is down.

**Caches**

- the coalescing `Map` keeps a key's first place, so frames are not applied in the
  order they came; `recording.created` never clears a tombstone
  (`event-table.ts:425` against the comment at `:173`);
- a list answer read before a deletion, and `loadMore`, bring rows back until the
  next poll; an `updated` frame of a row on a later page puts it on the first page
  as well; upserts go to every list whatever its filter;
- the relay tells only administrators of a deletion once the access rows are gone
  (`ws.py:120`); after its own deletion a detail page is not left when the answer
  comes before the frame.

**Chains and presets**

- a collapsed card says "what it runs instead" (`chain-editor.tsx:35`) by taking
  its rung for a draft, which for a rung that names a config only is another
  capture than the one that runs; the console takes a profile's missing retry mode
  from the form's own, the core takes "none"; the bulk dialog never prunes; pruning
  through a base that was only passed by drops rungs for good; a form reopened with
  the same base skips the prune, so a stored repeat blocks the save;
- a source preset can be saved with no source picked; an engine without modes sends
  no `retry_mode`, so an update keeps the old engine's; the preview shows a source's
  present config and the save sends the one picked; the dialog may be edited while
  its save is on its way, and a late success closes whatever form is open then.

**Access**

- in a replace "a principal you did not name here loses access"
  (`admin-access.tsx:305`), but a user it takes the crown from gets back the grants
  from before; the catalog leaves owners out but not a group
  that holds the crown; a retry of a failed bulk change plans on the reads of before,
  and the mode may be changed while the requests are sent; a panel opened after it
  shows the cached read; a write by another administrator to the same person is
  overwritten by a plan made before.

**Import and export**

- binding an imported recording to an installed profile changes nothing, though
  "no new profile" is what `bundle.ts:7-9` says it is matched by: the core reads the
  name the entry states, not the profile the panel rewrote; the core emits no `engine_override` issue and reads none of the
  fields the console offers for it; a late validation answer shows the report of
  another bundle; the plugin map is keyed by the hash alone; an autorun's own `name`
  hides the one the core filters on; a repeated import duplicates autoruns and
  renamed profiles; the item limit is per bundle in the console and per kind in the
  core;
- the report names what the import makes by the profiles there were
  (`import_export.py:450`), the import by those and the ones it has made
  (`import_export.py:692`): a bundle that holds `p` twice, or a `p_2` and a `p` that
  is taken, is announced under one name twice, and the second is imported under
  another, or skipped if it is the same (`bundle.ts:18` says "UI previews");
- names of profiles are not unique: of several the last read is found
  (`import_export.py:614`), so the others are neither compared nor skipped, and an
  export of namesakes imported back makes profiles again; once `p_2` to `p_199` are
  taken, every further `p` becomes `p_199` again (`import_export.py:528`).

**Lists and scheduled recordings**

- a bulk deletion that failed midway cannot be repeated where the first gone row
  stops it; the selection keeps ids of deleted rows, and a recycled id is ticked; a
  panel deletes rows its search hides; select-all ticks the rows of a filter that was
  changed while the pages were read; the list's text says that recordings that ran
  cannot be deleted, which the core does at any status;
- "Live end edits stay free even when shortened to the past" (`crud.py:524`) is not
  so; the second look at the row before the write (`crud.py:1096-1100`) compares it
  with itself; a later end of a running recording is silently not sent; two updates
  at once can store an end before the start; the banner says a start in the past
  fires at once, and the update refuses it with 422; "run now" leaves the fallback
  chain out.

**Session page**

- "Falls back to ..." names the source that runs already (`session-detail.tsx:140`);
  the attempt of a killed run has no end and is shown running for ever; a stop on a
  session that has just completed records it FAILED
  (`general-client-specification.md:176`); the page of a deleted session stays, and
  polls if the last it saw was live; the delete dialog hides while the status offers
  no deletion and comes back by itself; the new-session dialog opened before the
  profiles are read stays in custom mode; after a lost answer a second try starts a
  second session.

## 8. What is not modelled

- Files: which segments the stash copies before they expire, what the sweep and
  the retention caps remove, the folders of a deleted session.  They depend on
  ages and rates; `Supervisor` keeps of them which folders hold segments.
- Companions, managed processes, telemetry, webhooks, logs, startup, deployment
  and the mobile launcher: I/O around the system, with no state the properties
  read.
- Group membership and the capability checks of each request: a request that is
  refused changes nothing, so the models make only those that are allowed, and
  `AccessForms` is about who is given what.
- The console's administration pages and settings (`admin-surface.tsx`,
  `settings-view.tsx`, `plugins-view.tsx`): forms of one request each.  The player
  with controls (hls.js), charts and all presentational components.
- Reads of plugins' catalogs and probing of media in the core, and the relay's
  filters by capability.
- Composition of the console's parts: each module takes its neighbours at their
  worst (`SessionPage` hears no event, `EntityCache` loses frames, a form reads at
  any time), which is what a composition could at most refine.

`PROJECT.json` gives the reason for each part.

## 9. Plan

Done: the supervisor, the session core and the console from the sign-in to the
pages; the proofs of the safety of the first two, of the sign-in, of the sockets, of
the cache and of all the nine pages.  In order of importance, what would follow:

| Module | What it will say |
|---|---|
| `Housekeeping` with the captures' folders | a folder a running session needs is not swept; retention keeps the newest recording |
| `SegmentStash` | the window of an HLS playlist against the stash's copy loop |
| the relay | which client hears of which event while its access changes |
