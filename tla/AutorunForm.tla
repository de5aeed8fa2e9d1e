----------------------------- MODULE AutorunForm -----------------------------
(***************************************************************************)
(* One scheduled recording, its page and the form that makes or edits it,  *)
(* while the scheduler, other people and the deletion of profiles change   *)
(* the row. The fallback chain of the form is in ChainForm, the access     *)
(* given at creation in AccessForms. Active stands for recording too,      *)
(* terminating for every teardown status, completed for failed too.        *)
(***************************************************************************)
EXTENDS Naturals

CONSTANTS
    Profiles,      \* the profiles there are to begin with
    Custom,        \* an engine, a resolver and its config chosen by hand
    None,          \* no profile, nothing chosen, no row
    MaxTime,       \* bound: the clock
    MaxFormEdits,  \* bound: things typed or picked in the form
    MaxSaves,      \* bound: saves and menu actions
    MaxOthers,     \* bound: changes made by other people
    MaxRefreshes   \* bound: reads of the row or of the profiles

VARIABLES
    row,       \* the row of the core
    profiles,  \* the profiles of the core
    clock,
    seen,      \* the row as the page last read it
    listed,    \* the profiles as the page last read them
    form,      \* the form
    save,      \* the save in flight
    menu,      \* the actions menu: its dialog and its request
    formBudget

formVars == <<row, profiles, clock, seen, listed, form, save, menu, formBudget>>

Times == 1 .. MaxTime
Live(status) == status = "active"
Spent(status) == status = "completed"
NoRow == [status |-> None]
Blank == [key |-> "none", slug |-> "", byHand |-> FALSE, start |-> 0, end |-> 0,
          mode |-> "profile", profile |-> None, capture |-> None, confirm |-> FALSE, error |-> "none"]
NoSave == [at |-> "idle", body |-> <<>>, read |-> NoRow, rule |-> "none"]
NoMenu == [dialog |-> "none", sent |-> "none"]
Uses(what) == formBudget[what] > 0 /\ formBudget' = [formBudget EXCEPT ![what] = @ - 1]

NewRow(start, end, profile) ==
    [status |-> "scheduled", slug |-> "a", start |-> start, end |-> end, profile |-> profile, capture |-> profile, issue |-> FALSE]

AutorunInit ==
    /\ clock = 0 /\ profiles = Profiles /\ listed = Profiles
    /\ row \in {NoRow, NewRow(1, 2, CHOOSE p \in Profiles : TRUE)}
    /\ seen = row /\ form = Blank /\ save = NoSave /\ menu = NoMenu
    /\ formBudget = [edits |-> MaxFormEdits, saves |-> MaxSaves, others |-> MaxOthers, refreshes |-> MaxRefreshes]

\* ---- the core and other people ----
Tick ==
    /\ clock < MaxTime /\ clock' = clock + 1
    /\ UNCHANGED <<row, profiles, seen, listed, form, save, menu, formBudget>>
\* Due, waiting and not flagged.
Starts ==
    /\ row.status = "scheduled" /\ row.start <= clock /\ ~row.issue
    /\ row' = [row EXCEPT !.status = "active"]
    /\ UNCHANGED <<profiles, clock, seen, listed, form, save, menu, formBudget>>
\* The run is stopped at its end, or ends by itself.
Stops ==
    /\ \/ row.status = "active" /\ row' = [row EXCEPT !.status = "terminating"]
       \/ row.status \in {"active", "terminating"} /\ row' = [row EXCEPT !.status = "completed"]
    /\ UNCHANGED <<profiles, clock, seen, listed, form, save, menu, formBudget>>
OtherEdits ==
    /\ Uses("others") /\ row.status = "scheduled"
    /\ \E start, end \in Times :
         /\ clock <= start /\ start < end
         /\ row' = [row EXCEPT !.start = start, !.end = end, !.issue = FALSE]
    /\ UNCHANGED <<profiles, clock, seen, listed, form, save, menu>>
OtherDeletes ==
    /\ Uses("others") /\ row # NoRow /\ row' = NoRow
    /\ UNCHANGED <<profiles, clock, seen, listed, form, save, menu>>
\* A profile goes; what was built from it is detached and flagged.
ProfileDeleted ==
    /\ Uses("others")
    /\ \E p \in profiles :
         /\ profiles' = profiles \ {p}
         /\ row' = IF row # NoRow /\ row.profile = p THEN [row EXCEPT !.profile = None, !.issue = TRUE] ELSE row
    /\ UNCHANGED <<clock, seen, listed, form, save, menu>>

\* ---- the form ----
Filling(read) ==
    [Blank EXCEPT !.key = "edit", !.slug = read.slug, !.byHand = TRUE, !.start = read.start, !.end = read.end,
                  !.mode = IF read.profile = None THEN "custom" ELSE "profile",
                  !.profile = read.profile, !.capture = read.capture]
\* A row read again does not reopen the form; a row that is gone takes its page
\* and form away.
Reopened(read) == IF form.key = "edit" /\ read = NoRow THEN Blank ELSE form
\* What the menu offers for a status.
Offers(action) ==
    \/ seen.status = "scheduled" /\ action \in {"edit", "delete", "run-now"}
    \/ Live(seen.status) /\ action \in {"edit", "delete"}
    \/ seen.status = "terminating" /\ action = "delete"
    \/ Spent(seen.status) /\ action \in {"save-as-profile", "delete"}
\* The banner of a flagged row has an edit button of its own.
CanEdit == seen # NoRow /\ (Offers("edit") \/ seen.issue)
AutorunFormOpens ==
    /\ form.key = "none" /\ menu = NoMenu /\ save = NoSave
    /\ \/ CanEdit /\ form' = Filling(seen)
       \/ seen = NoRow /\ form' = [Blank EXCEPT !.key = "new", !.mode = IF listed = {} THEN "custom" ELSE "profile"]
    /\ UNCHANGED <<row, profiles, clock, seen, listed, save, menu, formBudget>>
\* While a save runs the dialog is busy and stays.
AutorunFormCloses ==
    /\ form.key # "none" /\ ~form.confirm /\ save = NoSave /\ form' = Blank
    /\ UNCHANGED <<row, profiles, clock, seen, listed, save, menu, formBudget>>
Editing == form.key # "none" /\ ~form.confirm
LiveForm == form.key = "edit" /\ Live(seen.status)

\* A name makes the slug until the slug is typed by hand; one of the names has
\* nothing a slug may hold.
slugify == [a |-> "a", taken |-> "taken", symbols |-> ""]
TypeName ==
    /\ Editing /\ ~form.byHand /\ Uses("edits")
    /\ \E name \in DOMAIN slugify : form' = [form EXCEPT !.slug = slugify[name]]
    /\ UNCHANGED <<row, profiles, clock, seen, listed, save, menu>>
TypeSlug ==
    /\ Editing /\ Uses("edits")
    /\ \E slug \in {"a", "taken", "not a slug"} \ {form.slug} : form' = [form EXCEPT !.slug = slug, !.byHand = TRUE]
    /\ UNCHANGED <<row, profiles, clock, seen, listed, save, menu>>
PickTimes ==
    /\ Editing /\ Uses("edits")
    /\ \E time \in Times : form' \in {[form EXCEPT !.start = time], [form EXCEPT !.end = time]}
    /\ UNCHANGED <<row, profiles, clock, seen, listed, save, menu>>
\* A live row locks where it starts from.
PickMode ==
    /\ Editing /\ ~LiveForm /\ Uses("edits")
    /\ \E mode \in {"profile", "custom"} \ {form.mode} :
         /\ mode = "profile" => listed # {}
         /\ form' = [form EXCEPT !.mode = mode]
    /\ UNCHANGED <<row, profiles, clock, seen, listed, save, menu>>
PickFormProfile ==
    /\ Editing /\ ~LiveForm /\ form.mode = "profile" /\ Uses("edits")
    /\ \E p \in listed \ {form.profile} : form' = [form EXCEPT !.profile = p]
    /\ UNCHANGED <<row, profiles, clock, seen, listed, save, menu>>
PickCustom ==
    /\ Editing /\ ~LiveForm /\ form.mode = "custom" /\ form.capture # Custom /\ Uses("edits")
    /\ form' = [form EXCEPT !.capture = Custom]
    /\ UNCHANGED <<row, profiles, clock, seen, listed, save, menu>>

EndEarlierWhileLive == LiveForm /\ form.end < seen.end
FormComplete == IF form.mode = "profile" THEN form.profile \in listed ELSE form.capture # None
\* What is wrong with the form, the first of several.
Trouble ==
    IF form.slug \notin {"a", "taken"} THEN "slug"
    ELSE IF 0 \in {form.start, form.end} \/ form.end <= form.start THEN "time"
    ELSE "none"
\* Fields laid over others.
Over(fields, under) ==
    [field \in DOMAIN fields \cup DOMAIN under |-> IF field \in DOMAIN fields THEN fields[field] ELSE under[field]]
\* The fields sent: of the times those that differ from the row as it was last
\* read, or of a live row an earlier end.
TimesSent ==
    IF LiveForm THEN (IF EndEarlierWhileLive THEN [end |-> form.end] ELSE <<>>)
    ELSE Over(IF form.key = "new" \/ form.start # seen.start THEN [start |-> form.start] ELSE <<>>,
              IF form.key = "new" \/ form.end # seen.end THEN [end |-> form.end] ELSE <<>>)
BodySent ==
    Over(Over([slug |-> form.slug], TimesSent),
         IF form.mode = "profile" THEN [profile |-> form.profile] ELSE [capture |-> form.capture])
Persist ==
    /\ Uses("saves")
    /\ save' = [NoSave EXCEPT !.at = IF form.key = "new" THEN "creating" ELSE "sent", !.body = BodySent]
    /\ form' = [form EXCEPT !.confirm = FALSE, !.error = "none"]
SubmitForm ==
    /\ Editing /\ save = NoSave /\ FormComplete
    /\ IF Trouble # "none" THEN form' = [form EXCEPT !.error = Trouble] /\ UNCHANGED <<save, formBudget>>
       ELSE IF EndEarlierWhileLive THEN form' = [form EXCEPT !.confirm = TRUE, !.error = "none"] /\ UNCHANGED <<save, formBudget>>
       ELSE Persist
    /\ UNCHANGED <<row, profiles, clock, seen, listed, menu>>
AnswerEndEarlier ==
    /\ form.confirm
    /\ \/ Persist
       \/ form' = [form EXCEPT !.confirm = FALSE] /\ UNCHANGED <<save, formBudget>>
    /\ UNCHANGED <<row, profiles, clock, seen, listed, menu>>

\* ---- the core saves ----
Refuse(rule) == save' = [save EXCEPT !.at = "refused", !.rule = rule] /\ UNCHANGED row
\* A profile brings its capture.
Patch == IF "profile" \in DOMAIN save.body THEN Over(save.body, [capture |-> save.body.profile]) ELSE save.body
UpdateGuard ==
    LET sent == DOMAIN save.body
        result == Over(save.body, row)
        past(field) == field \in sent /\ result[field] < clock + (IF field = "end" THEN 1 ELSE 0)
    IN IF sent \cap {"start", "end"} # {} /\ result.end <= result.start THEN "end-before-start"
       ELSE CASE row.status = "scheduled" -> IF past("start") \/ past("end") THEN "not-in-future" ELSE "none"
              [] Live(row.status)         -> IF "start" \in sent THEN "live-start-frozen"
                                             ELSE IF sent \cap {"profile", "capture"} # {} THEN "live-config-frozen" ELSE "none"
              [] row.status = "terminating" -> IF sent \cap {"start", "end"} # {} THEN "teardown-race" ELSE "none"
              [] OTHER -> IF sent \cap {"start", "end", "profile", "capture"} # {} THEN "history-immutable" ELSE "none"
ProfileUnknown == "profile" \in DOMAIN save.body /\ save.body.profile \notin profiles
UpdateChecked ==
    /\ save.at = "sent"
    /\ IF row = NoRow \/ ProfileUnknown THEN Refuse("not-found")
       ELSE IF UpdateGuard # "none" THEN Refuse(UpdateGuard)
       ELSE save' = [save EXCEPT !.at = "checked", !.read = row] /\ UNCHANGED row
    /\ UNCHANGED <<profiles, clock, seen, listed, form, menu, formBudget>>
\* The second read of the handler finds the object the first one made in its
\* database session, as it was.
Fresh == save.read
\* Mutant: every column of the row as it was read is written.
PatchedWhole == Over(Patch, [Fresh EXCEPT !.issue = FALSE])
\* Only columns that differ from what was read are written.
Patched ==
    LET written == Over(Patch, [Fresh EXCEPT !.issue = FALSE])
    IN [field \in DOMAIN row |-> IF written[field] # Fresh[field] THEN written[field] ELSE row[field]]
UpdateWritten ==
    /\ save.at = "checked"
    /\ IF row = NoRow THEN Refuse("not-found")
       ELSE IF Fresh.status # save.read.status THEN Refuse("status-race")
       ELSE IF save.body.slug = "taken" \/ ProfileUnknown THEN Refuse("exists")
       ELSE row' = Patched /\ save' = [save EXCEPT !.at = "done"]
    /\ UNCHANGED <<profiles, clock, seen, listed, form, menu, formBudget>>
Created ==
    /\ save.at = "creating"
    /\ IF ProfileUnknown THEN Refuse("not-found")
       ELSE IF save.body.slug = "taken" \/ (row # NoRow /\ save.body.slug = row.slug) THEN Refuse("exists")
       ELSE /\ row' = Over(Patch, [status |-> "scheduled", profile |-> None, issue |-> FALSE])
            /\ save' = [save EXCEPT !.at = "done"]
    /\ UNCHANGED <<profiles, clock, seen, listed, form, menu, formBudget>>
ErrorOf == IF save.rule = "exists" THEN "slug" ELSE "general"
\* A saved form closes and has the row read again; any failure is shown in it.
SaveLands ==
    /\ save.at \in {"done", "refused"} /\ save' = NoSave
    /\ \/ save.at = "done" /\ form' = Blank /\ formBudget' = [formBudget EXCEPT !.refreshes = @ + 1]
       \/ form' = (IF form = Blank THEN form ELSE [form EXCEPT !.error = ErrorOf]) /\ UNCHANGED formBudget
    /\ UNCHANGED <<row, profiles, clock, seen, listed, menu>>

\* ---- the page ----
RowRead ==
    /\ Uses("refreshes") /\ seen' = row /\ form' = Reopened(row)
    /\ UNCHANGED <<row, profiles, clock, listed, save, menu>>
ProfilesRead ==
    /\ Uses("refreshes") /\ listed' = profiles
    /\ UNCHANGED <<row, profiles, clock, seen, form, save, menu>>
MenuOpens ==
    /\ seen # NoRow /\ form = Blank /\ menu = NoMenu
    /\ \/ Offers("delete") /\ menu' = [NoMenu EXCEPT !.dialog = "delete"]
       \/ Offers("save-as-profile") /\ menu' = [NoMenu EXCEPT !.dialog = "save-as-profile"]
    /\ UNCHANGED <<row, profiles, clock, seen, listed, form, save, formBudget>>
MenuCloses ==
    /\ menu.dialog # "none" /\ menu.sent = "none" /\ menu' = NoMenu
    /\ UNCHANGED <<row, profiles, clock, seen, listed, form, save, formBudget>>
MenuSends ==
    /\ menu.sent = "none" /\ Uses("saves")
    /\ \/ menu.dialog # "none" /\ menu' = [menu EXCEPT !.sent = menu.dialog]
       \/ menu.dialog = "none" /\ seen # NoRow /\ form = Blank /\ Offers("run-now") /\ menu' = [menu EXCEPT !.sent = "run-now"]
    /\ UNCHANGED <<row, profiles, clock, seen, listed, form, save>>
DeleteLands ==
    /\ menu.sent = "delete" /\ menu' = NoMenu
    /\ \/ row # NoRow /\ row' = NoRow /\ formBudget' = [formBudget EXCEPT !.refreshes = @ + 1]
       \/ UNCHANGED <<row, formBudget>>
    /\ UNCHANGED <<profiles, clock, seen, listed, form, save>>
\* A profile that could not be saved leaves its dialog open.
OtherActionLands ==
    /\ menu.sent \in {"run-now", "save-as-profile"}
    /\ menu' \in {NoMenu, [menu EXCEPT !.sent = "none"]}
    /\ UNCHANGED <<row, profiles, clock, seen, listed, form, save, formBudget>>

ScheduleFields == TypeName \/ TypeSlug \/ PickTimes
CaptureFields == PickMode \/ PickFormProfile \/ PickCustom
AutorunActionsMenu == MenuOpens \/ MenuCloses \/ MenuSends
AutorunDetailView == RowRead \/ AutorunFormOpens \/ AutorunActionsMenu
AutorunFormDialog == AutorunFormCloses \/ ScheduleFields \/ CaptureFields \/ SubmitForm
AutorunNext ==
    \/ Tick \/ Starts \/ Stops \/ OtherEdits \/ OtherDeletes \/ ProfileDeleted
    \/ AutorunDetailView \/ AutorunFormDialog \/ AnswerEndEarlier
    \/ UpdateChecked \/ UpdateWritten \/ Created \/ SaveLands
    \/ ProfilesRead \/ DeleteLands \/ OtherActionLands
AutorunSpec == AutorunInit /\ [][AutorunNext]_formVars

AutorunTypeOK ==
    /\ row = NoRow \/ (row.profile \in Profiles \cup {None} /\ row.capture \in Profiles \cup {Custom})
    /\ form.key \in {"none", "new", "edit"} /\ listed \cup profiles \subseteq Profiles
    /\ save.at \in {"idle", "sent", "creating", "checked", "done", "refused"}
    /\ menu.dialog \in {"none", "delete", "save-as-profile"}

Typed(f) == <<f.slug, f.start, f.end, f.mode, f.profile, f.capture>>
\* What a person typed into a form that stays open is changed by the person
\* alone: not by a row or profiles read again, nor by a save that is refused.
TypedStaysStep ==
    form.key # "none" /\ form'.key = form.key /\ <<seen', listed', row', save'>> # <<seen, listed, row, save>>
         => Typed(form') = Typed(form)

Rank == [scheduled |-> 1, active |-> 2, terminating |-> 3, completed |-> 4]
\* A recording that was started is never scheduled again, whatever a save read
\* before it was: it would run twice.
NeverRearmedStep ==
    row # NoRow /\ row' # NoRow => Rank[row'.status] >= Rank[row.status]

\* A save leaves alone what it does not send, also when that changed between
\* its read of the row and its write.
UnsentStaysStep ==
    save.at = "checked" /\ save'.at = "done" =>
         \A field \in {"start", "end", "slug"} \ DOMAIN save.body : row'[field] = row[field]

\* A flag is cleared only by a save that saw it: a profile deleted while a save
\* runs still stops the recording from running.
FlagStandsStep ==
    row # NoRow /\ row' # NoRow /\ row.issue /\ ~row'.issue =>
         (save.at = "checked" /\ save.read.issue) \/ formBudget'.others # formBudget.others
==============================================================================
