----------------------------- MODULE NewSession -----------------------------
(***************************************************************************)
(* The dialog that starts a session from a profile, or from an engine and  *)
(* a source of its own. It may be opened before the profiles are read, and *)
(* it gives the session the access that was picked once it has started.    *)
(* The rungs of its chain are told apart by who wrote them; ChainForm is   *)
(* about what they are.                                                    *)
(***************************************************************************)
EXTENDS Naturals

CONSTANTS
    StartProfiles,  \* the profiles there are
    Nothing,        \* nothing picked
    MaxOpened,      \* bound: times the dialog opens
    MaxPicked,      \* bound: things picked or typed
    MaxPressed,     \* bound: times a session is asked for
    MaxUnheard      \* bound: answers that never come

VARIABLES
    loaded,         \* the profiles are read
    starter,        \* the dialog
    latched,        \* the dialog has been filled in for this opening
    creating,       \* the request in flight, and the body it carries
    started,        \* the sessions started, by the body they were started with
    unheard,        \* a session was started and its answer never came
    startBudget

startVars == <<loaded, starter, latched, creating, started, unheard, startBudget>>

Blank == [mode |-> "custom", profile |-> Nothing, engine |-> FALSE, source |-> "none", chain |-> "none",
          recording |-> FALSE, access |-> FALSE, browsing |-> FALSE, error |-> FALSE]
Closed == [open |-> FALSE, fields |-> Blank]
NoBody == [from |-> "none", chain |-> "none", recording |-> FALSE]
NotCreating == [at |-> "idle", body |-> NoBody, access |-> FALSE]
Takes(what) == startBudget[what] > 0 /\ startBudget' = [startBudget EXCEPT ![what] = @ - 1]
Fields == starter.fields
Busy == creating.at # "idle"
Sets(fields) == starter' = [starter EXCEPT !.fields = fields]
Local == UNCHANGED <<loaded, latched, creating, started, unheard>>

StartInit ==
    /\ loaded \in BOOLEAN /\ starter = Closed /\ latched = FALSE /\ creating = NotCreating
    /\ started = {} /\ unheard = FALSE
    /\ startBudget = [opened |-> MaxOpened, picked |-> MaxPicked, pressed |-> MaxPressed, unheard |-> MaxUnheard]

\* The dialog starts with what was read when it opened.
FilledIn(read) == [open |-> TRUE, fields |-> [Blank EXCEPT !.mode = IF read /\ StartProfiles # {} THEN "profile" ELSE "custom"]]
OpenStarter ==
    /\ ~starter.open /\ Takes("opened") /\ starter' = FilledIn(loaded) /\ latched' = TRUE
    /\ unheard' = FALSE /\ started' = {}
    /\ UNCHANGED <<loaded, creating>>
CloseStarter ==
    /\ starter.open /\ ~Busy /\ ~Fields.browsing /\ starter' = [starter EXCEPT !.open = FALSE] /\ latched' = FALSE
    /\ UNCHANGED <<loaded, creating, started, unheard, startBudget>>
\* Mutant: the dialog is filled in again when the profiles arrive.
ProfilesReadAgain ==
    /\ ~loaded /\ loaded' = TRUE
    /\ starter' = IF starter.open THEN FilledIn(TRUE) ELSE starter
    /\ UNCHANGED <<latched, creating, started, unheard, startBudget>>
ProfilesRead ==
    /\ ~loaded /\ loaded' = TRUE
    /\ starter' = IF starter.open /\ ~latched THEN FilledIn(TRUE) ELSE starter
    /\ UNCHANGED <<latched, creating, started, unheard, startBudget>>

Editing == starter.open /\ ~Fields.browsing
PickMode ==
    /\ Editing /\ Takes("picked") /\ Local
    /\ Sets([Fields EXCEPT !.mode = IF @ = "profile" THEN "custom" ELSE "profile"])
    /\ Fields.mode = "custom" => loaded
\* The chain goes with the profile it was written for.
PickProfile ==
    /\ Editing /\ Fields.mode = "profile" /\ Takes("picked") /\ Local
    /\ \E p \in StartProfiles \cup {Nothing} :
         Sets([Fields EXCEPT !.profile = p, !.chain = IF p = Nothing THEN "none" ELSE p])
PickEngine ==
    /\ Editing /\ Fields.mode = "custom" /\ Takes("picked") /\ Local
    /\ Sets([Fields EXCEPT !.engine = ~@])
\* Once an engine is picked, and until the session is asked for.
PickSource ==
    /\ Editing /\ Fields.mode = "custom" /\ Fields.engine /\ ~Busy /\ Takes("picked") /\ Local
    /\ Sets([Fields EXCEPT !.source = "typed"])
Browse ==
    /\ Editing /\ Fields.mode = "custom" /\ Fields.engine /\ Fields.source # "none" /\ Local
    /\ Sets([Fields EXCEPT !.browsing = TRUE]) /\ UNCHANGED startBudget
UseFound ==
    /\ Fields.browsing /\ Takes("picked") /\ Local
    /\ Sets([Fields EXCEPT !.browsing = FALSE, !.source = "found"])
CloseBrowse ==
    /\ Fields.browsing /\ Local /\ Sets([Fields EXCEPT !.browsing = FALSE]) /\ UNCHANGED startBudget
\* What the chain hangs on: nothing until the form says what to run first.
Base == IF Fields.mode = "profile" THEN Fields.profile ELSE IF Fields.engine /\ Fields.source # "none" THEN Fields.source ELSE Nothing
EditChain ==
    /\ Editing /\ Base # Nothing /\ ~Busy /\ Takes("picked") /\ Local
    /\ Sets([Fields EXCEPT !.chain = "typed"])
ToggleRecord ==
    /\ Editing /\ Takes("picked") /\ Local /\ Sets([Fields EXCEPT !.recording = ~@])
PickAccess ==
    /\ Editing /\ ~Busy /\ ~Fields.access /\ Takes("picked") /\ Local /\ Sets([Fields EXCEPT !.access = TRUE])

BodyOf(fields) ==
    [from |-> IF fields.mode = "profile" THEN fields.profile ELSE fields.source, chain |-> fields.chain,
     recording |-> fields.recording]
Submit ==
    /\ Editing /\ Base # Nothing /\ ~Busy /\ Takes("pressed")
    /\ creating' = [at |-> "asked", body |-> BodyOf(Fields), access |-> Fields.access]
    /\ Sets([Fields EXCEPT !.error = FALSE])
    /\ UNCHANGED <<loaded, latched, started, unheard>>
\* Everything after the row is made can be lost on its way back.
SessionMade ==
    /\ creating.at = "asked" /\ started' = started \cup {creating.body}
    /\ creating' = [creating EXCEPT !.at = "made"]
    /\ UNCHANGED <<loaded, starter, latched, unheard, startBudget>>
CreateRefused ==
    /\ creating.at = "asked" /\ creating' = [creating EXCEPT !.at = "failed"]
    /\ UNCHANGED <<loaded, starter, latched, started, unheard, startBudget>>
AnswerLost ==
    /\ creating.at = "made" /\ Takes("unheard") /\ unheard' = TRUE /\ creating' = [creating EXCEPT !.at = "failed"]
    /\ UNCHANGED <<loaded, starter, latched, started>>
\* The person is told the access failed; the session has started all the same.
AfterAccess(well) == "granted"
GiveAccess ==
    /\ creating.at = "made" /\ \E well \in BOOLEAN : creating' = [creating EXCEPT !.at = AfterAccess(well \/ ~creating.access)]
    /\ UNCHANGED <<loaded, starter, latched, started, unheard, startBudget>>
Created ==
    /\ creating.at = "granted" /\ creating' = NotCreating
    /\ starter' = [starter EXCEPT !.open = FALSE] /\ latched' = FALSE
    /\ UNCHANGED <<loaded, started, unheard, startBudget>>
CreateFails ==
    /\ creating.at = "failed" /\ creating' = NotCreating /\ Sets([Fields EXCEPT !.error = TRUE])
    /\ UNCHANGED <<loaded, latched, started, unheard, startBudget>>

StarterEdits ==
    \/ PickMode \/ PickProfile \/ PickEngine \/ PickSource \/ Browse \/ UseFound \/ CloseBrowse \/ EditChain
    \/ ToggleRecord \/ PickAccess
StartNext ==
    \/ OpenStarter \/ CloseStarter \/ ProfilesRead \/ StarterEdits \/ Submit \/ SessionMade \/ CreateRefused
    \/ AnswerLost \/ GiveAccess \/ Created \/ CreateFails
StartSpec == StartInit /\ [][StartNext]_startVars

(***************************************************************************)
(* Properties.                                                             *)
(***************************************************************************)
\* Every variable keeps its type.
StartTypeOK ==
    /\ starter.fields.mode \in {"profile", "custom"} /\ starter.fields.profile \in StartProfiles \cup {Nothing}
    /\ starter.fields.source \in {"none", "typed", "found"} /\ starter.fields.chain \in StartProfiles \cup {"none", "typed"}
    /\ creating.at \in {"idle", "asked", "made", "granted", "failed"} /\ loaded \in BOOLEAN /\ latched = starter.open

\* A dialog that says the session could not be started has started none since it
\* opened, so pressing again starts no second one, unless an answer was lost
\* (the inner catch of create in NewSessionDialog).
ErrorMeansNoSession == starter.open /\ starter.fields.error => started = {} \/ unheard

\* Profiles that are read while the dialog is open change nothing in it
\* (openedRef of NewSessionDialog).
LateListsWipeNothingStep == starter.open /\ loaded' # loaded => starter' = starter
=============================================================================
