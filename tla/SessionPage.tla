---------------------------- MODULE SessionPage ----------------------------
(***************************************************************************)
(* The page of one session: what it shows of the run, the buttons that     *)
(* stop it, switch its recording, delete it and keep it as a profile. The  *)
(* page reads the session when it opens, every five seconds while the      *)
(* session it shows is live, and after what it asked for; the events that  *)
(* would tell it sooner are left out, so this is the page of a client      *)
(* whose sockets are down. The run is Supervisor's, told in few steps.     *)
(***************************************************************************)
EXTENDS Naturals, Sequences

CONSTANTS
    PlanLength,   \* the sources of the plan
    MaxAttempts,  \* bound: attempts of the whole run
    MaxPresses,   \* bound: buttons pressed
    MaxLost       \* bound: reads that fail

VARIABLES
    row,          \* the session: its status, and what its supervisor is doing
    seen,         \* the session as the page shows it
    reading,      \* the read on its way
    sent,         \* what was asked of the core, by button
    confirming,   \* the dialog before a deletion is wanted
    naming,       \* the dialog that keeps the session as a profile
    pageBudget

pageVars == <<row, seen, reading, sent, confirming, naming, pageBudget>>

Live == {"initializing", "active", "recording", "terminating", "remuxing"}
Spent == {"completed", "failed"}
Gone == [status |-> "gone", doing |-> "done", told |-> TRUE, recording |-> FALSE, attempts |-> <<>>, captures |-> {}]
Unread == [Gone EXCEPT !.status = "unread"]
Idle == [at |-> "idle", answer |-> Unread]
Buttons == {"stop", "record", "delete", "save"}
Quiet == [at |-> "quiet", want |-> FALSE]
Pays(what) == pageBudget[what] > 0 /\ pageBudget' = [pageBudget EXCEPT ![what] = @ - 1]

PageInit ==
    /\ row \in {[Gone EXCEPT !.status = "initializing", !.doing = "running", !.told = FALSE, !.recording = on] : on \in BOOLEAN}
    /\ seen = Unread /\ reading = Idle /\ confirming = FALSE /\ naming = "closed"
    /\ sent = [b \in Buttons |-> Quiet]
    /\ pageBudget = [presses |-> MaxPresses, lost |-> MaxLost]

PageOnly == UNCHANGED <<seen, reading, sent, confirming, naming, pageBudget>>

\* ---- the run ----
Attempt(capture) == [capture |-> capture, over |-> FALSE]
Running == row.attempts # <<>> /\ ~row.attempts[Len(row.attempts)].over
Over(attempts) == [attempts EXCEPT ![Len(attempts)].over = TRUE]
\* The capture a run works on is filed when it ends, not when it begins.
Current == Len(row.attempts) + 1
CaptureAt(r) == 1 + (IF r.captures = {} THEN 0 ELSE CHOOSE n \in r.captures : \A k \in r.captures : k <= n)
BeginAttempt ==
    /\ row.doing = "running" /\ ~Running /\ ~row.told /\ Current <= MaxAttempts
    /\ row' = [row EXCEPT !.attempts = Append(@, Attempt(CaptureAt(row)))]
    /\ PageOnly
PlaylistAppears ==
    /\ Running /\ row.status = "initializing"
    /\ row' = [row EXCEPT !.status = IF row.recording THEN "recording" ELSE "active"]
    /\ PageOnly
\* An attempt that is tried again goes back behind the gate.
RetryAttempt ==
    /\ row.doing = "running" /\ Running /\ ~row.told /\ Current <= MaxAttempts
    /\ row' = [row EXCEPT !.attempts = Over(@), !.status = "initializing"]
    /\ PageOnly
Settles(r, verdict) ==
    IF r.recording THEN [r EXCEPT !.doing = "remuxing", !.status = "remuxing"]
    ELSE [r EXCEPT !.doing = "done", !.status = verdict]
CaptureEnds ==
    /\ row.doing = "running" /\ row.attempts # <<>>
    /\ \E verdict \in Spent :
         LET filed == [row EXCEPT !.attempts = Over(@), !.captures = @ \cup {CaptureAt(row)}]
         IN row' = IF verdict = "failed" /\ ~row.told /\ CaptureAt(row) < PlanLength /\ Current <= MaxAttempts
                   THEN [filed EXCEPT !.status = "initializing"]
                   ELSE Settles(filed, verdict)
    /\ PageOnly
StoppedUntried ==
    /\ row.doing = "running" /\ row.attempts = <<>> /\ row.told
    /\ row' = Settles(row, "completed")
    /\ PageOnly
RemuxEnds ==
    /\ row.doing = "remuxing"
    /\ \E verdict \in Spent : row' = [row EXCEPT !.doing = "done", !.status = verdict]
    /\ PageOnly
DeletedElsewhere ==
    /\ row.status \in Spent /\ row' = Gone /\ PageOnly

\* ---- reading ----
IsLive(r) == r.status \in Live
Poll ==
    /\ reading.at = "idle" /\ (seen.status = "unread" \/ IsLive(seen))
    /\ reading' = [Idle EXCEPT !.at = "asked"]
    /\ UNCHANGED <<row, seen, sent, confirming, naming, pageBudget>>
ReadServed ==
    /\ reading.at = "asked" /\ reading' = [at |-> "served", answer |-> row]
    /\ UNCHANGED <<row, seen, sent, confirming, naming, pageBudget>>
\* A read that fails, and one that finds nothing, leave what was read before.
ReadLands ==
    /\ reading.at = "served" /\ reading' = Idle
    /\ seen' = IF reading.answer.status = "gone" THEN (IF seen.status = "unread" THEN Gone ELSE seen) ELSE reading.answer
    /\ UNCHANGED <<row, sent, confirming, naming, pageBudget>>
ReadFails ==
    /\ reading.at # "idle" /\ Pays("lost") /\ reading' = Idle
    /\ UNCHANGED <<row, seen, sent, confirming, naming>>
\* What was asked for was done: the read on its way is dropped for a new one.
Refetch == reading' = [Idle EXCEPT !.at = "asked"]

\* ---- the buttons ----
RowActions(status) ==
    CASE status = "initializing" -> {"stop"}
      [] status \in {"active", "recording"} -> {"stop", "record"}
      [] status = "terminating" -> {"delete"}
      [] status \in Spent -> {"save", "delete"}
      [] OTHER -> {}
Offers(button) == button \in RowActions(seen.status) /\ sent[button] = Quiet
Asks(button, want) == sent' = [sent EXCEPT ![button] = [at |-> "asked", want |-> want]]
PressStop ==
    /\ Offers("stop") /\ Pays("presses") /\ Asks("stop", TRUE)
    /\ UNCHANGED <<row, seen, reading, confirming, naming>>
\* The button asks for the opposite of what the page shows.
PressRecord ==
    /\ Offers("record") /\ Pays("presses") /\ Asks("record", seen.status = "active")
    /\ UNCHANGED <<row, seen, reading, confirming, naming>>
PressDelete ==
    /\ Offers("delete") /\ ~confirming /\ Pays("presses") /\ confirming' = TRUE
    /\ UNCHANGED <<row, seen, reading, sent, naming>>
\* The dialog shows while the page offers the deletion; what it waits for is kept.
ConfirmDelete ==
    /\ confirming /\ Offers("delete") /\ Asks("delete", TRUE)
    /\ UNCHANGED <<row, seen, reading, confirming, naming, pageBudget>>
CancelDelete ==
    /\ confirming /\ Offers("delete") /\ confirming' = FALSE
    /\ UNCHANGED <<row, seen, reading, sent, naming, pageBudget>>
PressSave ==
    /\ Offers("save") /\ naming = "closed" /\ Pays("presses") /\ naming' = "open"
    /\ UNCHANGED <<row, seen, reading, sent, confirming>>
SaveProfile ==
    /\ naming # "closed" /\ Offers("save") /\ Asks("save", TRUE) /\ naming' = "open"
    /\ UNCHANGED <<row, seen, reading, confirming, pageBudget>>
CloseNaming ==
    /\ naming # "closed" /\ Offers("save") /\ naming' = "closed"
    /\ UNCHANGED <<row, seen, reading, sent, confirming, pageBudget>>

\* ---- what the core makes of it ----
Answers(button, well) == sent' = [sent EXCEPT ![button].at = IF well THEN "done" ELSE "refused"]
CoreOnly == UNCHANGED <<seen, reading, confirming, naming, pageBudget>>
\* When no supervisor answers, there being none or one that is not yet or no longer
\* heard, the core kills it and records the stop itself.
StopTaken ==
    /\ sent["stop"].at = "asked" /\ Answers("stop", row.status # "gone")
    /\ \E heard \in BOOLEAN :
         row' = IF row.status = "gone" THEN row
                ELSE IF row.doing = "done" \/ ~heard THEN [row EXCEPT !.doing = "done", !.status = "failed"]
                ELSE [row EXCEPT !.status = "terminating", !.told = TRUE]
    /\ CoreOnly
Toggled(r, want) ==
    [r EXCEPT !.recording = want,
        !.status = IF r.recording # want /\ r.status \in {"active", "recording"} THEN (IF want THEN "recording" ELSE "active") ELSE @]
RecordTaken ==
    /\ sent["record"].at = "asked" /\ Answers("record", row.doing # "done")
    /\ row' = IF row.doing = "running" THEN Toggled(row, sent["record"].want) ELSE row
    /\ CoreOnly
DeleteTaken ==
    /\ sent["delete"].at = "asked" /\ Answers("delete", row.status \notin {"gone", "remuxing"})
    /\ row' = IF row.status = "remuxing" THEN row ELSE Gone
    /\ CoreOnly
SaveTaken ==
    /\ sent["save"].at = "asked" /\ \E well \in BOOLEAN : (well => row.status # "gone") /\ Answers("save", well)
    /\ UNCHANGED row /\ CoreOnly
\* The page stays on a session it deleted: what it holds is not read again.
ButtonAnswered ==
    /\ \E b \in Buttons :
         /\ sent[b].at \in {"done", "refused"} /\ sent' = [sent EXCEPT ![b] = Quiet]
         /\ IF sent[b].at = "done" /\ b \in {"stop", "record"} THEN Refetch ELSE UNCHANGED reading
         /\ confirming' = (confirming /\ b # "delete")
         /\ naming' = IF b # "save" THEN naming ELSE IF sent[b].at = "done" THEN "closed" ELSE "refused"
    /\ UNCHANGED <<row, seen, pageBudget>>

\* ---- the timeline ----
\* Mutant: only the captures that were filed get a group.
FiledGroups(r) == r.captures
GroupsOf(r) == r.captures \cup {r.attempts[n].capture : n \in DOMAIN r.attempts}
\* A group tells whether its capture was filed, and its attempts, the newest first.
Timeline(r) ==
    [index \in GroupsOf(r) |->
        [filed |-> index \in r.captures,
         attempts |-> {n \in DOMAIN r.attempts : r.attempts[n].capture = index}]]
Latest(r) == Len(r.attempts)
\* The sources the page says are still owed.
Pending(r) == IF IsLive(r) THEN {n \in 2..PlanLength : n >= CaptureAt(r)} ELSE {}

RunSteps == BeginAttempt \/ PlaylistAppears \/ RetryAttempt \/ CaptureEnds \/ StoppedUntried \/ RemuxEnds \/ DeletedElsewhere
PageReads == Poll \/ ReadServed \/ ReadLands \/ ReadFails
PageButtons ==
    \/ PressStop \/ PressRecord \/ PressDelete \/ ConfirmDelete \/ CancelDelete \/ PressSave \/ SaveProfile \/ CloseNaming
    \/ ButtonAnswered
CoreTakes == StopTaken \/ RecordTaken \/ DeleteTaken \/ SaveTaken
PageNext == RunSteps \/ PageReads \/ PageButtons \/ CoreTakes
PageSpec == PageInit /\ [][PageNext]_pageVars

(***************************************************************************)
(* Properties.                                                             *)
(***************************************************************************)
\* Every variable keeps its type.
PageTypeOK ==
    /\ row.status \in Live \cup Spent \cup {"gone"} /\ seen.status \in Live \cup Spent \cup {"gone", "unread"}
    /\ row.doing \in {"running", "remuxing", "done"} /\ reading.at \in {"idle", "asked", "served"}
    /\ \A b \in Buttons : sent[b].at \in {"quiet", "asked", "done", "refused"} /\ sent[b].want \in BOOLEAN
    /\ confirming \in BOOLEAN /\ naming \in {"closed", "open", "refused"}

\* The timeline shows every attempt of the run once, the one that runs now
\* among them, although the capture it belongs to is filed only when it ends
\* (groupTimeline).
TimelineLosesNothing ==
    LET shown == Timeline(seen)
    IN /\ \A n \in DOMAIN seen.attempts : \E g \in DOMAIN shown : n \in shown[g].attempts
       /\ \A g, h \in DOMAIN shown : g # h => shown[g].attempts \cap shown[h].attempts = {}
       /\ \A g \in seen.captures : g \in DOMAIN shown /\ shown[g].filed

\* What the page deletes is a session that was told to stop or has ended:
\* "deleting a running session is stopping it" (STATUS_MAP).
DeleteSparesRunningStep ==
    row.status # "gone" /\ row'.status = "gone" => row.told \/ row.doing # "running"

\* A remux is not cut short by a deletion: the core refuses one while it remuxes.
RemuxNotCut == [][row.doing = "remuxing" => row'.status # "gone"]_pageVars
=============================================================================
