----------------------------- MODULE AccessForms -----------------------------
(***************************************************************************)
(* The console's access panels (access-panel, admin-access, the editor of  *)
(* resource-access): the panel of one item, the bulk dialog and the access *)
(* section of a form that creates an item. An edit is drafted, planned     *)
(* against what was last read and sent one request at a time; there is no  *)
(* transaction, other administrators write meanwhile, and any request may  *)
(* fail.                                                                   *)
(***************************************************************************)
EXTENDS AccessPlan

CONSTANTS
    Items,            \* the items that exist
    NewItem,          \* the item the creation form makes
    Me,               \* the administrator who uses the console
    StartAccess,      \* what the items carry to begin with
    Cached,           \* items read a short while ago
    OthersWrite,      \* what another administrator may put on an item
    MaxPanels,        \* bound: panels opened
    MaxAccessEdits,   \* bound: edits of drafts and changes of the bulk mode
    MaxForeign,       \* bound: writes and deletions by others
    MaxAccessFailures \* bound: requests that fail

VARIABLES
    held,     \* what each item carries in the core
    known,    \* the accounts and groups there are
    seen,     \* what the console last read of each item
    panel,    \* the open panel
    sending,  \* the plans being applied
    moved,    \* items that changed since they were read, other than by what the open panel still asks for
    accessBudget  \* what the bounds leave

accessVars == <<held, known, seen, panel, sending, moved, accessBudget>>

AllItems == Items \cup {NewItem}
Unread == [NoAccess EXCEPT !.crown = "unread"]
NoPanel == [kind |-> "none", items |-> {}, draft |-> NoAccess, mode |-> "replace", confirming |-> FALSE]
Idle == [busy |-> FALSE, mode |-> "replace", plans |-> <<>>, failed |-> {}]

AccessInit ==
    /\ held = [i \in AllItems |-> IF i \in Items THEN StartAccess[i] ELSE NoAccess]
    /\ known = Principals
    /\ seen = [i \in AllItems |-> IF i \in Cached THEN ViewOf(held[i]) ELSE Unread]
    /\ panel = NoPanel /\ sending = Idle /\ moved = {}
    /\ accessBudget = [panels |-> MaxPanels, edits |-> MaxAccessEdits, foreign |-> MaxForeign, failures |-> MaxAccessFailures]

Loaded == \A i \in panel.items : seen[i] # Unread
Editable == panel.kind # "none" /\ ~panel.confirming /\ ~sending.busy /\ (panel.kind = "creation" \/ Loaded)

\* The item's panel drafts from what it reads, anew whenever that changes;
\* the other drafts start empty and name only what to set.
DraftFrom(i, view) == IF panel.kind = "item" /\ view # seen[i] THEN view ELSE panel.draft

\* What was read before may be shown, and edited, before it is read again.
FromOldReads == moved' = moved \cup {i \in AllItems : seen[i] \notin {Unread, ViewOf(held[i])}}
OpenPanel(i) ==
    /\ panel.kind = "none" /\ accessBudget.panels > 0
    /\ panel' = [NoPanel EXCEPT !.kind = "item", !.items = {i}, !.draft = IF seen[i] = Unread THEN NoAccess ELSE seen[i]]
    /\ FromOldReads
    /\ accessBudget' = [accessBudget EXCEPT !.panels = @ - 1]
    /\ UNCHANGED <<held, known, seen, sending>>
OpenBulk ==
    /\ panel.kind = "none" /\ accessBudget.panels > 0
    /\ panel' = [NoPanel EXCEPT !.kind = "bulk", !.items = Items, !.mode = "grant"]
    /\ FromOldReads
    /\ accessBudget' = [accessBudget EXCEPT !.panels = @ - 1]
    /\ UNCHANGED <<held, known, seen, sending>>
OpenCreation ==
    /\ panel.kind = "none" /\ accessBudget.panels > 0 /\ held[NewItem] = NoAccess
    /\ panel' = [NoPanel EXCEPT !.kind = "creation", !.items = {NewItem}]
    /\ FromOldReads
    /\ accessBudget' = [accessBudget EXCEPT !.panels = @ - 1]
    /\ UNCHANGED <<held, known, seen, sending>>
ClosePanel ==
    /\ panel.kind # "none" /\ ~sending.busy
    /\ panel' = NoPanel /\ sending' = Idle
    /\ UNCHANGED <<held, known, seen, moved, accessBudget>>

\* A read lands: the first, one the console's cache asks for again, or the
\* one after the writes, which the item's panel stays busy for.
ReadAccess(i) ==
    /\ i \in panel.items /\ panel.kind \in {"item", "bulk"} /\ (sending.busy => panel.kind = "item" /\ sending.plans = <<>>)
    /\ seen[i] # ViewOf(held[i]) \/ i \in moved \/ sending.busy
    /\ seen' = [seen EXCEPT ![i] = ViewOf(held[i])] /\ moved' = moved \ {i}
    /\ panel' = [panel EXCEPT !.draft = DraftFrom(i, ViewOf(held[i]))]
    /\ sending' = [sending EXCEPT !.busy = FALSE]
    /\ UNCHANGED <<held, known, accessBudget>>

Redraft(draft) ==
    /\ Editable /\ accessBudget.edits > 0 /\ draft # panel.draft
    /\ panel' = [panel EXCEPT !.draft = draft]
    /\ accessBudget' = [accessBudget EXCEPT !.edits = @ - 1]
    /\ FromOldReads
    /\ UNCHANGED <<held, known, seen, sending>>
PressChip(c, picked) ==
    /\ c \in ChipsOf(panel.draft)
    /\ Redraft(Chip(panel.draft, picked, c, panel.kind = "bulk" /\ panel.mode = "revoke"))
AddOwner(p) == p \notin {panel.draft.crown} \cap People /\ Redraft([panel.draft EXCEPT !.owners = @ \cup {p}])
RemoveOwner(p) == p \in panel.draft.owners \ {panel.draft.crown} /\ Redraft([panel.draft EXCEPT !.owners = @ \ {p}])
\* Only a co-owner can be handed the crown.
HandCrown(p) == p \in panel.draft.owners /\ Redraft([panel.draft EXCEPT !.crown = p])
KeepCrown == panel.kind = "creation" /\ Redraft([panel.draft EXCEPT !.crown = Nobody])
\* The mode can be changed while the plans are sent.
SetMode(mode) ==
    /\ panel.kind = "bulk" /\ ~panel.confirming /\ Loaded /\ mode # panel.mode /\ accessBudget.edits > 0
    /\ panel' = [panel EXCEPT !.mode = mode]
    /\ accessBudget' = [accessBudget EXCEPT !.edits = @ - 1]
    /\ FromOldReads
    /\ UNCHANGED <<held, known, seen, sending>>

TargetOf(i) ==
    IF panel.kind = "bulk" THEN BulkTarget(seen[i], panel.draft, panel.mode) ELSE ItemTarget(seen[i], panel.draft)
PlanFor(i) == PlanItem(i, seen[i], TargetOf(i))
\* Items the edit changes.
Changing == {i \in panel.items : PlanFor(i).ops # <<>>}
\* Items whose own access the edit overwrites: they are listed and confirmed.
Overriding ==
    {i \in Changing :
        /\ Overrides(seen[i], known)
        /\ panel.mode = "replace" \/ \E k \in DOMAIN PlanFor(i).ops : PlanFor(i).ops[k].kind = "crown"}

Sends == LET order == SetToSeq(Changing)
         IN  sending' = [busy |-> TRUE, mode |-> panel.mode, plans |-> [n \in DOMAIN order |-> PlanFor(order[n])], failed |-> {}]
ApplyPanel ==
    /\ panel.kind = "item" /\ Editable /\ panel.draft # seen[CHOOSE i \in panel.items : TRUE]
    /\ Sends
    /\ UNCHANGED <<held, known, seen, panel, moved, accessBudget>>
ApplyBulk ==
    /\ panel.kind = "bulk" /\ ~sending.busy
    /\ panel.confirming \/ (Loaded /\ Changing # {})
    /\ IF Overriding # {} /\ ~panel.confirming
       THEN panel' = [panel EXCEPT !.confirming = TRUE] /\ UNCHANGED sending
       ELSE Sends /\ UNCHANGED panel
    /\ UNCHANGED <<held, known, seen, moved, accessBudget>>
BackToEditing ==
    /\ panel.confirming /\ ~sending.busy
    /\ panel' = [panel EXCEPT !.confirming = FALSE]
    /\ UNCHANGED <<held, known, seen, sending, moved, accessBudget>>
\* The core makes the item, its creator holds the crown, and the draft is
\* applied to it as to an item that carries nothing.
Create ==
    /\ panel.kind = "creation" /\ ~sending.busy /\ held[NewItem] = NoAccess
    /\ held' = [held EXCEPT ![NewItem] = [NoAccess EXCEPT !.crown = Me]]
    /\ sending' = [busy |-> TRUE, mode |-> "replace", plans |-> <<PlanItem(NewItem, NoAccess, panel.draft)>>, failed |-> {}]
    /\ UNCHANGED <<known, seen, panel, moved, accessBudget>>

Current == sending.plans[1]
NextOp == Current.ops[1]
\* The next request of the first plan.
SendOp ==
    /\ sending.plans # <<>> /\ Current.ops # <<>> /\ Takes(NextOp, Current.to, known)
    /\ held' = [held EXCEPT ![Current.id] = Applied(@, NextOp, Current.to)]
    /\ sending' = [sending EXCEPT !.plans[1].ops = Tail(@)]
    /\ UNCHANGED <<known, seen, panel, moved, accessBudget>>
\* An item that fails midway is reported, the ones after it still run.
FailOp ==
    /\ sending.plans # <<>> /\ Current.ops # <<>> /\ (~Takes(NextOp, Current.to, known) \/ accessBudget.failures > 0)
    /\ sending' = [sending EXCEPT !.plans = Tail(@), !.failed = @ \cup {Current.id}]
    /\ accessBudget' = [accessBudget EXCEPT !.failures = IF Takes(NextOp, Current.to, known) THEN @ - 1 ELSE @]
    /\ UNCHANGED <<held, known, seen, panel, moved>>
ItemDone ==
    /\ sending.plans # <<>> /\ Current.ops = <<>>
    /\ sending' = [sending EXCEPT !.plans = Tail(@)]
    /\ UNCHANGED <<held, known, seen, panel, moved, accessBudget>>

\* The bulk dialog closes when every item took its plan and stays otherwise,
\* with what it read before; a creation ends whatever became of its access.
ApplyEnds ==
    /\ sending.busy /\ sending.plans = <<>> /\ panel.kind \in {"bulk", "creation"}
    /\ sending' = Idle
    /\ panel' = IF panel.kind = "bulk" /\ sending.failed # {} THEN panel ELSE NoPanel
    /\ moved' = IF panel.mode # sending.mode THEN AllItems ELSE moved
    /\ UNCHANGED <<held, known, seen, accessBudget>>

\* Another administrator writes, or deletes an account or a group with all
\* its rows but the crown.
SomebodyWrites(i, p, caps) ==
    /\ panel.kind # "none" /\ accessBudget.foreign > 0 /\ accessBudget' = [accessBudget EXCEPT !.foreign = @ - 1]
    /\ held' = [held EXCEPT ![i].grants[p] = Closed(caps)] /\ held' # held
    /\ moved' = moved \cup {i}
    /\ UNCHANGED <<known, seen, panel, sending>>
SomebodyGoes(p) ==
    /\ panel.kind # "none" /\ accessBudget.foreign > 0 /\ accessBudget' = [accessBudget EXCEPT !.foreign = @ - 1]
    /\ p \in known \ {Me} /\ known' = known \ {p}
    /\ held' = [i \in AllItems |-> [held[i] EXCEPT !.grants[p] = {}, !.owners = @ \ {p}]]
    /\ moved' = AllItems
    /\ UNCHANGED <<seen, panel, sending>>

AccessNext ==
    \/ OpenBulk \/ OpenCreation \/ ClosePanel \/ ApplyPanel \/ ApplyBulk \/ BackToEditing \/ Create \/ KeepCrown
    \/ SendOp \/ FailOp \/ ItemDone \/ ApplyEnds
    \/ \E i \in Items : OpenPanel(i) \/ ReadAccess(i)
    \/ \E p \in Principals : AddOwner(p) \/ RemoveOwner(p) \/ HandCrown(p) \/ SomebodyGoes(p)
    \/ \E c \in Caps, picked \in ({{p} : p \in Principals} \cup {Principals}) : PressChip(c, picked \cap Pool(panel.draft, Principals))
    \/ \E mode \in {"grant", "revoke", "replace"} : SetMode(mode)
    \/ \E i \in Items, write \in OthersWrite : SomebodyWrites(i, write[1], write[2])

AccessSpec == AccessInit /\ [][AccessNext]_accessVars

-----------------------------------------------------------------------------
\* Each variable has its type.
AccessTypeOK ==
    /\ held \in [AllItems -> Access] /\ known \subseteq Principals
    /\ \A i \in AllItems : seen[i] \in Access \cup {Unread}
    /\ panel.items \subseteq AllItems /\ panel.draft \in Access
    /\ sending.failed \subseteq AllItems /\ moved \subseteq AllItems

\* While an administrator's plan is sent, whatever another one gave or took
\* meanwhile survives for every principal the plan leaves alone: plans are
\* made of what was read before, but only write the principals they change.
OthersWritesSurviveStep ==
    sending.plans # <<>> /\ sending' # sending =>
          LET plan == Current IN
          \A p \in Principals :
              /\ plan.from.grants[p] = plan.to.grants[p] => held'[plan.id].grants[p] = held[plan.id].grants[p]
              /\ (p \in plan.from.owners) = (p \in plan.to.owners) =>
                     (p \in held'[plan.id].owners) = (p \in held[plan.id].owners)

\* A plan that ran to its end left the item as the panel showed it would be,
\* unless somebody else wrote to the item since it was read. (The user who
\* held the crown then is left out: what that user was granted before is not
\* listed, so no plan takes it, and it counts again once the crown is gone.)
PlansEndAsShown ==
    sending.plans # <<>> /\ Current.ops = <<>> /\ Current.id \notin moved =>
        LET now == held[Current.id] to == Current.to IN
        /\ now.crown = to.crown \/ to.crown = Nobody
        /\ now.owners = to.owners
        /\ \A p \in Principals : Unlisted(Current.from, p) \/ now.grants[p] = to.grants[p]

\* When the bulk dialog reports success and closes, every item nobody else
\* wrote to holds what was asked, however many attempts it took and although
\* a repeated attempt plans with what was read before the first. (What the
\* user who holds the crown was granted before cannot be taken: it is not
\* listed.)
BulkHolds(i) ==
    \A p \in Principals :
        LET now == held[i].grants[p] asked == panel.draft.grants[p] IN
        CASE sending.mode = "grant"   -> Closed(asked) \subseteq now
          [] sending.mode = "revoke"  -> (now \cap asked = {} /\ ("VIEW" \in asked => now = {})) \/ Unlisted(seen[i], p)
          [] sending.mode = "replace" -> now = Closed(asked) \/ Unlisted(seen[i], p)
BulkSuccessIsWholeStep ==
    panel.kind = "bulk" /\ sending.busy /\ panel' = NoPanel =>
          \A i \in panel.items \ moved : BulkHolds(i) /\ panel.draft.owners \subseteq held[i].owners

\* A bulk apply hands ownership out and never takes an owner's row away
\* (access-plan.ts:369).
BulkKeepsOwnersStep ==
    panel.kind = "bulk" /\ held' # held /\ known' = known => \A i \in Items : held[i].owners \subseteq held'[i].owners

\* The item's panel takes the next edit against what the core holds, not
\* against what it held before the panel's own writes (access-panel.tsx:86).
DraftsOnOwnWritesStep ==
    panel.kind = "item" /\ sending.busy /\ ~sending'.busy =>
          \A i \in panel.items : seen'[i] = ViewOf(held'[i])
==============================================================================
