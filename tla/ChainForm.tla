------------------------------ MODULE ChainForm ------------------------------
(***************************************************************************)
(* A form that holds a fallback chain: the base it is written against, the *)
(* chain, the cards its rungs are edited in (chain-editor, rung-card,      *)
(* source-chain), the save, and what the core makes of it (routers/crud).  *)
(* Three forms mount the editor: "run" (new session, scheduled recording), *)
(* "preset" (a profile's own capture) and "bulk" (one profile for many     *)
(* scheduled recordings). The form reads the console's lookups, which lag  *)
(* behind the core's rows. A run may then be saved as a profile and opened *)
(* again.                                                                  *)
(***************************************************************************)
EXTENDS CoreChain

CONSTANTS
    Bases,       \* engine, resolver and config a person fills a form with
    Drafts,      \* what a person writes in a card
    ProfileRows, \* the profiles there are to begin with
    Edited,      \* a row a profile is edited to by somebody else
    MaxRungs,    \* bound: rungs of a chain
    MaxEdits,    \* bound: things the person does in the forms
    MaxChanges   \* bound: profiles edited or deleted by somebody else

VARIABLES
    rows,     \* the core's profiles, engines and resolvers
    lookups,  \* the console's copy of them
    form,     \* the open form
    touched,  \* the saved rung's card with unapplied edits, and its draft
    fresh,    \* the draft of the card at the chain's end
    request,  \* the save in flight, with the lookups it was checked against
    ran,      \* the run the core made, or the profile saved from it
    edits,    \* things done so far
    changes   \* profiles changed so far

chainVars == <<rows, lookups, form, touched, fresh, request, ran, edits, changes>>

EmptyDraft == Blank
\* A stored rung as its card holds it.
DraftOf(rung) == [rung EXCEPT !.config = Or(@, EmptyConfig)]
\* A card's draft as a rung: a config goes with a resolver picked here.
DraftRung(draft) == [draft EXCEPT !.config = IF draft.resolver = None THEN None ELSE Or(@, EmptyConfig)]

NoForm == [kind |-> "none", mode |-> "custom", profile |-> None, engine |-> None, resolver |-> None,
           config |-> EmptyConfig, chain |-> <<>>]
Untouched == [at |-> 0, rung |-> Blank, draft |-> EmptyDraft]
NoRequest == [sent |-> FALSE, own |-> NoCapture, chain |-> <<>>, lookups |-> lookups]
NoRun == [stage |-> "none", own |-> NoCapture, captures |-> <<>>, rungs |-> <<>>]

ChainInit ==
    /\ rows = [profiles |-> ProfileRows, engines |-> Engines, resolvers |-> Resolvers]
    /\ lookups = rows
    /\ form = NoForm /\ touched = Untouched /\ fresh = EmptyDraft
    /\ request = NoRequest /\ ran = NoRun
    /\ edits = 0 /\ changes = 0

\* The capture the form's chain is written against; NoCapture while the
\* form does not name one yet.
BaseOf(f, catalog) ==
    IF f.mode = "profile"
    THEN IF f.profile \in DOMAIN catalog.profiles THEN ProfileBase(f.profile, catalog.profiles[f.profile]) ELSE NoCapture
    ELSE IF None \in {f.engine, f.resolver} THEN NoCapture
    ELSE [profile |-> f.profile, engine |-> f.engine, resolver |-> f.resolver, config |-> f.config, retry |-> f.profile]

\* The effect of the forms (not of the bulk dialog): when the base or the
\* lookups moved, rungs that became repeats are dropped.
Rebased(f, catalog) ==
    LET own == BaseOf(f, catalog)
        moved == own # BaseOf(form, lookups) \/ catalog # lookups
    IN IF moved /\ own # NoCapture /\ f.kind # "bulk" THEN [f EXCEPT !.chain = PruneChain(@, own, catalog)] ELSE f

\* A card keeps unapplied edits only while its position holds the same rung.
Reseeded(chain) == IF touched.at \in DOMAIN chain /\ chain[touched.at] = touched.rung THEN touched ELSE Untouched

Editing == form.kind # "none" /\ ~request.sent /\ edits < MaxEdits /\ edits' = edits + 1
\* The form after an edit, settled by its effects.
Shows(f, catalog) == form' = Rebased(f, catalog) /\ touched' = Reseeded(form'.chain)

OpenForm(kind) ==
    /\ form.kind = "none" /\ edits < MaxEdits
    /\ form' = [NoForm EXCEPT !.kind = kind, !.mode = IF kind = "preset" THEN "custom" ELSE "profile"]
    /\ touched' = Untouched /\ fresh' = EmptyDraft
    /\ UNCHANGED <<rows, lookups, request, ran, edits, changes>>

\* The profile saved from a run, opened for editing.
OpenSaved ==
    /\ form.kind = "none" /\ edits < MaxEdits /\ ran.stage = "saved"
    /\ LET opened == [NoForm EXCEPT !.kind = "preset", !.engine = ran.own.engine, !.resolver = ran.own.resolver,
                                    !.config = ran.own.config, !.chain = ran.rungs]
       IN form' = [opened EXCEPT !.chain = PruneChain(@, BaseOf(opened, lookups), lookups)]
    /\ touched' = Untouched /\ fresh' = EmptyDraft
    /\ UNCHANGED <<rows, lookups, request, ran, edits, changes>>

\* Picking a profile brings the chain it was written for.
PickProfile(p) ==
    /\ Editing /\ form.kind # "preset" /\ p \in DOMAIN lookups.profiles
    /\ Shows([form EXCEPT !.mode = "profile", !.profile = p, !.chain = ChainOf(lookups.profiles[p])], lookups)
    /\ UNCHANGED <<rows, lookups, fresh, request, ran, changes>>

\* An engine and a source of one's own: a resolver and its config, a saved
\* source or an item of the resolver's catalog; the chain stays.
PickCapture(base) ==
    /\ Editing /\ form.kind # "bulk"
    /\ Shows([form EXCEPT !.mode = "custom", !.profile = None, !.engine = base.engine, !.resolver = base.resolver,
                          !.config = base.config], lookups)
    /\ UNCHANGED <<rows, lookups, fresh, request, ran, changes>>

Written(draft, at) == IF at \in DOMAIN form.chain THEN ReplaceAt(form.chain, at, DraftRung(draft)) ELSE Append(form.chain, DraftRung(draft))
\* What a card's draft would run in its place, or why it cannot.
Evaluate(draft, at) == ResolveChain(Written(draft, at), BaseOf(form, lookups), lookups)[at]
CanApply(draft, at) ==
    /\ BaseOf(form, lookups) # NoCapture /\ RungNames(DraftRung(draft))
    /\ Evaluate(draft, at).problem = NoProblem

WriteCard(at, draft) ==
    /\ Editing /\ BaseOf(form, lookups) # NoCapture
    /\ IF at \in DOMAIN form.chain
       THEN touched' = [at |-> at, rung |-> form.chain[at], draft |-> draft] /\ UNCHANGED fresh
       ELSE fresh' = draft /\ UNCHANGED touched
    /\ UNCHANGED <<rows, lookups, form, request, ran, changes>>

ApplyCard ==
    /\ form.kind # "none" /\ ~request.sent /\ touched # Untouched /\ CanApply(touched.draft, touched.at)
    /\ form' = [form EXCEPT !.chain = Written(touched.draft, touched.at)]
    /\ touched' = Untouched
    /\ UNCHANGED <<rows, lookups, fresh, request, ran, edits, changes>>

AddRung ==
    /\ form.kind # "none" /\ ~request.sent /\ Len(form.chain) < MaxRungs /\ CanApply(fresh, Len(form.chain) + 1)
    /\ form' = [form EXCEPT !.chain = Append(@, DraftRung(fresh))]
    /\ fresh' = EmptyDraft
    /\ UNCHANGED <<rows, lookups, touched, request, ran, edits, changes>>

Arrange(chain) ==
    /\ Editing /\ BaseOf(form, lookups) # NoCapture
    /\ form' = [form EXCEPT !.chain = chain] /\ touched' = Reseeded(chain)
    /\ UNCHANGED <<rows, lookups, fresh, request, ran, changes>>
MoveCard(from, to) == from # to /\ Arrange(MoveRung(form.chain, from, to))
RemoveCard(at) == at \in DOMAIN form.chain /\ Arrange(RemoveAt(form.chain, at))

ResetCard ==
    /\ Editing /\ touched # Untouched
    /\ touched' = Untouched
    /\ UNCHANGED <<rows, lookups, form, fresh, request, ran, changes>>

CanSubmit ==
    LET own == BaseOf(form, lookups) IN own # NoCapture /\ Problems(ResolveChain(form.chain, own, lookups)) = {}

Submit ==
    /\ form.kind # "none" /\ ~request.sent /\ CanSubmit
    /\ request' = [sent |-> TRUE, own |-> BaseOf(form, lookups), chain |-> form.chain, lookups |-> lookups]
    /\ UNCHANGED <<rows, lookups, form, touched, fresh, ran, edits, changes>>

\* The core reads the profile it is named again; a declared chain is strict.
CoreBase == IF form.mode = "profile" THEN BaseOf(form, rows) ELSE request.own
Answer == Resolve(request.chain, CoreBase, rows, TRUE)

Accepted ==
    /\ request.sent /\ CoreBase # NoCapture /\ ~Answer.refused
    /\ ran' = [stage |-> "ran", own |-> CoreBase, captures |-> Answer.captures, rungs |-> Answer.rungs]
    /\ form' = NoForm /\ touched' = Untouched /\ fresh' = EmptyDraft
    /\ request' = NoRequest
    /\ UNCHANGED <<rows, lookups, edits, changes>>

\* Refused, or the request failed: the form stays as it was, with the error.
Refused ==
    /\ request.sent /\ (CoreBase = NoCapture \/ Answer.refused)
    /\ request' = NoRequest
    /\ UNCHANGED <<rows, lookups, form, touched, fresh, ran, edits, changes>>

\* A run saved as a profile: its plan is reduced to rungs, and rungs that
\* repeat the new profile's own capture are dropped.
SaveAsProfile ==
    /\ form.kind = "none" /\ ran.stage = "ran"
    /\ \A i \in DOMAIN ran.captures : ran.captures[i].profile \in DOMAIN rows.profiles \cup {None}
    /\ LET own == [ran.own EXCEPT !.profile = None]
           reduced == RungsFromPlan(ran.own, ran.captures, rows)
       IN ran' = [ran EXCEPT !.stage = "saved", !.own = own, !.rungs = Resolve(reduced, own, rows, FALSE).rungs]
    /\ UNCHANGED <<rows, lookups, form, touched, fresh, request, edits, changes>>

\* Somebody else edits or deletes a profile; the lookups learn it later.
ProfileChanges(p) ==
    /\ changes < MaxChanges /\ changes' = changes + 1 /\ p \in DOMAIN rows.profiles
    /\ rows' \in {[rows EXCEPT !.profiles = [@ EXCEPT ![p] = Edited]],
                  [rows EXCEPT !.profiles = [q \in DOMAIN @ \ {p} |-> @[q]]]}
    /\ UNCHANGED <<lookups, form, touched, fresh, request, ran, edits>>
LookupsRead ==
    /\ lookups # rows /\ lookups' = rows
    /\ IF form.kind = "none" THEN UNCHANGED <<form, touched>> ELSE Shows(form, rows)
    /\ UNCHANGED <<rows, fresh, request, ran, edits, changes>>

ChainNext ==
    \/ \E kind \in {"run", "preset", "bulk"} : OpenForm(kind)
    \/ OpenSaved
    \/ \E p \in Profiles : PickProfile(p) \/ ProfileChanges(p)
    \/ \E base \in Bases : PickCapture(base)
    \/ \E at \in 1 .. MaxRungs, draft \in Drafts : at <= Len(form.chain) + 1 /\ WriteCard(at, draft)
    \/ ApplyCard \/ AddRung \/ ResetCard
    \/ \E from, to \in DOMAIN form.chain : MoveCard(from, to)
    \/ \E at \in DOMAIN form.chain : RemoveCard(at)
    \/ Submit \/ Accepted \/ Refused \/ SaveAsProfile \/ LookupsRead

ChainSpec == ChainInit /\ [][ChainNext]_chainVars

-----------------------------------------------------------------------------
\* Each variable has its type.
ChainTypeOK ==
    /\ form.chain \in BoundedSeq(Rung, MaxRungs) /\ fresh \in Rung /\ touched.draft \in Rung
    /\ BaseOf(form, lookups) \in Capture \cup {NoCapture}
    /\ touched.at \in DOMAIN form.chain \cup {0}
    /\ edits \in 0 .. MaxEdits /\ changes \in 0 .. MaxChanges

\* The client and the server never disagree about a chain
\* (fallback-chain.ts:176): a save the form allows is refused only when the
\* core's rows are no longer the ones the form was checked against.
RefusedOnlyWhenStaleStep == request.sent /\ request'= NoRequest /\ form' = form => request.lookups # rows

\* What the cards preview is what will run: the captures the core plans are
\* the ones the console resolved (fallback-chain.ts:264).
PlannedAsPreviewedStep ==
    request.sent /\ request' = NoRequest /\ form' # form /\ request.lookups = rows =>
          ran'.captures = Captures(ResolveChain(request.chain, request.own, request.lookups))

\* Dropping rungs when the base moves costs the run nothing: whatever the
\* chain and the new base, the core would try the same captures in the same
\* order for the pruned chain (fallback-chain.ts:335).
PruningCostsNothing ==
    \A base \in Bases :
        LET own == [base EXCEPT !.profile = form.profile]
        IN Resolve(PruneChain(form.chain, own, lookups), own, lookups, FALSE).captures
             = Resolve(form.chain, own, lookups, FALSE).captures

\* No form is left blocked by a rung that its moved base made a repeat: such
\* a problem is only ever shown by the bulk dialog, or for a stored chain
\* whose order the person changed.
PruningUnblocksStep ==
    form.kind # "none" /\ form'.kind = form.kind /\ form.kind # "bulk"
       /\ BaseOf(form', lookups') \notin {BaseOf(form, lookups), NoCapture} =>
          \A i \in Problems(ResolveChain(form'.chain, BaseOf(form', lookups'), lookups')) :
              ResolveChain(form'.chain, BaseOf(form', lookups'), lookups')[i].problem.kind
                  \in {"profile-missing", "engine-missing", "resolver-missing"}

\* Cards are kept by position, rungs move: edits typed for one rung are
\* never shown on, or applied to, another (rung-card.tsx:144).
EditsStayWithTheirRung == touched # Untouched => form.chain[touched.at] = touched.rung

\* A run saved as a profile rebuilds the run: when it is saved, the profile's
\* chain stands for the very captures the run was planned with, whatever
\* became of the profiles they were taken from (crud.py, "saving keeps the
\* chain the run actually tried").
SavedProfileRebuildsRunStep ==
    ran.stage = "ran" /\ ran'.stage = "saved" =>
          LET again == Resolve(ran'.rungs, ran'.own, rows, FALSE).captures
          IN [i \in DOMAIN again |-> CaptureKey(again[i])] = [i \in DOMAIN ran.captures |-> CaptureKey(ran.captures[i])]
==============================================================================
