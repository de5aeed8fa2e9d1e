----------------------------- MODULE PresetForm -----------------------------
(***************************************************************************)
(* The dialog that makes and edits profiles and saved sources, and the     *)
(* panel it opens to browse what a resolver can find. A config is told     *)
(* apart by the resolver it was written for, a retry config by its mode.   *)
(* The fallback chain of the dialog is in ChainForm, the access given at   *)
(* creation in AccessForms.                                                *)
(***************************************************************************)
EXTENDS Naturals, FiniteSets

CONSTANTS
    Modes,        \* engine -> the retry modes it declares
    Browses,      \* resolver -> "catalog" or "search", what it offers to browse
    Profiles,     \* the profiles there are: id -> engine, resolver and retry mode
    Sources,      \* the saved sources there are: id -> resolver
    None,         \* nothing picked
    MaxDialogs,   \* bound: dialogs opened
    MaxTyped,     \* bound: things typed or picked
    MaxSent       \* bound: saves

VARIABLES
    form,         \* the dialog: the tab that shows and the two bodies
    drawer,       \* the browsing panel
    pages,        \* the discovery answers held, by what was asked
    asking,       \* the discovery requests in flight
    sent,         \* the saves in flight, one of each kind at most
    presetBudget

presetVars == <<form, drawer, pages, asking, sent, presetBudget>>

Tabs == {"profile", "source"}
NoConfig == [of |-> None, from |-> "nothing"]
Written(owner, how) == [of |-> owner, from |-> how]
NoBody == [named |-> FALSE, engine |-> None, resolver |-> None, config |-> NoConfig, retry |-> None, params |-> NoConfig]
ClosedForm ==
    [tab |-> "none", editing |-> FALSE, switcher |-> FALSE, bodies |-> [tab \in Tabs |-> NoBody],
     mode |-> "resolver", picked |-> None, error |-> FALSE]
NoDrawer == [open |-> FALSE, query |-> "", applied |-> ""]
Uses(what) == presetBudget[what] > 0 /\ presetBudget' = [presetBudget EXCEPT ![what] = @ - 1]

PresetInit ==
    /\ form = ClosedForm /\ drawer = NoDrawer /\ pages = {} /\ asking = {}
    /\ sent = [tab \in Tabs |-> NoBody]
    /\ presetBudget = [dialogs |-> MaxDialogs, typed |-> MaxTyped, sent |-> MaxSent]

Body == form.bodies[form.tab]
Open == form.tab # "none"
\* The browsing panel lies over the dialog.
Editable == Open /\ ~drawer.open
Quiet == UNCHANGED <<drawer, pages, asking, sent>>

\* ---- opening and closing ----
OpenNew ==
    /\ ~Open /\ Uses("dialogs")
    /\ \E tab \in Tabs, switcher \in BOOLEAN :
         /\ switcher => tab = "profile"
         /\ form' = [ClosedForm EXCEPT !.tab = tab, !.switcher = switcher]
    /\ Quiet
Filled(resolver) == [NoBody EXCEPT !.named = TRUE, !.resolver = resolver, !.config = Written(resolver, "row")]
OpenProfile ==
    /\ ~Open /\ Uses("dialogs")
    /\ \E id \in DOMAIN Profiles :
         form' = [ClosedForm EXCEPT !.tab = "profile", !.editing = TRUE,
                    !.bodies["profile"] = [Filled(Profiles[id].resolver) EXCEPT
                        !.engine = Profiles[id].engine, !.retry = Profiles[id].retry, !.params = Written(Profiles[id].retry, "row")]]
    /\ Quiet
OpenSource ==
    /\ ~Open /\ Uses("dialogs")
    /\ \E id \in DOMAIN Sources :
         form' = [ClosedForm EXCEPT !.tab = "source", !.editing = TRUE, !.bodies["source"] = Filled(Sources[id])]
    /\ Quiet
\* The dialog is busy while a save of the tab that shows is in flight.
CloseDialog ==
    /\ Editable /\ sent[form.tab] = NoBody /\ form' = ClosedForm
    /\ Quiet /\ UNCHANGED presetBudget
SwitchTab ==
    /\ Editable /\ form.switcher
    /\ form' = [form EXCEPT !.tab = IF @ = "profile" THEN "source" ELSE "profile", !.error = FALSE]
    /\ Quiet /\ UNCHANGED presetBudget

\* ---- filling in ----
Fills(body) == form' = [form EXCEPT !.bodies[form.tab] = body] /\ Quiet
TypePresetName ==
    /\ Editable /\ ~Body.named /\ Fills([Body EXCEPT !.named = TRUE]) /\ UNCHANGED presetBudget
ByResolver == form.tab = "source" \/ form.mode = "resolver"
\* A resolver comes with its defaults.
WithResolver(body, resolver) ==
    [body EXCEPT !.resolver = resolver, !.config = IF resolver = None THEN NoConfig ELSE Written(resolver, "defaults")]
ChangeResolver ==
    /\ Editable /\ ByResolver /\ Uses("typed")
    /\ \E r \in (DOMAIN Browses \cup {None}) \ {Body.resolver} : Fills(WithResolver(Body, r))
ChangeResolverMode ==
    /\ Editable /\ form.tab = "profile" /\ Uses("typed")
    /\ form' = IF form.mode = "source" THEN [form EXCEPT !.mode = "resolver", !.picked = None, !.error = FALSE]
               ELSE [form EXCEPT !.mode = "source", !.error = FALSE]
    /\ Quiet
\* A saved source is copied; unpicking it leaves the copy.
PickSource ==
    /\ Editable /\ form.tab = "profile" /\ form.mode = "source" /\ Uses("typed")
    /\ \E id \in (DOMAIN Sources \cup {None}) \ {form.picked} :
         form' = [form EXCEPT !.picked = id, !.bodies["profile"] =
                    IF id = None THEN @ ELSE [@ EXCEPT !.resolver = Sources[id], !.config = Written(Sources[id], "row")]]
    /\ Quiet
TypeConfig ==
    /\ Editable /\ Body.resolver # None /\ ByResolver /\ Uses("typed")
    /\ Fills([Body EXCEPT !.config = Written(Body.config.of, "typed")])
WithRetry(body, mode) == [body EXCEPT !.retry = mode, !.params = IF mode = None THEN NoConfig ELSE Written(mode, "defaults")]
\* An engine comes with its mode "none", or the first it declares.
WithEngine(body, engine) ==
    LET declared == IF engine = None THEN {} ELSE Modes[engine]
    IN [WithRetry(body, IF "none" \in declared THEN "none" ELSE IF declared = {} THEN None ELSE CHOOSE mode \in declared : TRUE)
          EXCEPT !.engine = engine]
ChangeEngine ==
    /\ Editable /\ form.tab = "profile" /\ Uses("typed")
    /\ \E e \in (DOMAIN Modes \cup {None}) \ {Body.engine} : Fills(WithEngine(Body, e))
ChangeRetryMode ==
    /\ Editable /\ form.tab = "profile" /\ Body.engine # None /\ Uses("typed")
    /\ \E mode \in Modes[Body.engine] \ {Body.retry} : Fills(WithRetry(Body, mode))
TypeParams ==
    /\ Editable /\ form.tab = "profile" /\ Body.retry # None /\ Uses("typed")
    /\ Fills([Body EXCEPT !.params = Written(Body.params.of, "typed")])

\* ---- saving ----
Complete == Body.named /\ Body.resolver # None /\ (form.tab = "profile" => Body.engine # None)
SubmitPreset ==
    /\ Editable /\ Body.named /\ sent[form.tab] = NoBody
    /\ IF Complete THEN Uses("sent") /\ sent' = [sent EXCEPT ![form.tab] = Body] /\ form' = [form EXCEPT !.error = FALSE]
       ELSE form' = [form EXCEPT !.error = TRUE] /\ UNCHANGED <<sent, presetBudget>>
    /\ UNCHANGED <<drawer, pages, asking>>
\* A saved preset closes the dialog there is, a refused one shows in it.
PresetSaved ==
    /\ \E tab \in Tabs : sent[tab] # NoBody /\ sent' = [sent EXCEPT ![tab] = NoBody]
    /\ \/ form' = ClosedForm /\ drawer' = NoDrawer
       \/ form' = (IF Open THEN [form EXCEPT !.error = TRUE] ELSE form) /\ UNCHANGED drawer
    /\ UNCHANGED <<pages, asking, presetBudget>>

\* ---- browsing ----
BrowsePanel ==
    /\ Editable /\ Body.resolver # None /\ Browses[Body.resolver] # "nothing" /\ ByResolver /\ Uses("typed")
    /\ drawer' = [NoDrawer EXCEPT !.open = TRUE]
    /\ UNCHANGED <<form, pages, asking, sent>>
CloseBrowse ==
    /\ drawer.open /\ drawer' = NoDrawer
    /\ UNCHANGED <<form, pages, asking, sent, presetBudget>>
TypeQuery ==
    /\ drawer.open /\ drawer.query = "" /\ drawer' = [drawer EXCEPT !.query = "term"]
    /\ UNCHANGED <<form, pages, asking, sent, presetBudget>>
ApplyQuery ==
    /\ drawer.open /\ drawer.applied # drawer.query /\ drawer' = [drawer EXCEPT !.applied = drawer.query]
    /\ UNCHANGED <<form, pages, asking, sent, presetBudget>>
\* A catalog is read whole and filtered here, a search is asked for its text.
Wanted == [resolver |-> Body.resolver, query |-> IF Browses[Body.resolver] = "catalog" THEN "" ELSE drawer.applied]
\* Mutant: what a resolver answered one search is shown for the next.
AskedResolver == [resolver |-> Body.resolver, query |-> ""]
\* The key the answers are held under.
Asked == Wanted
Held == {page \in pages : page.asked = Asked}
AskDiscovery ==
    /\ drawer.open /\ Held = {} /\ \A request \in asking : request.asked # Asked
    /\ asking' = asking \cup {[asked |-> Asked, answers |-> Wanted]}
    /\ UNCHANGED <<form, drawer, pages, sent, presetBudget>>
DiscoveryAnswers ==
    /\ \E request \in asking :
         /\ asking' = asking \ {request}
         /\ pages' \in {pages, pages \cup {request}}
    /\ UNCHANGED <<form, drawer, sent, presetBudget>>
UseItem ==
    /\ drawer.open
    /\ \E page \in Held : form' = [form EXCEPT !.bodies[form.tab].config = Written(page.answers.resolver, "found")]
    /\ drawer' = NoDrawer
    /\ UNCHANGED <<pages, asking, sent, presetBudget>>

ProfileFields == ChangeEngine \/ ChangeRetryMode \/ TypeParams \/ ChangeResolverMode \/ PickSource
DiscoveryDrawer == CloseBrowse \/ TypeQuery \/ ApplyQuery \/ UseItem
PresetsDialog == CloseDialog \/ SwitchTab \/ TypePresetName \/ ChangeResolver \/ TypeConfig \/ SubmitPreset \/ BrowsePanel
PresetNext ==
    \/ OpenNew \/ OpenProfile \/ OpenSource \/ PresetsDialog \/ ProfileFields \/ PresetSaved
    \/ DiscoveryDrawer \/ AskDiscovery \/ DiscoveryAnswers
PresetSpec == PresetInit /\ [][PresetNext]_presetVars

PresetTypeOK ==
    /\ form.tab \in Tabs \cup {"none"} /\ form.picked \in DOMAIN Sources \cup {None}
    /\ \A tab \in Tabs : form.bodies[tab].engine \in DOMAIN Modes \cup {None} /\ form.bodies[tab].resolver \in DOMAIN Browses \cup {None}
    /\ drawer.open => Open

Bodies == {form.bodies[tab] : tab \in Tabs} \cup {sent[tab] : tab \in Tabs}
\* Whatever is picked, copied, browsed, typed or switched, in any order, the
\* config of the dialog and of the saves is one written for its resolver.
ConfigOfItsResolver == \A body \in Bodies : body.config.of = body.resolver
\* The retry config is one of the retry mode, and the mode is declared by the
\* engine unless the row that is edited came with both.
RetryOfItsMode ==
    \A body \in Bodies :
        /\ body.params.of = body.retry
        /\ body.engine # None => \/ body.retry \in Modes[body.engine] \/ (body.retry = None /\ Modes[body.engine] = {})
                                 \/ \E id \in DOMAIN Profiles : Profiles[id].engine = body.engine /\ Profiles[id].retry = body.retry
\* What the panel offers answers what it is asked now, however late an answer
\* comes: of a search the words applied, of a catalog everything.
OffersAnswerSearch ==
    drawer.open => \A page \in Held :
        /\ page.answers.resolver = Body.resolver
        /\ Browses[Body.resolver] = "search" => page.answers.query = drawer.applied
==============================================================================
