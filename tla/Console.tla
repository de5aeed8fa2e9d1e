------------------------------- MODULE Console -------------------------------
(***************************************************************************)
(* The pages of the console. The router shows one page at a time, and what *)
(* a page keeps dies with it, so a behaviour is one visit to one page: the *)
(* cells hold the variables of the module of that page, in the order in    *)
(* which it declares them.                                                 *)
(***************************************************************************)
EXTENDS Naturals, Sequences, FiniteSets

CONSTANTS
    \* the chain editor (ChainForm)
    None, EmptyConfig, Engines, Resolvers, Configs, ChainProfiles, Bases, Drafts, ProfileRows, Edited,
    MaxRungs, MaxEdits, MaxChanges,
    \* the access panels (AccessForms)
    People, Groups, Capabilities, Offered, Nobody, Items, Cached, NewItem, Me, StartAccess, OthersWrite,
    MaxPanels, MaxAccessEdits, MaxForeign, MaxAccessFailures,
    \* import and export (ImportExport)
    Bundles, BadBundle, NoBundle, Installed, StartProfiles, MaxLoads, MaxChoices, MaxApplies,
    \* the lists (ManagedLists)
    RowIds, StartRows, Protected, MaxBirths, MaxEvents, MaxOrders, MaxReads,
    \* the scheduled recording (AutorunForm)
    FormProfiles, Custom, MaxTime, MaxFormEdits, MaxSaves, MaxOthers, MaxRefreshes,
    \* the presets dialog (PresetForm)
    Modes, Browses, PresetProfiles, Sources, Unpicked, MaxDialogs, MaxTyped, MaxSent,
    \* the page of a session (SessionPage)
    PlanLength, MaxAttempts, MaxPresses, MaxLost,
    \* the dialog that starts one (NewSession)
    Startable, Nothing, MaxOpened, MaxPicked, MaxPressed, MaxUnheard,
    \* the preview on its card (SessionPreview)
    Urls, NoUrl, MaxMounts, MaxMoves

\* The profiles and saved sources the presets dialog is given name engines and
\* resolvers there are.
ASSUME PresetAssumption ==
    /\ \A id \in DOMAIN PresetProfiles :
          /\ PresetProfiles[id].engine \in DOMAIN Modes \cup {Unpicked}
          /\ PresetProfiles[id].resolver \in DOMAIN Browses \cup {Unpicked}
    /\ \A id \in DOMAIN Sources : Sources[id] \in DOMAIN Browses \cup {Unpicked}
\* A schedule may be made from a profile, and a row that is not there has no status.
ASSUME FormAssumption ==
    /\ FormProfiles # {} /\ None \notin {"scheduled", "active", "terminating", "completed"}
    /\ {MaxTime, MaxFormEdits, MaxSaves, MaxOthers, MaxRefreshes} \subseteq Nat
\* Rows are numbered from one, and those there are to begin with are the first
\* to carry their ids.
ListRow == [id : RowIds, birth : 1 .. MaxBirths, status : {"open", "spent"}, profile : {"own", "chosen"}]
ASSUME ListsAssumption ==
    /\ MaxBirths \in Nat /\ RowIds \subseteq Nat
    /\ StartRows \subseteq ListRow
    /\ \A row \in StartRows : row.birth = 1
    /\ \A a, b \in StartRows : a.id = b.id => a = b
\* A card may show its preview once.
ASSUME MountsAssumption == MaxMounts \in Nat \ {0}

VARIABLES page, c1, c2, c3, c4, c5, c6, c7, c8, c9, c10, c11, c12, c13
cells == <<page, c1, c2, c3, c4, c5, c6, c7, c8, c9, c10, c11, c12, c13>>

-----------------------------------------------------------------------------
\* The pages. A constant of a page has its own name, or another where two
\* pages use one name for two things.
Chain == INSTANCE ChainForm WITH
            rows <- c1, lookups <- c2, form <- c3, touched <- c4, fresh <- c5, request <- c6, ran <- c7, edits <- c8, changes <- c9,
            Profiles <- ChainProfiles
Access == INSTANCE AccessForms WITH
            held <- c1, known <- c2, seen <- c3, panel <- c4, sending <- c5, moved <- c6, accessBudget <- c7
Imports == INSTANCE ImportExport WITH
            profiles <- c1, autoruns <- c2, staged <- c3, report <- c4, choices <- c5, fetching <- c6, checking <- c7, body <- c8,
            importBudget <- c9
Lists == INSTANCE ManagedLists WITH
            panel <- c1, held <- c2, shown <- c3, reading <- c4, ticked <- c5, scope <- c6, search <- c7, asked <- c8, work <- c9,
            bundle <- c10, births <- c11, gone <- c12, listBudget <- c13
Autorun == INSTANCE AutorunForm WITH
            row <- c1, profiles <- c2, clock <- c3, seen <- c4, listed <- c5, form <- c6, save <- c7, menu <- c8, formBudget <- c9,
            Profiles <- FormProfiles
Presets == INSTANCE PresetForm WITH
            form <- c1, drawer <- c2, pages <- c3, asking <- c4, sent <- c5, presetBudget <- c6,
            Profiles <- PresetProfiles, None <- Unpicked
Detail == INSTANCE SessionPage WITH
            row <- c1, seen <- c2, reading <- c3, sent <- c4, confirming <- c5, naming <- c6, pageBudget <- c7
Starter == INSTANCE NewSession WITH
            loaded <- c1, starter <- c2, latched <- c3, creating <- c4, started <- c5, unheard <- c6, startBudget <- c7,
            StartProfiles <- Startable
Preview == INSTANCE SessionPreview WITH
            card <- c1, video <- c2, mounted <- c3, made <- c4, cardBudget <- c5

\* The profiles there are, and the one somebody else makes of one, name
\* plugins that are installed; what a person fills in and a stored chain is
\* within the bounds; and what is left out is none of the things there are.
StoredSource == [resolver : Chain!Named(Resolvers), config : Chain!Named(Configs)]
StoredProfile ==
    [engine : Engines, resolver : Resolvers, config : Configs, old : BOOLEAN, profileIds : Seq(ChainProfiles),
     sources : Seq(StoredSource), rungs : Seq(Chain!Rung)]
ASSUME ChainAssumption ==
    /\ None \notin ChainProfiles \cup Engines \cup Resolvers \cup Configs /\ EmptyConfig \in Configs
    /\ Bases \subseteq Chain!Capture /\ Drafts \subseteq Chain!Rung
    /\ DOMAIN ProfileRows \subseteq ChainProfiles
    /\ \A row \in {ProfileRows[p] : p \in DOMAIN ProfileRows} \cup {Edited} :
          row \in StoredProfile /\ Len(Chain!ChainOf(row)) <= MaxRungs
    /\ {MaxRungs, MaxEdits, MaxChanges} \subseteq Nat

\* There are finitely many accounts, groups and items, and neither of the two
\* marks is one of them; who may do anything may view, as the core has it.
ASSUME AccessAssumption ==
    /\ IsFiniteSet(People) /\ IsFiniteSet(Groups) /\ IsFiniteSet(Items) /\ NewItem \notin Items
    /\ Me \in People /\ Nobody \notin People \cup Groups /\ "unread" \notin People \cup Groups \cup {Nobody}
    /\ Capabilities \in Seq(STRING) /\ \E n \in DOMAIN Capabilities : Capabilities[n] = "VIEW"
    /\ StartAccess \in [Items -> Access!Access]
    /\ \A i \in Items, p \in People \cup Groups : StartAccess[i].grants[p] # {} => "VIEW" \in StartAccess[i].grants[p]
    /\ OthersWrite \subseteq (People \cup Groups) \X SUBSET Access!Caps

\* What bundles hold is text, names and references to plugins; the profiles a
\* person has are rows of a table, several of which may have one name.
Plugin == [hash : STRING, name : STRING]
Name == [text : STRING, numbers : Seq(Nat)]
OwnProfile == [id : Nat, name : Name, plugin : Installed, content : STRING]
BundledProfile == [name : Name, plugin : Plugin, content : STRING]
BundledAutorun == [name : STRING, profile : Name, override : Plugin, started : BOOLEAN]
Bundle == [profiles : Seq(BundledProfile), autoruns : Seq(BundledAutorun)]
ASSUME ImportAssumption ==
    /\ Installed \subseteq Plugin /\ NoBundle \notin DOMAIN Bundles
    /\ \A b \in DOMAIN Bundles : Bundles[b] \in Bundle
    /\ IsFiniteSet(StartProfiles) /\ StartProfiles \subseteq OwnProfile
    /\ \A row \in StartProfiles : row.id \in 1 .. Cardinality(StartProfiles)

-----------------------------------------------------------------------------
\* The cells after the k-th, which the page does not use.
Unused(k) ==
    /\ k < 6 => c6 = 0
    /\ k < 7 => c7 = 0
    /\ k < 8 => c8 = 0 /\ c9 = 0
    /\ k < 10 => c10 = 0 /\ c11 = 0 /\ c12 = 0 /\ c13 = 0
ConsoleInit ==
    \/ page = "chain"   /\ Chain!ChainInit     /\ Unused(9)
    \/ page = "access"  /\ Access!AccessInit   /\ Unused(7)
    \/ page = "imports" /\ Imports!ImportInit  /\ Unused(9)
    \/ page = "lists"   /\ Lists!ListsInit
    \/ page = "autorun" /\ Autorun!AutorunInit /\ Unused(9)
    \/ page = "presets" /\ Presets!PresetInit  /\ Unused(6)
    \/ page = "session" /\ Detail!PageInit     /\ Unused(7)
    \/ page = "start"   /\ Starter!StartInit   /\ Unused(7)
    \/ page = "preview" /\ Preview!PreviewInit /\ Unused(5)

Last4 == <<c10, c11, c12, c13>>
ConsoleNext ==
    /\ UNCHANGED page
    /\ \/ page = "chain"   /\ Chain!ChainNext     /\ UNCHANGED Last4
       \/ page = "access"  /\ Access!AccessNext   /\ UNCHANGED <<c8, c9, Last4>>
       \/ page = "imports" /\ Imports!ImportNext  /\ UNCHANGED Last4
       \/ page = "lists"   /\ Lists!ListsNext
       \/ page = "autorun" /\ Autorun!AutorunNext /\ UNCHANGED Last4
       \/ page = "presets" /\ Presets!PresetNext  /\ UNCHANGED <<c7, c8, c9, Last4>>
       \/ page = "session" /\ Detail!PageNext     /\ UNCHANGED <<c8, c9, Last4>>
       \/ page = "start"   /\ Starter!StartNext   /\ UNCHANGED <<c8, c9, Last4>>
       \/ page = "preview" /\ Preview!PreviewNext /\ UNCHANGED <<c6, c7, c8, c9, Last4>>

ConsoleSpec == ConsoleInit /\ [][ConsoleNext]_cells
(***************************************************************************)
(* Properties: one per concern of a page, while that page is shown. Each   *)
(* gathers the invariants of the module of the page and what a step of it  *)
(* keeps (the predicates ...Step), which that module states and explains.  *)
(***************************************************************************)

\* An invariant as part of what a step keeps.
Keeps(P) == P /\ P'

\* The form, the preview and the core agree on a chain. A chain the form
\* accepted is refused by the core only when what the form had read was stale;
\* one sent on fresh lookups becomes the captures the form listed; the profile a
\* finished session is saved as plans the captures it ran; and after another base
\* is picked, only rungs that name something that is gone block the form
\* (resolveChain, pruneChain, fallback_chain.py, save_session_as_profile).
ChainAgrees ==
    [][page = "chain" =>
        /\ Chain!RefusedOnlyWhenStaleStep
        /\ Chain!PlannedAsPreviewedStep
        /\ Chain!SavedProfileRebuildsRunStep
        /\ Chain!PruningUnblocksStep]_cells
\* Editing a chain loses nothing of it. The draft of a card stays with the rung
\* the card stands for, whatever is moved, removed or applied above it, and what
\* is pruned under a new base costs no capture (ChainEditor, pruneChain).
ChainEditsKept ==
    page = "chain" => Chain!ChainTypeOK /\ Chain!PruningCostsNothing /\ Chain!EditsStayWithTheirRung

\* What an access panel announces is what it does. Operations planned on an
\* up-to-date read leave the access shown, the order and the closure of the
\* core's grants included, and leave alone the people nobody changed, whatever
\* was written since; a bulk change that reports success holds on every item
\* and removes no owner; a panel that stays open shows what its own writes left
\* (planAccessOps, resource-access.tsx, permissions_service.py).
AccessAsAsked ==
    [][page = "access" =>
        /\ Keeps(Access!AccessTypeOK /\ Access!PlansEndAsShown)
        /\ Access!OthersWritesSurviveStep
        /\ Access!BulkSuccessIsWholeStep
        /\ Access!BulkKeepsOwnersStep
        /\ Access!DraftsOnOwnWritesStep]_cells

\* An import makes what its report announced, under the names announced, which
\* nothing else has until the numbers are used up, and nothing that was unticked
\* in it; sent again after an answer that was lost it makes no second copy of a
\* profile it left as it was; and what is exported here and imported here
\* changes nothing, namesakes apart (import_preflight, import_bundle).
ImportAsReported ==
    [][page = "imports" =>
        /\ Keeps(Imports!ImportTypeOK)
        /\ Imports!RepeatMakesNoProfileStep
        /\ Imports!ExportImportsBackStep
        /\ Imports!ImportedAsPreviewedStep
        /\ Imports!NewNamesAreFreeStep
        /\ Imports!ExcludedStaysOutStep]_cells

\* Work on many rows at once says what it did. A row the list saw deleted does
\* not come back with a read begun before; what a bulk deletion could not
\* delete stays ticked; a change of profile that reports no failure changed
\* every row asked for; an export that is saved holds every row that was ticked.
BulkWorkIsHonest ==
    [][page = "lists" =>
        /\ Keeps(Lists!ListsTypeOK /\ Lists!RemovedStaysGone)
        /\ Lists!SurvivorsStayTickedStep
        /\ Lists!SetMeansSetStep
        /\ Lists!ExportIsWholeStep]_cells

\* Saving a scheduled recording touches what the person touched. What was typed
\* into a form that stays open is changed by the person alone; a save leaves
\* what it does not send; a flag is cleared only by a save that saw it; and a
\* recording that was started is never scheduled again.
SavesWhatWasTouched ==
    [][page = "autorun" =>
        /\ Keeps(Autorun!AutorunTypeOK)
        /\ Autorun!TypedStaysStep
        /\ Autorun!NeverRearmedStep
        /\ Autorun!UnsentStaysStep
        /\ Autorun!FlagStandsStep]_cells

\* The parts of a preset fit together while others are picked: its config is one
\* written for its resolver, its retry mode one its engine declares, and what
\* the discovery panel offers answers what it is asked now.
PresetFits ==
    page = "presets" =>
        /\ Presets!PresetTypeOK
        /\ Presets!ConfigOfItsResolver
        /\ Presets!RetryOfItsMode
        /\ Presets!OffersAnswerSearch

\* The page of a session is never behind on what matters: its timeline shows
\* every attempt once, also of a capture not filed yet, and what its buttons
\* delete was told to stop or has ended.
PageTellsTheRun ==
    [][page = "session" =>
        /\ Keeps(Detail!PageTypeOK /\ Detail!TimelineLosesNothing)
        /\ Detail!DeleteSparesRunningStep]_cells

\* A dialog that says its session could not be started has started none, unless
\* the answer to the request that started it was lost, and profiles read while it
\* is open change nothing in it.
StarterIsHonest ==
    [][page = "start" =>
        /\ Keeps(Starter!StartTypeOK /\ Starter!ErrorMeansNoSession)
        /\ Starter!LateListsWipeNothingStep]_cells

\* Only the video on the page plays, only while somebody watches it, and as
\* soon as it can.
PreviewFollowsWatcher ==
    page = "preview" => Preview!PreviewTypeOK /\ Preview!PlaysWhatIsWatched /\ Preview!NoCardStuck
==============================================================================
