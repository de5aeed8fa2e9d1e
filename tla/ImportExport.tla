---------------------------- MODULE ImportExport ----------------------------
(***************************************************************************)
(* Moving profiles and scheduled recordings between instances: the export  *)
(* and import panels (import-export-view), the bundle the panel sends      *)
(* (api/domain/bundle), and what the core answers when it validates,       *)
(* applies or exports one (routers/import_export). An engine and a         *)
(* resolver reference are one plugin reference; a name is a text and the   *)
(* numbers it ends in: p_2_3 is p with 2 and 3.                            *)
(***************************************************************************)
EXTENDS Naturals, Sequences, FiniteSets, SequencesExt

CONSTANTS
    Bundles,      \* the bundles a person may load
    BadBundle,    \* a text that is no bundle of this version, or holds too many items
    NoBundle,     \* nothing
    Installed,    \* the installed plugins, each a hash and a name
    StartProfiles,\* the person's profiles to begin with
    MaxLoads,     \* bound: bundles loaded
    MaxChoices,   \* bound: choices made for the items of a report
    MaxApplies    \* bound: imports applied

VARIABLES
    profiles,   \* the person's profiles in the core
    autoruns,   \* the scheduled recordings the imports made
    staged,     \* the bundle the panel holds
    report,     \* the validation it shows
    choices,    \* what the person chose for the items of the report
    fetching,   \* bundles being read from a URL
    checking,   \* bundles being validated
    body,       \* the import being applied
    importBudget

importVars == <<profiles, autoruns, staged, report, choices, fetching, checking, body, importBudget>>

NoPlugin == [hash |-> "", name |-> ""]
NoReport == [of |-> NoBundle, rows |-> {}, items |-> <<>>]
NoBody == [of |-> NoBundle]
Plain == [included |-> TRUE, plugin |-> NoPlugin, profile |-> "as is"]

Named(rows, name) == {row \in rows : row.name = name}
\* The one found by a name: of several, the last of the table.
Existing(rows, name) == {row \in Named(rows, name) : \A other \in Named(rows, name) : other.id <= row.id}
\* base_2, base_3, ...; when all are taken, the last of them once more.
LastNumber == 199
Numbered(name, n) == [name EXCEPT !.numbers = Append(@, n)]
Free(rows, name, n) == Named(rows, Numbered(name, n)) = {}
UniqueNumber(rows, name) ==
    IF \E n \in 2 .. LastNumber : Free(rows, name, n)
    THEN CHOOSE n \in 2 .. LastNumber : Free(rows, name, n) /\ \A k \in 2 .. n - 1 : ~Free(rows, name, k)
    ELSE LastNumber
UniqueName(rows, name) == Numbered(name, UniqueNumber(rows, name))
NameFor(rows, entry) == IF Existing(rows, entry.name) = {} THEN entry.name ELSE UniqueName(rows, entry.name)
ByHash(ref) == {p \in Installed : p.hash = ref.hash}
ByName(ref) == {p \in Installed : p.name = ref.name}

\* ---- what the core answers ----
PluginIssue(ref) ==
    IF ref = NoPlugin \/ ByHash(ref) # {} THEN {} ELSE IF ByName(ref) # {} THEN {"hash_mismatch"} ELSE {"not_installed"}
SameProfile(row, entry) == row.plugin.hash = entry.plugin.hash /\ row.content = entry.content

ProfileItem(rows, entry) ==
    LET taken == Existing(rows, entry.name)
        same == \E row \in taken : SameProfile(row, entry)
    IN [kind |-> "profile", name |-> entry.name, plugin |-> entry.plugin,
        issues |-> PluginIssue(entry.plugin) \cup (IF taken = {} THEN {} ELSE IF same THEN {"already_exists"} ELSE {"name_conflict"}),
        becomes |-> IF same THEN {} ELSE {NameFor(rows, entry)}]
AutorunItem(rows, bundle, entry) ==
    [kind |-> "autorun", name |-> entry.name, plugin |-> entry.override,
     issues |-> PluginIssue(entry.override)
        \cup (IF Named(rows, entry.profile) = {} /\ \A i \in DOMAIN bundle.profiles : bundle.profiles[i].name # entry.profile
              THEN {"profile_missing"} ELSE {}),
     becomes |-> {}]
Validate(rows, bundle) ==
    [i \in DOMAIN bundle.profiles |-> ProfileItem(rows, bundle.profiles[i])]
    \o [i \in DOMAIN bundle.autoruns |-> AutorunItem(rows, bundle, bundle.autoruns[i])]

\* A mapped hash, else the plugin of that hash, else one of that name.
ResolveWithMap(ref, map) ==
    IF \E m \in map : m.hash = ref.hash THEN (CHOOSE m \in map : m.hash = ref.hash).plugin
    ELSE IF ByHash(ref) # {} THEN CHOOSE p \in ByHash(ref) : TRUE
    ELSE IF ByName(ref) # {} THEN CHOOSE p \in ByName(ref) : TRUE
    ELSE NoPlugin

\* What an import knows the profiles it made by.
With(created, names, rows) == [name \in DOMAIN created |-> IF name \in names THEN rows ELSE created[name]]
\* Mutant: a profile that is there already is imported under a new name.
ImportProfileAgain(so, entry, map) ==
    LET taken == Existing(so.rows, entry.name)
        plugin == ResolveWithMap(entry.plugin, map)
        row == [id |-> Cardinality(so.rows) + 1, name |-> NameFor(so.rows, entry), plugin |-> plugin, content |-> entry.content]
    IN IF so.refused THEN so
       ELSE IF plugin = NoPlugin THEN [so EXCEPT !.refused = TRUE]
       ELSE [so EXCEPT !.rows = @ \cup {row}, !.created = With(@, {entry.name, row.name}, {row})]
\* Skipped when the very same profile is there, renamed when another is.
ImportProfile(so, entry, map) ==
    LET taken == Existing(so.rows, entry.name)
        plugin == ResolveWithMap(entry.plugin, map)
        row == [id |-> Cardinality(so.rows) + 1, name |-> NameFor(so.rows, entry), plugin |-> plugin, content |-> entry.content]
    IN IF so.refused THEN so
       ELSE IF \E old \in taken : SameProfile(old, entry) THEN [so EXCEPT !.created = With(@, {entry.name}, taken)]
       ELSE IF plugin = NoPlugin THEN [so EXCEPT !.refused = TRUE]
       ELSE [so EXCEPT !.rows = @ \cup {row}, !.created = With(@, {entry.name, row.name}, {row})]
\* A recording whose window has opened is left out; it takes the profile this
\* import made or found for the name the entry states, else the one of that name.
ImportAutorun(so, entry, map) ==
    LET made == so.created[entry.profile]
        linked == IF made # {} THEN made ELSE Existing(so.rows, entry.profile)
    IN
    IF so.refused \/ entry.started THEN so
    ELSE IF linked = {} \/ (entry.override # NoPlugin /\ ResolveWithMap(entry.override, map) = NoPlugin)
    THEN [so EXCEPT !.refused = TRUE]
    ELSE [so EXCEPT !.made = Append(@, [name |-> entry.name, profile |-> CHOOSE row \in linked : TRUE])]
\* One commit at the end: a refusal leaves nothing behind.
NothingYet(rows, bundle) ==
    LET names == {bundle.profiles[i].name : i \in DOMAIN bundle.profiles}
                   \cup {bundle.autoruns[i].profile : i \in DOMAIN bundle.autoruns}
    IN [rows |-> rows, created |-> [name \in names |-> {}], made |-> <<>>, refused |-> FALSE]
NextProfile(so, sent, entry) ==
    IF entry.name \in sent.removedProfiles THEN so ELSE ImportProfile(so, entry, sent.map)
NextAutorun(so, sent, entry) ==
    IF entry.name \in sent.removedAutoruns THEN so ELSE ImportAutorun(so, entry, sent.map)
Apply(rows, sent) ==
    LET entries == sent.bundle.profiles
        runs == sent.bundle.autoruns
        first[n \in 0 .. Len(entries)] ==
            IF n = 0 THEN NothingYet(rows, sent.bundle) ELSE NextProfile(first[n - 1], sent, entries[n])
        then[n \in 0 .. Len(runs)] ==
            IF n = 0 THEN first[Len(entries)] ELSE NextAutorun(then[n - 1], sent, runs[n])
    IN then[Len(runs)]

\* What an export of a profile, and of several, holds.
ProfileEntry(row) == [name |-> row.name, plugin |-> row.plugin, content |-> row.content]
MergeBundles(rows) ==
    LET order == SetToSeq(rows) IN [profiles |-> [i \in DOMAIN order |-> ProfileEntry(order[i])], autoruns |-> <<>>]

\* ---- the panel ----
Key(item) == <<item.kind, item.name>>
ChoiceOf(item) == IF Key(item) \in DOMAIN choices THEN choices[Key(item)] ELSE Plain
Excluded(items, kind) == {items[i].name : i \in {j \in DOMAIN items : items[j].kind = kind /\ ~ChoiceOf(items[j]).included}}
Mapped(items) ==
    {[hash |-> items[i].plugin.hash, plugin |-> ChoiceOf(items[i]).plugin] :
        i \in {j \in DOMAIN items : /\ items[j].issues \cap {"not_installed", "hash_mismatch"} # {} /\ ChoiceOf(items[j]).included
                                    /\ ChoiceOf(items[j]).plugin # NoPlugin /\ items[j].plugin.hash # ""}}
\* The edited bundle. Binding a recording to a profile, or leaving its profile
\* inline, rewrites the profile the entry embeds, which the core does not read.
BuildApplyBody(bundle, items) ==
    [of |-> bundle, bundle |-> Bundles[bundle], map |-> Mapped(items),
     removedProfiles |-> Excluded(items, "profile"), removedAutoruns |-> Excluded(items, "autorun"),
     report |-> report, choices |-> choices]

ImportInit ==
    /\ profiles = StartProfiles /\ autoruns = <<>>
    /\ staged = NoBundle /\ report = NoReport /\ choices = <<>>
    /\ fetching = {} /\ checking = {} /\ body = NoBody
    /\ importBudget = [loads |-> MaxLoads, choices |-> MaxChoices, applies |-> MaxApplies]

Spend(what) == importBudget[what] > 0 /\ importBudget' = [importBudget EXCEPT ![what] = @ - 1]

ClearStaged == staged' = NoBundle /\ report' = NoReport /\ choices' = <<>>
Stage(b) ==
    IF b = BadBundle THEN ClearStaged /\ UNCHANGED checking
    ELSE staged' = b /\ report' = NoReport /\ choices' = <<>> /\ checking' = checking \cup {b}

\* A chosen or dropped file, or pasted text, once it is read.
LoadFile(b) ==
    /\ Spend("loads") /\ Stage(b)
    /\ UNCHANGED <<profiles, autoruns, fetching, body>>
FetchUrl(b) ==
    /\ Spend("loads") /\ fetching = {} /\ fetching' = {b}
    /\ UNCHANGED <<profiles, autoruns, staged, report, choices, checking, body>>
FetchLands(b) ==
    /\ b \in fetching /\ fetching' = {}
    /\ Stage(b) \/ UNCHANGED <<staged, report, choices, checking>>
    /\ UNCHANGED <<profiles, autoruns, body, importBudget>>
RemoveFile ==
    /\ staged # NoBundle /\ ClearStaged
    /\ UNCHANGED <<profiles, autoruns, fetching, checking, body, importBudget>>

\* Each validation's answer is shown when it arrives, whichever bundle the
\* panel holds by then.
CheckLands(b) ==
    /\ b \in checking /\ checking' = checking \ {b}
    /\ \/ report' = [of |-> b, rows |-> profiles, items |-> Validate(profiles, Bundles[b])] /\ choices' = <<>>
       \/ UNCHANGED <<report, choices>>
    /\ UNCHANGED <<profiles, autoruns, staged, fetching, body, importBudget>>

Choose(key, choice) ==
    choices' = [k \in DOMAIN choices \cup {key} |-> IF k = key THEN choice ELSE choices[k]]
Include(item) ==
    /\ Choose(Key(item), [ChoiceOf(item) EXCEPT !.included = ~@])
MapPlugin(item, p) ==
    /\ item.issues \cap {"not_installed", "hash_mismatch"} # {}
    /\ Choose(Key(item), [ChoiceOf(item) EXCEPT !.plugin = p])
Bind(item, how) ==
    /\ "profile_missing" \in item.issues
    /\ Choose(Key(item), [ChoiceOf(item) EXCEPT !.profile = how])
Resolution ==
    /\ Spend("choices")
    /\ \E i \in DOMAIN report.items :
          LET item == report.items[i] IN
          Include(item) \/ (\E p \in Installed : MapPlugin(item, p)) \/ Bind(item, "inline") \/ (profiles # {} /\ Bind(item, "bound"))
    /\ UNCHANGED <<profiles, autoruns, staged, report, fetching, checking, body>>

RunApply ==
    /\ staged # NoBundle /\ report # NoReport /\ body = NoBody /\ Spend("applies")
    /\ body' = BuildApplyBody(staged, report.items)
    /\ UNCHANGED <<profiles, autoruns, staged, report, choices, fetching, checking>>

Answer == Apply(profiles, body)
\* The panel is cleared, and whatever was loaded into it meanwhile with it.
Applied ==
    /\ body # NoBody /\ ~Answer.refused
    /\ profiles' = Answer.rows /\ autoruns' = autoruns \o Answer.made
    /\ body' = NoBody
    /\ ClearStaged
    /\ UNCHANGED <<fetching, checking, importBudget>>
\* Applied, but the answer is lost: the panel says it failed and keeps all.
AppliedUnheard ==
    /\ body # NoBody /\ ~Answer.refused
    /\ profiles' = Answer.rows /\ autoruns' = autoruns \o Answer.made
    /\ body' = NoBody
    /\ UNCHANGED <<staged, report, choices, fetching, checking, importBudget>>
ApplyRefused ==
    /\ body # NoBody /\ Answer.refused /\ body' = NoBody
    /\ UNCHANGED <<profiles, autoruns, staged, report, choices, fetching, checking, importBudget>>

ImportNext ==
    \/ \E b \in DOMAIN Bundles \cup {BadBundle} : LoadFile(b) \/ FetchUrl(b) \/ FetchLands(b)
    \/ \E b \in DOMAIN Bundles : CheckLands(b)
    \/ RemoveFile \/ Resolution \/ RunApply \/ Applied \/ AppliedUnheard \/ ApplyRefused

ImportSpec == ImportInit /\ [][ImportNext]_importVars

-----------------------------------------------------------------------------
\* Each variable has its type.
ImportTypeOK ==
    /\ staged \in DOMAIN Bundles \cup {NoBundle} /\ report.of \in DOMAIN Bundles \cup {NoBundle}
    /\ fetching \subseteq DOMAIN Bundles \cup {BadBundle} /\ checking \subseteq DOMAIN Bundles
    /\ \A row \in profiles : row.plugin \in Installed /\ row.id \in 1 .. Cardinality(profiles)

\* The items a report announces profiles for, those left out apart.
Announced(items, removed) ==
    {i \in DOMAIN items : items[i].kind = "profile" /\ items[i].becomes # {} /\ items[i].name \notin removed}
\* The names and renames the panel previews are the ones the import makes
\* (bundle.ts:18), when the report shown is of the bundle that is sent, nothing
\* was imported in between, and the report announces no name twice and none
\* that is taken.
ImportedAsPreviewedStep ==
    LET items == body.report.items
        due == Announced(items, body.removedProfiles)
    IN body # NoBody /\ profiles' # profiles /\ body.report.of = body.of /\ body.report.rows = profiles
          /\ (\A i, j \in due : i # j => items[i].becomes # items[j].becomes)
          /\ (\A row \in profiles : \A i \in due : row.name \notin items[i].becomes) =>
             {row.name : row \in profiles' \ profiles} = UNION {items[i].becomes : i \in due}

\* No import takes a name that is taken, by a profile there was or by one it
\* made itself, until the numbers are used up (import_export.py:522).
EndsInLast(name) == name.numbers # <<>> /\ name.numbers[Len(name.numbers)] = LastNumber
NewNamesAreFreeStep ==
    \A row \in profiles' \ profiles : Named(profiles', row.name) = {row} \/ EndsInLast(row.name)

\* Nothing the person left out is imported, not even when the report shown
\* was of another bundle: every profile made is of an entry that was not left
\* out, and so is every recording.
MadeOf(row, entry) ==
    /\ row.content = entry.content
    /\ row.name = entry.name \/ \E n \in 2 .. LastNumber : row.name = Numbered(entry.name, n)
ExcludedStaysOutStep ==
    body # NoBody /\ body' = NoBody =>
        \A key \in DOMAIN body.choices :
           LET entries == body.bundle.profiles IN
           /\ ~body.choices[key].included /\ key[1] = "profile" =>
                 \A row \in profiles' \ profiles : \E i \in DOMAIN entries : entries[i].name # key[2] /\ MadeOf(row, entries[i])
           /\ ~body.choices[key].included /\ key[1] = "autorun" =>
                 \A i \in DOMAIN autoruns' : i > Len(autoruns) => autoruns'[i].name # key[2]

\* An import that is made again (the answer to the first was lost) makes no
\* profile again, when the plugins it names are installed and no name was taken.
RepeatMakesNoProfileStep ==
    body # NoBody /\ body' = NoBody /\ ~Answer.refused
    /\ (\A i \in DOMAIN body.bundle.profiles :
           LET entry == body.bundle.profiles[i] IN
           /\ ByHash(entry.plugin) # {} /\ \A m \in body.map : m.hash # entry.plugin.hash
           /\ \A row \in Existing(profiles, entry.name) : SameProfile(row, entry)
           /\ \A j \in DOMAIN body.bundle.profiles : body.bundle.profiles[j].name = entry.name => body.bundle.profiles[j] = entry) =>
        Apply(Answer.rows, body).rows = Answer.rows

\* Exporting profiles and importing the file where it came from changes
\* nothing, namesakes apart.
ExportImportsBack(rows) ==
    LET own == {row \in rows : row \in Existing(rows, row.name)}
        sent == [bundle |-> MergeBundles(own), map |-> {}, removedProfiles |-> {}, removedAutoruns |-> {}]
    IN Apply(rows, sent).rows = rows
\* It is looked at before and after an import.
ExportImportsBackStep == profiles' # profiles => ExportImportsBack(profiles) /\ ExportImportsBack(profiles')
==============================================================================
