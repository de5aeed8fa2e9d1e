------------------------------ MODULE MCConsole ------------------------------
(***************************************************************************)
(* Values for the pages of the console.                                    *)
(***************************************************************************)
EXTENDS Console

\* Two engines, two resolvers, two configs, two profiles, the first with a
\* chain stored before rungs existed.
NoRung == [profile |-> "none", engine |-> "none", resolver |-> "none", config |-> "none"]
ChainBases ==
    {[profile |-> "none", engine |-> "e1", resolver |-> "r1", config |-> "{}", retry |-> "none"],
     [profile |-> "none", engine |-> "e1", resolver |-> "r2", config |-> "c", retry |-> "none"]}
ChainDrafts ==
    {[NoRung EXCEPT !.profile = "p1"], [NoRung EXCEPT !.engine = "e2"],
     [NoRung EXCEPT !.resolver = "r1", !.config = "c"], [NoRung EXCEPT !.resolver = "r2", !.config = "c"],
     [NoRung EXCEPT !.profile = "p2", !.resolver = "r2", !.config = "{}"]}
ChainRows ==
    [p1 |-> [engine |-> "e1", resolver |-> "r1", config |-> "c", old |-> TRUE, profileIds |-> <<"p2">>,
             sources |-> <<[resolver |-> "r2", config |-> "none"]>>, rungs |-> <<>>],
     p2 |-> [engine |-> "e2", resolver |-> "r2", config |-> "c", old |-> FALSE, profileIds |-> <<>>, sources |-> <<>>,
             rungs |-> <<[NoRung EXCEPT !.engine = "e1"]>>]]
ChainEdited ==
    [engine |-> "e1", resolver |-> "r2", config |-> "{}", old |-> FALSE, profileIds |-> <<>>, sources |-> <<>>, rungs |-> <<>>]

\* Two items: one the administrator owns, one whose owner was granted access
\* before being handed the crown.
Barely == [crown |-> "nobody", owners |-> {}, grants |-> [p \in {"u1", "u2", "g"} |-> {}]]
ItemAccess ==
    [i1 |-> [Barely EXCEPT !.crown = "u1", !.grants["u2"] = {"VIEW", "EDIT"}],
     i2 |-> [Barely EXCEPT !.crown = "u2", !.owners = {"u1"}, !.grants["u2"] = {"VIEW"}]]
AccessCapabilities == <<"VIEW", "OPERATE", "EDIT">>
AccessOthersWrite == {<<"u2", {"OPERATE"}>>, <<"g", {"VIEW"}>>}

\* Three bundles: an export of this instance, one from an instance whose
\* plugin has another version and whose profile differs, with a second profile
\* that has the name the first would get, and one whose recording names a
\* profile that is nowhere.
Called(text, numbers) == [text |-> text, numbers |-> numbers]
BundleProfile(name, hash, plugin, content) == [name |-> name, plugin |-> [hash |-> hash, name |-> plugin], content |-> content]
BundleAutorun(name, profile, override, started) == [name |-> name, profile |-> profile, override |-> override, started |-> started]
NoPlugin == [hash |-> "", name |-> ""]
SomeBundles ==
    [own |-> [profiles |-> <<BundleProfile(Called("n1", <<>>), "h1", "p1", "c1"), BundleProfile(Called("n2", <<>>), "h2", "p2", "c1")>>,
              autoruns |-> <<BundleAutorun("r1", Called("n1", <<>>), NoPlugin, FALSE), BundleAutorun("r2", Called("n2", <<>>), NoPlugin, TRUE)>>],
     other |-> [profiles |-> <<BundleProfile(Called("n1", <<>>), "h3", "p1", "c2"), BundleProfile(Called("n1", <<2>>), "h1", "p1", "c1")>>,
                autoruns |-> <<BundleAutorun("r1", Called("n1", <<>>), [hash |-> "h4", name |-> "p4"], FALSE)>>],
     stray |-> [profiles |-> <<>>, autoruns |-> <<BundleAutorun("r3", Called("n3", <<>>), NoPlugin, FALSE)>>]]
OwnProfiles == {[id |-> 1, name |-> Called("n1", <<>>), plugin |-> [hash |-> "h1", name |-> "p1"], content |-> "c1"]}
InstalledPlugins == {[hash |-> "h1", name |-> "p1"], [hash |-> "h2", name |-> "p2"]}

\* Two rows to begin with, one of them not the person's to change.
ListRows ==
    {[id |-> 1, birth |-> 1, status |-> "open", profile |-> "own"], [id |-> 2, birth |-> 1, status |-> "open", profile |-> "own"]}

\* Two engines, one of which declares no retry mode; two resolvers; a profile
\* whose retry mode its engine no longer declares.
EngineModes == [e1 |-> {"none", "fast"}, e2 |-> {}]
ResolverBrowses == [r1 |-> "catalog", r2 |-> "search"]
PresetRows == [p1 |-> [engine |-> "e1", resolver |-> "r1", retry |-> "old"]]
SourceRows == [s1 |-> "r2"]
==============================================================================
