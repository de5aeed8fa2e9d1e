---------------------------- MODULE FallbackChain ----------------------------
(***************************************************************************)
(* The web console's rules for a fallback chain (api/domain/fallback-chain *)
(* and fallback-sources): what a rung stands for, which rungs can never    *)
(* advance, and which are dropped when the capture before them moves.      *)
(* Rows are named by model values; a config is a value, so that two forms  *)
(* of one config (canonicalJson) are one value; the retry mode and its     *)
(* config are one value.                                                   *)
(***************************************************************************)
EXTENDS Naturals, Sequences, SequencesExt

CONSTANTS Engines, Resolvers, Profiles, Configs,
    EmptyConfig,  \* the config {}, one of Configs
    None          \* what a rung or a form leaves out, none of the others

Named(S) == S \cup {None}
Rung == [profile : Named(Profiles), engine : Named(Engines), resolver : Named(Resolvers), config : Named(Configs)]
Blank == [profile |-> None, engine |-> None, resolver |-> None, config |-> None]
Capture == [profile : Named(Profiles), engine : Engines, resolver : Resolvers, config : Configs, retry : Named(Profiles)]
NoCapture == [profile |-> None, engine |-> None, resolver |-> None, config |-> None, retry |-> None]

Or(value, default) == IF value = None THEN default ELSE value

RungNames(rung) == rung # Blank

\* Out of range is a no-op; otherwise the rung takes its new place.
MoveRung(rungs, from, to) ==
    IF {from, to} \subseteq DOMAIN rungs THEN InsertAt(RemoveAt(rungs, from), to, rungs[from]) ELSE rungs

\* The two lists that predate rungs, profiles first.
FoldLegacy(profileIds, sources) ==
    [i \in DOMAIN profileIds |-> [Blank EXCEPT !.profile = profileIds[i]]] \o
    [i \in DOMAIN sources |-> [Blank EXCEPT !.resolver = sources[i].resolver, !.config = sources[i].config]]

\* A row holds a chain, or the two old lists when nothing saved one yet.
ChainOf(row) == IF row.old THEN FoldLegacy(row.profileIds, row.sources) ELSE row.rungs

\* The capture of a profile: its own fields; its retry policy is named by it.
ProfileBase(id, profile) ==
    [profile |-> id, engine |-> profile.engine, resolver |-> profile.resolver, config |-> profile.config, retry |-> id]

CaptureKey(capture) == <<capture.engine, capture.resolver, capture.config>>

Missing(kind) == [kind |-> kind, capture |-> NoCapture]
\* Mutant: a rung that names no config runs the run's own, whatever its profile or resolver.
ConfigOfInherits(rung, own, catalog) == Or(rung.config, own.config)
\* A config belongs to the resolver it configures: it is carried over from
\* the run's own capture only while the resolver is still the run's own.
ConfigOf(rung, own, catalog) ==
    IF rung.config # None THEN rung.config
    ELSE IF rung.profile # None THEN catalog.profiles[rung.profile].config
    ELSE IF Or(rung.resolver, own.resolver) # own.resolver THEN EmptyConfig
    ELSE own.config

\* One rung as the capture it stands for: a patch over its profile, or else
\* over the run's own capture.
ResolveRung(rung, own, catalog) ==
    IF rung.profile \notin DOMAIN catalog.profiles \cup {None} THEN Missing("profile-missing")
    ELSE LET base == IF rung.profile = None THEN own ELSE ProfileBase(rung.profile, catalog.profiles[rung.profile])
             engine == Or(rung.engine, base.engine)
             resolver == Or(rung.resolver, base.resolver)
         IN IF engine \notin catalog.engines THEN Missing("engine-missing")
            ELSE IF resolver \notin catalog.resolvers THEN Missing("resolver-missing")
            ELSE [kind |-> "ok",
                  capture |-> [profile |-> rung.profile, engine |-> engine, resolver |-> resolver,
                               config |-> ConfigOf(rung, own, catalog), retry |-> base.retry]]

NoProblem == [kind |-> "none", first |-> 0]

\* Mutant: a rung is compared with the later ones as well.
RepeatsEither(built, i) ==
    {j \in DOMAIN built \ {i} : built[j].kind = "ok" /\ CaptureKey(built[j].capture) = CaptureKey(built[i].capture)}
\* The earlier rungs that stand for the same capture.
Repeats(built, i) ==
    {j \in 1 .. i - 1 : built[j].kind = "ok" /\ CaptureKey(built[j].capture) = CaptureKey(built[i].capture)}

\* Every rung with the capture it stands for and its own problem: a problem
\* does not stop the walk and does not hide a later one.
ResolveChain(rungs, own, catalog) ==
    LET built == [i \in DOMAIN rungs |->
                     IF RungNames(rungs[i]) THEN ResolveRung(rungs[i], own, catalog) ELSE Missing("empty")]
        Problem(i) ==
            IF built[i].kind # "ok" THEN [kind |-> built[i].kind, first |-> 0]
            ELSE IF CaptureKey(built[i].capture) = CaptureKey(own) THEN [kind |-> "primary", first |-> 0]
            ELSE LET earlier == Repeats(built, i)
                 IN IF earlier = {} THEN NoProblem
                    ELSE [kind |-> "duplicate", first |-> CHOOSE j \in earlier : \A k \in earlier : j <= k]
    IN [i \in DOMAIN rungs |-> [rung |-> rungs[i], capture |-> built[i].capture, problem |-> Problem(i)]]

Problems(steps) == {i \in DOMAIN steps : steps[i].problem # NoProblem}
\* The members of s at the places named, in their order.
At(s, places) ==
    LET upto[n \in 0 .. Len(s)] ==
            IF n = 0 THEN <<>> ELSE IF n \in places THEN Append(upto[n - 1], s[n]) ELSE upto[n - 1]
    IN upto[Len(s)]
Standing(steps) == At(steps, DOMAIN steps \ Problems(steps))
Captures(steps) == LET standing == Standing(steps) IN [i \in DOMAIN standing |-> standing[i].capture]

Prunable(step) == step.problem.kind \in {"primary", "duplicate", "empty"}

\* A chain without the rungs that can never advance, pass after pass until
\* no pass drops one.
PruneOnce(rungs, own, catalog) ==
    LET steps == ResolveChain(rungs, own, catalog) IN At(rungs, {i \in DOMAIN rungs : ~Prunable(steps[i])})
PruneChain(rungs, own, catalog) ==
    LET after[n \in 0 .. Len(rungs)] == IF n = 0 THEN rungs ELSE PruneOnce(after[n - 1], own, catalog)
    IN after[Len(rungs)]

\* What a rung changes of the capture it patches: only a rung that names a
\* profile takes one.
RungChanges(capture, own) ==
    {field \in {"profile", "source", "engine"} :
        CASE field = "profile" -> capture.profile \notin {None, own.profile}
          [] field = "source" -> <<capture.resolver, capture.config>> # <<own.resolver, own.config>>
          [] field = "engine" -> capture.engine # own.engine}
==============================================================================
