------------------------------ MODULE CoreChain ------------------------------
(***************************************************************************)
(* The core's own rules for the same chain (services/fallback_chain.py):   *)
(* what a request's chain is resolved to, and how a run's plan is reduced  *)
(* to the rungs that would rebuild it when the run is saved as a profile.  *)
(* It walks the rungs with the keys it has seen; FallbackChain, translated *)
(* from the console, marks each rung by itself. The rows are the core's.   *)
(***************************************************************************)
EXTENDS FallbackChain

\* One rung as a concrete capture; "missing" stands for the three refusals.
SpecFor(own, rung, rows) ==
    LET profile == rung.profile
        known == profile = None \/ profile \in DOMAIN rows.profiles
        Of(field) == IF profile # None THEN rows.profiles[profile][field] ELSE own[field]
        engine == Or(rung.engine, Of("engine"))
        resolver == Or(rung.resolver, Of("resolver"))
        config == IF rung.config # None THEN rung.config
                  ELSE IF profile = None /\ resolver # own.resolver THEN EmptyConfig
                  ELSE Of("config")
    IN IF known /\ engine \in rows.engines /\ resolver \in rows.resolvers
       THEN [ok |-> TRUE, spec |-> [profile |-> profile, engine |-> engine, resolver |-> resolver, config |-> config,
                                    retry |-> IF profile # None THEN profile ELSE own.retry]]
       ELSE [ok |-> FALSE, spec |-> NoCapture]

\* The chain as the rungs to store and the captures to run. A strict walk
\* refuses at the first rung that cannot be built or cannot advance; the
\* other drops such rungs.
Unwalked(own) == [keys |-> {CaptureKey(own)}, rungs |-> <<>>, captures |-> <<>>, refused |-> FALSE]
Walked(walk, rung, own, rows, strict) ==
    LET built == SpecFor(own, rung, rows)
        key == CaptureKey(built.spec)
    IN IF walk.refused THEN walk
       ELSE IF ~RungNames(rung) \/ ~built.ok \/ key \in walk.keys
       THEN IF strict THEN [walk EXCEPT !.refused = TRUE] ELSE walk
       ELSE [walk EXCEPT !.keys = @ \cup {key}, !.rungs = Append(@, rung), !.captures = Append(@, built.spec)]
Resolve(rungs, own, rows, strict) ==
    LET walk[n \in 0 .. Len(rungs)] ==
            IF n = 0 THEN Unwalked(own) ELSE Walked(walk[n - 1], rungs[n], own, rows, strict)
    IN walk[Len(rungs)]

\* One capture of a plan as the rung that would rebuild it: what differs
\* from its profile's row, or from the run's own capture.
Reduced(spec, own, rows) ==
    LET reference == IF spec.profile = None THEN own ELSE rows.profiles[spec.profile]
        moved == spec.resolver # reference.resolver
    IN [profile |-> spec.profile,
        engine |-> IF spec.engine # reference.engine THEN spec.engine ELSE None,
        resolver |-> IF moved THEN spec.resolver ELSE None,
        config |-> IF moved \/ spec.config # reference.config THEN spec.config ELSE None]

\* The rungs of a plan (without its first entry, the run's own capture).
RungsFromPlan(own, captures, rows) ==
    LET reduced == [i \in DOMAIN captures |-> Reduced(captures[i], own, rows)]
    IN At(reduced, {i \in DOMAIN reduced : RungNames(reduced[i])})
==============================================================================
